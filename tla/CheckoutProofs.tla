--------------------------- MODULE CheckoutProofs ---------------------------
(* What a checkout leaves behind, for any calls, positions, items and stock. *)
EXTENDS Checkout, DataInduction

TypeInv ==
  /\ cart \in SUBSET Item
  /\ cached \in SUBSET Item
  /\ adding \in [Item -> {"idle", "query", "fill", "check", "added", "refused"}]
  /\ call \in [Call -> {"idle", "running", "commit", "done", "failed"}]
  /\ payload \in [Call -> [Slot -> Item \cup {None}]]
  /\ task \in [Task -> {"none", "made", "failed"} \cup Running]
  /\ txn \in [Call -> {"new", "open", "committed", "aborted"}]
  /\ taken \in SUBSET Task
  /\ made \in SUBSET Task
  /\ placed \in SUBSET Call

\* A position without an item has no task; a call that has not begun has no
\* items, and one that is past Promise.all has made them all.
ProgressInv ==
  \A t \in Task :
    /\ ItemAt(t) = None => task[t] = "none"
    /\ call[t[1]] = "idle" => ItemAt(t) = None
    /\ call[t[1]] \in {"commit", "done"} => ItemAt(t) = None \/ task[t] = "made"

\* While the transaction lives it holds what the tasks have written; afterwards
\* there is nothing.
WriteInv ==
  \A t \in Task :
    /\ txn[t[1]] # "aborted" /\ task[t] \in {"delete", "item", "made"} => t \in taken
    /\ txn[t[1]] # "aborted" /\ task[t] = "made" => t \in made
    /\ t \in taken \cup made => txn[t[1]] \in {"open", "committed"}

\* How the call and its transaction go together.
CallInv ==
  \A c \in Call :
    /\ call[c] = "idle" => txn[c] = "new"
    /\ txn[c] = "aborted" /\ call[c] = "running" => \E t \in Task : t[1] = c /\ task[t] = "failed"
    /\ txn[c] = "committed" =>
         /\ call[c] \in {"done", "failed"} /\ c \in placed
         /\ \A t \in Task : t[1] = c => ItemAt(t) = None \/ task[t] = "made"
    /\ call[c] = "commit" => c \in placed /\ txn[c] \in {"new", "open"}
    /\ call[c] = "done" => txn[c] = "committed"
    /\ call[c] = "failed" => txn[c] \in {"aborted", "committed"}

\* An item that a task has found was created, which happens once.
CartInv ==
  /\ \A i \in cart \cup cached : adding[i] = "added"
  /\ \A t \in Task :
       /\ task[t] \in {"fill", "take", "delete", "item", "made"} => adding[ItemAt(t)] = "added"
       /\ task[t] \in {"item", "made"} => ItemAt(t) \notin cart

IInv == TypeInv /\ ProgressInv /\ WriteInv /\ CallInv /\ CartInv

\* A task is that of a call and a position.
LEMMA TaskParts == ASSUME NEW t \in Task PROVE t[1] \in Call /\ t[2] \in Slot
  BY DEF Task

\* The invariant holds at the start.
LEMMA InvInit == Init => IInv
<1> SUFFICES ASSUME Init PROVE IInv
  OBVIOUS
<1>1. TypeInv
  BY CheckoutAssumption DEF Init, TypeInv, Running
<1>2. \A t \in Task : ItemAt(t) = None
  BY TaskParts DEF Init, ItemAt
<1>3. ProgressInv /\ WriteInv /\ CallInv
  BY <1>2, TaskParts DEF Init, ProgressInv, WriteInv, CallInv
<1>4. CartInv
  BY CheckoutAssumption DEF Init, CartInv
<1>. QED
  BY <1>1, <1>3, <1>4 DEF IInv

-----------------------------------------------------------------------------
(* Steps of the shop and of the cache: nothing that a checkout has written.  *)

checkouts == <<call, payload, task, txn, taken, made, placed>>

\* A step that leaves the checkouts leaves all but the cart's part.
LEMMA CheckoutsKept ==
  ASSUME IInv, UNCHANGED checkouts,
         cart' \in SUBSET Item, cached' \in SUBSET Item,
         adding' \in [Item -> {"idle", "query", "fill", "check", "added", "refused"}],
         CartInv'
  PROVE  IInv'
<1>1. TypeInv'
  BY DEF IInv, TypeInv, checkouts
<1>2. ProgressInv' /\ WriteInv' /\ CallInv'
  BY DEF IInv, ProgressInv, WriteInv, CallInv, ItemAt, checkouts
<1>. QED
  BY <1>1, <1>2 DEF IInv

\* The shopper's, the shop's and the cache's steps.
LEMMA ShopInv ==
  ASSUME IInv,
         \/ \E i \in Item : AddLookup(i) \/ AddQuery(i) \/ AddFill(i) \/ AddRefused(i) \/ RemoveFromCart(i) \/ Sweep(i)
         \/ \E o \in Option : EditStep(o)
         \/ Expire
  PROVE  IInv'
<1>1. UNCHANGED checkouts /\ cart' \in SUBSET cart /\ cached' \in SUBSET cached
  BY DEF AddLookup, AddQuery, AddFill, AddRefused, RemoveFromCart, Sweep, EditStep, RemoveOption,
         EditOption, EditStock, EditLeavesStock, Expire, checkouts, adders
<1>2. /\ adding' \in [Item -> {"idle", "query", "fill", "check", "added", "refused"}]
      /\ \A i \in Item : adding[i] = "added" => adding'[i] = "added"
  BY DEF IInv, TypeInv, AddLookup, AddQuery, AddFill, AddRefused, RemoveFromCart, Sweep, EditStep,
         RemoveOption, EditOption, EditStock, EditLeavesStock, Expire, adders
<1>3. \A t \in Task : task[t] # "none" => ItemAt(t) \in Item
  BY TaskParts DEF IInv, TypeInv, ProgressInv, ItemAt
<1>4. CartInv'
  BY <1>1, <1>2, <1>3 DEF IInv, TypeInv, CartInv, ItemAt, checkouts
<1>. QED
  BY <1>1, <1>2, <1>4, CheckoutsKept DEF IInv, TypeInv

\* An item is put into the cart.
LEMMA AddCreateInv == ASSUME IInv, NEW i \in Item, AddCreate(i) PROVE IInv'
<1>1. /\ UNCHANGED checkouts /\ UNCHANGED cached
      /\ cart' = cart \cup {i} /\ adding[i] = "check" /\ adding' = [adding EXCEPT ![i] = "added"]
  BY DEF AddCreate, checkouts
<1>2. \A t \in Task : task[t] # "none" => ItemAt(t) \in Item
  BY TaskParts DEF IInv, TypeInv, ProgressInv, ItemAt
<1>3. CartInv'
  BY <1>1, <1>2 DEF IInv, TypeInv, CartInv, ItemAt, checkouts
<1>. QED
  BY <1>1, <1>3, CheckoutsKept DEF IInv, TypeInv

-----------------------------------------------------------------------------
(* Steps of a call.                                                        *)

\* createOrder begins.
LEMMA SubmitInv == ASSUME IInv, NEW c \in Call, Submit(c) PROVE IInv'
<1>1. PICK p \in [Slot -> Item \cup {None}] :
        /\ payload' = [payload EXCEPT ![c] = p]
        /\ task' = [t \in Task |-> IF t[1] = c /\ p[t[2]] # None THEN "lookup" ELSE task[t]]
  BY DEF Submit
<1>2. /\ call[c] = "idle" /\ call' = [call EXCEPT ![c] = "running"]
      /\ UNCHANGED <<cart, cached, adding, txn, taken, made, placed>>
  BY DEF Submit, Answer, adders
<1>3. ASSUME NEW t \in Task, t[1] # c
      PROVE  ItemAt(t)' = ItemAt(t) /\ task'[t] = task[t] /\ call'[t[1]] = call[t[1]]
  BY <1>1, <1>2, <1>3, TaskParts DEF IInv, TypeInv, ItemAt
<1>4. ASSUME NEW t \in Task, t[1] = c
      PROVE  /\ ItemAt(t)' = p[t[2]] /\ task[t] = "none"
             /\ task'[t] = IF p[t[2]] = None THEN "none" ELSE "lookup"
  BY <1>1, <1>2, <1>4, TaskParts DEF IInv, TypeInv, ProgressInv, ItemAt
<1>5. call'[c] = "running" /\ \A d \in Call \ {c} : call'[d] = call[d]
  BY <1>2 DEF IInv, TypeInv
<1>6. TypeInv'
  <2>1. payload' \in [Call -> [Slot -> Item \cup {None}]]
    BY <1>1 DEF IInv, TypeInv
  <2>2. task' \in [Task -> {"none", "made", "failed"} \cup Running]
    BY <1>1 DEF IInv, TypeInv, Running
  <2>3. call' \in [Call -> {"idle", "running", "commit", "done", "failed"}]
    BY <1>2 DEF IInv, TypeInv
  <2>. QED
    BY <1>2, <2>1, <2>2, <2>3 DEF IInv, TypeInv
<1>7. ProgressInv'
  <2>1. ASSUME NEW t \in Task
        PROVE  /\ ItemAt(t)' = None => task'[t] = "none"
               /\ call'[t[1]] = "idle" => ItemAt(t)' = None
               /\ call'[t[1]] \in {"commit", "done"} => ItemAt(t)' = None \/ task'[t] = "made"
    BY <1>3, <1>4, <1>5 DEF IInv, ProgressInv
  <2>. QED
    BY <2>1 DEF ProgressInv
<1>8. WriteInv'
  <2>1. ASSUME NEW t \in Task PROVE task'[t] = task[t] \/ task'[t] = "lookup"
    BY <1>1
  <2>. QED
    BY <1>2, <2>1 DEF IInv, WriteInv
<1>9. CallInv'
  <2>1. txn[c] = "new"
    BY <1>2 DEF IInv, CallInv
  <2>2. ASSUME NEW d \in Call, d # c
        PROVE  /\ call'[d] = "idle" => txn[d] = "new"
               /\ txn[d] = "aborted" /\ call'[d] = "running" => \E t \in Task : t[1] = d /\ task'[t] = "failed"
               /\ txn[d] = "committed" =>
                    /\ call'[d] \in {"done", "failed"} /\ d \in placed
                    /\ \A t \in Task : t[1] = d => ItemAt(t)' = None \/ task'[t] = "made"
               /\ call'[d] = "commit" => d \in placed /\ txn[d] \in {"new", "open"}
               /\ call'[d] = "done" => txn[d] = "committed"
               /\ call'[d] = "failed" => txn[d] \in {"aborted", "committed"}
    BY <1>3, <1>5, <2>2 DEF IInv, CallInv
  <2>. QED
    BY <1>2, <1>5, <2>1, <2>2 DEF CallInv
<1>10. CartInv'
  <2>1. ASSUME NEW t \in Task, task'[t] \in {"fill", "take", "delete", "item", "made"}
        PROVE  ItemAt(t)' = ItemAt(t) /\ task'[t] = task[t]
    BY <1>3, <1>4, <2>1
  <2>. QED
    BY <1>2, <2>1 DEF IInv, CartInv
<1>. QED
  BY <1>6, <1>7, <1>8, <1>9, <1>10 DEF IInv

\* The tasks do not move and the shop stands still.
LEMMA PlaceOrderInv == ASSUME IInv, NEW c \in Call, PlaceOrder(c) PROVE IInv'
<1>1. /\ call[c] = "running" /\ placed' = placed \cup {c} /\ call' = [call EXCEPT ![c] = "commit"]
      /\ UNCHANGED <<cart, cached, adding, payload, task, txn, taken, made>>
  BY DEF PlaceOrder, Answer, adders
<1>2. ASSUME NEW t \in Task, t[1] = c PROVE ItemAt(t) = None \/ task[t] = "made"
  BY <1>2 DEF PlaceOrder, AllMade, TasksOf
<1>3. call'[c] = "commit" /\ \A d \in Call \ {c} : call'[d] = call[d]
  BY <1>1 DEF IInv, TypeInv
<1>4. \A t \in Task : ItemAt(t)' = ItemAt(t)
  BY <1>1 DEF ItemAt
<1>5. txn[c] \in {"new", "open"}
  <2>1. \A t \in Task : t[1] = c => task[t] # "failed"
    BY <1>2 DEF IInv, ProgressInv
  <2>. QED
    BY <1>1, <2>1 DEF IInv, CallInv, TypeInv
<1>6. TypeInv'
  BY <1>1 DEF IInv, TypeInv
<1>7. ProgressInv'
  BY <1>1, <1>2, <1>3, <1>4, TaskParts DEF IInv, ProgressInv
<1>8. WriteInv' /\ CartInv'
  BY <1>1, <1>4 DEF IInv, WriteInv, CartInv
<1>9. CallInv'
  BY <1>1, <1>3, <1>4, <1>5 DEF IInv, CallInv
<1>. QED
  BY <1>6, <1>7, <1>8, <1>9 DEF IInv

\* The call fails with its transaction aborted.
LEMMA AbortKeeps ==
  ASSUME IInv, NEW c \in Call, call[c] \in {"running", "commit"},
         UNCHANGED <<cart, cached, adding, payload, task>>,
         placed' \in {placed, placed \cup {c}},
         txn' = [txn EXCEPT ![c] = "aborted"], call' = [call EXCEPT ![c] = "failed"], DropWrites(c)
  PROVE  IInv'
<1>1. /\ call'[c] = "failed" /\ txn'[c] = "aborted"
      /\ \A d \in Call \ {c} : call'[d] = call[d] /\ txn'[d] = txn[d]
  BY DEF IInv, TypeInv
<1>2. /\ taken' = {t \in taken : t[1] # c} /\ made' = {t \in made : t[1] # c}
  BY DEF DropWrites
<1>3. \A t \in Task : ItemAt(t)' = ItemAt(t)
  BY DEF ItemAt
<1>4. TypeInv'
  BY <1>2 DEF IInv, TypeInv
<1>5. ProgressInv'
  BY <1>1, <1>3, TaskParts DEF IInv, ProgressInv
<1>6. WriteInv'
  BY <1>1, <1>2, TaskParts DEF IInv, WriteInv
<1>7. CartInv'
  BY <1>3 DEF IInv, CartInv
<1>8. CallInv'
  BY <1>1, <1>3 DEF IInv, CallInv
<1>. QED
  BY <1>4, <1>5, <1>6, <1>7, <1>8 DEF IInv

\* The call ends with its transaction committed.
LEMMA CommitKeeps ==
  ASSUME IInv, NEW c \in Call, call[c] = "commit", NEW l \in {"done", "failed"},
         UNCHANGED <<cart, cached, adding, payload, task, taken, made, placed>>,
         txn' = [txn EXCEPT ![c] = "committed"], call' = [call EXCEPT ![c] = l]
  PROVE  IInv'
<1>1. /\ call'[c] = l /\ txn'[c] = "committed"
      /\ \A d \in Call \ {c} : call'[d] = call[d] /\ txn'[d] = txn[d]
  BY DEF IInv, TypeInv
<1>2. \A t \in Task : ItemAt(t)' = ItemAt(t)
  BY DEF ItemAt
<1>3. txn[c] \in {"new", "open"} /\ c \in placed
      /\ \A t \in Task : t[1] = c => ItemAt(t) = None \/ task[t] = "made"
  BY DEF IInv, CallInv, ProgressInv
<1>4. TypeInv'
  BY DEF IInv, TypeInv
<1>5. ProgressInv'
  BY <1>1, <1>2, <1>3, TaskParts DEF IInv, ProgressInv
<1>6. WriteInv'
  BY <1>1, <1>3, TaskParts DEF IInv, WriteInv
<1>7. CartInv'
  BY <1>2 DEF IInv, CartInv
<1>8. CallInv'
  BY <1>1, <1>2, <1>3 DEF IInv, CallInv
<1>. QED
  BY <1>4, <1>5, <1>6, <1>7, <1>8 DEF IInv

\* The transaction of a call ends.
LEMMA EndInv == ASSUME IInv, NEW c \in Call, Abort(c) \/ Commit(c) \/ CommitFails(c) PROVE IInv'
<1>1. CASE Abort(c)
  BY <1>1, AbortKeeps DEF Abort, Answer, adders
<1>2. CASE Commit(c)
  BY <1>2, CommitKeeps DEF Commit, CommitWrites, Answer, adders
<1>3. CASE CommitFails(c)
  BY <1>3, AbortKeeps, CommitKeeps DEF CommitFails, CommitWrites, Answer, adders
<1>. QED
  BY <1>1, <1>2, <1>3

-----------------------------------------------------------------------------
(* Steps of a task.                                                        *)

\* A task moves, between labels from which nothing follows that did not before.
LEMMA TaskMoves ==
  ASSUME IInv, NEW t \in Task, NEW l \in {"query", "fill", "take", "failed"}, Goto(t, l),
         task[t] \in {"lookup", "query", "fill", "take", "item"},
         UNCHANGED <<cart, adding, call, payload, txn, taken, made, placed>>, cached' \in SUBSET Item,
         \A i \in cached' : adding[i] = "added",
         l \in {"fill", "take"} => adding[ItemAt(t)] = "added"
  PROVE  IInv'
<1>1. /\ task' \in [Task -> {"none", "made", "failed"} \cup Running] /\ task'[t] = l
      /\ \A u \in Task \ {t} : task'[u] = task[u]
  BY DEF Goto, IInv, TypeInv, Running
<1>2. \A u \in Task : ItemAt(u)' = ItemAt(u)
  BY DEF ItemAt
<1>3. TypeInv'
  BY <1>1 DEF IInv, TypeInv
<1>4. ProgressInv'
  BY <1>1, <1>2 DEF IInv, ProgressInv
<1>5. WriteInv'
  BY <1>1 DEF IInv, WriteInv
<1>6. CartInv'
  BY <1>1, <1>2 DEF IInv, CartInv
<1>7. CallInv'
  <2>1. ASSUME NEW u \in Task, task[u] = "failed" PROVE task'[u] = "failed"
    BY <1>1, <2>1
  <2>2. ASSUME NEW u \in Task, ItemAt(u) = None \/ task[u] = "made"
        PROVE  ItemAt(u)' = None \/ task'[u] = "made"
    BY <1>1, <1>2, <2>2 DEF IInv, ProgressInv
  <2>. QED
    BY <2>1, <2>2 DEF IInv, CallInv
<1>. QED
  BY <1>3, <1>4, <1>5, <1>6, <1>7 DEF IInv

\* A task that has begun is about an item.
LEMMA TaskItem == ASSUME IInv, NEW t \in Task, task[t] # "none" PROVE ItemAt(t) \in Item
  BY TaskParts DEF IInv, TypeInv, ProgressInv, ItemAt

\* A task reads its cart item, or finds the session ended.
LEMMA FindInv == ASSUME IInv, NEW t \in Task, Lookup(t) \/ Query(t) \/ Fill(t) \/ SessionFails(t) PROVE IInv'
<1>1. \A i \in cart \cup cached : adding[i] = "added"
  BY DEF IInv, CartInv
<1>2. cart \in SUBSET Item /\ cached \in SUBSET Item
  BY DEF IInv, TypeInv
<1>3. CASE Lookup(t)
  <2>1. task[t] = "lookup" /\ UNCHANGED <<cart, cached, adding, call, payload, txn, taken, made, placed>>
    BY <1>3 DEF Lookup, adders
  <2>2. CASE ItemAt(t) \in cached /\ Goto(t, "take")
    BY <1>1, <1>2, <2>1, <2>2, TaskMoves
  <2>3. CASE Goto(t, "query")
    BY <1>1, <1>2, <2>1, <2>3, TaskMoves
  <2>. QED
    BY <1>3, <2>2, <2>3 DEF Lookup
<1>4. CASE Query(t)
  <2>1. task[t] = "query" /\ UNCHANGED <<cart, cached, adding, call, payload, txn, taken, made, placed>>
    BY <1>4 DEF Query, adders
  <2>2. CASE ItemAt(t) \in cart /\ Goto(t, "fill")
    BY <1>1, <1>2, <2>1, <2>2, TaskMoves
  <2>3. CASE Goto(t, "failed")
    BY <1>1, <1>2, <2>1, <2>3, TaskMoves
  <2>. QED
    BY <1>4, <2>2, <2>3 DEF Query
<1>5. CASE Fill(t)
  <2>1. /\ task[t] = "fill" /\ Goto(t, "take") /\ cached' = cached \cup {ItemAt(t)}
        /\ UNCHANGED <<cart, adding, call, payload, txn, taken, made, placed>>
    BY <1>5 DEF Fill, adders
  <2>2. ItemAt(t) \in Item /\ adding[ItemAt(t)] = "added"
    BY <2>1, TaskItem DEF IInv, CartInv
  <2>. QED
    BY <1>1, <1>2, <2>1, <2>2, TaskMoves
<1>6. CASE SessionFails(t)
  <2>1. /\ task[t] \in {"take", "item"} /\ Goto(t, "failed")
        /\ UNCHANGED <<cart, cached, adding, call, payload, txn, taken, made, placed>>
    BY <1>6 DEF SessionFails, adders
  <2>. QED
    BY <1>1, <1>2, <2>1, TaskMoves
<1>. QED
  BY <1>3, <1>4, <1>5, <1>6

\* A task takes its quantity from the stock,
LEMMA TakeInv == ASSUME IInv, NEW t \in Task, Take(t) PROVE IInv'
<1>1. /\ task[t] = "take" /\ Goto(t, "delete") /\ call[t[1]] = "running" /\ txn[t[1]] \in {"new", "open"}
      /\ taken' = taken \cup {t} /\ txn' = [txn EXCEPT ![t[1]] = "open"]
      /\ UNCHANGED <<cart, cached, adding, call, payload, made, placed>>
  BY DEF Take, SessionUsable, TakeInSession, adders
<1>2. /\ task' \in [Task -> {"none", "made", "failed"} \cup Running] /\ task'[t] = "delete"
      /\ \A u \in Task \ {t} : task'[u] = task[u]
  BY <1>1 DEF Goto, IInv, TypeInv, Running
<1>3. /\ txn' \in [Call -> {"new", "open", "committed", "aborted"}] /\ txn'[t[1]] = "open"
      /\ \A c \in Call \ {t[1]} : txn'[c] = txn[c]
  BY <1>1, TaskParts DEF IInv, TypeInv
<1>4. \A u \in Task : ItemAt(u)' = ItemAt(u)
  BY <1>1 DEF ItemAt
<1>5. TypeInv'
  BY <1>1, <1>2, <1>3 DEF IInv, TypeInv
<1>6. ProgressInv'
  BY <1>1, <1>2, <1>4 DEF IInv, ProgressInv
<1>7. WriteInv'
  <2>1. ASSUME NEW u \in Task, u[1] # t[1]
        PROVE  txn'[u[1]] = txn[u[1]] /\ task'[u] = task[u] /\ (u \in taken' <=> u \in taken)
    BY <1>1, <1>2, <1>3, <2>1, TaskParts
  <2>2. ASSUME NEW u \in Task, u[1] = t[1]
        PROVE  /\ txn'[u[1]] = "open" /\ txn[u[1]] # "aborted"
               /\ u # t => task'[u] = task[u]
               /\ taken' = taken \cup {t}
    BY <1>1, <1>2, <1>3, <2>2
  <2>. QED
    BY <1>1, <1>2, <2>1, <2>2 DEF IInv, WriteInv
<1>8. CartInv'
  BY <1>1, <1>2, <1>4 DEF IInv, CartInv
<1>9. CallInv'
  <2>1. ASSUME NEW u \in Task, task[u] = "failed" PROVE task'[u] = "failed"
    BY <1>1, <1>2, <2>1
  <2>2. ASSUME NEW u \in Task, ItemAt(u) = None \/ task[u] = "made"
        PROVE  ItemAt(u)' = None \/ task'[u] = "made"
    BY <1>1, <1>2, <1>4, <2>2
  <2>. QED
    BY <1>1, <1>3, <2>1, <2>2, TaskParts DEF IInv, CallInv
<1>. QED
  BY <1>5, <1>6, <1>7, <1>8, <1>9 DEF IInv

\* or meets a write conflict.
LEMMA TakeConflictInv == ASSUME IInv, NEW t \in Task, TakeConflict(t) PROVE IInv'
<1>1. /\ task[t] = "take" /\ Goto(t, "failed") /\ call[t[1]] = "running" /\ txn[t[1]] \in {"new", "open"}
      /\ txn' = [txn EXCEPT ![t[1]] = "aborted"]
      /\ taken' = {u \in taken : u[1] # t[1]} /\ made' = {u \in made : u[1] # t[1]}
      /\ UNCHANGED <<cart, cached, adding, call, payload, placed>>
  BY DEF TakeConflict, SessionUsable, adders
<1>2. /\ task' \in [Task -> {"none", "made", "failed"} \cup Running] /\ task'[t] = "failed"
      /\ \A u \in Task \ {t} : task'[u] = task[u]
  BY <1>1 DEF Goto, IInv, TypeInv
<1>3. /\ txn' \in [Call -> {"new", "open", "committed", "aborted"}] /\ txn'[t[1]] = "aborted"
      /\ \A c \in Call \ {t[1]} : txn'[c] = txn[c]
  BY <1>1, TaskParts DEF IInv, TypeInv
<1>4. \A u \in Task : ItemAt(u)' = ItemAt(u)
  BY <1>1 DEF ItemAt
<1>5. TypeInv'
  BY <1>1, <1>2, <1>3 DEF IInv, TypeInv
<1>6. ProgressInv'
  BY <1>1, <1>2, <1>4 DEF IInv, ProgressInv
<1>7. WriteInv'
  <2>1. ASSUME NEW u \in Task, u[1] # t[1]
        PROVE  /\ txn'[u[1]] = txn[u[1]] /\ task'[u] = task[u]
               /\ (u \in taken' <=> u \in taken) /\ (u \in made' <=> u \in made)
    BY <1>1, <1>2, <1>3, <2>1, TaskParts
  <2>2. ASSUME NEW u \in Task, u[1] = t[1]
        PROVE  txn'[u[1]] = "aborted" /\ u \notin taken' /\ u \notin made'
    BY <1>1, <1>3, <2>2
  <2>. QED
    BY <2>1, <2>2 DEF IInv, WriteInv
<1>8. CartInv'
  BY <1>1, <1>2, <1>4 DEF IInv, CartInv
<1>9. CallInv'
  <2>1. ASSUME NEW u \in Task, task[u] = "failed" PROVE task'[u] = "failed"
    BY <1>1, <1>2, <2>1
  <2>2. ASSUME NEW u \in Task, ItemAt(u) = None \/ task[u] = "made"
        PROVE  ItemAt(u)' = None \/ task'[u] = "made"
    BY <1>1, <1>2, <1>4, <2>2
  <2>. QED
    BY <1>1, <1>2, <1>3, <2>1, <2>2, TaskParts DEF IInv, CallInv
<1>. QED
  BY <1>5, <1>6, <1>7, <1>8, <1>9 DEF IInv

\* Deleting the cart item and creating the order item.
LEMMA DeleteCartItemInv == ASSUME IInv, NEW t \in Task, DeleteCartItem(t) PROVE IInv'
<1>1. /\ task[t] = "delete" /\ Goto(t, "item") /\ cart' = cart \ {ItemAt(t)}
      /\ UNCHANGED <<cached, adding, call, payload, txn, taken, made, placed>>
  BY DEF DeleteCartItem, Leaving, adders
<1>2. /\ task' \in [Task -> {"none", "made", "failed"} \cup Running] /\ task'[t] = "item"
      /\ \A u \in Task \ {t} : task'[u] = task[u]
  BY <1>1 DEF Goto, IInv, TypeInv, Running
<1>3. \A u \in Task : ItemAt(u)' = ItemAt(u)
  BY <1>1 DEF ItemAt
<1>4. TypeInv'
  BY <1>1, <1>2 DEF IInv, TypeInv
<1>5. ProgressInv'
  BY <1>1, <1>2, <1>3 DEF IInv, ProgressInv
<1>6. WriteInv'
  BY <1>1, <1>2 DEF IInv, WriteInv
<1>7. CartInv'
  BY <1>1, <1>2, <1>3 DEF IInv, CartInv
<1>8. CallInv'
  <2>1. ASSUME NEW u \in Task, task[u] = "failed" PROVE task'[u] = "failed"
    BY <1>1, <1>2, <2>1
  <2>2. ASSUME NEW u \in Task, ItemAt(u) = None \/ task[u] = "made"
        PROVE  ItemAt(u)' = None \/ task'[u] = "made"
    BY <1>1, <1>2, <1>3, <2>2
  <2>. QED
    BY <1>1, <2>1, <2>2 DEF IInv, CallInv
<1>. QED
  BY <1>4, <1>5, <1>6, <1>7, <1>8 DEF IInv

\* A task makes its order item.
LEMMA MakeItemInv == ASSUME IInv, NEW t \in Task, MakeItem(t) PROVE IInv'
<1>1. /\ task[t] = "item" /\ Goto(t, "made") /\ call[t[1]] = "running" /\ txn[t[1]] \in {"new", "open"}
      /\ made' = made \cup {t}
      /\ UNCHANGED <<cart, cached, adding, call, payload, txn, taken, placed>>
  BY DEF MakeItem, SessionUsable, adders
<1>2. /\ task' \in [Task -> {"none", "made", "failed"} \cup Running] /\ task'[t] = "made"
      /\ \A u \in Task \ {t} : task'[u] = task[u]
  BY <1>1 DEF Goto, IInv, TypeInv
<1>3. \A u \in Task : ItemAt(u)' = ItemAt(u)
  BY <1>1 DEF ItemAt
<1>4. TypeInv'
  BY <1>1, <1>2 DEF IInv, TypeInv
<1>5. ProgressInv'
  BY <1>1, <1>2, <1>3 DEF IInv, ProgressInv
<1>6. WriteInv'
  <2>1. t \in taken /\ txn[t[1]] = "open"
    BY <1>1 DEF IInv, WriteInv
  <2>. QED
    BY <1>1, <1>2, <2>1 DEF IInv, WriteInv
<1>7. CartInv'
  BY <1>1, <1>2, <1>3 DEF IInv, CartInv
<1>8. CallInv'
  <2>1. ASSUME NEW u \in Task, task[u] = "failed" PROVE task'[u] = "failed"
    BY <1>1, <1>2, <2>1
  <2>2. ASSUME NEW u \in Task, ItemAt(u) = None \/ task[u] = "made"
        PROVE  ItemAt(u)' = None \/ task'[u] = "made"
    BY <1>1, <1>2, <1>3, <2>2
  <2>. QED
    BY <1>1, <2>1, <2>2 DEF IInv, CallInv
<1>. QED
  BY <1>4, <1>5, <1>6, <1>7, <1>8 DEF IInv

-----------------------------------------------------------------------------
(* The properties the runs check, for any calls, positions, items and stock. *)

\* Every step keeps the invariant.
LEMMA InvNext == IInv /\ [Next]_vars => IInv'
<1> SUFFICES ASSUME IInv, [Next]_vars PROVE IInv'
  OBVIOUS
<1>1. ASSUME NEW i \in Item, AddStep(i) \/ RemoveFromCart(i) \/ Sweep(i) PROVE IInv'
  BY <1>1, ShopInv, AddCreateInv DEF AddStep
<1>2. ASSUME NEW c \in Call, Submit(c) \/ CallStep(c) PROVE IInv'
  BY <1>2, SubmitInv, PlaceOrderInv, EndInv DEF CallStep
<1>3. ASSUME NEW t \in Task, TaskStep(t) PROVE IInv'
  BY <1>3, FindInv, TakeInv, TakeConflictInv, DeleteCartItemInv, MakeItemInv DEF TaskStep
<1>4. ASSUME NEW o \in Option, EditStep(o) PROVE IInv'
  BY <1>4, ShopInv
<1>5. CASE Expire
  BY <1>5, ShopInv
<1>6. CASE UNCHANGED vars
  <2>1. UNCHANGED checkouts /\ UNCHANGED <<cart, cached, adding>>
    BY <1>6 DEF vars, checkouts
  <2>2. CartInv'
    BY <2>1 DEF checkouts, IInv, CartInv, ItemAt
  <2>. QED
    BY <2>1, <2>2, CheckoutsKept DEF IInv, TypeInv
<1>. QED
  BY <1>1, <1>2, <1>3, <1>4, <1>5, <1>6 DEF Next

\* The invariant holds in every state (createOrder and createOrderItem).
THEOREM Inductive == Spec => []IInv
  BY InvInit, InvNext, PTL DEF Spec

\* A committed checkout has all its decrements, all its order items and its
\* order document (createOrder, withMutateTransaction).
THEOREM CommittedAlwaysComplete == Spec => []CommittedIsComplete
<1>1. IInv => CommittedIsComplete
  <2> SUFFICES ASSUME IInv, NEW c \in Call
               PROVE  /\ txn[c] = "committed" => TasksOf(c) \subseteq taken \cap made /\ c \in placed
                      /\ call[c] = "done" => txn[c] = "committed"
    BY DEF CommittedIsComplete
  <2>1. ASSUME txn[c] = "committed", NEW t \in TasksOf(c) PROVE t \in taken /\ t \in made
    <3>1. t \in Task /\ t[1] = c /\ ItemAt(t) # None
      BY DEF TasksOf
    <3>2. task[t] = "made"
      BY <2>1, <3>1 DEF IInv, CallInv
    <3>. QED
      BY <2>1, <3>1, <3>2 DEF IInv, WriteInv
  <2>. QED
    BY <2>1 DEF IInv, CallInv
<1>. QED
  BY <1>1, Inductive, PTL

\* A failed checkout leaves no decrement and no order item, also when its other
\* tasks went on after the failure (Promise.all, withMutateTransaction).
THEOREM FailedAlwaysLeavesNothing == Spec => []FailedLeavesNothing
<1>1. IInv => FailedLeavesNothing
  <2> SUFFICES ASSUME IInv, NEW t \in taken \cup made, call[t[1]] = "failed" PROVE txn[t[1]] = "committed"
    BY DEF FailedLeavesNothing
  <2>1. t \in Task
    BY DEF IInv, TypeInv
  <2>2. t[1] \in Call
    BY <2>1, TaskParts
  <2>. QED
    BY <2>1, <2>2 DEF IInv, WriteInv, CallInv
<1>. QED
  BY <1>1, Inductive, PTL

\* What a committed order consists of has left the cart, although it is deleted
\* outside the transaction (createOrderItem, cartService.delete).
THEOREM OrderedItemsAlwaysLeaveCart == Spec => []OrderedItemsLeaveCart
<1>1. IInv => OrderedItemsLeaveCart
  BY TaskParts DEF IInv, CallInv, CartInv, OrderedItemsLeaveCart
<1>. QED
  BY <1>1, Inductive, PTL

-----------------------------------------------------------------------------
(* The stock.                                                              *)

\* The positions of the orders committed since the stock of the option was entered.
Sold(o) == {t \in Task : t[1] \in Committed \ before[o] /\ ItemAt(t) # None}

\* The shop's part of the state; what a transaction writes is about an item.
ShopTypeInv ==
  /\ stock \in [Option -> Int]
  /\ removed \in SUBSET Option /\ editing \in SUBSET Option
  /\ entered \in [Option -> Int]
  /\ before \in [Option -> SUBSET Call]
  /\ shown \in [Option -> Int \cup {None}]
  /\ sweep \in SUBSET Item
  /\ seen \in [Item -> Int]
  /\ outdated \in SUBSET (Call \X Option)
  /\ \A t \in taken \cup made : ItemAt(t) # None

\* The calls that have committed so far are finitely many, so that their items
\* can be counted.
StockInv ==
  /\ IsFiniteSet(Committed)
  /\ \A o \in Option : before[o] \subseteq Committed
  /\ \A o \in Option : stock[o] + TotalOf(Sold(o), o) = entered[o]

SInv == ShopTypeInv /\ StockInv

\* The option and the quantity of a position that has an item.
LEMMA ItemParts ==
  ASSUME IInv, NEW t \in Task, ItemAt(t) # None
  PROVE  ItemAt(t) \in Item /\ OptionAt(t) \in Option /\ Quantity[ItemAt(t)] \in Int
<1>1. ItemAt(t) \in Item
  BY TaskParts DEF IInv, TypeInv, ItemAt
<1>. QED
  BY <1>1, CheckoutAssumption DEF OptionAt

\* The positions of finitely many calls are finitely many.
LEMMA FiniteTasks ==
  ASSUME NEW C, IsFiniteSet(C), NEW T, \A t \in T : t \in Task /\ t[1] \in C
  PROVE  IsFiniteSet(T)
<1>1. IsFiniteSet(C \X Slot)
  BY CheckoutAssumption, FS_Product
<1>2. T \in SUBSET (C \X Slot)
  BY DEF Task
<1>. QED
  BY <1>1, <1>2, FS_Subset

\* A total is an integer, and that of two disjoint sets of positions is the sum
\* of theirs.
LEMMA TotalUnion ==
  ASSUME IInv, NEW o \in Option, NEW T, IsFiniteSet(T), NEW U, IsFiniteSet(U), T \cap U = {},
         \A t \in T \cup U : t \in Task /\ ItemAt(t) # None
  PROVE  /\ TotalOf(T, o) \in Int
         /\ TotalOf(U, o) \in Int
         /\ TotalOf(T \cup U, o) = TotalOf(T, o) + TotalOf(U, o)
<1> DEFINE Of(W) == {t \in W : OptionAt(t) = o}
           Q(W) == [t \in Of(W) |-> Quantity[ItemAt(t)]]
<1>1. /\ IsFiniteSet(Of(T)) /\ IsFiniteSet(Of(U)) /\ Of(T) \cap Of(U) = {}
      /\ Of(T \cup U) = Of(T) \cup Of(U)
  BY FS_Subset
<1>2. \A t \in T \cup U : Quantity[ItemAt(t)] \in Int
  BY ItemParts
<1>3. \A W : TotalOf(W, o) = SumFunctionOnSet(Q(W), Of(W))
  BY DEF TotalOf, SumFunction
<1>4. \A W \in {T, U, T \cup U} : \A t \in Of(W) : Q(T \cup U)[t] = Q(W)[t] /\ Q(W)[t] \in Int
  BY <1>2
<1> HIDE DEF Of, Q
<1>5. SumFunctionOnSet(Q(T), Of(T)) = SumFunctionOnSet(Q(T \cup U), Of(T))
  BY <1>1, <1>4, SumSame
<1>6. SumFunctionOnSet(Q(U), Of(U)) = SumFunctionOnSet(Q(T \cup U), Of(U))
  BY <1>1, <1>4, SumSame
<1>7. SumFunctionOnSet(Q(T \cup U), Of(T) \cup Of(U)) =
        SumFunctionOnSet(Q(T \cup U), Of(T)) + SumFunctionOnSet(Q(T \cup U), Of(U))
  BY <1>1, <1>4, SumUnion
<1>8. SumFunctionOnSet(Q(T), Of(T)) \in Int /\ SumFunctionOnSet(Q(U), Of(U)) \in Int
  BY <1>1, <1>4, SumTaken
<1>. QED
  BY <1>1, <1>3, <1>5, <1>6, <1>7, <1>8

\* Nothing adds up to nothing.
LEMMA TotalOfNone == ASSUME NEW o PROVE TotalOf({}, o) = 0
<1> DEFINE Q == [t \in {u \in {} : OptionAt(u) = o} |-> Quantity[ItemAt(t)]]
<1>1. DOMAIN Q = {} /\ TotalOf({}, o) = SumFunctionOnSet(Q, DOMAIN Q)
  BY DEF TotalOf, SumFunction
<1> HIDE DEF Q
<1>. QED
  BY <1>1, FS_EmptySet, SumTaken

\* What was sold, counted after a step.
LEMMA SoldAfter ==
  ASSUME NEW U, NEW o, Sold(o)' = U, \A t \in U : ItemAt(t)' = ItemAt(t)
  PROVE  TotalOf(Sold(o), o)' = TotalOf(U, o)
<1>1. {t \in U : OptionAt(t)' = o} = {t \in U : OptionAt(t) = o}
  BY DEF OptionAt
<1>2. [t \in {u \in U : OptionAt(u)' = o} |-> Quantity[ItemAt(t)']] =
        [t \in {u \in U : OptionAt(u) = o} |-> Quantity[ItemAt(t)]]
  BY <1>1
<1>. QED
  BY <1>2 DEF TotalOf

\* The invariant holds at the start.
LEMMA StockInit == Init => SInv
<1> SUFFICES ASSUME Init PROVE SInv
  OBVIOUS
<1>1. ShopTypeInv
  BY CheckoutAssumption DEF Init, ShopTypeInv
<1>2. Committed = {} /\ \A o \in Option : Sold(o) = {} /\ before[o] = {}
  BY TaskParts DEF Init, Committed, Sold
<1>3. ASSUME NEW o \in Option PROVE stock[o] + TotalOf(Sold(o), o) = entered[o]
  <2>1. TotalOf(Sold(o), o) = 0
    BY <1>2, TotalOfNone
  <2>. QED
    BY <2>1, CheckoutAssumption DEF Init
<1>. QED
  BY <1>1, <1>2, <1>3, FS_EmptySet DEF SInv, StockInv

\* A step that commits nothing and leaves the stock leaves the count.
LEMMA StockKept ==
  ASSUME IInv, SInv, UNCHANGED <<stock, entered, before>>, Committed' = Committed,
         \A t \in Task : txn[t[1]] = "committed" => ItemAt(t)' = ItemAt(t)
  PROVE  StockInv'
<1>1. \A t \in Task : t[1] \in Committed <=> txn[t[1]] = "committed"
  BY TaskParts DEF Committed
<1>2. \A o \in Option : Sold(o)' = Sold(o)
  BY <1>1 DEF Sold
<1>3. \A o \in Option : TotalOf(Sold(o), o)' = TotalOf(Sold(o), o)
  BY <1>1, <1>2, SoldAfter DEF Sold
<1>. QED
  BY <1>3 DEF SInv, StockInv

\* The stock of one option is entered anew: nothing has been sold since.
LEMMA EditCounts ==
  ASSUME IInv, SInv, NEW o \in Option, NEW n \in NewStock, EditStock(o, n)
  PROVE  SInv'
<1>1. /\ stock' = [stock EXCEPT ![o] = n] /\ entered' = [entered EXCEPT ![o] = n]
      /\ before' = [before EXCEPT ![o] = Committed] /\ editing' = editing \ {o}
      /\ outdated' = outdated \cup {x \in Call \X {o} : txn[x[1]] = "open"}
      /\ UNCHANGED <<removed, shown, sweep, seen, payload, txn, taken, made>>
  BY DEF EditStock, adders
<1>2. n \in Int /\ Committed' = Committed /\ Committed \in SUBSET Call
  BY <1>1, CheckoutAssumption DEF Committed
<1>3. \A t \in Task : ItemAt(t)' = ItemAt(t)
  BY <1>1 DEF ItemAt
<1>4. ShopTypeInv'
  <2>1. \A t \in taken' \cup made' : ItemAt(t)' # None
    BY <1>1, <1>3 DEF IInv, TypeInv, SInv, ShopTypeInv
  <2>2. outdated' \in SUBSET (Call \X Option)
    BY <1>1 DEF SInv, ShopTypeInv
  <2>. QED
    BY <1>1, <1>2, <2>1, <2>2 DEF SInv, ShopTypeInv
<1>5. ASSUME NEW r \in Option PROVE stock'[r] + TotalOf(Sold(r), r)' = entered'[r] /\ before'[r] \subseteq Committed
  <2>1. CASE r = o
    <3>1. stock'[r] = n /\ entered'[r] = n /\ before'[r] = Committed
      BY <1>1, <2>1 DEF SInv, ShopTypeInv
    <3>2. Sold(r)' = {}
      BY <1>2, <3>1 DEF Sold
    <3>3. TotalOf(Sold(r), r)' = 0
      BY <3>2, SoldAfter, TotalOfNone
    <3>. QED
      BY <1>2, <3>1, <3>3
  <2>2. CASE r # o
    <3>1. stock'[r] = stock[r] /\ entered'[r] = entered[r] /\ before'[r] = before[r]
      BY <1>1, <2>2 DEF SInv, ShopTypeInv
    <3>2. Sold(r)' = Sold(r)
      BY <1>2, <1>3, <3>1 DEF Sold
    <3>3. TotalOf(Sold(r), r)' = TotalOf(Sold(r), r)
      BY <1>3, <3>2, SoldAfter DEF Sold
    <3>. QED
      BY <3>1, <3>3 DEF SInv, StockInv
  <2>. QED
    BY <2>1, <2>2
<1>. QED
  BY <1>2, <1>4, <1>5 DEF SInv, StockInv

\* What a transaction is about to commit: a position for every item of the
\* payload, decremented once.
LEMMA CommitTakes ==
  ASSUME IInv, SInv, NEW c \in Call, call[c] = "commit"
  PROVE  {t \in taken : t[1] = c} = {t \in Task : t[1] = c /\ ItemAt(t) # None}
<1>1. ASSUME NEW t \in Task, t[1] = c, ItemAt(t) # None PROVE t \in taken
  BY <1>1 DEF IInv, ProgressInv, WriteInv, CallInv
<1>2. ASSUME NEW t \in taken, t[1] = c PROVE t \in Task /\ ItemAt(t) # None
  BY DEF IInv, TypeInv, SInv, ShopTypeInv
<1>. QED
  BY <1>1, <1>2

\* A commit counts what it takes.
LEMMA CommitStock ==
  ASSUME IInv, SInv, NEW c \in Call, call[c] = "commit", CommitWrites(c),
         UNCHANGED <<payload, taken, entered, before>>
  PROVE  stock' \in [Option -> Int] /\ StockInv'
<1> DEFINE T == {t \in Task : t[1] = c /\ ItemAt(t) # None}
<1>1. /\ txn' = [txn EXCEPT ![c] = "committed"] /\ txn[c] # "committed"
      /\ stock' = [o \in Option |-> stock[o] - TotalOf(T, o)]
  BY CommitTakes DEF CommitWrites, IInv, CallInv
<1>2. /\ Committed' = Committed \cup {c} /\ IsFiniteSet(Committed) /\ IsFiniteSet(Committed')
      /\ c \notin Committed
  <2>1. Committed' = Committed \cup {c} /\ c \notin Committed
    BY <1>1 DEF Committed, IInv, TypeInv
  <2>2. IsFiniteSet(Committed)
    BY DEF SInv, StockInv
  <2>. QED
    BY <2>1, <2>2, FS_AddElement
<1>3. \A t \in Task : ItemAt(t)' = ItemAt(t)
  BY DEF ItemAt
<1>4. ASSUME NEW o \in Option PROVE Sold(o)' = Sold(o) \cup T /\ Sold(o) \cap T = {}
  <2>1. c \notin before[o]
    BY <1>2 DEF SInv, StockInv
  <2>. QED
    BY <1>2, <1>3, <2>1 DEF Sold
<1>5. \A o \in Option : \A t \in Sold(o) \cup T : t \in Task /\ ItemAt(t) # None
  BY DEF Sold
<1>6. IsFiniteSet(T) /\ \A o \in Option : IsFiniteSet(Sold(o))
  <2>1. \A o \in Option : \A t \in Sold(o) : t \in Task /\ t[1] \in Committed
    BY DEF Sold
  <2>2. IsFiniteSet({c}) /\ \A t \in T : t \in Task /\ t[1] \in {c}
    BY FS_Singleton
  <2> HIDE DEF T
  <2>3. IsFiniteSet(T)
    BY <2>2, FiniteTasks
  <2>4. \A o \in Option : IsFiniteSet(Sold(o))
    BY <1>2, <2>1, FiniteTasks
  <2>. QED
    BY <2>3, <2>4
<1> HIDE DEF T
<1>7. ASSUME NEW o \in Option
      PROVE  /\ TotalOf(Sold(o), o) \in Int /\ TotalOf(T, o) \in Int
             /\ TotalOf(Sold(o), o)' = TotalOf(Sold(o), o) + TotalOf(T, o)
  <2>1. TotalOf(Sold(o), o)' = TotalOf(Sold(o) \cup T, o)
    BY <1>3, <1>4, <1>5, SoldAfter
  <2>. QED
    BY <1>4, <1>5, <1>6, <2>1, TotalUnion
<1>8. \A o \in Option : stock[o] \in Int /\ entered[o] \in Int /\ stock[o] + TotalOf(Sold(o), o) = entered[o]
  BY DEF SInv, ShopTypeInv, StockInv
<1>9. stock' \in [Option -> Int]
  BY <1>1, <1>7, <1>8
<1>10. ASSUME NEW o \in Option PROVE stock'[o] + TotalOf(Sold(o), o)' = entered'[o]
  BY <1>1, <1>7, <1>8
<1>11. \A o \in Option : before'[o] \subseteq Committed'
  BY <1>2 DEF SInv, StockInv
<1>. QED
  BY <1>2, <1>9, <1>10, <1>11 DEF StockInv

\* Steps of the shop, of the cache and of a task that does not write: no call,
\* transaction or payload is touched.
LEMMA ShopStock ==
  ASSUME IInv, SInv,
         \/ \E i \in Item : AddStep(i) \/ RemoveFromCart(i) \/ Sweep(i)
         \/ \E o \in Option : RemoveOption(o) \/ EditOption(o) \/ EditLeavesStock(o)
         \/ Expire
         \/ \E t \in Task : Lookup(t) \/ Query(t) \/ Fill(t) \/ SessionFails(t) \/ DeleteCartItem(t)
         \/ UNCHANGED vars
  PROVE  SInv'
<1>1. UNCHANGED <<stock, entered, before, payload, txn, taken, made>>
  BY DEF AddStep, AddLookup, AddQuery, AddFill, AddCreate, AddRefused, RemoveFromCart, Sweep,
         RemoveOption, EditOption, EditLeavesStock, shop, Expire, Lookup, Query, Fill, SessionFails, DeleteCartItem, vars
<1>2. \A t \in Task : ItemAt(t)' = ItemAt(t)
  BY <1>1 DEF ItemAt
<1>3. StockInv'
  BY <1>1, <1>2, StockKept DEF Committed
<1>4. \A t \in taken' \cup made' : ItemAt(t)' # None
  BY <1>1, <1>2 DEF IInv, TypeInv, SInv, ShopTypeInv
<1>5. ASSUME NEW i \in Item, AddStep(i) PROVE ShopTypeInv'
  <2>1. OptionOf[i] \in Option /\ stock[OptionOf[i]] \in Int /\ seen[i] \in Int
        /\ shown[OptionOf[i]] \in Int \cup {None}
    BY CheckoutAssumption DEF SInv, ShopTypeInv
  <2>2. UNCHANGED <<removed, editing, outdated>>
    BY <1>5 DEF shop, AddStep, AddLookup, AddQuery, AddFill, AddCreate, AddRefused
  <2>3. seen' \in [Item -> Int] /\ shown' \in [Option -> Int \cup {None}]
    BY <1>5, <2>1 DEF AddStep, AddLookup, AddQuery, AddFill, AddCreate, AddRefused, SInv, ShopTypeInv
  <2>4. sweep' \in SUBSET Item
    BY <1>5 DEF AddStep, AddLookup, AddQuery, AddFill, AddCreate, AddRefused, IInv, TypeInv, SInv, ShopTypeInv
  <2>. QED
    BY <1>1, <1>4, <2>2, <2>3, <2>4 DEF SInv, ShopTypeInv
<1>6. ASSUME NEW i \in Item, RemoveFromCart(i) \/ Sweep(i) PROVE ShopTypeInv'
  BY <1>1, <1>4, <1>6 DEF RemoveFromCart, Sweep, adders, shop, SInv, ShopTypeInv
<1>7. ASSUME NEW o \in Option, RemoveOption(o) \/ EditOption(o) \/ EditLeavesStock(o) PROVE ShopTypeInv'
  <2>1. /\ removed' \in SUBSET Option /\ editing' \in SUBSET Option /\ outdated' \in SUBSET (Call \X Option)
        /\ UNCHANGED <<shown, sweep, seen>>
    BY <1>7, CheckoutAssumption DEF RemoveOption, EditOption, EditLeavesStock, adders, SInv, ShopTypeInv
  <2>. QED
    BY <1>1, <1>4, <2>1 DEF SInv, ShopTypeInv
<1>8. CASE Expire
  <2>1. UNCHANGED <<removed, editing, sweep, seen, outdated>> /\ shown' \in [Option -> Int \cup {None}]
    BY <1>8 DEF Expire, shop, SInv, ShopTypeInv
  <2>. QED
    BY <1>1, <1>3, <1>4, <2>1 DEF SInv, ShopTypeInv
<1>9. ASSUME NEW t \in Task, Lookup(t) \/ Query(t) \/ Fill(t) \/ SessionFails(t) \/ DeleteCartItem(t)
      PROVE  ShopTypeInv'
  <2>1. UNCHANGED <<removed, editing, shown, seen, outdated>>
    BY <1>9 DEF shop, Lookup, Query, Fill, SessionFails, DeleteCartItem, adders
  <2>2. sweep' \in SUBSET Item
    BY <1>9 DEF Lookup, Query, Fill, SessionFails, DeleteCartItem, IInv, TypeInv, SInv, ShopTypeInv
  <2>. QED
    BY <1>1, <1>4, <2>1, <2>2 DEF SInv, ShopTypeInv
<1>10. CASE UNCHANGED vars
  BY <1>1, <1>3, <1>4, <1>10 DEF vars, SInv, ShopTypeInv
<1>. QED
  BY <1>3, <1>5, <1>6, <1>7, <1>8, <1>9, <1>10 DEF SInv

\* createOrder begins: a call that has not committed gets its items.
LEMMA SubmitStock == ASSUME IInv, SInv, NEW c \in Call, Submit(c) PROVE SInv'
<1>1. /\ call[c] = "idle" /\ \A d \in Call \ {c} : payload'[d] = payload[d]
      /\ UNCHANGED <<stock, removed, editing, entered, before, shown, sweep, seen, txn, outdated, taken, made>>
  BY DEF Submit, adders, shop, IInv, TypeInv
<1>2. txn[c] = "new" /\ \A t \in taken \cup made : t \in Task /\ t[1] # c
  BY <1>1, TaskParts DEF IInv, TypeInv, CallInv, WriteInv
<1>3. \A t \in Task : t[1] # c => ItemAt(t)' = ItemAt(t)
  BY <1>1, TaskParts DEF ItemAt
<1>4. StockInv'
  BY <1>1, <1>2, <1>3, TaskParts, StockKept DEF Committed
<1>5. ShopTypeInv'
  BY <1>1, <1>2, <1>3 DEF SInv, ShopTypeInv
<1>. QED
  BY <1>4, <1>5 DEF SInv

\* A transaction is aborted: a call that has not committed loses its writes.
LEMMA AbortStock ==
  ASSUME IInv, SInv, NEW c \in Call, txn[c] # "committed",
         txn' = [txn EXCEPT ![c] = "aborted"], DropWrites(c), outdated' \in SUBSET outdated,
         UNCHANGED <<stock, removed, editing, entered, before, shown, sweep, seen, payload>>
  PROVE  SInv'
<1>1. Committed' = Committed
  BY DEF Committed, IInv, TypeInv
<1>2. \A t \in Task : ItemAt(t)' = ItemAt(t)
  BY DEF ItemAt
<1>3. StockInv'
  BY <1>1, <1>2, StockKept
<1>4. ShopTypeInv'
  BY <1>2 DEF DropWrites, IInv, TypeInv, SInv, ShopTypeInv
<1>. QED
  BY <1>3, <1>4 DEF SInv

\* A transaction is committed.
LEMMA CommittedStock ==
  ASSUME IInv, SInv, NEW c \in Call, call[c] = "commit", CommitWrites(c),
         UNCHANGED <<removed, editing, entered, before, shown, sweep, seen, payload, taken, made>>
  PROVE  SInv'
<1>1. stock' \in [Option -> Int] /\ StockInv'
  BY CommitStock
<1>2. \A t \in Task : ItemAt(t)' = ItemAt(t)
  BY DEF ItemAt
<1>3. outdated' \in SUBSET (Call \X Option)
  BY DEF CommitWrites, SInv, ShopTypeInv
<1>4. ShopTypeInv'
  BY <1>1, <1>2, <1>3 DEF IInv, TypeInv, SInv, ShopTypeInv
<1>. QED
  BY <1>1, <1>4 DEF SInv

\* The other steps of a call.
LEMMA CallStock == ASSUME IInv, SInv, NEW c \in Call, CallStep(c) PROVE SInv'
<1>1. CASE PlaceOrder(c)
  <2>1. UNCHANGED <<stock, removed, editing, entered, before, shown, sweep, seen, payload, txn, outdated, taken, made>>
    BY <1>1 DEF PlaceOrder, adders, shop
  <2>2. \A t \in Task : ItemAt(t)' = ItemAt(t)
    BY <2>1 DEF ItemAt
  <2>3. StockInv'
    BY <2>1, <2>2, StockKept DEF Committed
  <2>. QED
    BY <2>1, <2>2, <2>3 DEF IInv, TypeInv, SInv, ShopTypeInv
<1>2. CASE Abort(c)
  <2>1. txn[c] # "committed" /\ outdated' \in SUBSET outdated
    BY <1>2 DEF Abort, IInv, CallInv
  <2>. QED
    BY <1>2, <2>1, AbortStock DEF Abort, adders, shop
<1>3. CASE Commit(c)
  BY <1>3, CommittedStock DEF Commit, adders, shop
<1>4. CASE CommitFails(c)
  <2>1. txn[c] # "committed"
    BY <1>4 DEF CommitFails, IInv, CallInv
  <2>2. CASE CommitWrites(c) /\ UNCHANGED <<taken, made>>
    BY <1>4, <2>2, CommittedStock DEF CommitFails, adders, shop
  <2>3. CASE /\ txn' = [txn EXCEPT ![c] = "aborted"] /\ DropWrites(c)
             /\ outdated' = {x \in outdated : x[1] # c} /\ UNCHANGED stock
    BY <1>4, <2>1, <2>3, AbortStock DEF CommitFails, adders, shop
  <2>. QED
    BY <1>4, <2>2, <2>3 DEF CommitFails
<1>. QED
  BY <1>1, <1>2, <1>3, <1>4 DEF CallStep

\* The writes of a task.
LEMMA WriteStock == ASSUME IInv, SInv, NEW t \in Task, Take(t) \/ TakeConflict(t) \/ MakeItem(t) PROVE SInv'
<1>1. t[1] \in Call /\ txn[t[1]] \in {"new", "open"} /\ ItemAt(t) # None
  BY TaskParts DEF Take, TakeConflict, MakeItem, SessionUsable, IInv, ProgressInv
<1>2. UNCHANGED <<stock, removed, editing, entered, before, shown, sweep, seen, payload>>
  BY DEF Take, TakeInSession, TakeConflict, MakeItem, adders, shop
<1>3. \A u \in Task : ItemAt(u)' = ItemAt(u)
  BY <1>2 DEF ItemAt
<1>4. CASE Take(t) \/ MakeItem(t)
  <2>1. Committed' = Committed
    BY <1>1, <1>4 DEF Take, TakeInSession, MakeItem, Committed, IInv, TypeInv
  <2>2. StockInv'
    BY <1>2, <1>3, <2>1, StockKept
  <2>3. UNCHANGED outdated /\ taken' \cup made' \subseteq taken \cup made \cup {t}
    BY <1>4 DEF Take, TakeInSession, MakeItem
  <2>. QED
    BY <1>1, <1>2, <1>3, <2>2, <2>3 DEF IInv, TypeInv, SInv, ShopTypeInv
<1>5. CASE TakeConflict(t)
  BY <1>1, <1>2, <1>5, AbortStock DEF TakeConflict, DropWrites
<1>. QED
  BY <1>4, <1>5

\* Every step keeps the count.
LEMMA StockNext == IInv /\ SInv /\ [Next]_vars => SInv'
<1> SUFFICES ASSUME IInv, SInv, [Next]_vars PROVE SInv'
  OBVIOUS
<1>1. ASSUME NEW c \in Call, Submit(c) \/ CallStep(c) PROVE SInv'
  BY <1>1, SubmitStock, CallStock
<1>2. ASSUME NEW t \in Task, TaskStep(t) PROVE SInv'
  BY <1>2, ShopStock, WriteStock DEF TaskStep
<1>3. ASSUME NEW o \in Option, EditStep(o) PROVE SInv'
  BY <1>3, ShopStock, EditCounts DEF EditStep
<1>. QED
  BY <1>1, <1>2, <1>3, ShopStock DEF Next

\* The stock of an option is what was last entered for it, less every position of
\* every order committed since, counted once, and nothing else, whatever ran
\* concurrently, conflicted or failed half way (createOrder, createOrderItem,
\* updateProduct).
THEOREM StockAlwaysMatches == Spec => []StockMatchesOrders
<1>1. Spec => []SInv
  BY Inductive, StockInit, StockNext, PTL DEF Spec
<1>2. SInv => StockMatchesOrders
  BY DEF SInv, StockInv, StockMatchesOrders, Sold
<1>. QED
  BY <1>1, <1>2, PTL

\* Every variable stays in its domain, and only a transaction that is open or
\* committed holds writes (createOrder and createOrderItem).
THEOREM TypesKept == Spec => []TypeOK
<1>1. Spec => [](IInv /\ SInv)
  BY Inductive, StockInit, StockNext, PTL DEF Spec
<1>2. IInv /\ SInv => TypeOK
  <2> SUFFICES ASSUME IInv, SInv PROVE TypeOK
    OBVIOUS
  <2>1. ASSUME NEW t \in taken \cup made PROVE t \in Task /\ ItemAt(t) # None /\ txn[t[1]] \in {"open", "committed"}
    BY DEF IInv, TypeInv, WriteInv, SInv, ShopTypeInv
  <2>. QED
    BY <2>1 DEF IInv, TypeInv, SInv, ShopTypeInv, TypeOK
<1>. QED
  BY <1>1, <1>2, PTL

=============================================================================
