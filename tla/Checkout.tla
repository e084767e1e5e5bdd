------------------------------ MODULE Checkout ------------------------------
(***************************************************************************)
(* Turning cart items into an order: addCartItem and the removal of a cart *)
(* item (cart.service.ts, cart.controller.ts) and concurrent calls of      *)
(* createOrder (order.service.ts), whose items are handled by concurrent   *)
(* tasks (Promise.all over createOrderItem) that share one MongoDB         *)
(* transaction.  The stock decrements and the order items are written in   *)
(* that transaction; the deletion of the cart items and the order document *)
(* are not.  Meanwhile updateProduct enters the stock of an option anew or *)
(* removes the option.  A quantity is whatever number the payload has.     *)
(***************************************************************************)
EXTENDS Integers, FiniteSets, Functions

CONSTANTS
  Call,        \* calls of createOrder
  Slot,        \* positions of the payload's array of cart item ids
  Item,        \* cart items
  Option,      \* product options
  OptionOf,    \* the option of each cart item
  Quantity,    \* the quantity of each cart item
  InCart,      \* the cart items that exist at the start
  Initial,     \* the initial stock of each option
  Removable,   \* options that updateProduct may remove
  Editable,    \* options that updateProduct may edit
  NewStock,    \* the stock it may enter
  None

ASSUME CheckoutAssumption ==
  /\ IsFiniteSet(Slot)
  /\ OptionOf \in [Item -> Option]
  /\ Quantity \in [Item -> Int]
  /\ Initial \in [Option -> Nat]
  /\ InCart \subseteq Item
  /\ Removable \subseteq Option /\ Editable \subseteq Option
  /\ NewStock \subseteq Int
  /\ None \notin Item /\ None \notin Int

VARIABLES
  stock,      \* the committed stock of each option
  removed,    \* the options that updateProduct has marked isDeleted
  editing,    \* the options that an open transaction of updateProduct has written
  entered,    \* the stock last entered for each option
  before,     \* the calls that had committed when it was entered
  cart,       \* the cart items in the database
  cached,     \* the cart items in the cache
  shown,      \* the cached stock of each option (the ["_id", "stock"] view)
  sweep,      \* cart items whose un-awaited deletion from the cache is pending
  adding,     \* where addCartItem of each item is
  seen,       \* the stock each addCartItem has read
  call,       \* where each createOrder is
  payload,    \* the cart item in each position of its payload
  task,       \* where the task of each position is
  txn,        \* the MongoDB transaction of each createOrder
  outdated,   \* options changed since the snapshot of an open transaction
  taken,      \* decrements of the stock written in transactions
  made,       \* order items written in transactions
  placed      \* createOrder calls whose order document exists

vars == <<stock, removed, editing, entered, before, cart, cached, shown, sweep, adding, seen, call, payload, task, txn,
          outdated, taken, made, placed>>
adders == <<adding, seen, shown>>
shop == <<removed, editing, entered, before>>

Task == Call \X Slot
Running == {"lookup", "query", "fill", "take", "delete", "item"}

ItemAt(t) == payload[t[1]][t[2]]
OptionAt(t) == OptionOf[ItemAt(t)]
TasksOf(c) == {t \in Task : t[1] = c /\ ItemAt(t) # None}
TotalOf(ts, o) == SumFunction([t \in {u \in ts : OptionAt(u) = o} |-> Quantity[ItemAt(t)]])

Init ==
  /\ stock = Initial
  /\ removed = {}
  /\ editing = {}
  /\ entered = Initial
  /\ before = [o \in Option |-> {}]
  /\ cart = InCart
  /\ cached = {}
  /\ shown = [o \in Option |-> None]
  /\ sweep = {}
  /\ adding = [i \in Item |-> IF i \in InCart THEN "added" ELSE "idle"]
  /\ seen = [i \in Item |-> 0]
  /\ call = [c \in Call |-> "idle"]
  /\ payload = [c \in Call |-> [s \in Slot |-> None]]
  /\ task = [t \in Task |-> "none"]
  /\ txn = [c \in Call |-> "new"]
  /\ outdated = {}
  /\ taken = {}
  /\ made = {}
  /\ placed = {}

Goto(t, label) == task' = [task EXCEPT ![t] = label]
Answer(c, label) == call' = [call EXCEPT ![c] = label]

-----------------------------------------------------------------------------
(* addCartItem                                                             *)

\* productOptionService.find: a hit, or a miss and a query.
AddLookup(i) ==
  /\ adding[i] = "idle"
  /\ LET o == OptionOf[i]
     IN IF shown[o] # None
        THEN seen' = [seen EXCEPT ![i] = shown[o]] /\ adding' = [adding EXCEPT ![i] = "check"]
        ELSE adding' = [adding EXCEPT ![i] = "query"] /\ UNCHANGED seen
  /\ UNCHANGED <<stock, shop, cart, cached, shown, sweep, call, payload, task, txn, outdated, taken, made, placed>>

AddQuery(i) ==
  /\ adding[i] = "query"
  /\ seen' = [seen EXCEPT ![i] = stock[OptionOf[i]]]
  /\ adding' = [adding EXCEPT ![i] = "fill"]
  /\ UNCHANGED <<stock, shop, cart, cached, shown, sweep, call, payload, task, txn, outdated, taken, made, placed>>

AddFill(i) ==
  /\ adding[i] = "fill"
  /\ shown' = [shown EXCEPT ![OptionOf[i]] = seen[i]]
  /\ adding' = [adding EXCEPT ![i] = "check"]
  /\ UNCHANGED <<stock, shop, cart, cached, sweep, seen, call, payload, task, txn, outdated, taken, made, placed>>

EnoughSeen(i) == seen[i] >= Quantity[i]

\* The item is created.  For a user, update({user}, ...) changes nothing (the
\* schema has no "items") but refreshes the cache of one of the cart items.
AddCreate(i) ==
  /\ adding[i] = "check"
  /\ EnoughSeen(i)
  /\ cart' = cart \cup {i}
  /\ \/ UNCHANGED sweep
     \/ \E j \in cart' : sweep' = sweep \cup {j}
  /\ adding' = [adding EXCEPT ![i] = "added"]
  /\ UNCHANGED <<stock, shop, cached, shown, seen, call, payload, task, txn, outdated, taken, made, placed>>

AddRefused(i) ==
  /\ adding[i] = "check"
  /\ ~EnoughSeen(i)
  /\ adding' = [adding EXCEPT ![i] = "refused"]
  /\ UNCHANGED <<stock, shop, cart, cached, shown, sweep, seen, call, payload, task, txn, outdated, taken, made, placed>>

\* DELETE /cart/items/:id: delete, whose cache refresh nobody awaits.
RemoveFromCart(i) ==
  /\ i \in cart
  /\ cart' = cart \ {i}
  /\ sweep' = sweep \cup {i}
  /\ UNCHANGED <<stock, shop, cached, adders, call, payload, task, txn, outdated, taken, made, placed>>

-----------------------------------------------------------------------------
(* createOrder: the call.                                                  *)

\* startTransaction, then one task for every id of the payload; ids may repeat.
Submit(c) ==
  /\ call[c] = "idle"
  /\ Answer(c, "running")
  /\ \E p \in [Slot -> Item \cup {None}] :
       /\ payload' = [payload EXCEPT ![c] = p]
       /\ task' = [t \in Task |-> IF t[1] = c /\ p[t[2]] # None THEN "lookup" ELSE task[t]]
  /\ UNCHANGED <<stock, shop, cart, cached, sweep, adders, txn, outdated, taken, made, placed>>

\* Mutants: Promise.race in place of Promise.all; waiting for positions that
\* have no item.
SomeMade(c) == \E t \in TasksOf(c) : task[t] = "made"
EverySlotMade(c) == \A t \in {c} \X Slot : task[t] = "made"
AllMade(c) == \A t \in TasksOf(c) : task[t] = "made"

\* Promise.all has every item: calculateTotalCost, then _model.create, which
\* is given no session.
PlaceOrder(c) ==
  /\ call[c] = "running"
  /\ AllMade(c)
  /\ placed' = placed \cup {c}
  /\ Answer(c, "commit")
  /\ UNCHANGED <<stock, shop, cart, cached, sweep, adders, payload, task, txn, outdated, taken, made>>

\* Mutant: what the aborted transaction wrote stays.
KeepWrites(c) == UNCHANGED <<taken, made>>
DropWrites(c) ==
  /\ taken' = {t \in taken : t[1] # c}
  /\ made' = {t \in made : t[1] # c}

\* A task has thrown, or create has (perhaps after MongoDB applied it):
\* abortTransaction and endSession.  The other tasks of the call run on.
Abort(c) ==
  /\ call[c] = "running"
  /\ \/ /\ \E t \in TasksOf(c) : task[t] = "failed"
        /\ UNCHANGED placed
     \/ /\ AllMade(c)
        /\ placed' \in {placed, placed \cup {c}}
  /\ txn' = [txn EXCEPT ![c] = "aborted"]
  /\ DropWrites(c)
  /\ outdated' = {x \in outdated : x[1] # c}
  /\ Answer(c, "failed")
  /\ UNCHANGED <<stock, shop, cart, cached, sweep, adders, payload, task>>

\* An open transaction has written the option.
Holds(c, o) == txn[c] = "open" /\ \E t \in taken : t[1] = c /\ OptionAt(t) = o

CommitWrites(c) ==
  /\ txn' = [txn EXCEPT ![c] = "committed"]
  /\ stock' = [o \in Option |-> stock[o] - TotalOf({t \in taken : t[1] = c}, o)]
  /\ outdated' = {x \in outdated : x[1] # c}
       \cup {x \in Call \X Option : x[1] # c /\ txn[x[1]] = "open" /\ Holds(c, x[2])}

Commit(c) ==
  /\ call[c] = "commit"
  /\ CommitWrites(c)
  /\ Answer(c, "done")
  /\ UNCHANGED <<shop, cart, cached, sweep, adders, payload, task, taken, made, placed>>

\* The commit fails, or its answer is lost after MongoDB applied it.
CommitFails(c) ==
  /\ call[c] = "commit"
  /\ \/ /\ txn' = [txn EXCEPT ![c] = "aborted"]
        /\ DropWrites(c)
        /\ outdated' = {x \in outdated : x[1] # c}
        /\ UNCHANGED stock
     \/ CommitWrites(c) /\ UNCHANGED <<taken, made>>
  /\ Answer(c, "failed")
  /\ UNCHANGED <<shop, cart, cached, sweep, adders, payload, task, placed>>

-----------------------------------------------------------------------------
(* createOrderItem: one task.                                              *)

\* cartService.find
Lookup(t) ==
  /\ task[t] = "lookup"
  /\ Goto(t, IF ItemAt(t) \in cached THEN "take" ELSE "query")
  /\ UNCHANGED <<stock, shop, cart, cached, sweep, adders, call, payload, txn, outdated, taken, made, placed>>

\* A cart item that does not exist fails the task.
Query(t) ==
  /\ task[t] = "query"
  /\ Goto(t, IF ItemAt(t) \in cart THEN "fill" ELSE "failed")
  /\ UNCHANGED <<stock, shop, cart, cached, sweep, adders, call, payload, txn, outdated, taken, made, placed>>

Fill(t) ==
  /\ task[t] = "fill"
  /\ cached' = cached \cup {ItemAt(t)}
  /\ Goto(t, "take")
  /\ UNCHANGED <<stock, shop, cart, sweep, adders, call, payload, txn, outdated, taken, made, placed>>

\* Mutant: an operation that is given no session needs none.
NoSessionNeeded(t) == txn[t[1]] # "committed"
\* The session can be used while the call awaits its tasks and MongoDB has
\* not aborted the transaction.
SessionUsable(t) == call[t[1]] = "running" /\ txn[t[1]] \in {"new", "open"}

\* Another open transaction has written the option, or it changed after the snapshot.
Conflict(t) ==
  \/ OptionAt(t) \in editing
  \/ <<t[1], OptionAt(t)>> \in outdated
  \/ \E c \in Call \ {t[1]} : Holds(c, OptionAt(t))

\* updateOne with $inc in the session.
\* Mutant: it is given no session.
TakeOutside(t) ==
  /\ stock' = [stock EXCEPT ![OptionAt(t)] = @ - Quantity[ItemAt(t)]]
  /\ UNCHANGED <<taken, txn>>
TakeInSession(t) ==
  /\ taken' = taken \cup {t}
  /\ txn' = [txn EXCEPT ![t[1]] = "open"]
  /\ UNCHANGED stock

\* The guards before it see an option
\* whose stock and a product whose isDeleted were not selected: comparing
\* undefined, they let every item through.
Take(t) ==
  /\ task[t] = "take"
  /\ SessionUsable(t)
  /\ ~Conflict(t)
  /\ TakeInSession(t)
  /\ Goto(t, "delete")
  /\ UNCHANGED <<shop, cart, cached, sweep, adders, call, payload, outdated, made, placed>>

\* A write conflict makes MongoDB abort the transaction.
TakeConflict(t) ==
  /\ task[t] = "take"
  /\ SessionUsable(t)
  /\ Conflict(t)
  /\ txn' = [txn EXCEPT ![t[1]] = "aborted"]
  /\ taken' = {u \in taken : u[1] # t[1]}
  /\ made' = {u \in made : u[1] # t[1]}
  /\ outdated' = {x \in outdated : x[1] # t[1]}
  /\ Goto(t, "failed")
  /\ UNCHANGED <<stock, shop, cart, cached, sweep, adders, call, payload, placed>>

\* An operation of the session throws: the session has ended, the transaction
\* was aborted, or the server does not know the transaction yet (the tasks'
\* first operations run in parallel).
SessionFails(t) ==
  /\ task[t] \in {"take", "item"}
  /\ Goto(t, "failed")
  /\ UNCHANGED <<stock, shop, cart, cached, sweep, adders, call, payload, txn, outdated, taken, made, placed>>

\* Mutant: only an item that is still cached is deleted.
LeavingIfCached(t) == {ItemAt(t)} \cap cached
Leaving(t) == {ItemAt(t)}

\* cartService.delete outside the session; the result is ignored and the
\* cache is refreshed, un-awaited, only if something was deleted.
DeleteCartItem(t) ==
  /\ task[t] = "delete"
  /\ cart' = cart \ Leaving(t)
  /\ sweep' = sweep \cup (Leaving(t) \cap cart)
  /\ Goto(t, "item")
  /\ UNCHANGED <<stock, shop, cached, adders, call, payload, txn, outdated, taken, made, placed>>

\* orderItemModel.create in the session, and populate.
MakeItem(t) ==
  /\ task[t] = "item"
  /\ SessionUsable(t)
  /\ made' = made \cup {t}
  /\ Goto(t, "made")
  /\ UNCHANGED <<stock, shop, cart, cached, sweep, adders, call, payload, txn, outdated, taken, placed>>

TaskStep(t) ==
  \/ Lookup(t) \/ Query(t) \/ Fill(t) \/ Take(t) \/ TakeConflict(t) \/ SessionFails(t)
  \/ DeleteCartItem(t) \/ MakeItem(t)

-----------------------------------------------------------------------------
(* updateProduct, as far as it writes options.                             *)

\* deleteOptions marks an option isDeleted, in no session; the write waits for
\* the transaction that holds the option.  (That it is also dropped from the
\* cache, at some later time, is one of the steps of Expire.)
RemoveOption(o) ==
  /\ o \in Removable \ removed
  /\ o \notin editing /\ \A c \in Call : ~Holds(c, o)
  /\ removed' = removed \cup {o}
  /\ outdated' = outdated \cup {x \in Call \X {o} : txn[x[1]] = "open"}
  /\ UNCHANGED <<editing, entered, before, stock, cart, cached, sweep, adders, call, payload, task, txn, taken, made, placed>>

\* updateOptions: an update in the session of updateProduct.
EditOption(o) ==
  /\ o \in Editable \ editing
  /\ \A c \in Call : ~Holds(c, o)
  /\ editing' = editing \cup {o}
  /\ UNCHANGED <<removed, entered, before, stock, outdated, cart, cached, sweep, adders, call, payload, task, txn, taken, made, placed>>

Committed == {c \in Call : txn[c] = "committed"}

\* Mutant: what is entered is added to the stock.
EditAdds(o, n) ==
  /\ o \in editing
  /\ editing' = editing \ {o}
  /\ stock' = [stock EXCEPT ![o] = @ + n]
  /\ entered' = [entered EXCEPT ![o] = n]
  /\ before' = [before EXCEPT ![o] = Committed]
  /\ outdated' = outdated \cup {x \in Call \X {o} : txn[x[1]] = "open"}
  /\ UNCHANGED <<removed, cart, cached, sweep, adders, call, payload, task, txn, taken, made, placed>>

\* The transaction commits: the stock is what was entered, whatever was sold
\* since the shop looked.
EditStock(o, n) ==
  /\ o \in editing
  /\ editing' = editing \ {o}
  /\ stock' = [stock EXCEPT ![o] = n]
  /\ entered' = [entered EXCEPT ![o] = n]
  /\ before' = [before EXCEPT ![o] = Committed]
  /\ outdated' = outdated \cup {x \in Call \X {o} : txn[x[1]] = "open"}
  /\ UNCHANGED <<removed, cart, cached, sweep, adders, call, payload, task, txn, taken, made, placed>>

\* It aborts, or the payload has no stock.
EditLeavesStock(o) ==
  /\ o \in editing
  /\ editing' = editing \ {o}
  /\ UNCHANGED <<removed, entered, before, stock, outdated, cart, cached, sweep, adders, call, payload, task, txn, taken, made, placed>>

EditStep(o) == RemoveOption(o) \/ EditOption(o) \/ EditLeavesStock(o) \/ \E n \in NewStock : EditStock(o, n)

-----------------------------------------------------------------------------
(* The cache.                                                              *)

Sweep(i) ==
  /\ i \in sweep
  /\ sweep' = sweep \ {i}
  /\ cached' = cached \ {i}
  /\ UNCHANGED <<stock, shop, cart, adders, call, payload, task, txn, outdated, taken, made, placed>>

\* REDIS_TTL runs out.
Expire ==
  /\ \/ /\ \E i \in cached : cached' = cached \ {i}
        /\ UNCHANGED shown
     \/ /\ \E o \in Option : shown[o] # None /\ shown' = [shown EXCEPT ![o] = None]
        /\ UNCHANGED cached
  /\ UNCHANGED <<stock, shop, cart, sweep, adding, seen, call, payload, task, txn, outdated, taken, made, placed>>

AddStep(i) == AddLookup(i) \/ AddQuery(i) \/ AddFill(i) \/ AddCreate(i) \/ AddRefused(i)
CallStep(c) == PlaceOrder(c) \/ Abort(c) \/ Commit(c) \/ CommitFails(c)

Next ==
  \/ \E i \in Item : AddStep(i) \/ RemoveFromCart(i) \/ Sweep(i)
  \/ \E c \in Call : Submit(c) \/ CallStep(c)
  \/ \E t \in Task : TaskStep(t)
  \/ \E o \in Option : EditStep(o)
  \/ Expire

Spec == Init /\ [][Next]_vars

\* The event loop resumes every call and every task whose operation has
\* answered; MongoDB and Redis answer or fail.
Fairness ==
  /\ \A t \in Task : WF_vars(TaskStep(t))
  /\ \A c \in Call : WF_vars(CallStep(c))

FairSpec == Spec /\ Fairness

-----------------------------------------------------------------------------
(* Safety.                                                                 *)

\* Every variable stays in its domain, and only a transaction that is open or
\* committed holds writes.
TypeOK ==
  /\ stock \in [Option -> Int]
  /\ removed \cup editing \subseteq Option
  /\ entered \in [Option -> Int]
  /\ before \in [Option -> SUBSET Call]
  /\ cart \subseteq Item
  /\ cached \subseteq Item
  /\ shown \in [Option -> Int \cup {None}]
  /\ sweep \subseteq Item
  /\ adding \in [Item -> {"idle", "query", "fill", "check", "added", "refused"}]
  /\ seen \in [Item -> Int]
  /\ call \in [Call -> {"idle", "running", "commit", "done", "failed"}]
  /\ payload \in [Call -> [Slot -> Item \cup {None}]]
  /\ task \in [Task -> {"none", "made", "failed"} \cup Running]
  /\ txn \in [Call -> {"new", "open", "committed", "aborted"}]
  /\ outdated \subseteq Call \X Option
  /\ taken \cup made \subseteq {t \in Task : ItemAt(t) # None /\ txn[t[1]] \in {"open", "committed"}}
  /\ placed \subseteq Call

\* The stock of an option is what was last entered for it, less every position of
\* every order committed since, counted once, and nothing else, whatever ran
\* concurrently, conflicted or failed half way (createOrder, createOrderItem,
\* updateProduct).
StockMatchesOrders ==
  \A o \in Option :
    stock[o] + TotalOf({t \in Task : t[1] \in Committed \ before[o] /\ ItemAt(t) # None}, o) = entered[o]

\* A committed checkout has all its decrements, all its order items and its
\* order document; one that was answered with success is committed (createOrder).
CommittedIsComplete ==
  \A c \in Call :
    /\ txn[c] = "committed" => TasksOf(c) \subseteq taken \cap made /\ c \in placed
    /\ call[c] = "done" => txn[c] = "committed"

\* A checkout that failed leaves no decrement and no order item, also when its
\* other tasks went on after the failure (Promise.all, withMutateTransaction).
FailedLeavesNothing ==
  \A t \in taken \cup made : call[t[1]] = "failed" => txn[t[1]] = "committed"

\* The cart items of a committed order are no longer in the cart, although
\* they are deleted outside the transaction (createOrderItem).
OrderedItemsLeaveCart ==
  \A t \in Task : txn[t[1]] = "committed" /\ ItemAt(t) # None => ItemAt(t) \notin cart

(* Liveness. *)

\* Every checkout is answered and every task of it ends, those that outlive
\* the answer included (createOrder).
CheckoutEnds ==
  /\ \A c \in Call : call[c] = "running" ~> call[c] \in {"done", "failed"}
  /\ \A t \in Task : task[t] = "lookup" ~> task[t] \in {"made", "failed"}

-----------------------------------------------------------------------------
(* What a message of the program says, which the code does not keep.        *)

\* PRODUCT_SOLD_OUT in createOrderItem: no more is ordered than there is.
NoOversell == \A o \in Option : stock[o] >= 0

=============================================================================
