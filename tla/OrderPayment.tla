---------------------------- MODULE OrderPayment ----------------------------
(***************************************************************************)
(* The life of one order document after checkout: processOrder, the VNPAY  *)
(* callback, requestCancelOrder and cancelOrder running concurrently on it *)
(* (order.service.ts, payment.service.ts), each reading the order through  *)
(* the Redis cache of repository.service.ts and writing it inside or       *)
(* outside a MongoDB transaction (schema-transaction.util.ts).             *)
(*                                                                         *)
(* One step is the code between two awaits.  Calls on different orders     *)
(* share no state, so one order is enough.  The order exists throughout    *)
(* (no code deletes one), so the "not found" branches are not modelled.    *)
(***************************************************************************)
EXTENDS Naturals

CONSTANTS
  Process,      \* calls of processOrder; each creates one transaction, named by the call
  Callback,     \* deliveries of the VNPAY return URL (GET /payment/callback)
  Request,      \* calls of requestCancelOrder
  Cancel,       \* calls of cancelOrder
  None,         \* no call, no transaction, no cache entry
  MaxCrashes    \* bound on the crashes of the Node process

Reader == Callback \cup Request \cup Cancel   \* calls that begin with RepositoryService.find
Call == Process \cup Reader

ASSUME CallsAssumption ==
  /\ None \notin Call
  /\ Process \cap Reader = {}
  /\ Callback \cap (Request \cup Cancel) = {}
  /\ Request \cap Cancel = {}
ASSUME MaxCrashesAssumption == MaxCrashes \in Nat

VARIABLES
  order,     \* the committed order document: its status and transaction fields
  txStatus,  \* the committed status of each OrderTransaction document
  dated,     \* the transactions whose document has a payDate
  cache,     \* the Redis entry of each select-key under which the order is cached
  sweep,     \* keys whose deletion refreshCache has started and not awaited
  lock,      \* the call whose open MongoDB transaction has written the order
  stale,     \* processOrder calls whose snapshot of the order is outdated
  pc,        \* where each call is
  row,       \* the order as each call's find returned it
  said,      \* the outcome that each callback's query string reports
  refund,    \* the transaction whose refund a cancelOrder has posted to VNPAY
  crashes

vars == <<order, txStatus, dated, cache, sweep, lock, stale, pc, row, said,
          refund, crashes>>

Status == {"PENDING", "PREPARING", "TRANSPORTING", "COMPLETED", "CANCELING", "CANCELED"}
Settled == {"SUCCESS", "FAIL"}
TxStatus == {"NONE", "PENDING"} \cup Settled
Report == {"paid", "failed"}
Tx == Process \cup {None}
Order == [status : Status, tx : Tx]
Row == [status : Status, tx : Tx, payDate : BOOLEAN]
Ended == {"done", "failed", "lost"}
PC == {"idle", "fee", "lookup", "query", "populate", "fill", "act", "settled",
       "refund", "posted", "commit"} \cup Ended

\* The select-key under which each kind of call looks the order up, and the
\* keys in use.
ViewOf(c) == IF c \in Callback THEN "full" ELSE IF c \in Request THEN "owner" ELSE "cancel"
View == {ViewOf(c) : c \in Reader}

\* The row of a call that has read nothing yet.
BlankRow == [status |-> "PENDING", tx |-> None, payDate |-> FALSE]

\* isCanBeCanceledStatus
IsCanBeCanceledStatus(s) == s \notin {"TRANSPORTING", "CANCELED", "COMPLETED"}

Init ==
  /\ order = [status |-> "PENDING", tx |-> None]
  /\ txStatus = [p \in Process |-> "NONE"]
  /\ dated = {}
  /\ cache = [v \in View |-> None]
  /\ sweep = {}
  /\ lock = None
  /\ stale = {}
  /\ pc = [c \in Call |-> "idle"]
  /\ row = [c \in Reader |-> BlankRow]
  /\ said = [b \in Callback |-> None]
  /\ refund = [k \in Cancel |-> None]
  /\ crashes = 0

Goto(c, label) == pc' = [pc EXCEPT ![c] = label]

\* refreshCache starts the deletion of every key of the order and awaits none.
\* Deletions of one key are merged: Expire gives what a second one could do.
RefreshCache == sweep' = View

\* A committed write of the order outdates the snapshots already taken.
CommitOrder(o) ==
  /\ order' = o
  /\ stale' = stale \cup {p \in Process : pc[p] = "fee"}

\* A write outside a transaction waits for the one that has written the order.
MayWrite == lock = None

-----------------------------------------------------------------------------
(* RepositoryService.find, shared by the three kinds of reader.            *)

\* A hit returns the cached document; a miss goes to the database.
Lookup(c) ==
  /\ pc[c] = "lookup"
  /\ \/ /\ cache[ViewOf(c)] # None
        /\ row' = [row EXCEPT ![c] = cache[ViewOf(c)]]
        /\ Goto(c, "act")
     \/ /\ cache[ViewOf(c)] = None
        /\ Goto(c, "query")
        /\ UNCHANGED row
  /\ UNCHANGED <<order, txStatus, dated, cache, sweep, lock, stale, said, refund, crashes>>

\* The committed order, without its transaction in the ["status", "user"] view.
Query(c) ==
  /\ pc[c] = "query"
  /\ LET tx == IF c \in Request THEN None ELSE order.tx
     IN /\ row' = [row EXCEPT ![c] = [status |-> order.status, tx |-> tx, payDate |-> FALSE]]
        /\ Goto(c, IF tx = None THEN "fill" ELSE "populate")
  /\ UNCHANGED <<order, txStatus, dated, cache, sweep, lock, stale, said, refund, crashes>>

\* populate: a second query, for the transaction document.
Populate(c) ==
  /\ pc[c] = "populate"
  /\ row' = [row EXCEPT ![c].payDate = row[c].tx \in dated]
  /\ Goto(c, "fill")
  /\ UNCHANGED <<order, txStatus, dated, cache, sweep, lock, stale, said, refund, crashes>>

Fill(c) ==
  /\ pc[c] = "fill"
  /\ cache' = [cache EXCEPT ![ViewOf(c)] = row[c]]
  /\ Goto(c, "act")
  /\ UNCHANGED <<order, txStatus, dated, sweep, lock, stale, row, said, refund, crashes>>

Find(c) == Lookup(c) \/ Query(c) \/ Populate(c) \/ Fill(c)

-----------------------------------------------------------------------------
(* processOrder: one MongoDB transaction.                                  *)

\* startTransaction and findById, whose snapshot the transaction keeps.
ProcessStart(p) ==
  /\ pc[p] = "idle"
  /\ Goto(p, "fee")
  /\ UNCHANGED <<order, txStatus, dated, cache, sweep, lock, stale, row, said, refund, crashes>>

\* calcFee fails, or the update meets another transaction's write, or one
\* committed after the snapshot: the transaction aborts.
ProcessRefused(p) ==
  /\ pc[p] = "fee"
  /\ Goto(p, "failed")
  /\ UNCHANGED <<order, txStatus, dated, cache, sweep, lock, stale, row, said, refund, crashes>>

\* MongoDB refuses a write to a document that another open transaction has
\* written, or that changed after the snapshot.
\* Mutant: findById without the session, so that nothing is outdated.
NoConflictUnseen(p) == lock = None
NoConflict(p) == lock = None /\ p \notin stale

\* calcFee answers; createPendingTransaction and update write in the session,
\* and the cache is refreshed although nothing is committed.
ProcessUpdate(p) ==
  /\ pc[p] = "fee"
  /\ NoConflict(p)
  /\ lock' = p
  /\ RefreshCache
  /\ Goto(p, "commit")
  /\ UNCHANGED <<order, txStatus, dated, cache, stale, row, said, refund, crashes>>

\* Mutant: createPendingTransaction leaves no document.
ProcessWritesOrder(p) ==
  /\ CommitOrder([order EXCEPT !.tx = p])
  /\ lock' = None
  /\ UNCHANGED txStatus
ProcessWrites(p) ==
  /\ CommitOrder([order EXCEPT !.tx = p])
  /\ txStatus' = [txStatus EXCEPT ![p] = "PENDING"]
  /\ lock' = None

\* The commit succeeds and the payment URL is returned.
ProcessCommit(p) ==
  /\ pc[p] = "commit"
  /\ ProcessWrites(p)
  /\ Goto(p, "done")
  /\ UNCHANGED <<dated, cache, sweep, row, said, refund, crashes>>

\* createPaymentUrl throws, or the commit fails, or its answer is lost after
\* MongoDB applied it.
ProcessFails(p) ==
  /\ pc[p] = "commit"
  /\ \/ lock' = None /\ UNCHANGED <<order, stale, txStatus>>
     \/ ProcessWrites(p)
  /\ Goto(p, "failed")
  /\ UNCHANGED <<dated, cache, sweep, row, said, refund, crashes>>

-----------------------------------------------------------------------------
(* paymentCallback and orderTransactionCallback: no transaction.           *)

\* GET /payment/callback: whoever calls it, at any time and any number of
\* times, says the outcome in the query string, and no signature is checked.
\* The find(orderId, ["transaction"]) here only tests that the order exists.
CallbackStart(b) ==
  /\ pc[b] = "idle"
  /\ \E outcome \in Report : said' = [said EXCEPT ![b] = outcome]
  /\ Goto(b, "lookup")
  /\ UNCHANGED <<order, txStatus, dated, cache, sweep, lock, stale, row, refund, crashes>>

\* Mutants: the status is not tested; a repeated callback is a failure.
SuccessAlways(b) == said[b] # None
SuccessOnce(b) == said[b] = "paid" /\ (row[b].tx # None => txStatus[row[b].tx] # "SUCCESS")
Success(b) == said[b] = "paid"

\* Mutants: the outcome is recorded in VNPAY's words; the two are swapped.
OutcomeAsSaid(b) == said[b]
OutcomeSwapped(b) == IF Success(b) THEN "FAIL" ELSE "SUCCESS"
Outcome(b) == IF Success(b) THEN "SUCCESS" ELSE "FAIL"

\* The order's transaction of the moment is settled.  A query without
\* vnp_PayDate leaves the payDate as it was.
CallbackSettle(b) ==
  /\ pc[b] = "act"
  /\ row[b].tx # None
  /\ txStatus' = [txStatus EXCEPT ![row[b].tx] = Outcome(b)]
  /\ \/ dated' = dated \cup {row[b].tx}
     \/ UNCHANGED dated
  /\ Goto(b, IF Success(b) THEN "settled" ELSE "done")
  /\ UNCHANGED <<order, cache, sweep, lock, stale, row, said, refund, crashes>>

\* order.transaction of a row without one throws, and so does the cast of a
\* vnp_PayDate that is no date.
CallbackThrows(b) ==
  /\ pc[b] = "act"
  /\ Goto(b, "failed")
  /\ UNCHANGED <<order, txStatus, dated, cache, sweep, lock, stale, row, said, refund, crashes>>

\* The status becomes PREPARING whatever it was.
CallbackPrepare(b) ==
  /\ pc[b] = "settled"
  /\ MayWrite
  /\ CommitOrder([order EXCEPT !.status = "PREPARING"])
  /\ RefreshCache
  /\ Goto(b, "done")
  /\ UNCHANGED <<txStatus, dated, cache, lock, row, said, refund, crashes>>

-----------------------------------------------------------------------------
(* requestCancelOrder: no transaction.                                     *)

RequestStart(r) ==
  /\ pc[r] = "idle"
  /\ Goto(r, "lookup")
  /\ UNCHANGED <<order, txStatus, dated, cache, sweep, lock, stale, row, said, refund, crashes>>

\* Not the order's user, or not a status that can be canceled.
RequestRefused(r) ==
  /\ pc[r] = "act"
  /\ Goto(r, "failed")
  /\ UNCHANGED <<order, txStatus, dated, cache, sweep, lock, stale, row, said, refund, crashes>>

RequestWrite(r) ==
  /\ pc[r] = "act"
  /\ IsCanBeCanceledStatus(row[r].status)
  /\ MayWrite
  /\ CommitOrder([order EXCEPT !.status = "CANCELING"])
  /\ RefreshCache
  /\ Goto(r, "done")
  /\ UNCHANGED <<txStatus, dated, cache, lock, row, said, refund, crashes>>

-----------------------------------------------------------------------------
(* cancelOrder: read first, then one MongoDB transaction.                  *)

CancelStart(k) ==
  /\ pc[k] = "idle"
  /\ Goto(k, "lookup")
  /\ UNCHANGED <<order, txStatus, dated, cache, sweep, lock, stale, row, said, refund, crashes>>

CancelRefused(k) ==
  /\ pc[k] = "act"
  /\ ~IsCanBeCanceledStatus(row[k].status)
  /\ Goto(k, "failed")
  /\ UNCHANGED <<order, txStatus, dated, cache, sweep, lock, stale, row, said, refund, crashes>>

\* accept = false: a mail that says so, and an empty transaction to commit.
CancelReject(k) ==
  /\ pc[k] = "act"
  /\ IsCanBeCanceledStatus(row[k].status)
  /\ Goto(k, "done")
  /\ UNCHANGED <<order, txStatus, dated, cache, sweep, lock, stale, row, said, refund, crashes>>

\* accept = true: the update in the session, or a write conflict and a 500.
CancelUpdate(k) ==
  /\ pc[k] = "act"
  /\ IsCanBeCanceledStatus(row[k].status)
  /\ \/ /\ lock = None
        /\ lock' = k
        /\ RefreshCache
        /\ Goto(k, "refund")
     \/ /\ lock # None
        /\ Goto(k, "failed")
        /\ UNCHANGED <<lock, sweep>>
  /\ UNCHANGED <<order, txStatus, dated, cache, stale, row, said, refund, crashes>>

\* Mutant: a transaction without a payDate is refunded too.
RefundablePending(k) == row[k].tx # None
Refundable(k) == row[k].payDate

\* Mutants: the exception is swallowed; the transaction is left open.
RefundSkipped(k) == Goto(k, "commit") /\ UNCHANGED lock
RefundNotAborted(k) == Goto(k, "failed") /\ UNCHANGED lock
RefundThrows(k) == Goto(k, "failed") /\ lock' = None

\* refundTransaction: a missing transaction or payDate throws before the
\* request and aborts; otherwise the request is posted and waited for.
CancelRefund(k) ==
  /\ pc[k] = "refund"
  /\ \/ /\ Refundable(k)
        /\ refund' = [refund EXCEPT ![k] = row[k].tx]
        /\ Goto(k, "posted")
        /\ UNCHANGED lock
     \/ ~Refundable(k) /\ RefundThrows(k) /\ UNCHANGED refund
  /\ UNCHANGED <<order, txStatus, dated, cache, sweep, stale, row, said, crashes>>

Release(k) == lock' = IF lock = k THEN None ELSE lock

\* VNPAY answers: any response is taken for success and the mail is sent, before
\* the commit; a transport error aborts.
RefundAnswered(k) ==
  /\ pc[k] = "posted"
  /\ \/ Goto(k, "commit") /\ UNCHANGED lock
     \/ Goto(k, "failed") /\ Release(k)
  /\ UNCHANGED <<order, txStatus, dated, cache, sweep, stale, row, said, refund, crashes>>

CancelWrites(k) ==
  /\ CommitOrder([order EXCEPT !.status = "CANCELED"])
  /\ lock' = None

CancelCommit(k) ==
  /\ pc[k] = "commit"
  /\ lock = k
  /\ CancelWrites(k)
  /\ Goto(k, "done")
  /\ UNCHANGED <<txStatus, dated, cache, sweep, row, said, refund, crashes>>

\* The commit fails, or its answer is lost after MongoDB applied it.
CancelFails(k) ==
  /\ pc[k] = "commit"
  /\ \/ Release(k) /\ UNCHANGED <<order, stale>>
     \/ lock = k /\ CancelWrites(k)
  /\ Goto(k, "failed")
  /\ UNCHANGED <<txStatus, dated, cache, sweep, row, said, refund, crashes>>

-----------------------------------------------------------------------------
(* The environment: Redis, MongoDB and crashes.                            *)

\* One outstanding deletion reaches Redis (SCAN, then DEL of what it saw).
Sweep(v) ==
  /\ v \in sweep
  /\ sweep' = sweep \ {v}
  /\ cache' = [cache EXCEPT ![v] = None]
  /\ UNCHANGED <<order, txStatus, dated, lock, stale, pc, row, said, refund, crashes>>

\* REDIS_TTL runs out.
Expire(v) ==
  /\ cache[v] # None
  /\ cache' = [cache EXCEPT ![v] = None]
  /\ UNCHANGED <<order, txStatus, dated, sweep, lock, stale, pc, row, said, refund, crashes>>

\* MongoDB aborts a transaction left open for its lifetime limit: a crashed
\* call's, or one that waits for VNPAY.
TransactionTimeout(c) ==
  /\ lock = c
  /\ pc[c] \in {"posted", "lost"}
  /\ lock' = None
  /\ UNCHANGED <<order, txStatus, dated, cache, sweep, stale, pc, row, said, refund, crashes>>

\* The Node process dies and restarts: running calls and pending deletions are lost.
Crash ==
  /\ crashes < MaxCrashes
  /\ crashes' = crashes + 1
  /\ pc' = [c \in Call |-> IF pc[c] \in {"idle"} \cup Ended THEN pc[c] ELSE "lost"]
  /\ sweep' = {}
  /\ UNCHANGED <<order, txStatus, dated, cache, lock, stale, row, said, refund>>

-----------------------------------------------------------------------------
ProcessStep(p) == ProcessStart(p) \/ ProcessRefused(p) \/ ProcessUpdate(p)
ProcessEnd(p) == ProcessCommit(p) \/ ProcessFails(p)
CallbackStep(b) == CallbackSettle(b) \/ CallbackThrows(b) \/ CallbackPrepare(b)
RequestStep(r) == RequestRefused(r) \/ RequestWrite(r)
CancelStep(k) ==
  CancelRefused(k) \/ CancelReject(k) \/ CancelUpdate(k) \/ CancelRefund(k)
CancelEnd(k) == CancelCommit(k) \/ CancelFails(k)

Environment ==
  \/ \E v \in View : Sweep(v) \/ Expire(v)
  \/ \E c \in Call : TransactionTimeout(c)
  \/ Crash

Next ==
  \/ \E c \in Reader : Find(c)
  \/ \E p \in Process : ProcessStep(p) \/ ProcessEnd(p)
  \/ \E b \in Callback : CallbackStart(b) \/ CallbackStep(b)
  \/ \E r \in Request : RequestStart(r) \/ RequestStep(r)
  \/ \E k \in Cancel : CancelStart(k) \/ CancelStep(k) \/ RefundAnswered(k) \/ CancelEnd(k)
  \/ Environment

Spec == Init /\ [][Next]_vars

\* The event loop runs every call whose awaited operation has answered.
\* Nothing makes GHN or VNPAY answer (the HTTP clients have no timeout):
\* ProcessStep and RefundAnswered are not fair, MongoDB's lifetime limit is.
\* A request that may be refused for its user is owed its write, so that it is
\* not answered in the model by a refusal while it waits.
Fairness ==
  /\ \A c \in Reader : WF_vars(Find(c))
  /\ \A p \in Process : WF_vars(ProcessEnd(p))
  /\ \A b \in Callback : WF_vars(CallbackStep(b))
  /\ \A r \in Request :
       /\ WF_vars(RequestRefused(r) /\ ~IsCanBeCanceledStatus(row[r].status))
       /\ WF_vars(RequestWrite(r))
  /\ \A k \in Cancel : WF_vars(CancelStep(k)) /\ WF_vars(CancelEnd(k))
  /\ \A c \in Call : WF_vars(TransactionTimeout(c))

FairSpec == Spec /\ Fairness

-----------------------------------------------------------------------------
(* Safety.                                                                 *)

\* Every variable stays in the domain its schema or the program gives it.
TypeOK ==
  /\ order \in Order
  /\ txStatus \in [Process -> TxStatus]
  /\ dated \subseteq Process
  /\ cache \in [View -> Row \cup {None}]
  /\ sweep \subseteq View
  /\ lock \in Process \cup Cancel \cup {None}
  /\ stale \subseteq Process
  /\ pc \in [Call -> PC]
  /\ row \in [Reader -> Row]
  /\ said \in [Callback -> Report \cup {None}]
  /\ refund \in [Cancel -> Tx]
  /\ crashes \in 0..MaxCrashes

\* A transaction is recorded as paid, or a failure was recorded over it.
Recorded(b) ==
  \/ txStatus[row[b].tx] = "SUCCESS"
  \/ \E f \in Callback : pc[f] = "done" /\ said[f] = "failed" /\ row[f].tx = row[b].tx

\* An order is PREPARING only if a callback said that it was paid and recorded
\* that, whichever transaction its cached order had and although the two
\* updates share no session (orderTransactionCallback).
PreparedIsRecorded ==
  order.status = "PREPARING" =>
    \E b \in Callback : said[b] = "paid" /\ row[b].tx # None /\ Recorded(b)

\* A canceled order has had a refund posted to VNPAY, whichever of its steps
\* failed, timed out or was cut by a crash (cancelOrder).
CanceledIsRefunded ==
  order.status = "CANCELED" => \E k \in Cancel : refund[k] # None

\* A refund is posted only for a transaction with a payDate, and its recorded
\* outcome is what a callback said that had read it as the order's transaction,
\* however old the copy of it that cancelOrder acts on (refundTransaction).
RefundIsOfSettled ==
  \A k \in Cancel : refund[k] # None =>
    /\ refund[k] \in dated
    /\ \E b \in Callback : row[b].tx = refund[k] /\ txStatus[refund[k]] = Outcome(b)

\* processOrder commits an amount computed from an order nobody has changed
\* since it was read (findById and update share a session).
AmountIsCurrent == lock \in Process => lock \notin stale

\* When a callback that said paid has finished, that is recorded, unless a
\* failure was recorded over it, and the order is no longer PENDING
\* (orderTransactionCallback).
PaymentRecorded ==
  \A b \in Callback : pc[b] = "done" /\ said[b] = "paid" =>
    order.status # "PENDING" /\ Recorded(b)

\* Whoever was given a payment URL has a committed transaction to pay for
\* (processOrder returns it after the commit), and the order never refers to
\* one that is not committed.
PayableIsCommitted ==
  /\ \A p \in Process : pc[p] = "done" => txStatus[p] # "NONE"
  /\ order.tx # None => txStatus[order.tx] # "NONE"

\* The outcome recorded for a transaction is final, although a callback may be
\* delivered again at any later time, unless two callbacks that say different
\* things settle the same transaction (orderTransactionCallback).
OutcomeIsFinal ==
  [][\A p \in Process :
       txStatus[p] \in Settled /\ txStatus'[p] # txStatus[p] =>
         \E b, f \in Callback : row[b].tx = p /\ row[f].tx = p /\ said[b] # said[f]]_vars

(* Refinement. *)

Ledger == INSTANCE OrderLedger WITH
  Tx <- Process, NoTx <- None, status <- order.status, current <- order.tx,
  record <- txStatus,
  reported <- {Outcome(b) : b \in {c \in Callback : pc[c] # "idle"}},
  refunded <- {refund[k] : k \in Cancel} \ {None}

\* Seen in the database, the concurrent calls with their caches, transactions,
\* failures and crashes behave like the atomic steps of the ledger.
ImplementsLedger == Ledger!LedgerSpec

(* Liveness. *)

\* Callbacks and cancel requests are answered, although their writes wait for
\* a cancelOrder or a processOrder whose partner may never answer.
WritersAnswered ==
  \A c \in Callback \cup Request : pc[c] = "lookup" ~> pc[c] \in Ended

-----------------------------------------------------------------------------
(* What the messages of the program say, which the code does not keep.     *)

\* ORDER_CANT_CANCEL: an order already handled, CANCELED included, is not
\* canceled, nor refunded, again.
CanceledNotRefundedAgain ==
  [][order.status = "CANCELED" => refund' = refund]_vars

=============================================================================
