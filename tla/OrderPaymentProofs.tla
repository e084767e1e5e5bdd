------------------------- MODULE OrderPaymentProofs -------------------------
(* Theorems about OrderPayment for every set of calls: payments, what       *)
(* callbacks leave behind, and the refinement of OrderLedger.               *)
EXTENDS OrderPayment, TLAPS

-----------------------------------------------------------------------------
(* Types.                                                                  *)

\* A call that populates has read an order with a transaction: this is what
\* makes the type of the rows inductive.
TypeInv ==
  /\ TypeOK
  /\ \A c \in Reader : pc[c] = "populate" => row[c].tx # None

\* Every reader looks the order up under one of the keys in use.
LEMMA ViewOfType == \A c \in Reader : ViewOf(c) \in View
  BY DEF View

\* Whether a transaction has a payDate is true or false.
LEMMA MembershipIsBoolean == \A x, S : (x \in S) \in BOOLEAN
  OBVIOUS

\* Every variable stays in its domain, whatever the numbers of calls and crashes.
THEOREM TypeCorrect == Spec => []TypeInv
<1>1. Init => TypeInv
  BY CallsAssumption, MaxCrashesAssumption
  DEF Init, TypeInv, TypeOK, Order, Status, Tx, TxStatus, Settled, Report, Row,
      Call, Reader, PC, Ended, BlankRow
<1>2. TypeInv /\ [Next]_vars => TypeInv'
  <2> SUFFICES ASSUME TypeInv, [Next]_vars PROVE TypeInv'
    OBVIOUS
  <2> USE CallsAssumption, MaxCrashesAssumption, ViewOfType
      DEF TypeInv, TypeOK, Call, Reader, Tx
  <2>1. ASSUME NEW c \in Reader, Lookup(c) PROVE TypeInv'
    BY <2>1 DEF Lookup, Goto, PC
  <2>2. ASSUME NEW c \in Reader, Query(c) PROVE TypeInv'
    BY <2>2 DEF Query, Goto, PC, Row, Order
  <2>3. ASSUME NEW c \in Reader, Populate(c) PROVE TypeInv'
    <3>1. (row[c].tx \in dated) \in BOOLEAN
      BY MembershipIsBoolean
    <3>2. row' \in [Reader -> Row] /\ \A d \in Reader : row'[d].tx = row[d].tx
      <4>1. PICK d \in BOOLEAN : d = (row[c].tx \in dated)
        BY <3>1
      <4>2. row' = [row EXCEPT ![c].payDate = d]
        BY <2>3, <4>1 DEF Populate
      <4> QED
        BY <4>2 DEF Row
    <3> QED
      BY <2>3, <3>2 DEF Populate, Goto, PC
  <2>4. ASSUME NEW c \in Reader, Fill(c) PROVE TypeInv'
    BY <2>4 DEF Fill, Goto, PC, Row
  <2>5. ASSUME NEW p \in Process, ProcessStep(p) PROVE TypeInv'
    BY <2>5 DEF ProcessStep, ProcessStart, ProcessRefused, ProcessUpdate, RefreshCache, Goto, PC, Ended
  <2>6. ASSUME NEW p \in Process, ProcessEnd(p) PROVE TypeInv'
    BY <2>6 DEF ProcessEnd, ProcessCommit, ProcessFails, ProcessWrites, CommitOrder, Goto, PC, Ended,
                Order, TxStatus
  <2>7. ASSUME NEW b \in Callback, CallbackStart(b) PROVE TypeInv'
    BY <2>7 DEF CallbackStart, Goto, PC
  <2>8. ASSUME NEW b \in Callback, CallbackStep(b) PROVE TypeInv'
    <3>1. CASE CallbackSettle(b)
      <4>1. Outcome(b) \in TxStatus
        BY DEF Outcome, TxStatus, Settled
      <4>2. row[b].tx \in Process
        BY <3>1 DEF CallbackSettle, Row
      <4>3. dated' \subseteq Process
        BY <3>1, <4>2 DEF CallbackSettle
      <4>4. pc' \in [Call -> PC] /\ \A c \in Reader : pc'[c] = "populate" => pc[c] = "populate"
        BY <3>1 DEF CallbackSettle, Goto, PC, Ended
      <4> QED
        BY <3>1, <4>1, <4>2, <4>3, <4>4 DEF CallbackSettle
    <3>2. CASE CallbackPrepare(b)
      BY <3>2 DEF CallbackPrepare, CommitOrder, RefreshCache, Goto, PC, Ended, Order, Status
    <3>3. CASE CallbackThrows(b)
      BY <3>3 DEF CallbackThrows, Goto, PC, Ended
    <3> QED
      BY <2>8, <3>1, <3>2, <3>3 DEF CallbackStep
  <2>9. ASSUME NEW r \in Request, RequestStart(r) \/ RequestStep(r) PROVE TypeInv'
    BY <2>9 DEF RequestStart, RequestStep, RequestRefused, RequestWrite, CommitOrder, RefreshCache,
                Goto, PC, Ended, Order, Status
  <2>10. ASSUME NEW k \in Cancel, CancelStart(k) \/ CancelStep(k) PROVE TypeInv'
    BY <2>10 DEF CancelStart, CancelStep, CancelRefused, CancelReject, CancelUpdate, CancelRefund,
                 RefundThrows, RefreshCache, Goto, PC, Ended, Row
  <2>11. ASSUME NEW k \in Cancel, RefundAnswered(k) \/ CancelEnd(k) PROVE TypeInv'
    BY <2>11 DEF RefundAnswered, CancelEnd, CancelCommit, CancelFails, CancelWrites, CommitOrder,
                 Release, Goto, PC, Ended, Order, Status
  <2>12. ASSUME Environment PROVE TypeInv'
    BY <2>12 DEF Environment, Sweep, Expire, TransactionTimeout, Crash, PC, Ended
  <2>13. CASE UNCHANGED vars
    BY <2>13 DEF vars
  <2> QED
    BY <2>1, <2>2, <2>3, <2>4, <2>5, <2>6, <2>7, <2>8, <2>9, <2>10, <2>11, <2>12, <2>13
    DEF Next, Find
<1> QED
  BY <1>1, <1>2, PTL DEF Spec

-----------------------------------------------------------------------------
(* Frames.                                                                 *)

\* A step of a cancelOrder moves no other call.
LEMMA CancelFrame ==
  ASSUME TypeInv, NEW k \in Cancel,
         CancelStart(k) \/ CancelStep(k) \/ RefundAnswered(k) \/ CancelEnd(k)
  PROVE  \A c \in Call \ {k} : pc'[c] = pc[c]
<1>1. \E label : pc' = [pc EXCEPT ![k] = label]
  <2>1. CASE CancelStart(k) \/ RefundAnswered(k) \/ CancelEnd(k)
    BY <2>1 DEF CancelStart, RefundAnswered, CancelEnd, CancelCommit, CancelFails, Goto
  <2>2. CASE CancelStep(k)
    BY <2>2 DEF CancelStep, CancelRefused, CancelReject, CancelUpdate, CancelRefund, RefundThrows, Goto
  <2> QED
    BY <2>1, <2>2
<1> QED
  BY <1>1 DEF TypeInv, TypeOK

\* Nor does a step of a processOrder.
LEMMA ProcessFrame ==
  ASSUME TypeInv, NEW p \in Process, ProcessStep(p) \/ ProcessEnd(p)
  PROVE  \A c \in Call \ {p} : pc'[c] = pc[c]
<1>1. \E label : pc' = [pc EXCEPT ![p] = label]
  BY DEF ProcessStep, ProcessStart, ProcessRefused, ProcessUpdate, ProcessEnd, ProcessCommit,
         ProcessFails, Goto
<1> QED
  BY <1>1 DEF TypeInv, TypeOK

\* Nor does a step of a callback.
LEMMA CallbackFrame ==
  ASSUME TypeInv, NEW b \in Callback,
         CallbackStart(b) \/ CallbackStep(b)
  PROVE  \A c \in Call \ {b} : pc'[c] = pc[c]
<1>1. \E label : pc' = [pc EXCEPT ![b] = label]
  BY DEF CallbackStep, CallbackSettle, CallbackThrows, CallbackPrepare, CallbackStart, Goto
<1> QED
  BY <1>1 DEF TypeInv, TypeOK

-----------------------------------------------------------------------------
(* The write lock.                                                         *)

\* A transaction that has written the order belongs to a call between its
\* update and its end, and a call that may still commit has one.
LockInv ==
  /\ \A p \in Process : pc[p] = "commit" => lock = p
  /\ \A k \in Cancel : pc[k] = "refund" => lock = k
  /\ \A c \in Call : lock = c => pc[c] \in {"commit", "refund", "posted", "lost"}

\* The transactions of processOrder and cancelOrder exclude each other.
LEMMA LockCorrect == Spec => []LockInv
<1>1. Init => LockInv
  BY CallsAssumption DEF Init, LockInv, Call, Reader
<1>2. TypeInv /\ LockInv /\ [Next]_vars => LockInv'
  <2> SUFFICES ASSUME TypeInv, LockInv, [Next]_vars PROVE LockInv'
    OBVIOUS
  <2> USE CallsAssumption DEF TypeInv, TypeOK, LockInv, Call, Reader
  <2>1. ASSUME NEW c \in Reader, Find(c) PROVE LockInv'
    BY <2>1 DEF Find, Lookup, Query, Populate, Fill, Goto
  <2>2. ASSUME NEW p \in Process, ProcessStep(p) \/ ProcessEnd(p) PROVE LockInv'
    BY <2>2 DEF ProcessStep, ProcessStart, ProcessRefused, ProcessUpdate, NoConflict,
                ProcessEnd, ProcessCommit, ProcessFails, ProcessWrites, Goto
  <2>3. ASSUME NEW b \in Callback, CallbackStart(b) \/ CallbackStep(b)
        PROVE LockInv'
    BY <2>3 DEF CallbackStep, CallbackSettle, CallbackThrows, CallbackPrepare, CallbackStart, Goto
  <2>4. ASSUME NEW r \in Request, RequestStart(r) \/ RequestStep(r) PROVE LockInv'
    BY <2>4 DEF RequestStart, RequestStep, RequestRefused, RequestWrite, Goto
  <2>5. ASSUME NEW k \in Cancel, CancelStart(k) \/ CancelStep(k) PROVE LockInv'
    <3>1. CASE CancelStart(k) \/ CancelRefused(k) \/ CancelReject(k)
      BY <3>1 DEF CancelStart, CancelRefused, CancelReject, Goto
    <3>2. CASE CancelUpdate(k)
      BY <3>2 DEF CancelUpdate, Goto
    <3>3. CASE CancelRefund(k)
      BY <3>3 DEF CancelRefund, RefundThrows, Goto
    <3> QED
      BY <2>5, <3>1, <3>2, <3>3 DEF CancelStep
  <2>6. ASSUME NEW k \in Cancel, RefundAnswered(k) \/ CancelEnd(k) PROVE LockInv'
    <3>1. CASE RefundAnswered(k)
      <4>1. PICK label \in {"commit", "failed"} :
              /\ pc' = [pc EXCEPT ![k] = label]
              /\ label = "commit" => lock' = lock
              /\ label = "failed" => lock' = IF lock = k THEN None ELSE lock
        BY <3>1 DEF RefundAnswered, Release, Goto
      <4>2. pc[k] = "posted"
        BY <3>1 DEF RefundAnswered
      <4> QED
        BY <4>1, <4>2
    <3>2. CASE CancelEnd(k)
      BY <3>2 DEF CancelEnd, CancelCommit, CancelFails, CancelWrites, Release, Goto
    <3> QED
      BY <2>6, <3>1, <3>2
  <2>7. ASSUME Environment PROVE LockInv'
    <3>1. CASE Crash
      BY <3>1 DEF Crash, Ended
    <3>2. CASE \E c \in Call : TransactionTimeout(c)
      BY <3>2 DEF TransactionTimeout
    <3>3. CASE UNCHANGED <<pc, lock>>
      BY <3>3
    <3> QED
      BY <2>7, <3>1, <3>2, <3>3 DEF Environment, Sweep, Expire
  <2>8. CASE UNCHANGED vars
    BY <2>8 DEF vars
  <2> QED
    BY <2>1, <2>2, <2>3, <2>4, <2>5, <2>6, <2>7, <2>8 DEF Next
<1> QED
  BY <1>1, <1>2, TypeCorrect, PTL DEF Spec

-----------------------------------------------------------------------------
(* Nothing uncommitted is ever read or answered.                           *)

\* A processOrder that has not ended has no transaction document; every
\* transaction somebody has read or was told to pay is committed.
CommittedInv ==
  /\ \A p \in Process :
       pc[p] \in {"idle", "fee", "commit"} => txStatus[p] = "NONE"
  /\ PayableIsCommitted
  /\ \A c \in Reader : row[c].tx # None => txStatus[row[c].tx] # "NONE"
  /\ \A v \in View : cache[v] # None /\ cache[v].tx # None => txStatus[cache[v].tx] # "NONE"

\* Nobody is told to pay for, and nothing refers to, a transaction that is not
\* committed, whatever fails or crashes (processOrder).
THEOREM CommittedCorrect == Spec => []CommittedInv
<1>1. Init => CommittedInv
  BY CallsAssumption DEF Init, CommittedInv, PayableIsCommitted, BlankRow, Call, Reader
<1>2. TypeInv /\ CommittedInv /\ [Next]_vars => CommittedInv'
  <2> SUFFICES ASSUME TypeInv, CommittedInv, [Next]_vars PROVE CommittedInv'
    OBVIOUS
  <2> USE CallsAssumption, ViewOfType
      DEF TypeInv, TypeOK, CommittedInv, PayableIsCommitted, Call, Reader, Tx
  <2>1. ASSUME NEW c \in Reader, Lookup(c) PROVE CommittedInv'
    BY <2>1 DEF Lookup, Goto
  <2>2. ASSUME NEW c \in Reader, Query(c) PROVE CommittedInv'
    BY <2>2 DEF Query, Goto
  <2>3. ASSUME NEW c \in Reader, Populate(c) PROVE CommittedInv'
    <3>1. /\ \A d \in Reader : row'[d].tx = row[d].tx
          /\ UNCHANGED <<order, txStatus, cache>>
          /\ \A p \in Process : pc'[p] = pc[p]
      BY <2>3 DEF Populate, Goto, Row
    <3> QED
      BY <3>1
  <2>4. ASSUME NEW c \in Reader, Fill(c) PROVE CommittedInv'
    BY <2>4 DEF Fill, Goto
  <2>5. ASSUME NEW p \in Process, ProcessStep(p) PROVE CommittedInv'
    BY <2>5 DEF ProcessStep, ProcessStart, ProcessRefused, ProcessUpdate, Goto
  <2>6. ASSUME NEW p \in Process, ProcessEnd(p) PROVE CommittedInv'
    <3>1. CASE ProcessCommit(p)
      BY <3>1 DEF ProcessCommit, ProcessWrites, CommitOrder, Goto, Order, Row
    <3>2. CASE ProcessFails(p)
      BY <3>2 DEF ProcessFails, ProcessWrites, CommitOrder, Goto, Order, Row
    <3> QED
      BY <2>6, <3>1, <3>2 DEF ProcessEnd
  <2>7. ASSUME NEW b \in Callback, CallbackStart(b) PROVE CommittedInv'
    BY <2>7 DEF CallbackStart, Goto
  <2>8. ASSUME NEW b \in Callback, CallbackStep(b) PROVE CommittedInv'
    <3>1. CASE CallbackSettle(b)
      BY <3>1 DEF CallbackSettle, Outcome, Goto, Row, Order
    <3>2. CASE CallbackPrepare(b)
      BY <3>2 DEF CallbackPrepare, CommitOrder, Goto, Order
    <3>3. CASE CallbackThrows(b)
      BY <3>3 DEF CallbackThrows, Goto
    <3> QED
      BY <2>8, <3>1, <3>2, <3>3 DEF CallbackStep
  <2>9. ASSUME NEW r \in Request, RequestStart(r) \/ RequestStep(r) PROVE CommittedInv'
    BY <2>9 DEF RequestStart, RequestStep, RequestRefused, RequestWrite, CommitOrder, Goto, Order
  <2>10. ASSUME NEW k \in Cancel, CancelStart(k) \/ CancelStep(k) PROVE CommittedInv'
    BY <2>10 DEF CancelStart, CancelStep, CancelRefused, CancelReject, CancelUpdate, CancelRefund,
                 RefundThrows, Goto
  <2>11. ASSUME NEW k \in Cancel, RefundAnswered(k) \/ CancelEnd(k) PROVE CommittedInv'
    <3>1. order'.tx = order.tx /\ UNCHANGED <<txStatus, row, cache>>
      BY <2>11 DEF RefundAnswered, CancelEnd, CancelCommit, CancelFails, CancelWrites, CommitOrder, Order
    <3>2. \A p \in Process : pc'[p] = pc[p]
      BY <2>11, CancelFrame
    <3> QED
      BY <3>1, <3>2
  <2>12. ASSUME Environment PROVE CommittedInv'
    <3>2. ASSUME NEW v \in View, Sweep(v) \/ Expire(v) PROVE CommittedInv'
      BY <3>2 DEF Sweep, Expire
    <3>3. ASSUME NEW c \in Call, TransactionTimeout(c) PROVE CommittedInv'
      BY <3>3 DEF TransactionTimeout
    <3>4. CASE Crash
      BY <3>4 DEF Crash
    <3> QED
      BY <2>12, <3>2, <3>3, <3>4 DEF Environment
  <2>13. CASE UNCHANGED vars
    BY <2>13 DEF vars
  <2> QED
    BY <2>1, <2>2, <2>3, <2>4, <2>5, <2>6, <2>7, <2>8, <2>9, <2>10, <2>11, <2>12, <2>13
    DEF Next, Find
<1> QED
  BY <1>1, <1>2, TypeCorrect, PTL DEF Spec

-----------------------------------------------------------------------------
(* Refunds and cancellations.                                              *)

\* A transaction with a payDate has a recorded outcome; a payDate somebody has
\* read, or has posted a refund for, stays; a cancelOrder waiting for VNPAY or
\* about to commit has posted one.
RefundInv ==
  /\ \A p \in dated : txStatus[p] \in Settled
  /\ \A c \in Reader : row[c].payDate => row[c].tx \in dated
  /\ \A v \in View : cache[v] # None /\ cache[v].payDate => cache[v].tx \in dated
  /\ \A k \in Cancel : refund[k] # None => refund[k] \in dated
  /\ \A k \in Cancel : pc[k] \in {"posted", "commit"} => refund[k] # None
  /\ CanceledIsRefunded

\* A recorded outcome may be overwritten by the other one, but not unset.
LEMMA SettledStays ==
  ASSUME TypeInv, CommittedInv, [Next]_vars
  PROVE  \A t \in Process : txStatus[t] \in Settled => txStatus'[t] \in Settled
<1> USE DEF TypeInv, TypeOK, CommittedInv, Settled
<1>1. ASSUME NEW p \in Process, ProcessCommit(p) \/ ProcessFails(p)
      PROVE \A t \in Process : txStatus[t] \in Settled => txStatus'[t] \in Settled
  BY <1>1 DEF ProcessCommit, ProcessFails, ProcessWrites
<1>2. ASSUME NEW b \in Callback, CallbackSettle(b)
      PROVE \A t \in Process : txStatus[t] \in Settled => txStatus'[t] \in Settled
  BY <1>2 DEF CallbackSettle, Outcome
<1>3. ASSUME NEW c \in Reader, Find(c) PROVE UNCHANGED txStatus
  BY <1>3 DEF Find, Lookup, Query, Populate, Fill
<1>4. ASSUME NEW p \in Process, ProcessStep(p) PROVE UNCHANGED txStatus
  BY <1>4 DEF ProcessStep, ProcessStart, ProcessRefused, ProcessUpdate
<1>5. ASSUME NEW b \in Callback, CallbackStart(b) \/ CallbackThrows(b) \/ CallbackPrepare(b)
      PROVE UNCHANGED txStatus
  BY <1>5 DEF CallbackThrows, CallbackPrepare, CallbackStart
<1>6. ASSUME NEW r \in Request, RequestStart(r) \/ RequestStep(r) PROVE UNCHANGED txStatus
  BY <1>6 DEF RequestStart, RequestStep, RequestRefused, RequestWrite
<1>7. ASSUME NEW k \in Cancel, CancelStart(k) \/ CancelStep(k) PROVE UNCHANGED txStatus
  BY <1>7 DEF CancelStart, CancelStep, CancelRefused, CancelReject, CancelUpdate, CancelRefund
<1>8. ASSUME NEW k \in Cancel, RefundAnswered(k) \/ CancelEnd(k) PROVE UNCHANGED txStatus
  BY <1>8 DEF RefundAnswered, CancelEnd, CancelCommit, CancelFails
<1>9. ASSUME Environment PROVE UNCHANGED txStatus
  BY <1>9 DEF Environment, Sweep, Expire, TransactionTimeout, Crash
<1>10. CASE UNCHANGED vars
  BY <1>10 DEF vars
<1> QED
  BY <1>1, <1>2, <1>3, <1>4, <1>5, <1>6, <1>7, <1>8, <1>9, <1>10
  DEF Next, ProcessEnd, CallbackStep

\* Refunds concern settled transactions and a canceled order has had one
\* posted, whatever failed, timed out or crashed in between (cancelOrder).
THEOREM RefundCorrect == Spec => []RefundInv
<1>1. Init => RefundInv
  BY CallsAssumption DEF Init, RefundInv, CanceledIsRefunded, BlankRow, Call, Reader
<1>2. TypeInv /\ CommittedInv /\ RefundInv /\ [Next]_vars => RefundInv'
  <2> SUFFICES ASSUME TypeInv, CommittedInv, RefundInv, [Next]_vars PROVE RefundInv'
    OBVIOUS
  <2>1. \A t \in Process : txStatus[t] \in Settled => txStatus'[t] \in Settled
    BY SettledStays
  <2> USE <2>1, CallsAssumption, ViewOfType
      DEF TypeInv, TypeOK, RefundInv, CanceledIsRefunded, Call, Reader, Tx
  <2>2. ASSUME NEW c \in Reader, Find(c) PROVE RefundInv'
    <3>1. CASE Lookup(c)
      BY <3>1 DEF Lookup, Goto, Row
    <3>2. CASE Query(c)
      BY <3>2 DEF Query, Goto, Row, Order
    <3>3. CASE Populate(c)
      <4>1. /\ row'[c].tx = row[c].tx /\ row'[c].payDate = (row[c].tx \in dated)
            /\ \A d \in Reader \ {c} : row'[d] = row[d]
        BY <3>3 DEF Populate, Row
      <4>2. UNCHANGED <<txStatus, dated, cache, refund, order>>
        BY <3>3 DEF Populate
      <4>3. \A k \in Cancel : pc'[k] \in {"posted", "commit"} => pc[k] \in {"posted", "commit"}
        BY <3>3 DEF Populate, Goto
      <4> QED
        BY <4>1, <4>2, <4>3
    <3>4. CASE Fill(c)
      BY <3>4 DEF Fill, Goto, Row
    <3> QED
      BY <2>2, <3>1, <3>2, <3>3, <3>4 DEF Find
  <2>3. ASSUME NEW k \in Cancel, CancelRefund(k) PROVE RefundInv'
    <3>1. CASE Refundable(k)
      <4>1. row[k].tx \in dated /\ row[k].tx \in Process
        BY <3>1 DEF Refundable
      <4>2. /\ refund' = [refund EXCEPT ![k] = row[k].tx]
            /\ pc' = [pc EXCEPT ![k] = "posted"]
            /\ UNCHANGED <<order, txStatus, dated, cache, row>>
        BY <2>3, <3>1 DEF CancelRefund, Goto
      <4> QED
        BY <4>1, <4>2
    <3>2. CASE ~Refundable(k)
      BY <2>3, <3>2 DEF CancelRefund, RefundThrows, Goto
    <3> QED
      BY <3>1, <3>2
  <2>4. ASSUME NEW k \in Cancel, RefundAnswered(k) PROVE RefundInv'
    BY <2>4 DEF RefundAnswered, Goto
  <2>5. ASSUME NEW k \in Cancel, CancelEnd(k) PROVE RefundInv'
    <3>1. refund[k] # None
      BY <2>5 DEF CancelEnd, CancelCommit, CancelFails
    <3>2. UNCHANGED <<txStatus, dated, cache, row, refund>>
      BY <2>5 DEF CancelEnd, CancelCommit, CancelFails
    <3>3. \A j \in Cancel : pc'[j] \in {"posted", "commit"} => pc[j] \in {"posted", "commit"}
      BY <2>5 DEF CancelEnd, CancelCommit, CancelFails, Goto
    <3> QED
      BY <3>1, <3>2, <3>3
  <2>6. ASSUME NEW k \in Cancel,
               CancelStart(k) \/ CancelRefused(k) \/ CancelReject(k) \/ CancelUpdate(k)
        PROVE RefundInv'
    BY <2>6 DEF CancelStart, CancelRefused, CancelReject, CancelUpdate, Goto
  <2>7. ASSUME NEW p \in Process, ProcessStep(p) \/ ProcessEnd(p) PROVE RefundInv'
    <3>1. order'.status = order.status /\ UNCHANGED <<dated, cache, row, refund>>
      BY <2>7 DEF ProcessStep, ProcessStart, ProcessRefused, ProcessUpdate, ProcessEnd,
                  ProcessCommit, ProcessFails, ProcessWrites, CommitOrder, Order
    <3>2. \A k \in Cancel : pc'[k] = pc[k]
      BY <2>7, ProcessFrame
    <3> QED
      BY <3>1, <3>2
  <2>8. ASSUME NEW b \in Callback, CallbackStart(b) \/ CallbackStep(b) PROVE RefundInv'
    <3>1. /\ order'.status = "CANCELED" => order.status = "CANCELED"
          /\ UNCHANGED <<cache, row, refund>>
      BY <2>8 DEF CallbackStep, CallbackSettle, CallbackThrows, CallbackPrepare, CallbackStart,
                  CommitOrder, Order
    <3>2. \A k \in Cancel : pc'[k] = pc[k]
      BY <2>8, CallbackFrame
    <3>3. dated \subseteq dated' /\ \A p \in dated' : txStatus'[p] \in Settled
      <4>1. CASE CallbackSettle(b)
        <5>1. row[b].tx \in Process /\ txStatus' = [txStatus EXCEPT ![row[b].tx] = Outcome(b)]
          BY <4>1 DEF CallbackSettle, Row
        <5>2. dated' = dated \/ dated' = dated \cup {row[b].tx}
          BY <4>1 DEF CallbackSettle
        <5>3. Outcome(b) \in Settled
          BY DEF Outcome, Settled
        <5> QED
          BY <5>1, <5>2, <5>3
      <4>2. CASE UNCHANGED dated
        BY <4>2
      <4> QED
        BY <2>8, <4>1, <4>2 DEF CallbackStep, CallbackThrows, CallbackPrepare, CallbackStart
    <3> QED
      BY <3>1, <3>2, <3>3
  <2>9. ASSUME NEW r \in Request, RequestStart(r) \/ RequestStep(r) PROVE RefundInv'
    BY <2>9 DEF RequestStart, RequestStep, RequestRefused, RequestWrite, CommitOrder, Goto, Order
  <2>10. ASSUME Environment PROVE RefundInv'
    <3>1. UNCHANGED <<order, txStatus, dated, row, refund>>
      BY <2>10 DEF Environment, Sweep, Expire, TransactionTimeout, Crash
    <3>2. \A v \in View : cache'[v] \in {cache[v], None}
      BY <2>10 DEF Environment, Sweep, Expire, TransactionTimeout, Crash
    <3>3. \A k \in Cancel : pc'[k] \in {pc[k], "lost"}
      BY <2>10 DEF Environment, Sweep, Expire, TransactionTimeout, Crash
    <3> QED
      BY <3>1, <3>2, <3>3
  <2>11. CASE UNCHANGED vars
    BY <2>11 DEF vars
  <2> QED
    BY <2>2, <2>3, <2>4, <2>5, <2>6, <2>7, <2>8, <2>9, <2>10, <2>11 DEF Next, CancelStep
<1> QED
  BY <1>1, <1>2, TypeCorrect, CommittedCorrect, PTL DEF Spec

-----------------------------------------------------------------------------
(* The properties the runs check, for every set of calls.                  *)

\* Every variable stays in its domain.
THEOREM TypeSafe == Spec => []TypeOK
<1>1. TypeInv => TypeOK
  BY DEF TypeInv
<1> QED
  BY <1>1, TypeCorrect, PTL

\* Nobody is told to pay for a transaction that is not committed (processOrder).
THEOREM PayableTransactionsAreCommitted == Spec => []PayableIsCommitted
<1>1. CommittedInv => PayableIsCommitted
  BY DEF CommittedInv
<1> QED
  BY <1>1, CommittedCorrect, PTL

\* A canceled order has had a refund posted (cancelOrder).
THEOREM CanceledOrdersAreRefunded == Spec => []CanceledIsRefunded
<1>1. RefundInv => CanceledIsRefunded
  BY DEF RefundInv
<1> QED
  BY <1>1, RefundCorrect, PTL

\* The amount of a transaction about to commit was computed from an order that
\* nobody has changed since (processOrder).
THEOREM AmountsAreCurrent == Spec => []AmountIsCurrent
<1>1. Init => AmountIsCurrent
  BY DEF Init, AmountIsCurrent
<1>2. TypeInv /\ LockInv /\ AmountIsCurrent /\ [Next]_vars => AmountIsCurrent'
  <2> SUFFICES ASSUME TypeInv, LockInv, AmountIsCurrent, [Next]_vars PROVE AmountIsCurrent'
    OBVIOUS
  <2> USE CallsAssumption DEF LockInv, AmountIsCurrent, Call, Reader
  <2>1. ASSUME NEW c \in Reader, Find(c) PROVE AmountIsCurrent'
    BY <2>1 DEF Find, Lookup, Query, Populate, Fill
  <2>2. ASSUME NEW p \in Process, ProcessStep(p) PROVE AmountIsCurrent'
    BY <2>2 DEF ProcessStep, ProcessStart, ProcessRefused, ProcessUpdate, NoConflict
  <2>3. ASSUME NEW p \in Process, ProcessEnd(p) PROVE AmountIsCurrent'
    BY <2>3 DEF ProcessEnd, ProcessCommit, ProcessFails, ProcessWrites
  <2>4. ASSUME NEW b \in Callback, CallbackStart(b) \/ CallbackStep(b)
        PROVE AmountIsCurrent'
    BY <2>4 DEF CallbackStep, CallbackSettle, CallbackThrows, CallbackPrepare, CallbackStart, CommitOrder
  <2>5. ASSUME NEW r \in Request, RequestStart(r) \/ RequestStep(r) PROVE AmountIsCurrent'
    BY <2>5 DEF RequestStart, RequestStep, RequestRefused, RequestWrite, CommitOrder
  <2>6. ASSUME NEW k \in Cancel, CancelStart(k) \/ CancelStep(k) \/ RefundAnswered(k)
        PROVE AmountIsCurrent'
    <3>1. UNCHANGED stale
      BY <2>6 DEF CancelStart, CancelStep, CancelRefused, CancelReject, CancelUpdate, CancelRefund,
                  RefundAnswered
    <3>2. lock' \in {lock, k, None}
      BY <2>6 DEF CancelStart, CancelStep, CancelRefused, CancelReject, CancelUpdate, CancelRefund,
                  RefundThrows, RefundAnswered, Release
    <3> QED
      BY <3>1, <3>2
  <2>7. ASSUME NEW k \in Cancel, CancelEnd(k) PROVE AmountIsCurrent'
    BY <2>7 DEF CancelEnd, CancelCommit, CancelFails, CancelWrites, Release
  <2>8. ASSUME Environment PROVE AmountIsCurrent'
    BY <2>8 DEF Environment, Sweep, Expire, TransactionTimeout, Crash
  <2>9. CASE UNCHANGED vars
    BY <2>9 DEF vars
  <2> QED
    BY <2>1, <2>2, <2>3, <2>4, <2>5, <2>6, <2>7, <2>8, <2>9 DEF Next
<1> QED
  BY <1>1, <1>2, TypeCorrect, LockCorrect, PTL DEF Spec

-----------------------------------------------------------------------------
(* What a step does that is not a callback's.                              *)

\* Callbacks keep what they have read and say; a transaction document only
\* appears; the order becomes neither PENDING nor PREPARING.
Quiet ==
  /\ UNCHANGED said
  /\ \A b \in Callback :
       /\ row'[b] = row[b]
       /\ \/ pc'[b] = pc[b]
          \/ pc[b] \notin {"idle"} \cup Ended /\ pc'[b] = "lost"
  /\ \A p \in Process :
       \/ txStatus'[p] = txStatus[p]
       \/ txStatus[p] = "NONE" /\ txStatus'[p] = "PENDING"
  /\ order'.status = order.status \/ order'.status \notin {"PENDING", "PREPARING"}

\* Only the step of a callback is not quiet.
LEMMA QuietSteps ==
  ASSUME TypeInv, CommittedInv, [Next]_vars
  PROVE  \/ Quiet
         \/ \E b \in Callback : CallbackStart(b) \/ Find(b) \/ CallbackStep(b)
<1> USE CallsAssumption DEF TypeInv, TypeOK, Quiet, Call, Reader
<1>1. ASSUME NEW c \in Request \cup Cancel, Find(c) PROVE Quiet
  <2>1. UNCHANGED <<said, txStatus, order>>
    BY <1>1 DEF Find, Lookup, Query, Populate, Fill
  <2>2. \A b \in Callback : row'[b] = row[b] /\ pc'[b] = pc[b]
    BY <1>1 DEF Find, Lookup, Query, Populate, Fill, Goto
  <2> QED
    BY <2>1, <2>2
<1>2. ASSUME NEW p \in Process, ProcessStep(p) \/ ProcessFails(p) \/ ProcessCommit(p) PROVE Quiet
  <2>1. UNCHANGED <<said, row>> /\ order'.status = order.status
    BY <1>2 DEF ProcessStep, ProcessStart, ProcessRefused, ProcessUpdate, ProcessCommit,
                ProcessFails, ProcessWrites, CommitOrder, Order
  <2>2. \A b \in Callback : pc'[b] = pc[b]
    BY <1>2, ProcessFrame DEF ProcessEnd
  <2>3. \/ UNCHANGED txStatus
        \/ txStatus[p] = "NONE" /\ txStatus' = [txStatus EXCEPT ![p] = "PENDING"]
    BY <1>2 DEF ProcessStep, ProcessStart, ProcessRefused, ProcessUpdate, ProcessCommit,
                ProcessFails, ProcessWrites, CommittedInv
  <2> QED
    BY <2>1, <2>2, <2>3
<1>3. ASSUME NEW r \in Request, RequestStart(r) \/ RequestStep(r) PROVE Quiet
  BY <1>3 DEF RequestStart, RequestStep, RequestRefused, RequestWrite, CommitOrder, Goto, Order
<1>4. ASSUME NEW k \in Cancel, CancelStart(k) \/ CancelStep(k) \/ RefundAnswered(k) \/ CancelEnd(k)
      PROVE Quiet
  <2>1. UNCHANGED <<said, row, txStatus>>
    BY <1>4 DEF CancelStart, CancelStep, CancelRefused, CancelReject, CancelUpdate, CancelRefund,
                RefundAnswered, CancelEnd, CancelCommit, CancelFails
  <2>2. UNCHANGED order \/ order' = [order EXCEPT !.status = "CANCELED"]
    BY <1>4 DEF CancelStart, CancelStep, CancelRefused, CancelReject, CancelUpdate, CancelRefund,
                RefundAnswered, CancelEnd, CancelCommit, CancelFails, CancelWrites, CommitOrder
  <2>3. \A b \in Callback : pc'[b] = pc[b]
    BY <1>4, CancelFrame
  <2> QED
    BY <2>1, <2>2, <2>3 DEF Order
<1>5. ASSUME Environment PROVE Quiet
  <2>1. UNCHANGED <<said, row, txStatus, order>>
    BY <1>5 DEF Environment, Sweep, Expire, TransactionTimeout, Crash
  <2>2. \A b \in Callback :
          \/ pc'[b] = pc[b]
          \/ pc[b] \notin {"idle"} \cup Ended /\ pc'[b] = "lost"
    BY <1>5 DEF Environment, Sweep, Expire, TransactionTimeout, Crash
  <2> QED
    BY <2>1, <2>2
<1>6. CASE UNCHANGED vars
  BY <1>6 DEF vars
<1> QED
  BY <1>1, <1>2, <1>3, <1>4, <1>5, <1>6 DEF Next, ProcessEnd

-----------------------------------------------------------------------------
(* What callbacks leave behind.                                            *)

\* A callback that has begun says something, and one that has yet to prepare
\* the order says paid; one that has settled its transaction has left an
\* outcome; only a callback that has finished has prepared the order; a
\* recorded outcome is that of a callback which has settled the transaction.
SettlementInv ==
  /\ \A b \in Callback : pc[b] # "idle" => said[b] \in Report
  /\ \A b \in Callback : pc[b] = "settled" => said[b] = "paid"
  /\ \A b \in Callback : pc[b] \in {"settled", "done"} =>
       row[b].tx # None /\ txStatus[row[b].tx] \in Settled
  /\ \A b \in Callback : pc[b] \in {"settled", "done"} /\ said[b] = "paid" => Recorded(b)
  /\ \A b \in Callback : pc[b] = "done" /\ said[b] = "paid" => order.status # "PENDING"
  /\ order.status = "PREPARING" => \E b \in Callback : pc[b] = "done" /\ said[b] = "paid"
  /\ \A p \in Process : txStatus[p] \in Settled =>
       \E b \in Callback : /\ pc[b] \in {"settled", "done", "lost"}
                           /\ row[b].tx = p
                           /\ txStatus[p] = Outcome(b)

\* Callbacks leave what they said, in the transaction before the order.
THEOREM SettlementCorrect == Spec => []SettlementInv
<1>1. Init => SettlementInv
  BY CallsAssumption DEF Init, SettlementInv, Settled, Call, Reader
<1>2. TypeInv /\ CommittedInv /\ SettlementInv /\ [Next]_vars => SettlementInv'
  <2> SUFFICES ASSUME TypeInv, CommittedInv, SettlementInv, [Next]_vars
               PROVE  SettlementInv'
    OBVIOUS
  <2>1. CASE Quiet
    <3> USE <2>1 DEF TypeInv, TypeOK, SettlementInv, Quiet
    <3>1. \A b \in Callback : /\ pc'[b] \in {"settled", "done"} => pc'[b] = pc[b]
                              /\ pc[b] \in {"settled", "done"} => pc'[b] \in {pc[b], "lost"}
                              /\ pc[b] \in {"done", "lost"} => pc'[b] = pc[b]
                              /\ pc'[b] = "idle" <=> pc[b] = "idle"
      BY DEF Ended
    <3>2. \A b \in Callback : row'[b] = row[b] /\ said'[b] = said[b] /\ Outcome(b)' = Outcome(b)
      BY DEF Outcome, Success
    <3>3. \A p \in Process : /\ txStatus[p] \in Settled => txStatus'[p] = txStatus[p]
                             /\ txStatus'[p] \in Settled => txStatus'[p] = txStatus[p]
      BY DEF Settled
    <3>4. \A b \in Callback : pc[b] \in {"settled", "done"} => row[b].tx \in Process
      BY DEF Row, Tx, Reader
    <3>5. \A b \in Callback : pc'[b] \in {"settled", "done"} /\ said'[b] = "paid" => Recorded(b)'
      <4> SUFFICES ASSUME NEW b \in Callback, pc'[b] \in {"settled", "done"}, said'[b] = "paid"
                   PROVE  Recorded(b)'
        OBVIOUS
      <4>1. pc[b] = pc'[b] /\ Recorded(b)
        BY <3>1, <3>2
      <4>2. CASE txStatus[row[b].tx] = "SUCCESS"
        BY <4>1, <4>2, <3>2, <3>3, <3>4 DEF Recorded, Settled
      <4>3. ASSUME NEW f \in Callback, pc[f] = "done", said[f] = "failed", row[f].tx = row[b].tx
            PROVE  Recorded(b)'
        BY <4>3, <3>1, <3>2 DEF Recorded
      <4> QED
        BY <4>1, <4>2, <4>3 DEF Recorded
    <3>6. \A p \in Process : txStatus'[p] \in Settled =>
            \E b \in Callback : /\ pc'[b] \in {"settled", "done", "lost"}
                                /\ row'[b].tx = p
                                /\ txStatus'[p] = Outcome(b)'
      <4> SUFFICES ASSUME NEW p \in Process, txStatus'[p] \in Settled
                   PROVE  \E b \in Callback : /\ pc'[b] \in {"settled", "done", "lost"}
                                              /\ row'[b].tx = p
                                              /\ txStatus'[p] = Outcome(b)'
        OBVIOUS
      <4>1. txStatus'[p] = txStatus[p]
        BY <3>3
      <4>2. PICK b \in Callback : /\ pc[b] \in {"settled", "done", "lost"}
                                  /\ row[b].tx = p
                                  /\ txStatus[p] = Outcome(b)
        BY <4>1
      <4> QED
        BY <4>1, <4>2, <3>1, <3>2
    <3>7. \A b \in Callback : pc'[b] \in {"settled", "done"} =>
            row'[b].tx # None /\ txStatus'[row'[b].tx] \in Settled
      BY <3>1, <3>2, <3>3, <3>4
    <3>8. \A b \in Callback : pc'[b] = "done" /\ said'[b] = "paid" => order'.status # "PENDING"
      BY <3>1, <3>2
    <3>9. order'.status = "PREPARING" => \E b \in Callback : pc'[b] = "done" /\ said'[b] = "paid"
      BY <3>1, <3>2
    <3>10. \A b \in Callback : /\ pc'[b] # "idle" => said'[b] \in Report
                               /\ pc'[b] = "settled" => said'[b] = "paid"
      BY <3>1, <3>2
    <3> QED
      BY <3>5, <3>6, <3>7, <3>8, <3>9, <3>10
  <2>2. ASSUME NEW b \in Callback,
               UNCHANGED <<order, txStatus>>,
               \A c \in Callback \ {b} : pc'[c] = pc[c] /\ row'[c] = row[c] /\ said'[c] = said[c],
               said'[b] \in Report,
               pc[b] \notin {"settled", "done", "lost"},
               pc'[b] \notin {"settled", "done", "lost"}
        PROVE  SettlementInv'
    <3> USE <2>2 DEF SettlementInv
    <3>1. \A c \in Callback \ {b} : Outcome(c)' = Outcome(c)
      BY DEF Success, Outcome
    <3>2. \A c \in Callback \ {b} : Recorded(c) => Recorded(c)'
      BY DEF Recorded
    <3>3. \A p \in Process : txStatus'[p] \in Settled =>
            \E c \in Callback : /\ pc'[c] \in {"settled", "done", "lost"}
                                /\ row'[c].tx = p
                                /\ txStatus'[p] = Outcome(c)'
      BY <3>1
    <3> QED
      BY <3>2, <3>3
  <2>3. ASSUME NEW b \in Callback, CallbackStart(b) PROVE SettlementInv'
    <3>1. \A c \in Call \ {b} : pc'[c] = pc[c]
      BY <2>3, CallbackFrame
    <3>2. pc[b] = "idle" /\ pc'[b] = "lookup" /\ UNCHANGED <<order, txStatus, row>>
      BY <2>3 DEF CallbackStart, Goto, TypeInv, TypeOK, Call, Reader
    <3>3. said'[b] \in Report /\ \A c \in Callback \ {b} : said'[c] = said[c]
      BY <2>3 DEF CallbackStart, TypeInv, TypeOK
    <3> QED
      BY <2>2, <3>1, <3>2, <3>3 DEF Call, Reader
  <2>4. ASSUME NEW b \in Callback, Find(b) \/ CallbackThrows(b) PROVE SettlementInv'
    <3> USE DEF TypeInv, TypeOK, Call, Reader
    <3>1. pc[b] \in {"lookup", "query", "populate", "fill", "act"}
      BY <2>4 DEF Find, Lookup, Query, Populate, Fill, CallbackThrows
    <3>2. /\ UNCHANGED <<order, txStatus, said>>
          /\ \A c \in Callback \ {b} : pc'[c] = pc[c] /\ row'[c] = row[c]
          /\ pc'[b] \in {"query", "populate", "fill", "act", "failed"}
      BY <2>4 DEF Find, Lookup, Query, Populate, Fill, CallbackThrows, Goto
    <3>3. said'[b] \in Report
      BY <3>1, <3>2 DEF SettlementInv
    <3> QED
      BY <2>2, <3>1, <3>2, <3>3
  <2>5. ASSUME NEW b \in Callback, CallbackSettle(b) PROVE SettlementInv'
    <3> USE DEF TypeInv, TypeOK, SettlementInv, Call, Reader
    <3>1. /\ pc[b] = "act" /\ row[b].tx \in Process /\ row[b].tx # None
          /\ txStatus' = [txStatus EXCEPT ![row[b].tx] = Outcome(b)]
          /\ UNCHANGED <<order, row, said>>
      BY <2>5 DEF CallbackSettle, Row, Tx
    <3>2. /\ pc'[b] = IF Success(b) THEN "settled" ELSE "done"
          /\ \A c \in Callback \ {b} : pc'[c] = pc[c]
      BY <2>5 DEF CallbackSettle, Goto
    <3>3. \A c \in Callback : Outcome(c)' = Outcome(c)
      BY <3>1 DEF Success, Outcome
    <3>4. \A c \in Callback : pc'[c] \in {"settled", "done"} => row[c].tx \in Process
      BY <3>1, <3>2 DEF Row, Tx
    <3>5. \/ said[b] = "paid" /\ Success(b) /\ Outcome(b) = "SUCCESS"
          \/ said[b] = "failed" /\ ~Success(b) /\ Outcome(b) = "FAIL"
      BY <3>1 DEF Outcome, Success, Report
    <3>6. \A c \in Callback : pc'[c] \in {"settled", "done"} /\ said'[c] = "paid" => Recorded(c)'
      <4> SUFFICES ASSUME NEW c \in Callback, pc'[c] \in {"settled", "done"}, said[c] = "paid"
                   PROVE  Recorded(c)'
        BY <3>1
      <4>1. CASE row[c].tx = row[b].tx
        BY <3>1, <3>2, <3>5, <4>1 DEF Recorded
      <4>2. CASE row[c].tx # row[b].tx
        BY <3>1, <3>2, <3>4, <4>2 DEF Recorded
      <4> QED
        BY <4>1, <4>2
    <3>7. \A c \in Callback : pc'[c] \in {"settled", "done"} =>
            row'[c].tx # None /\ txStatus'[row'[c].tx] \in Settled
      BY <3>1, <3>2, <3>4, <3>5 DEF Settled
    <3>8. \A p \in Process : txStatus'[p] \in Settled =>
            \E c \in Callback : /\ pc'[c] \in {"settled", "done", "lost"}
                                /\ row'[c].tx = p
                                /\ txStatus'[p] = Outcome(c)'
      BY <3>1, <3>2, <3>3
    <3>9. \A c \in Callback : /\ pc'[c] # "idle" => said'[c] \in Report
                              /\ pc'[c] = "settled" => said'[c] = "paid"
                              /\ pc'[c] = "done" /\ said'[c] = "paid" => order'.status # "PENDING"
      BY <3>1, <3>2, <3>5
    <3>10. order'.status = "PREPARING" => \E c \in Callback : pc'[c] = "done" /\ said'[c] = "paid"
      BY <3>1, <3>2
    <3> QED
      BY <3>6, <3>7, <3>8, <3>9, <3>10
  <2>6. ASSUME NEW b \in Callback, CallbackPrepare(b) PROVE SettlementInv'
    <3> USE DEF TypeInv, TypeOK, SettlementInv, Call, Reader
    <3>1. /\ UNCHANGED <<txStatus, row, said>>
          /\ order'.status = "PREPARING"
      BY <2>6 DEF CallbackPrepare, CommitOrder, Order
    <3>2. /\ pc[b] = "settled" /\ pc'[b] = "done"
          /\ \A c \in Callback \ {b} : pc'[c] = pc[c]
      BY <2>6 DEF CallbackPrepare, Goto
    <3>3. \A c \in Callback : Outcome(c)' = Outcome(c)
      BY <3>1 DEF Success, Outcome
    <3>4. \A c \in Callback : Recorded(c) => Recorded(c)'
      BY <3>1, <3>2 DEF Recorded
    <3>5. \A p \in Process : txStatus'[p] \in Settled =>
            \E c \in Callback : /\ pc'[c] \in {"settled", "done", "lost"}
                                /\ row'[c].tx = p
                                /\ txStatus'[p] = Outcome(c)'
      BY <3>1, <3>2, <3>3
    <3> QED
      BY <3>1, <3>2, <3>4, <3>5
  <2> QED
    BY <2>1, <2>3, <2>4, <2>5, <2>6, QuietSteps DEF CallbackStep
<1> QED
  BY <1>1, <1>2, TypeCorrect, CommittedCorrect, PTL DEF Spec

\* An order is PREPARING only if a callback said that it was paid and recorded
\* that first (orderTransactionCallback).
THEOREM PreparedOrdersAreRecorded == Spec => []PreparedIsRecorded
<1>1. SettlementInv => PreparedIsRecorded
  BY DEF SettlementInv, PreparedIsRecorded
<1> QED
  BY <1>1, SettlementCorrect, PTL

\* When a callback that said paid has finished, that is recorded, unless a
\* failure was recorded over it, and the order is not PENDING
\* (orderTransactionCallback).
THEOREM PaymentsAreRecorded == Spec => []PaymentRecorded
<1>1. SettlementInv => PaymentRecorded
  BY DEF SettlementInv, PaymentRecorded
<1> QED
  BY <1>1, SettlementCorrect, PTL

\* A refund is posted only for a transaction with a payDate, whose recorded
\* outcome is what a callback that had read it said (refundTransaction).
THEOREM RefundsAreOfSettled == Spec => []RefundIsOfSettled
<1>1. TypeInv /\ SettlementInv /\ RefundInv => RefundIsOfSettled
  BY DEF TypeInv, TypeOK, SettlementInv, RefundInv, RefundIsOfSettled, Tx
<1> QED
  BY <1>1, TypeCorrect, SettlementCorrect, RefundCorrect, PTL

-----------------------------------------------------------------------------
(* Outcomes are final.                                                     *)

\* Only a callback that settles it changes a recorded outcome.
LEMMA SettledByCallback ==
  ASSUME TypeInv, CommittedInv, [Next]_vars, NEW p \in Process,
         txStatus[p] \in Settled, txStatus'[p] # txStatus[p]
  PROVE  \E f \in Callback : CallbackSettle(f) /\ row[f].tx = p
<1>1. ~Quiet
  BY DEF Quiet, Settled
<1>2. ASSUME NEW b \in Callback, Find(b) \/ CallbackStart(b) \/ CallbackThrows(b) \/ CallbackPrepare(b)
      PROVE  UNCHANGED txStatus
  BY <1>2 DEF Find, Lookup, Query, Populate, Fill, CallbackThrows, CallbackPrepare, CallbackStart
<1>3. PICK f \in Callback : CallbackSettle(f)
  BY <1>1, <1>2, QuietSteps DEF CallbackStep
<1> QED
  BY <1>3 DEF CallbackSettle, TypeInv, TypeOK

\* The outcome recorded for a transaction changes only when two callbacks that
\* say different things settle it (orderTransactionCallback).
THEOREM OutcomesAreFinal == Spec => OutcomeIsFinal
<1> DEFINE Final == \A p \in Process :
                      txStatus[p] \in Settled /\ txStatus'[p] # txStatus[p] =>
                        \E b, f \in Callback : row[b].tx = p /\ row[f].tx = p /\ said[b] # said[f]
<1>1. TypeInv /\ CommittedInv /\ SettlementInv /\ [Next]_vars => Final
  <2> SUFFICES ASSUME TypeInv, CommittedInv, SettlementInv, [Next]_vars,
                      NEW p \in Process, txStatus[p] \in Settled, txStatus'[p] # txStatus[p]
               PROVE  \E b, f \in Callback : row[b].tx = p /\ row[f].tx = p /\ said[b] # said[f]
    OBVIOUS
  <2>1. PICK f \in Callback : CallbackSettle(f) /\ row[f].tx = p
    BY SettledByCallback
  <2>2. PICK b \in Callback : row[b].tx = p /\ txStatus[p] = Outcome(b)
    BY DEF SettlementInv
  <2>3. txStatus'[p] = Outcome(f)
    BY <2>1 DEF CallbackSettle, TypeInv, TypeOK
  <2>4. said[b] # said[f]
    BY <2>2, <2>3 DEF Outcome, Success
  <2> QED
    BY <2>1, <2>2, <2>4
<1>2. TypeInv /\ CommittedInv /\ SettlementInv /\ [Next]_vars => [Final]_vars
  BY <1>1
<1> QED
  BY <1>2, TypeCorrect, CommittedCorrect, SettlementCorrect, PTL DEF Spec, OutcomeIsFinal

-----------------------------------------------------------------------------
(* The refinement of OrderLedger.                                          *)

\* The outcomes callbacks have reported and the refunded transactions, as the
\* refinement mapping has them.
Reported == {Outcome(b) : b \in {c \in Callback : pc[c] # "idle"}}
Refunded == {refund[k] : k \in Cancel} \ {None}

\* The ledger in the mapped state.
LedgerState == <<order.status, order.tx, txStatus, Reported, Refunded>>

\* A callback that begins reports its outcome; nothing else changes what has
\* been reported.
LEMMA ReportedStays ==
  ASSUME TypeInv, [Next]_vars
  PROVE  \/ UNCHANGED Reported
         \/ \E b \in Callback : CallbackStart(b)
<1>1. ASSUME UNCHANGED said, \A b \in Callback : pc'[b] = "idle" <=> pc[b] = "idle"
      PROVE  UNCHANGED Reported
  <2>1. \A b \in Callback : Outcome(b)' = Outcome(b)
    BY <1>1 DEF Outcome, Success
  <2> QED
    BY <1>1, <2>1 DEF Reported
<1> DEFINE Same == UNCHANGED said /\ \A b \in Callback : pc'[b] = "idle" <=> pc[b] = "idle"
<1> USE CallsAssumption DEF TypeInv, TypeOK, Call, Reader
<1>2. ASSUME NEW c \in Reader, Find(c) PROVE Same
  BY <1>2 DEF Find, Lookup, Query, Populate, Fill, Goto
<1>3. ASSUME NEW p \in Process, ProcessStep(p) \/ ProcessEnd(p) PROVE Same
  <2>1. UNCHANGED said
    BY <1>3 DEF ProcessStep, ProcessStart, ProcessRefused, ProcessUpdate, ProcessEnd,
                ProcessCommit, ProcessFails
  <2> QED
    BY <1>3, <2>1, ProcessFrame
<1>4. ASSUME NEW b \in Callback, CallbackStep(b) PROVE Same
  BY <1>4 DEF CallbackStep, CallbackSettle, CallbackThrows, CallbackPrepare, Goto
<1>5. ASSUME NEW r \in Request, RequestStart(r) \/ RequestStep(r) PROVE Same
  BY <1>5 DEF RequestStart, RequestStep, RequestRefused, RequestWrite, Goto
<1>6. ASSUME NEW k \in Cancel, CancelStart(k) \/ CancelStep(k) \/ RefundAnswered(k) \/ CancelEnd(k)
      PROVE Same
  <2>1. UNCHANGED said
    BY <1>6 DEF CancelStart, CancelStep, CancelRefused, CancelReject, CancelUpdate, CancelRefund,
                RefundAnswered, CancelEnd, CancelCommit, CancelFails
  <2> QED
    BY <1>6, <2>1, CancelFrame
<1>7. ASSUME Environment PROVE Same
  BY <1>7 DEF Environment, Sweep, Expire, TransactionTimeout, Crash, Ended
<1>8. CASE UNCHANGED vars
  BY <1>1, <1>8 DEF vars
<1> QED
  BY <1>1, <1>2, <1>3, <1>4, <1>5, <1>6, <1>7, <1>8 DEF Next

\* A callback that begins is the ledger's report.
LEMMA ReportRefines ==
  ASSUME TypeInv, NEW b \in Callback, CallbackStart(b)
  PROVE  Ledger!LedgerNext
<1> USE DEF TypeInv, TypeOK, Call, Reader
<1>1. /\ pc[b] = "idle" /\ pc'[b] # "idle"
      /\ \A c \in Callback \ {b} : pc'[c] = pc[c] /\ said'[c] = said[c]
  BY DEF CallbackStart, Goto
<1>2. \A c \in Callback \ {b} : Outcome(c)' = Outcome(c)
  BY <1>1 DEF Outcome, Success
<1>3. PICK o \in Ledger!Outcome : o = Outcome(b)'
  BY DEF Outcome, Ledger!Outcome
<1>4. Reported' = Reported \cup {o}
  BY <1>1, <1>2, <1>3 DEF Reported
<1>5. UNCHANGED <<order, txStatus, refund>>
  BY DEF CallbackStart
<1>6. Ledger!Report(o)
  BY <1>4, <1>5 DEF Ledger!Report, Reported
<1> QED
  BY <1>6 DEF Ledger!LedgerNext

\* A call's commit is one step of the ledger: a new transaction.
LEMMA ProcessRefines ==
  ASSUME TypeInv, CommittedInv, UNCHANGED Reported,
         NEW p \in Process, ProcessCommit(p) \/ ProcessFails(p)
  PROVE  Ledger!NewTransaction(p) \/ UNCHANGED LedgerState
<1> USE DEF TypeInv, TypeOK, CommittedInv, LedgerState
<1>1. UNCHANGED Refunded
  BY DEF ProcessCommit, ProcessFails, Refunded
<1>2. \/ ProcessWrites(p)
      \/ UNCHANGED <<order, txStatus>>
  BY DEF ProcessCommit, ProcessFails
<1>3. CASE ProcessWrites(p)
  <2>1. /\ txStatus[p] = "NONE"
        /\ txStatus' = [txStatus EXCEPT ![p] = "PENDING"]
        /\ order'.tx = p /\ order'.status = order.status
    BY <1>3 DEF ProcessWrites, CommitOrder, Order, ProcessCommit, ProcessFails
  <2> QED
    BY <1>1, <2>1 DEF Ledger!NewTransaction, Reported, Refunded
<1> QED
  BY <1>1, <1>2, <1>3

\* A callback settles a transaction of the ledger, then prepares the order.
LEMMA CallbackRefines ==
  ASSUME TypeInv, CommittedInv, SettlementInv, UNCHANGED Reported,
         NEW b \in Callback, CallbackSettle(b) \/ CallbackPrepare(b)
  PROVE  Ledger!LedgerNext
<1> USE DEF TypeInv, TypeOK, Call, Reader
<1>1. UNCHANGED Refunded
  BY DEF CallbackSettle, CallbackPrepare, Refunded
<1>2. Outcome(b) \in Ledger!Outcome /\ Outcome(b) \in Reported
  BY DEF CallbackSettle, CallbackPrepare, Outcome, Ledger!Outcome, Reported
<1>3. CASE CallbackSettle(b)
  <2>1. row[b].tx \in Process /\ txStatus[row[b].tx] # "NONE"
    BY <1>3 DEF CallbackSettle, CommittedInv, Row, Tx
  <2>2. UNCHANGED order /\ txStatus' = [txStatus EXCEPT ![row[b].tx] = Outcome(b)]
    BY <1>3 DEF CallbackSettle
  <2>3. Ledger!Settle(row[b].tx, Outcome(b))
    BY <1>1, <1>2, <2>1, <2>2 DEF Ledger!Settle, Reported, Refunded
  <2> QED
    BY <1>2, <2>1, <2>3 DEF Ledger!LedgerNext
<1>4. CASE CallbackPrepare(b)
  <2>1. row[b].tx \in Process /\ txStatus[row[b].tx] \in Ledger!Outcome
    BY <1>4 DEF CallbackPrepare, SettlementInv, Row, Tx, Settled, Ledger!Outcome
  <2>2. "SUCCESS" \in Reported
    BY <1>2, <1>4 DEF CallbackPrepare, SettlementInv, Outcome, Success
  <2>3. order'.status = "PREPARING" /\ order'.tx = order.tx /\ UNCHANGED txStatus
    BY <1>4 DEF CallbackPrepare, CommitOrder, Order
  <2>4. Ledger!Prepare
    BY <1>1, <2>1, <2>2, <2>3 DEF Ledger!Prepare, Reported, Refunded
  <2> QED
    BY <2>4 DEF Ledger!LedgerNext
<1> QED
  BY <1>3, <1>4

\* A cancelOrder posts one refund only: until it does, it has posted none.
UnpostedInv ==
  \A k \in Cancel :
    pc[k] \in {"idle", "lookup", "query", "populate", "fill", "act", "refund"} => refund[k] = None

\* Hence no refund is replaced by another.
LEMMA UnpostedCorrect == Spec => []UnpostedInv
<1>1. Init => UnpostedInv
  BY DEF Init, UnpostedInv
<1>2. TypeInv /\ UnpostedInv /\ [Next]_vars => UnpostedInv'
  <2> SUFFICES ASSUME TypeInv, UnpostedInv, [Next]_vars PROVE UnpostedInv'
    OBVIOUS
  <2> USE CallsAssumption DEF TypeInv, TypeOK, UnpostedInv, Call, Reader
  <2>1. ASSUME NEW c \in Reader, Find(c) PROVE UnpostedInv'
    BY <2>1 DEF Find, Lookup, Query, Populate, Fill, Goto
  <2>2. ASSUME NEW p \in Process, ProcessStep(p) \/ ProcessEnd(p) PROVE UnpostedInv'
    <3>1. UNCHANGED refund
      BY <2>2 DEF ProcessStep, ProcessStart, ProcessRefused, ProcessUpdate, ProcessEnd,
                  ProcessCommit, ProcessFails
    <3> QED
      BY <2>2, <3>1, ProcessFrame
  <2>3. ASSUME NEW b \in Callback, CallbackStart(b) \/ CallbackStep(b)
        PROVE UnpostedInv'
    <3>1. UNCHANGED refund
      BY <2>3 DEF CallbackStep, CallbackSettle, CallbackThrows, CallbackPrepare, CallbackStart
    <3> QED
      BY <2>3, <3>1, CallbackFrame
  <2>4. ASSUME NEW r \in Request, RequestStart(r) \/ RequestStep(r) PROVE UnpostedInv'
    BY <2>4 DEF RequestStart, RequestStep, RequestRefused, RequestWrite, Goto
  <2>5. ASSUME NEW k \in Cancel, CancelRefund(k) PROVE UnpostedInv'
    BY <2>5 DEF CancelRefund, RefundThrows, Goto
  <2>6. ASSUME NEW k \in Cancel, \/ CancelStart(k) \/ CancelRefused(k) \/ CancelReject(k)
                                 \/ CancelUpdate(k)
        PROVE UnpostedInv'
    BY <2>6 DEF CancelStart, CancelRefused, CancelReject, CancelUpdate, Goto
  <2>7. ASSUME NEW k \in Cancel, RefundAnswered(k) \/ CancelEnd(k) PROVE UnpostedInv'
    BY <2>7 DEF RefundAnswered, CancelEnd, CancelCommit, CancelFails, Goto
  <2>8. ASSUME Environment PROVE UnpostedInv'
    <3>1. UNCHANGED refund /\ \A k \in Cancel : pc'[k] \in {pc[k], "lost"}
      BY <2>8 DEF Environment, Sweep, Expire, TransactionTimeout, Crash
    <3> QED
      BY <3>1
  <2>9. CASE UNCHANGED vars
    BY <2>9 DEF vars
  <2> QED
    BY <2>1, <2>2, <2>3, <2>4, <2>5, <2>6, <2>7, <2>8, <2>9 DEF Next, CancelStep
<1> QED
  BY <1>1, <1>2, TypeCorrect, PTL DEF Spec

\* A posted refund is the ledger's.
LEMMA RefundRefines ==
  ASSUME NEW t \in Process, txStatus[t] \in Ledger!Outcome,
         UNCHANGED <<order, txStatus, Reported>>, Refunded' = Refunded \cup {t}
  PROVE  Ledger!Refund(t)
BY DEF Ledger!Refund, Reported, Refunded

\* A cancellation posts a refund, then cancels the order.
LEMMA CancelRefines ==
  ASSUME TypeInv, RefundInv, UnpostedInv, UNCHANGED Reported,
         NEW k \in Cancel, CancelRefund(k) \/ CancelEnd(k)
  PROVE  Ledger!LedgerNext \/ UNCHANGED LedgerState
<1> USE DEF TypeInv, TypeOK, RefundInv, Call, Reader
<1>1. UNCHANGED txStatus
  BY DEF CancelRefund, CancelEnd, CancelCommit, CancelFails
<1>2. CASE CancelRefund(k)
  <2>1. UNCHANGED order
    BY <1>2 DEF CancelRefund
  <2>2. CASE Refundable(k)
    <3>1. row[k].tx \in Process /\ txStatus[row[k].tx] \in Ledger!Outcome
      BY <2>2 DEF Refundable, Settled, Ledger!Outcome
    <3>2. PICK t \in Process : t = row[k].tx
      BY <3>1
    <3>3. refund[k] = None /\ t # None /\ refund' = [refund EXCEPT ![k] = t]
      BY <1>2, <2>2, <3>2, CallsAssumption DEF CancelRefund, UnpostedInv
    <3>4. Refunded' = Refunded \cup {t}
      BY <3>3 DEF Refunded
    <3>5. Ledger!Refund(t)
      BY <1>1, <2>1, <3>1, <3>2, <3>4, RefundRefines
    <3> QED
      BY <3>5 DEF Ledger!LedgerNext
  <2>3. CASE ~Refundable(k)
    BY <1>1, <1>2, <2>1, <2>3 DEF CancelRefund, LedgerState, Refunded
  <2> QED
    BY <2>2, <2>3
<1>3. CASE CancelEnd(k)
  <2>1. UNCHANGED refund /\ refund[k] # None
    BY <1>3 DEF CancelEnd, CancelCommit, CancelFails
  <2>2. Refunded # {} /\ UNCHANGED Refunded
    BY <2>1 DEF Refunded
  <2>3. \/ UNCHANGED order
        \/ order'.status = "CANCELED" /\ order'.tx = order.tx
    BY <1>3 DEF CancelEnd, CancelCommit, CancelFails, CancelWrites, CommitOrder, Order
  <2>4. ASSUME order'.status = "CANCELED", order'.tx = order.tx PROVE Ledger!CancelAfterRefund
    BY <1>1, <2>2, <2>4 DEF Ledger!CancelAfterRefund, Reported, Refunded
  <2> QED
    BY <1>1, <2>2, <2>3, <2>4 DEF Ledger!LedgerNext, LedgerState
<1> QED
  BY <1>2, <1>3

\* Every other step changes nothing of the ledger, but for a request to cancel.
LEMMA OtherSteps ==
  ASSUME TypeInv, [Next]_vars
  PROVE  \/ UNCHANGED <<order, txStatus, refund>>
         \/ \E p \in Process : ProcessCommit(p) \/ ProcessFails(p)
         \/ \E b \in Callback : CallbackSettle(b) \/ CallbackPrepare(b)
         \/ \E r \in Request : RequestWrite(r)
         \/ \E k \in Cancel : CancelRefund(k) \/ CancelEnd(k)
<1> DEFINE Still == UNCHANGED <<order, txStatus, refund>>
<1>1. ASSUME NEW c \in Reader, Find(c) PROVE Still
  BY <1>1 DEF Find, Lookup, Query, Populate, Fill
<1>2. ASSUME NEW p \in Process, ProcessStep(p) PROVE Still
  BY <1>2 DEF ProcessStep, ProcessStart, ProcessRefused, ProcessUpdate
<1>3. ASSUME NEW b \in Callback, CallbackStart(b) \/ CallbackThrows(b) PROVE Still
  BY <1>3 DEF CallbackStart, CallbackThrows
<1>4. ASSUME NEW r \in Request, RequestStart(r) \/ RequestRefused(r) PROVE Still
  BY <1>4 DEF RequestStart, RequestRefused
<1>5. ASSUME NEW k \in Cancel, \/ CancelStart(k) \/ CancelRefused(k) \/ CancelReject(k)
                               \/ CancelUpdate(k) \/ RefundAnswered(k)
      PROVE Still
  BY <1>5 DEF CancelStart, CancelRefused, CancelReject, CancelUpdate, RefundAnswered
<1>6. ASSUME Environment PROVE Still
  BY <1>6 DEF Environment, Sweep, Expire, TransactionTimeout, Crash
<1>7. CASE UNCHANGED vars
  BY <1>7 DEF vars
<1> QED
  BY <1>1, <1>2, <1>3, <1>4, <1>5, <1>6, <1>7
  DEF Next, ProcessEnd, CallbackStep, RequestStep, CancelStep

\* Seen in the database, the concurrent calls with their caches, transactions,
\* failures and crashes behave like the atomic steps of the ledger.
THEOREM Refinement == Spec => ImplementsLedger
<1>1. Init => Ledger!LedgerInit
  BY CallsAssumption DEF Init, Ledger!LedgerInit, Call, Reader
<1>2. TypeInv /\ CommittedInv /\ SettlementInv /\ RefundInv /\ UnpostedInv /\ [Next]_vars =>
        [Ledger!LedgerNext]_(Ledger!ledger)
  <2> SUFFICES ASSUME TypeInv, CommittedInv, SettlementInv, RefundInv, UnpostedInv, [Next]_vars
               PROVE  Ledger!LedgerNext \/ UNCHANGED Ledger!ledger
    OBVIOUS
  <2>1. UNCHANGED LedgerState => UNCHANGED Ledger!ledger
    BY DEF LedgerState, Reported, Refunded, Ledger!ledger
  <2>2. CASE \E b \in Callback : CallbackStart(b)
    BY <2>2, ReportRefines
  <2>3. CASE UNCHANGED Reported
    <3>1. CASE UNCHANGED <<order, txStatus, refund>>
      BY <2>1, <2>3, <3>1 DEF LedgerState, Refunded
    <3>2. ASSUME NEW p \in Process, ProcessCommit(p) \/ ProcessFails(p)
          PROVE Ledger!LedgerNext \/ UNCHANGED Ledger!ledger
      BY <2>1, <2>3, <3>2, ProcessRefines DEF Ledger!LedgerNext
    <3>3. ASSUME NEW b \in Callback, CallbackSettle(b) \/ CallbackPrepare(b) PROVE Ledger!LedgerNext
      BY <2>3, <3>3, CallbackRefines
    <3>4. ASSUME NEW r \in Request, RequestWrite(r) PROVE Ledger!LedgerNext
      <4>1. /\ order'.status = "CANCELING" /\ order'.tx = order.tx
            /\ UNCHANGED <<txStatus, refund>>
        BY <3>4 DEF RequestWrite, CommitOrder, Order, TypeInv, TypeOK
      <4>2. Ledger!AskCancel
        BY <2>3, <4>1 DEF Ledger!AskCancel, Reported
      <4> QED
        BY <4>2 DEF Ledger!LedgerNext
    <3>5. ASSUME NEW k \in Cancel, CancelRefund(k) \/ CancelEnd(k)
          PROVE Ledger!LedgerNext \/ UNCHANGED Ledger!ledger
      BY <2>1, <2>3, <3>5, CancelRefines
    <3> QED
      BY <3>1, <3>2, <3>3, <3>4, <3>5, OtherSteps
  <2> QED
    BY <2>2, <2>3, ReportedStays
<1> QED
  BY <1>1, <1>2, TypeCorrect, CommittedCorrect, SettlementCorrect, RefundCorrect, UnpostedCorrect, PTL
  DEF Spec, ImplementsLedger, Ledger!LedgerSpec
=============================================================================
