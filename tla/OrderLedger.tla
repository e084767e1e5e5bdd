----------------------------- MODULE OrderLedger -----------------------------
(***************************************************************************)
(* What the order and payment services promise about one order, seen in    *)
(* the database alone: its status, its current transaction, the outcome    *)
(* recorded for each transaction, the outcomes callbacks have reported and *)
(* the transactions a refund was requested for.  Every step is atomic; no  *)
(* call, cache, lock or failure is visible.  OrderPayment implements it.   *)
(***************************************************************************)
CONSTANTS Tx, NoTx

VARIABLES status, current, record, reported, refunded

ledger == <<status, current, record, reported, refunded>>

Outcome == {"SUCCESS", "FAIL"}

LedgerInit ==
  /\ status = "PENDING"
  /\ current = NoTx
  /\ record = [t \in Tx |-> "NONE"]
  /\ reported = {}
  /\ refunded = {}

\* processOrder: a new pending transaction becomes the order's, in one step.
NewTransaction(t) ==
  /\ record[t] = "NONE"
  /\ record' = [record EXCEPT ![t] = "PENDING"]
  /\ current' = t
  /\ UNCHANGED <<status, reported, refunded>>

\* Somebody calls the payment callback.
Report(outcome) ==
  /\ reported' = reported \cup {outcome}
  /\ UNCHANGED <<status, current, record, refunded>>

\* A reported outcome is recorded for a committed transaction, never for one
\* that no processOrder has committed.
Settle(t, outcome) ==
  /\ record[t] # "NONE"
  /\ outcome \in reported
  /\ record' = [record EXCEPT ![t] = outcome]
  /\ UNCHANGED <<status, current, reported, refunded>>

\* An order reported paid is prepared, after an outcome was recorded.
Prepare ==
  /\ "SUCCESS" \in reported
  /\ \E t \in Tx : record[t] \in Outcome
  /\ status' = "PREPARING"
  /\ UNCHANGED <<current, record, reported, refunded>>

AskCancel ==
  /\ status' = "CANCELING"
  /\ UNCHANGED <<current, record, reported, refunded>>

\* A refund is requested for a transaction with a recorded outcome.
Refund(t) ==
  /\ record[t] \in Outcome
  /\ refunded' = refunded \cup {t}
  /\ UNCHANGED <<status, current, record, reported>>

\* An order is canceled after a refund was requested.
CancelAfterRefund ==
  /\ refunded # {}
  /\ status' = "CANCELED"
  /\ UNCHANGED <<current, record, reported, refunded>>

LedgerNext ==
  \/ \E t \in Tx : NewTransaction(t) \/ Refund(t)
  \/ \E o \in Outcome : Report(o) \/ \E t \in Tx : Settle(t, o)
  \/ Prepare \/ AskCancel \/ CancelAfterRefund

LedgerSpec == LedgerInit /\ [][LedgerNext]_ledger

=============================================================================
