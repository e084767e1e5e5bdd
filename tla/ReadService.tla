---------------------------- MODULE ReadService ----------------------------
(***************************************************************************)
(* What RepositoryService promises its callers: every answer was committed *)
(* at some time, and a forced one after the call began.  Staleness is not  *)
(* bounded here; a page may join data and a page count of two states.      *)
(***************************************************************************)
EXTENDS Views

CONSTANT Reader

VARIABLES
  log,      \* the committed states of the collection, oldest first
  request   \* the last call of each reader, and its answer

svars == <<log, request>>

ServiceInit ==
  /\ \E s \in State : log = <<s>>
  /\ request = [r \in Reader |-> [at |-> "idle"]]

Change == \E s \in State : log' = Append(log, s) /\ UNCHANGED request

Ask(r) ==
  /\ request[r].at # "asked"
  /\ \E k \in ReadKey, f \in BOOLEAN :
       request' = [request EXCEPT ![r] = [at |-> "asked", key |-> k, forced |-> f, begin |-> IF f THEN Len(log) ELSE 1]]
  /\ UNCHANGED log

Possible(k, from) ==
  IF k.kind = "paging"
  THEN {[data |-> Shown(log[i]), pages |-> Pages(log[j])] : i, j \in from..Len(log)}
  ELSE {View(k, log[i]) : i \in from..Len(log)}

Answer(r) ==
  /\ request[r].at = "asked"
  /\ \E v \in Possible(request[r].key, request[r].begin) :
       request' = [request EXCEPT ![r] = [at |-> "answered", answer |-> v]]
  /\ UNCHANGED log

ServiceNext == Change \/ \E r \in Reader : Ask(r) \/ Answer(r)

ServiceSpec == ServiceInit /\ [][ServiceNext]_svars

=============================================================================
