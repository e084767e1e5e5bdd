------------------------------- MODULE Views -------------------------------
(***************************************************************************)
(* What a read of one collection shows in a given state of it, by the key  *)
(* under which RepositoryService caches the answer.                        *)
(***************************************************************************)
EXTENDS Integers, FiniteSets, Sequences

CONSTANTS
  Doc,      \* documents
  Value,    \* what a live document can hold
  Gone,     \* a document marked isDeleted
  None,     \* no document; also no entry in the cache
  Limit     \* documents on a page

ASSUME ViewsAssumption ==
  /\ Limit \in Nat \ {0}
  /\ Gone \notin Value
  /\ None \notin Value \cup {Gone}

State == [Doc -> Value \cup {Gone, None}]

\* find by id, find by another field, and the key create uses for a new document.
ById(d) == [kind |-> "id", doc |-> d]
ByField(d) == [kind |-> "field", doc |-> d]
Own(d) == [kind |-> "own", doc |-> d]
\* findMultiple and findMultiplePaging of the documents not marked isDeleted.
Listing == [kind |-> "listing", doc |-> None]
Paging == [kind |-> "paging", doc |-> None]

ReadKey == {ById(d) : d \in Doc} \cup {ByField(d) : d \in Doc} \cup {Listing, Paging}
Key == ReadKey \cup {Own(d) : d \in Doc}

Live(s) == {d \in Doc : s[d] \in Value}
Shown(s) == {<<d, s[d]>> : d \in Live(s)}
Pages(s) == (Cardinality(Live(s)) + Limit - 1) \div Limit

\* The cut of a page is left out: its data are those of the listing.
View(k, s) ==
  CASE k.kind = "listing" -> Shown(s)
    [] k.kind = "paging" -> [data |-> Shown(s), pages |-> Pages(s)]
    [] OTHER -> s[k.doc]

=============================================================================
