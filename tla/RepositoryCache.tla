-------------------------- MODULE RepositoryCache --------------------------
(***************************************************************************)
(* RepositoryService (repository.service.ts) over CacheService             *)
(* (cache.service.ts): reads through Redis, writes to MongoDB in or out of *)
(* a session, and the invalidation that every write starts and no call     *)
(* waits for.  One collection; one step is the code between two awaits.    *)
(***************************************************************************)
EXTENDS Views

CONSTANTS
  Reader,   \* callers that read, again and again
  Asked,    \* the keys they read
  Writer    \* calls that write, each once (this bounds the writes)

ASSUME AskedAssumption == Asked \subseteq ReadKey
ASSUME WriterAssumption == IsFiniteSet(Writer)

VARIABLES
  log,      \* the committed states of the collection, oldest first
  cache,    \* the value under each key
  reader,   \* the local state of each read
  writer,   \* the local state of each write
  scan,     \* deletions by pattern that have yet to scan the keys
  found,    \* keys each deletion by pattern has found and has yet to delete
  late      \* history: keys filled with, or left at, what no deletion will find

vars == <<log, cache, reader, writer, scan, found, late>>

Db == log[Len(log)]
Pattern == {"id", "listing"}
Deletion == Writer \X Pattern

Idle == [at |-> "idle", key |-> None, forced |-> FALSE, begin |-> 1, got |-> None]
Answered(v) == [Idle EXCEPT !.at = "done", !.got = v]
Unused == [at |-> "idle", new |-> FALSE, doc |-> None, val |-> None, session |-> FALSE]

Init ==
  /\ \E s \in [Doc -> Value \cup {None}] : log = <<s>>
  /\ cache = [k \in Key |-> None]
  /\ reader = [r \in Reader |-> Idle]
  /\ writer = [w \in Writer |-> Unused]
  /\ scan = {}
  /\ found = [x \in Deletion |-> {}]
  /\ late = {}

Stale(k) == cache[k] # None /\ cache[k] # View(k, Db)

-----------------------------------------------------------------------------
(* find, findMultiple, findMultiplePaging.                                 *)

Begin(r) ==
  /\ reader[r].at \in {"idle", "done"}
  /\ \E k \in Asked, f \in BOOLEAN :
       reader' = [reader EXCEPT ![r] =
         [at |-> "lookup", key |-> k, forced |-> f, begin |-> IF f THEN Len(log) ELSE 1, got |-> None]]
  /\ UNCHANGED <<log, cache, writer, scan, found, late>>

\* The key a read looks up: the selection and the filter, never the bare id.
\* Mutant: create's key.
CacheKeyOwn(k) == IF k.kind = "id" THEN Own(k.doc) ELSE k
CacheKey(k) == k

\* A hit is the answer; a forced read does not look.
Lookup(r) ==
  /\ reader[r].at = "lookup"
  /\ LET entry == IF reader[r].forced THEN None ELSE cache[CacheKey(reader[r].key)]
     IN reader' = [reader EXCEPT ![r] = IF entry # None THEN Answered(entry) ELSE [@ EXCEPT !.at = "query"]]
  /\ UNCHANGED <<log, cache, writer, scan, found, late>>

Query(r) ==
  /\ reader[r].at = "query"
  /\ reader[r].key # Paging
  /\ reader' = [reader EXCEPT ![r].at = "fill", ![r].got = View(reader[r].key, Db)]
  /\ UNCHANGED <<log, cache, writer, scan, found, late>>

\* Promise.all of the page and of countDocuments: two queries, in any order.
QueryPage(r) ==
  /\ reader[r].at = "query"
  /\ reader[r].key = Paging
  /\ LET seen == IF reader[r].got = None THEN [data |-> None, pages |-> None] ELSE reader[r].got
     IN \E part \in {"data", "pages"} :
          /\ seen[part] = None
          /\ LET now == [seen EXCEPT ![part] = View(Paging, Db)[part]]
             IN reader' = [reader EXCEPT ![r].got = now,
                                         ![r].at = IF None \in {now.data, now.pages} THEN @ ELSE "fill"]
  /\ UNCHANGED <<log, cache, writer, scan, found, late>>

\* A missing document and an empty listing are not cached.
\* Mutant: whatever the query gives is.
CacheableAll(k, v) == k \in Key
Cacheable(k, v) ==
  CASE k.kind = "listing" -> v # {}
    [] k.kind = "paging" -> v.data # {}
    [] OTHER -> v # None

\* A set without ttl gets the default of the cache module.
Fill(r) ==
  /\ reader[r].at = "fill"
  /\ LET k == reader[r].key
         v == reader[r].got
     IN IF Cacheable(k, v)
        THEN /\ cache' = [cache EXCEPT ![CacheKey(k)] = v]
             /\ late' = IF v = View(k, Db) THEN late \ {k} ELSE late \cup {k}
        ELSE UNCHANGED <<cache, late>>
  /\ reader' = [reader EXCEPT ![r] = Answered(@.got)]
  /\ UNCHANGED <<log, writer, scan, found>>

-----------------------------------------------------------------------------
(* create, update, safeDelete, delete.                                     *)

Held(d) == \E w \in Writer : writer[w].doc = d /\ writer[w].session /\ writer[w].at \in {"own", "refresh", "open"}
Append1(d, v) == log' = Append(log, [Db EXCEPT ![d] = v])

\* What update and safeDelete leave: an update leaves a deleted document deleted.
Updated(d) == IF Db[d] = Gone THEN {Gone} ELSE Value \cup {Gone}
NeverMade(d) == \A i \in DOMAIN log : log[i][d] = None

\* The write has answered.  One without a session is committed.
Wrote(w, new, d, v, session) ==
  /\ writer[w].at = "idle"
  /\ ~Held(d)
  /\ writer' = [writer EXCEPT ![w] =
       [at |-> IF new THEN "own" ELSE "refresh", new |-> new, doc |-> d, val |-> v, session |-> session]]
  /\ IF session THEN UNCHANGED log ELSE Append1(d, v)
  /\ UNCHANGED <<cache, reader, scan, found, late>>

Create(w) ==
  \E d \in Doc, v \in Value, session \in BOOLEAN : NeverMade(d) /\ Wrote(w, TRUE, d, v, session)

\* update and safeDelete; a write without a session waits for the transaction
\* that holds the document.
Update(w) ==
  \E d \in Doc, session \in BOOLEAN :
    /\ Db[d] # None
    /\ \E v \in Updated(d) : Wrote(w, FALSE, d, v, session)

\* delete takes no session.
Remove(w) == \E d \in Doc : Db[d] # None /\ Wrote(w, FALSE, d, None, FALSE)

\* Nothing matches, or MongoDB reports a conflict: no refresh.
WriteNothing(w) ==
  /\ writer[w].at = "idle"
  /\ \E d \in Doc : Db[d] = None \/ Held(d)
  /\ writer' = [writer EXCEPT ![w].at = "done"]
  /\ UNCHANGED <<log, cache, reader, scan, found, late>>

\* create caches the document, committed or not, under prefix:id.
CacheOwn(w) ==
  /\ writer[w].at = "own"
  /\ cache' = [cache EXCEPT ![Own(writer[w].doc)] = writer[w].val]
  /\ writer' = [writer EXCEPT ![w].at = "refresh"]
  /\ UNCHANGED <<log, reader, scan, found, late>>

\* The keys a pattern matches: those that hold the id, and the listings.
Matches(p, d) ==
  IF p = "id" THEN {ById(d), Own(d)} ELSE {Listing, Paging}

\* refreshCache: both deletions by pattern, the first only with an id.
\* Mutant: the listings are forgotten.
PatternsIdOnly(new) == {"id"}
Patterns(new) == IF new THEN {"listing"} ELSE Pattern

Covered(w) == UNION {Matches(p, writer[w].doc) : p \in Patterns(writer[w].new)}

RefreshCache(w) ==
  /\ writer[w].at = "refresh"
  /\ scan' = scan \cup ({w} \X Patterns(writer[w].new))
  /\ writer' = [writer EXCEPT ![w].at = IF writer[w].session THEN "open" ELSE "done",
                               ![w].val = IF writer[w].session THEN @ ELSE None]
  /\ UNCHANGED <<log, cache, reader, found, late>>

\* The caller's transaction commits after update or create has returned.
Commit(w) ==
  /\ writer[w].at = "open"
  /\ Append1(writer[w].doc, writer[w].val)
  /\ writer' = [writer EXCEPT ![w].at = "done", ![w].val = None, ![w].session = FALSE]
  /\ LET swept == {k \in Covered(w) : \A p \in Pattern :
                     /\ k \in Matches(p, writer[w].doc) => <<w, p>> \notin scan
                     /\ k \notin found[<<w, p>>]}
     IN late' = late \cup {k \in swept : cache[k] # None /\ cache[k] # View(k, Db')}
  /\ UNCHANGED <<cache, reader, scan, found>>

Abort(w) ==
  /\ writer[w].at = "open"
  /\ writer' = [writer EXCEPT ![w].at = "done", ![w].val = None, ![w].session = FALSE]
  /\ UNCHANGED <<log, cache, reader, scan, found, late>>

-----------------------------------------------------------------------------
(* deleteKeysByRegex: the SCAN rounds, one step because no property relates *)
(* two keys, and the deletion of what they found.                          *)

Scan(x) ==
  /\ x \in scan
  /\ scan' = scan \ {x}
  /\ found' = [found EXCEPT ![x] = {k \in Matches(x[2], writer[x[1]].doc) : cache[k] # None}]
  /\ UNCHANGED <<log, cache, reader, writer, late>>

Delete(x) ==
  /\ found[x] # {}
  /\ cache' = [k \in Key |-> IF k \in found[x] THEN None ELSE cache[k]]
  /\ late' = late \ found[x]
  /\ found' = [found EXCEPT ![x] = {}]
  /\ UNCHANGED <<log, reader, writer, scan>>

\* The keys Redis drops when their time is over.
\* Mutant: a listing is cached without a ttl.
HasTtlSingle(k) == k \notin {Listing, Paging}
HasTtl(k) == k \in Key

Expire(k) ==
  /\ cache[k] # None
  /\ HasTtl(k)
  /\ cache' = [cache EXCEPT ![k] = None]
  /\ late' = late \ {k}
  /\ UNCHANGED <<log, reader, writer, scan, found>>

ReaderStep(r) == Lookup(r) \/ Query(r) \/ QueryPage(r) \/ Fill(r)
WriterStep(w) == CacheOwn(w) \/ RefreshCache(w) \/ Commit(w) \/ Abort(w)

Next ==
  \/ \E r \in Reader : Begin(r) \/ ReaderStep(r)
  \/ \E w \in Writer : Create(w) \/ Update(w) \/ Remove(w) \/ WriteNothing(w) \/ WriterStep(w)
  \/ \E x \in Deletion : Scan(x) \/ Delete(x)
  \/ \E k \in Key : Expire(k)

Spec == Init /\ [][Next]_vars

\* The event loop resumes reads whose query has answered, and MongoDB ends
\* every transaction; Redis drops an entry when its REDIS_TTL is over.
Fairness ==
  /\ \A r \in Reader : WF_vars(ReaderStep(r))
  /\ \A w \in Writer : WF_vars(WriterStep(w))
  /\ \A k \in Key : WF_vars(Expire(k))

FairSpec == Spec /\ Fairness

-----------------------------------------------------------------------------
(* Safety.                                                                 *)

\* Every variable stays in its domain; no empty listing is cached,
\* and only transactions that are open hold documents.
TypeOK ==
  /\ Len(log) \in 1..(1 + Cardinality(Writer))
  /\ \A i \in DOMAIN log : log[i] \in State
  /\ \A d \in Doc : {cache[ById(d)], cache[ByField(d)], cache[Own(d)]} \subseteq Value \cup {Gone, None}
  /\ \A l \in {cache[Listing], IF cache[Paging] = None THEN None ELSE cache[Paging].data} :
       l # None => l # {} /\ l \subseteq Doc \X Value
  /\ \A r \in Reader :
       /\ reader[r].at \in {"idle", "lookup", "query", "fill", "done"}
       /\ reader[r].key \in ReadKey \cup {None}
       /\ reader[r].begin \in 0..Len(log)
  /\ writer \in [Writer -> [at : {"idle", "own", "refresh", "open", "done"},
                            new : BOOLEAN, doc : Doc \cup {None}, val : Value \cup {Gone, None}, session : BOOLEAN]]
  /\ scan \subseteq Deletion
  /\ found \in [Deletion -> SUBSET Key]
  /\ late \subseteq Key

\* The read keys refreshCache is meant to drop: all but those of find by
\* another field than the id, which no pattern matches.
Swept == ReadKey \ {ByField(d) : d \in Doc}

\* A deletion that will drop the key has been, or is about to be, started.
Pending(k) ==
  \/ \E w \in Writer : writer[w].at \in {"own", "refresh"} /\ k \in Covered(w)
  \/ \E x \in scan : k \in Matches(x[2], writer[x[1]].doc)
  \/ \E x \in Deletion : k \in found[x]

\* An outdated entry is about to be dropped, or a read that overlapped the
\* write filled it after the scan, or the scan ran before the commit: a write
\* outside a session never leaves a listing or a document behind by itself
\* (update, create, delete and refreshCache).
StaleHasCause == \A k \in Swept : Stale(k) => k \in late \/ Pending(k)

(* Liveness. *)

\* When the writes have ended, so does staleness: every read key is at last
\* current for good, the ones no pattern matches included (REDIS_TTL).
StalenessEnds == <>[](\A k \in ReadKey : ~Stale(k))

(* Refinement. *)

\* Reads through the cache implement ReadService: no answer shows what was not
\* committed, although create caches documents of open transactions, and a
\* forced answer is not older than its call.
requestOf == [r \in Reader |->
  CASE reader[r].at = "idle" -> [at |-> "idle"]
    [] reader[r].at = "done" -> [at |-> "answered", answer |-> reader[r].got]
    [] OTHER -> [at |-> "asked", key |-> reader[r].key, forced |-> reader[r].forced, begin |-> reader[r].begin]]

Service == INSTANCE ReadService WITH request <- requestOf
ImplementsReadService == Service!ServiceSpec

=============================================================================
