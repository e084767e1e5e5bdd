------------------------ MODULE RepositoryCacheProofs ------------------------
(* RepositoryCache implements ReadService, and what is outdated in it has a *)
(* cause, for every set of documents, values, readers and writers.         *)
EXTENDS RepositoryCache, FiniteSetTheorems, TLAPS

-----------------------------------------------------------------------------
(* What was committed.                                                     *)

\* v is what a read under k can give from the states committed since from.
Seen(v, k, from) ==
  IF k = Paging
  THEN \E i, j \in from..Len(log) : v = [data |-> Shown(log[i]), pages |-> Pages(log[j])]
  ELSE \E i \in from..Len(log) : v = View(k, log[i])

\* v holds the queries of a page that have answered.
PartSeen(v, from) ==
  \/ v = None
  \/ /\ v = [data |-> v.data, pages |-> v.pages]
     /\ v.data = None \/ \E i \in from..Len(log) : v.data = Shown(log[i])
     /\ v.pages = None \/ \E i \in from..Len(log) : v.pages = Pages(log[i])

\* A page shows its data and its number of pages, of one state.
LEMMA PageView == \A s : View(Paging, s) = [data |-> Shown(s), pages |-> Pages(s)]
  BY DEF View, Paging

\* The kind tells the page from the other reads.
LEMMA PageKind == \A k \in ReadKey : k.kind = "paging" <=> k = Paging
  BY DEF ReadKey, Paging, Listing, ById, ByField

\* Redis has a key for every read.
LEMMA ReadKeyIsKey == ReadKey \subseteq Key
  BY DEF Key

\* The service's views are those of the cache.
LEMMA SameViews ==
  /\ \A s : Service!Shown(s) = Shown(s) /\ Service!Pages(s) = Pages(s)
  /\ \A k, s : Service!View(k, s) = View(k, s)
  /\ Service!ReadKey = ReadKey /\ Service!State = State
<1>1. \A s : Service!Live(s) = Live(s)
  BY DEF Service!Live, Live
<1>0. \A S : Service!Cardinality(S) = Cardinality(S)
  BY Zenon DEF Service!Cardinality, Cardinality
<1>2. \A s : Service!Shown(s) = Shown(s) /\ Service!Pages(s) = Pages(s)
  BY <1>0, <1>1 DEF Service!Shown, Shown, Service!Pages, Pages
<1>3. \A k, s : Service!View(k, s) = View(k, s)
  BY <1>2 DEF Service!View, View
<1>4. Service!ReadKey = ReadKey /\ Service!State = State
  BY DEF Service!ReadKey, ReadKey, Service!State, State, Service!ById, ById, Service!ByField, ByField,
         Service!Listing, Listing, Service!Paging, Paging
<1> QED
  BY <1>2, <1>3, <1>4

\* What has been seen is an answer the service allows.
LEMMA SeenIsPossible ==
  ASSUME NEW k \in ReadKey, NEW v, NEW from, Seen(v, k, from)
  PROVE  v \in Service!Possible(k, from)
<1>1. CASE k = Paging
  BY <1>1, PageKind, SameViews DEF Seen, Service!Possible
<1>2. CASE k # Paging
  BY <1>2, PageKind, SameViews DEF Seen, Service!Possible
<1> QED
  BY <1>1, <1>2

-----------------------------------------------------------------------------
(* Types.                                                                  *)

\* The local state of a read.
ReaderType(s) ==
  /\ s = [at |-> s.at, key |-> s.key, forced |-> s.forced, begin |-> s.begin, got |-> s.got]
  /\ s.at \in {"idle", "lookup", "query", "fill", "done"}
  /\ s.at \in {"lookup", "query", "fill"} =>
       /\ s.key \in ReadKey
       /\ s.begin \in 1..Len(log)
       /\ ~s.forced => s.begin = 1

\* The local state of the writes.
WriterState == [at : {"idle", "own", "refresh", "open", "done"}, new : BOOLEAN,
                doc : Doc \cup {None}, val : Value \cup {Gone, None}, session : BOOLEAN]
WriterType ==
  /\ writer \in [Writer -> WriterState]
  /\ \A w \in Writer : writer[w].at \in {"own", "refresh", "open"} => writer[w].doc \in Doc

\* The committed states, the keys of Redis, and the local state of the calls.
TypeInv ==
  /\ log \in Seq(State) /\ Len(log) >= 1
  /\ DOMAIN cache = Key
  /\ DOMAIN reader = Reader
  /\ \A r \in Reader : ReaderType(reader[r])
  /\ WriterType

\* What a read has in hand was committed since it began.
ReaderSeen(s) ==
  /\ s.at = "lookup" => s.got = None
  /\ s.at = "query" /\ s.key = Paging => PartSeen(s.got, s.begin)
  /\ s.at = "fill" => Seen(s.got, s.key, s.begin)

\* So was what is cached.
SeenInv ==
  /\ \A k \in ReadKey : cache[k] # None => Seen(cache[k], k, 1)
  /\ \A r \in Reader : ReaderSeen(reader[r])

IInv == TypeInv /\ SeenInv

\* A step of the log keeps what was seen.
LEMMA SeenStays ==
  ASSUME TypeInv, NEW s \in State, log' = log \/ log' = Append(log, s), NEW from \in Nat \ {0}
  PROVE  /\ \A v, k : Seen(v, k, from) => Seen(v, k, from)'
         /\ \A v : PartSeen(v, from) => PartSeen(v, from)'
<1>1. Len(log') >= Len(log) /\ \A i \in 1..Len(log) : log'[i] = log[i]
  BY DEF TypeInv
<1>2. from..Len(log) \subseteq from..Len(log') /\ \A i \in from..Len(log) : log'[i] = log[i]
  BY <1>1 DEF TypeInv
<1>3. ASSUME NEW v, NEW k, Seen(v, k, from) PROVE Seen(v, k, from)'
  BY <1>2, <1>3 DEF Seen
<1>4. ASSUME NEW v, PartSeen(v, from) PROVE PartSeen(v, from)'
  BY <1>2, <1>4 DEF PartSeen
<1> QED
  BY <1>3, <1>4

-----------------------------------------------------------------------------
(* The invariant.                                                          *)

\* A step that changes neither the log nor what readers see keeps the rest.
LEMMA CacheDrops ==
  ASSUME IInv, UNCHANGED <<log, reader>>, WriterType', DOMAIN cache' = Key,
         \A k \in ReadKey : cache'[k] = cache[k] \/ cache'[k] = None
  PROVE  IInv'
BY DEF IInv, TypeInv, ReaderType, SeenInv, ReaderSeen, Seen, PartSeen

\* A write keeps what readers and the cache hold.
LEMMA WriteKeeps ==
  ASSUME IInv, NEW s \in State, log' = log \/ log' = Append(log, s), UNCHANGED <<cache, reader>>,
         WriterType'
  PROVE  IInv'
<1>1. log' \in Seq(State) /\ Len(log') >= Len(log) /\ Len(log) \in Nat /\ Len(log') \in Nat
  BY DEF IInv, TypeInv
<1>2. TypeInv'
  BY <1>1 DEF IInv, TypeInv, ReaderType
<1>3. \A from \in Nat \ {0} : /\ \A v, k : Seen(v, k, from) => Seen(v, k, from)'
                              /\ \A v : PartSeen(v, from) => PartSeen(v, from)'
  BY SeenStays DEF IInv
<1>4. \A k \in ReadKey : cache'[k] # None => Seen(cache[k], k, 1)'
  BY <1>3 DEF IInv, SeenInv
<1>5. ASSUME NEW r \in Reader PROVE ReaderSeen(reader[r])'
  <2>1. PICK n : n = reader[r]
    OBVIOUS
  <2>2. ReaderType(n) /\ ReaderSeen(n)
    BY <2>1 DEF IInv, TypeInv, SeenInv
  <2>3. n.at \in {"query", "fill"} => n.begin \in Nat \ {0}
    BY <1>1, <2>2 DEF ReaderType
  <2>4. n.at = "query" /\ n.key = Paging => PartSeen(n.got, n.begin)'
    BY <1>3, <2>2, <2>3 DEF ReaderSeen
  <2>5. n.at = "fill" => Seen(n.got, n.key, n.begin)'
    BY <1>3, <2>2, <2>3 DEF ReaderSeen
  <2>6. ReaderSeen(n)'
    BY <2>2, <2>4, <2>5 DEF ReaderSeen
  <2> QED
    BY <2>1, <2>6 DEF ReaderSeen, PartSeen, Seen
<1> QED
  BY <1>2, <1>4, <1>5 DEF IInv, SeenInv

\* A reader moves, and caches at most what it has seen.
LEMMA ReadKeeps ==
  ASSUME IInv, NEW r \in Reader, NEW n, reader' = [reader EXCEPT ![r] = n],
         ReaderType(n), ReaderSeen(n), UNCHANGED log, WriterType', DOMAIN cache' = Key,
         \A k \in ReadKey : cache'[k] # None => cache'[k] = cache[k] \/ Seen(cache'[k], k, 1)
  PROVE  IInv'
<1>1. ReaderType(n)' /\ ReaderSeen(n)'
  BY DEF ReaderType, ReaderSeen, Seen, PartSeen
<1>2. \A q \in Reader : reader'[q] = IF q = r THEN n ELSE reader[q]
  BY DEF IInv, TypeInv
<1>3. \A q \in Reader \ {r} : ReaderType(reader[q])' /\ ReaderSeen(reader[q])'
  BY <1>2 DEF IInv, TypeInv, SeenInv, ReaderType, ReaderSeen, Seen, PartSeen
<1>4. ReaderType(reader[r])' /\ ReaderSeen(reader[r])'
  BY <1>1, <1>2 DEF ReaderType, ReaderSeen, Seen, PartSeen
<1>5. TypeInv'
  BY <1>3, <1>4 DEF IInv, TypeInv
<1>6. \A k \in ReadKey : cache'[k] # None => Seen(cache[k], k, 1)'
  BY DEF IInv, SeenInv, Seen
<1> QED
  BY <1>3, <1>4, <1>5, <1>6 DEF IInv, SeenInv

\* The committed state is the last of the log.
LEMMA DbType == TypeInv => Db \in State /\ Len(log) \in Nat \ {0}
  BY DEF TypeInv, Db

\* A read that has ended.
LEMMA AnsweredDone ==
  ASSUME NEW v, NEW s, s = Answered(v)
  PROVE  ReaderType(s) /\ ReaderSeen(s)
<1>1. /\ s = [at |-> s.at, key |-> s.key, forced |-> s.forced, begin |-> s.begin, got |-> s.got]
      /\ s.at = "done"
  BY DEF Answered, Idle
<1> QED
  BY <1>1 DEF ReaderType, ReaderSeen

\* A step of one reader.
LEMMA ReaderSteps ==
  ASSUME IInv, NEW r \in Reader, Begin(r) \/ ReaderStep(r)
  PROVE  IInv'
<1>1. /\ UNCHANGED log /\ WriterType'
      /\ Fill(r) \/ UNCHANGED cache
  BY DEF Begin, ReaderStep, Lookup, Query, QueryPage, Fill, IInv, TypeInv, WriterType
<1>2. DOMAIN cache = Key /\ Len(log) \in Nat \ {0}
  BY DbType DEF IInv, TypeInv
<1>3. PICK n : n = reader[r]
  OBVIOUS
<1>4. ReaderType(n) /\ ReaderSeen(n)
  BY <1>3 DEF IInv, TypeInv, SeenInv
<1>5. CASE Begin(r)
  <2>1. PICK k \in Asked, f \in BOOLEAN :
          reader' = [reader EXCEPT ![r] = [at |-> "lookup", key |-> k, forced |-> f,
                                           begin |-> IF f THEN Len(log) ELSE 1, got |-> None]]
    BY <1>5 DEF Begin
  <2> DEFINE m == [at |-> "lookup", key |-> k, forced |-> f,
                   begin |-> IF f THEN Len(log) ELSE 1, got |-> None]
  <2>2. ReaderType(m) /\ ReaderSeen(m)
    BY <1>2, AskedAssumption DEF ReaderType, ReaderSeen
  <2> HIDE DEF m
  <2> QED
    BY <1>1, <1>2, <1>5, <2>1, <2>2, ReadKeeps DEF m, Begin
<1>6. CASE Lookup(r)
  <2>1. n.at = "lookup" /\ n.key \in ReadKey /\ n.begin \in 1..Len(log) /\ n.got = None
    BY <1>3, <1>4, <1>6 DEF Lookup, ReaderType, ReaderSeen
  <2>2. PICK m : /\ reader' = [reader EXCEPT ![r] = m]
                 /\ m = [n EXCEPT !.at = "query"] \/ \E v : m = Answered(v)
    BY <1>3, <1>6 DEF Lookup
  <2>3. ReaderType(m) /\ ReaderSeen(m)
    BY <1>4, <2>1, <2>2, AnsweredDone DEF ReaderType, ReaderSeen, PartSeen
  <2> QED
    BY <1>1, <1>2, <1>6, <2>2, <2>3, ReadKeeps DEF Lookup
<1>7. CASE Query(r)
  <2>1. n.at = "query" /\ n.key \in ReadKey /\ n.key # Paging /\ n.begin \in 1..Len(log)
    BY <1>3, <1>4, <1>7 DEF Query, ReaderType
  <2>2. PICK v : v = View(n.key, Db)
    OBVIOUS
  <2>3. PICK m : m = [n EXCEPT !.at = "fill", !.got = v]
    OBVIOUS
  <2>4. reader' = [reader EXCEPT ![r] = m]
    BY <1>3, <1>7, <2>2, <2>3 DEF Query, IInv, TypeInv
  <2>5. Seen(v, n.key, n.begin)
    BY <1>2, <2>1, <2>2 DEF Seen, Db
  <2>6. ReaderType(m) /\ ReaderSeen(m)
    BY <1>4, <2>1, <2>3, <2>5 DEF ReaderType, ReaderSeen
  <2> QED
    BY <1>1, <1>2, <1>7, <2>4, <2>6, ReadKeeps DEF Query
<1>8. CASE QueryPage(r)
  <2>1. n.at = "query" /\ n.key = Paging /\ n.begin \in 1..Len(log) /\ PartSeen(n.got, n.begin)
    BY <1>3, <1>4, <1>8 DEF QueryPage, ReaderType, ReaderSeen
  <2>2. PICK seen : seen = IF n.got = None THEN [data |-> None, pages |-> None] ELSE n.got
    OBVIOUS
  <2>3. seen = [data |-> seen.data, pages |-> seen.pages]
    BY <2>1, <2>2 DEF PartSeen
  <2>4. PICK part \in {"data", "pages"} :
          LET now == [seen EXCEPT ![part] = View(Paging, Db)[part]]
          IN reader' = [reader EXCEPT ![r].got = now,
                                      ![r].at = IF None \in {now.data, now.pages} THEN @ ELSE "fill"]
    BY <1>3, <1>8, <2>2 DEF QueryPage
  <2>5. PICK now : now = [seen EXCEPT ![part] = View(Paging, Db)[part]]
    OBVIOUS
  <2>6. PICK label : label = IF None \in {now.data, now.pages} THEN "query" ELSE "fill"
    OBVIOUS
  <2>7. PICK m : m = [n EXCEPT !.got = now, !.at = label]
    OBVIOUS
  <2>8. reader' = [reader EXCEPT ![r] = m]
    BY <1>3, <1>4, <2>1, <2>4, <2>5, <2>6, <2>7 DEF IInv, TypeInv, ReaderType
  <2> DEFINE view == [data |-> Shown(Db), pages |-> Pages(Db)]
  <2>9. now = [seen EXCEPT ![part] = view[part]]
    BY <2>5, PageView
  <2>10. /\ now = [data |-> now.data, pages |-> now.pages]
         /\ now.data = seen.data \/ now.data = Shown(Db)
         /\ now.pages = seen.pages \/ now.pages = Pages(Db)
    <3>1. CASE part = "data"
      <4>1. now = [seen EXCEPT !["data"] = Shown(Db)]
        BY <2>9, <3>1
      <4> QED
        BY <2>3, <4>1
    <3>2. CASE part = "pages"
      <4>1. now = [seen EXCEPT !["pages"] = Pages(Db)]
        BY <2>9, <3>2
      <4> QED
        BY <2>3, <4>1
    <3> QED
      BY <3>1, <3>2
  <2>11. Len(log) \in n.begin..Len(log) /\ Db = log[Len(log)]
    BY <1>2, <2>1 DEF Db
  <2>12. /\ now.data = None \/ \E i \in n.begin..Len(log) : now.data = Shown(log[i])
         /\ now.pages = None \/ \E i \in n.begin..Len(log) : now.pages = Pages(log[i])
    <3>1. /\ seen.data = None \/ \E i \in n.begin..Len(log) : seen.data = Shown(log[i])
          /\ seen.pages = None \/ \E i \in n.begin..Len(log) : seen.pages = Pages(log[i])
      BY <2>1, <2>2 DEF PartSeen
    <3> QED
      BY <2>10, <2>11, <3>1
  <2>13. PartSeen(now, n.begin)
    BY <2>10, <2>12 DEF PartSeen
  <2>14. label = "fill" => Seen(now, Paging, n.begin)
    <3> SUFFICES ASSUME label = "fill" PROVE Seen(now, Paging, n.begin)
      OBVIOUS
    <3>1. now.data # None /\ now.pages # None
      BY <2>6
    <3>2. PICK i \in n.begin..Len(log), j \in n.begin..Len(log) :
            now.data = Shown(log[i]) /\ now.pages = Pages(log[j])
      BY <2>12, <3>1
    <3> QED
      BY <2>10, <3>2 DEF Seen
  <2>15. ReaderType(m) /\ ReaderSeen(m)
    BY <1>4, <2>1, <2>6, <2>7, <2>13, <2>14 DEF ReaderType, ReaderSeen
  <2> QED
    BY <1>1, <1>2, <1>8, <2>8, <2>15, ReadKeeps DEF QueryPage
<1>9. CASE Fill(r)
  <2>1. n.at = "fill" /\ n.key \in ReadKey /\ n.begin \in 1..Len(log) /\ Seen(n.got, n.key, n.begin)
    BY <1>3, <1>4, <1>9 DEF Fill, ReaderType, ReaderSeen
  <2>2. PICK m : m = Answered(n.got) /\ reader' = [reader EXCEPT ![r] = m]
    BY <1>3, <1>9 DEF Fill, IInv, TypeInv
  <2>3. ReaderType(m) /\ ReaderSeen(m)
    BY <2>2, AnsweredDone
  <2>4. Seen(n.got, n.key, 1)
    BY <1>2, <2>1 DEF Seen
  <2>5. cache' = cache \/ cache' = [cache EXCEPT ![n.key] = n.got]
    BY <1>3, <1>9 DEF Fill, CacheKey
  <2>6. /\ DOMAIN cache' = Key
        /\ \A k \in ReadKey : cache'[k] = cache[k] \/ Seen(cache'[k], k, 1)
    BY <1>2, <2>1, <2>4, <2>5, ReadKeyIsKey
  <2> QED
    BY <1>1, <2>2, <2>3, <2>6, ReadKeeps
<1> QED
  BY <1>5, <1>6, <1>7, <1>8, <1>9 DEF ReaderStep

\* The local state of a write after each of its steps.
LEMMA WriterMoves ==
  ASSUME WriterType, NEW w \in Writer, WriteNothing(w) \/ WriterStep(w)
  PROVE  WriterType'
<1> USE DEF WriterType, WriterState
<1>1. CASE WriteNothing(w) \/ CacheOwn(w)
  BY <1>1 DEF WriteNothing, CacheOwn
<1>2. CASE RefreshCache(w)
  <2>1. \E label \in {"open", "done"}, v \in {None, writer[w].val} :
          writer' = [writer EXCEPT ![w].at = label, ![w].val = v]
    BY <1>2 DEF RefreshCache
  <2>2. PICK label \in {"open", "done"}, v \in {None, writer[w].val} :
          writer' = [writer EXCEPT ![w] = [@ EXCEPT !.at = label, !.val = v]]
    BY <2>1
  <2>3. [writer[w] EXCEPT !.at = label, !.val = v] \in WriterState
    OBVIOUS
  <2>4. writer' \in [Writer -> WriterState]
    BY <2>2, <2>3
  <2> QED
    BY <1>2, <2>1, <2>4 DEF RefreshCache
<1>3. CASE Commit(w) \/ Abort(w)
  <2>1. writer' = [writer EXCEPT ![w].at = "done", ![w].val = None, ![w].session = FALSE]
    BY <1>3 DEF Commit, Abort
  <2>2. [writer[w] EXCEPT !.at = "done", !.val = None, !.session = FALSE] \in WriterState
    OBVIOUS
  <2>3. writer' = [writer EXCEPT ![w] = [@ EXCEPT !.at = "done", !.val = None, !.session = FALSE]]
    BY <2>1
  <2>4. writer' \in [Writer -> WriterState]
    BY <2>2, <2>3
  <2> QED
    BY <2>1, <2>4
<1> QED
  BY <1>1, <1>2, <1>3 DEF WriterStep

\* The log grows by one state of the collection, or stays.
LEMMA WriterLog ==
  ASSUME IInv, NEW w \in Writer,
         Create(w) \/ Update(w) \/ Remove(w) \/ WriteNothing(w) \/ WriterStep(w)
  PROVE  UNCHANGED reader /\ \E s \in State : log' = log \/ log' = Append(log, s)
<1>1. Db \in State /\ WriterType
  BY DbType DEF IInv, TypeInv
<1>2. ASSUME NEW d \in Doc, NEW v \in Value \cup {Gone, None} PROVE [Db EXCEPT ![d] = v] \in State
  BY <1>1 DEF State
<1>3. ASSUME NEW new \in BOOLEAN, NEW d \in Doc, NEW v \in Value \cup {Gone, None},
             NEW session \in BOOLEAN, Wrote(w, new, d, v, session)
      PROVE  UNCHANGED reader /\ \E s \in State : log' = log \/ log' = Append(log, s)
  BY <1>1, <1>2, <1>3 DEF Wrote, Append1
<1>4. CASE Create(w) \/ Update(w) \/ Remove(w)
  BY <1>3, <1>4 DEF Create, Update, Remove, Updated
<1>5. CASE Commit(w)
  <2>1. writer[w].doc \in Doc /\ writer[w].val \in Value \cup {Gone, None}
    BY <1>1, <1>5 DEF Commit, WriterType, WriterState
  <2> QED
    BY <1>2, <1>5, <2>1 DEF Commit, Append1
<1>6. CASE WriteNothing(w) \/ CacheOwn(w) \/ RefreshCache(w) \/ Abort(w)
  BY <1>1, <1>6 DEF WriteNothing, CacheOwn, RefreshCache, Abort
<1> QED
  BY <1>4, <1>5, <1>6 DEF WriterStep

\* A step of one writer.
LEMMA WriterSteps ==
  ASSUME IInv, NEW w \in Writer,
         Create(w) \/ Update(w) \/ Remove(w) \/ WriteNothing(w) \/ WriterStep(w)
  PROVE  IInv'
<1> USE DEF IInv, TypeInv
<1>1. ASSUME NEW new \in BOOLEAN, NEW d \in Doc, NEW v \in Value \cup {Gone, None},
             NEW session \in BOOLEAN, Wrote(w, new, d, v, session)
      PROVE  IInv'
  <2>1. [Db EXCEPT ![d] = v] \in State
    BY DbType DEF State
  <2>2. log' = log \/ log' = Append(log, [Db EXCEPT ![d] = v])
    BY <1>1 DEF Wrote, Append1
  <2>3. writer' = [writer EXCEPT ![w] =
          [at |-> IF new THEN "own" ELSE "refresh", new |-> new, doc |-> d, val |-> v, session |-> session]]
    BY <1>1 DEF Wrote
  <2>4. UNCHANGED <<cache, reader>>
    BY <1>1 DEF Wrote
  <2>5. WriterType'
    BY <2>3 DEF WriterType, WriterState
  <2> QED
    BY <2>1, <2>2, <2>4, <2>5, WriteKeeps
<1>2. CASE Create(w) \/ Update(w) \/ Remove(w)
  BY <1>1, <1>2 DEF Create, Update, Remove, Updated
<1>3. CASE WriteNothing(w) \/ RefreshCache(w) \/ Abort(w)
  <2>1. UNCHANGED <<log, cache, reader>>
    BY <1>3 DEF WriteNothing, RefreshCache, Abort
  <2>2. WriterType'
    BY <1>3, WriterMoves DEF WriterStep
  <2> QED
    BY <2>1, <2>2, WriteKeeps, DbType
<1>4. CASE CacheOwn(w)
  <2>1. writer[w].doc \in Doc /\ WriterType'
    BY <1>4 DEF CacheOwn, WriterType, WriterState
  <2>2. Own(writer[w].doc) \notin ReadKey
    BY DEF Own, ReadKey, ById, ByField, Listing, Paging
  <2>3. cache' = [cache EXCEPT ![Own(writer[w].doc)] = writer[w].val] /\ UNCHANGED <<log, reader>>
    BY <1>4 DEF CacheOwn
  <2> QED
    BY <2>1, <2>2, <2>3, CacheDrops, ReadKeyIsKey
<1>5. CASE Commit(w)
  <2>1. [Db EXCEPT ![writer[w].doc] = writer[w].val] \in State
    BY <1>5, DbType DEF State, Commit, WriterType, WriterState
  <2>2. log' = Append(log, [Db EXCEPT ![writer[w].doc] = writer[w].val]) /\ UNCHANGED <<cache, reader>>
    BY <1>5 DEF Commit, Append1
  <2>3. WriterType'
    BY <1>5, WriterMoves DEF WriterStep
  <2> QED
    BY <2>1, <2>2, <2>3, WriteKeeps
<1> QED
  BY <1>2, <1>3, <1>4, <1>5 DEF WriterStep

\* What is cached or in hand was committed (repository.service.ts).
THEOREM Correct == Spec => []IInv
<1>1. Init => IInv
  <2> SUFFICES ASSUME Init PROVE IInv
    OBVIOUS
  <2>1. log \in Seq(State) /\ Len(log) >= 1
    BY DEF Init, State
  <2>2. \A r \in Reader : ReaderType(reader[r]) /\ ReaderSeen(reader[r])
    BY DEF Init, Idle, ReaderType, ReaderSeen
  <2>3. WriterType
    BY DEF Init, Unused, WriterType, WriterState
  <2> QED
    BY <2>1, <2>2, <2>3, ReadKeyIsKey DEF Init, IInv, TypeInv, SeenInv
<1>2. IInv /\ [Next]_vars => IInv'
  <2> SUFFICES ASSUME IInv, [Next]_vars PROVE IInv'
    OBVIOUS
  <2>1. ASSUME NEW x \in Deletion, Scan(x) \/ Delete(x) PROVE IInv'
    BY <2>1, CacheDrops, ReadKeyIsKey DEF Scan, Delete, IInv, TypeInv, WriterType
  <2>2. ASSUME NEW k \in Key, Expire(k) PROVE IInv'
    BY <2>2, CacheDrops, ReadKeyIsKey DEF Expire, IInv, TypeInv, WriterType
  <2>3. CASE UNCHANGED vars
    BY <2>3, CacheDrops DEF vars, IInv, TypeInv, WriterType
  <2> QED
    BY <2>1, <2>2, <2>3, ReaderSteps, WriterSteps DEF Next
<1> QED
  BY <1>1, <1>2, PTL DEF Spec

-----------------------------------------------------------------------------
(* What is outdated has a cause.                                           *)

\* A write has a document of its own while a transaction is open; the document
\* of a creation has never been there before.
WriteInv ==
  /\ \A w, u \in Writer : writer[w].session /\ writer[u].session /\ writer[w].doc = writer[u].doc => w = u
  /\ \A w \in Writer : writer[w].session =>
       /\ writer[w].at \in {"own", "refresh", "open"}
       /\ writer[w].new => NeverMade(writer[w].doc)
  /\ \A w \in Writer : writer[w].at = "open" => writer[w].session

\* A deletion is started by the refresh of its write, and scans once.
SweepInv ==
  /\ DOMAIN found = Deletion
  /\ \A x \in Deletion :
       /\ x \in scan => found[x] = {}
       /\ x \in scan \/ found[x] # {} => writer[x[1]].at \in {"open", "done"}

\* What the deletions under way will drop.
PendingKey(w, k) ==
  \/ writer[w].at \in {"own", "refresh"} /\ k \in Covered(w)
  \/ \E p \in Pattern :
       \/ <<w, p>> \in scan /\ k \in Matches(p, writer[w].doc)
       \/ k \in found[<<w, p>>]

\* An outdated entry has a cause.
CausedInv == \A k \in Swept : Stale(k) => k \in late \/ \E w \in Writer : PendingKey(w, k)

CauseInv == WriteInv /\ SweepInv /\ CausedInv

\* What a write has to drop, a deletion under way will.
LEMMA PendingKeys ==
  ASSUME scan \subseteq Deletion, NEW k, NEW w \in Writer, PendingKey(w, k)
  PROVE  Pending(k)
<1>1. \A p \in Pattern : <<w, p>> \in Deletion /\ <<w, p>>[1] = w /\ <<w, p>>[2] = p
  BY DEF Deletion
<1> QED
  BY <1>1 DEF PendingKey, Pending

\* A read key by id or of a listing.
LEMMA SweptKeys ==
  /\ Swept \subseteq ReadKey
  /\ \A k \in Swept : k = Listing \/ k = Paging \/ \E d \in Doc : k = ById(d)
BY DEF Swept, ReadKey, ById, ByField, Listing, Paging

\* The view of a document is the document.
LEMMA DocumentView == \A d, s : View(ById(d), s) = s[d]
  BY DEF View, ById

\* What is cached of a document that was never there: nothing.
LEMMA NeverCached ==
  ASSUME IInv, NEW d \in Doc, NeverMade(d)
  PROVE  cache[ById(d)] = None
<1>1. ById(d) \in ReadKey /\ ById(d) # Paging
  BY DEF ReadKey, ById, Paging
<1>2. ASSUME cache[ById(d)] # None PROVE FALSE
  <2>1. PICK i \in 1..Len(log) : cache[ById(d)] = View(ById(d), log[i])
    BY <1>1, <1>2 DEF IInv, SeenInv, Seen
  <2>2. cache[ById(d)] = log[i][d]
    BY <2>1, DocumentView
  <2> QED
    BY <1>2, <2>1, <2>2 DEF NeverMade, IInv, TypeInv
<1> QED
  BY <1>2

\* A write of one document changes the listings and the view of that document.
LEMMA ViewsChange ==
  ASSUME IInv, NEW d \in Doc, NEW v, Append1(d, v)
  PROVE  \A k \in Swept : k = ById(d) \/ k = Listing \/ k = Paging \/ View(k, Db)' = View(k, Db)
<1>1. Db' = [Db EXCEPT ![d] = v] /\ Db \in State
  BY DbType DEF Append1, Db, IInv, TypeInv
<1>2. ASSUME NEW e \in Doc, e # d PROVE View(ById(e), Db)' = View(ById(e), Db)
  <2>1. Db'[e] = Db[e]
    BY <1>1, <1>2 DEF State
  <2>2. \A s : View(ById(e), s) = s[e]
    BY DocumentView
  <2> QED
    BY <2>1, <2>2 DEF View, ById
<1> QED
  BY <1>2, SweptKeys

\* Another write's step leaves a deletion pending.
LEMMA PendingElse ==
  ASSUME NEW w, NEW u, NEW k, writer'[u] = writer[u], PendingKey(u, k),
         \A p \in Pattern : /\ <<u, p>> \in scan => <<u, p>> \in scan'
                            /\ found'[<<u, p>>] = found[<<u, p>>]
  PROVE  PendingKey(u, k)'
BY DEF PendingKey, Covered, Matches, Patterns

\* The keys that the write of a document has to drop.
Cover(n, d) == UNION {Matches(p, d) : p \in Patterns(n)}

\* An update drops its document, and every write the listings.
LEMMA CoveredKeys ==
  ASSUME NEW n, NEW d
  PROVE  Listing \in Cover(n, d) /\ Paging \in Cover(n, d) /\ (~n => ById(d) \in Cover(n, d))
<1>1. "listing" \in Patterns(n) /\ Matches("listing", d) = {Listing, Paging}
  BY DEF Patterns, Pattern, Matches
<1>2. ~n => "id" \in Patterns(n)
  BY DEF Patterns, Pattern
<1>3. ById(d) \in Matches("id", d)
  BY DEF Matches
<1>4. Listing \in Cover(n, d) /\ Paging \in Cover(n, d)
  BY <1>1 DEF Cover
<1>5. ~n => ById(d) \in Cover(n, d)
  BY <1>2, <1>3 DEF Cover
<1> QED
  BY <1>4, <1>5

\* The deletions there are.
ScanType == scan \subseteq Deletion

\* A write has answered.
LEMMA WroteCause ==
  ASSUME IInv, ScanType, CauseInv, NEW w \in Writer, NEW new \in BOOLEAN, NEW d \in Doc, NEW v,
         NEW session \in BOOLEAN, Wrote(w, new, d, v, session), new => NeverMade(d)
  PROVE  CauseInv'
<1>1. /\ writer[w].at = "idle" /\ ~Held(d)
      /\ writer'[w] = [at |-> IF new THEN "own" ELSE "refresh", new |-> new, doc |-> d, val |-> v, session |-> session]
      /\ \A u \in Writer \ {w} : writer'[u] = writer[u]
      /\ IF session THEN UNCHANGED log ELSE Append1(d, v)
      /\ UNCHANGED <<cache, reader, scan, found, late>>
  BY DEF Wrote, IInv, TypeInv, WriterType
<1>2. \A u \in Writer : writer[u].session => writer[u].doc # d
  BY <1>1 DEF Held, CauseInv, WriteInv
<1>3. ASSUME NEW e \in Doc, e # d, NeverMade(e) PROVE NeverMade(e)'
  <2>1. CASE log' = log
    BY <1>3, <2>1 DEF NeverMade
  <2>2. CASE Append1(d, v)
    <3>1. log' = Append(log, [Db EXCEPT ![d] = v]) /\ Db \in State /\ log \in Seq(State) /\ Len(log) \in Nat \ {0}
      BY <2>2, DbType DEF Append1, IInv, TypeInv
    <3>2. Db[e] = None
      BY <1>3, <3>1 DEF NeverMade, Db
    <3>3. [Db EXCEPT ![d] = v][e] = None
      BY <1>3, <3>1, <3>2 DEF State
    <3> QED
      BY <1>3, <3>1, <3>3 DEF NeverMade
  <2> QED
    BY <1>1, <2>1, <2>2
<1>4. WriteInv'
  <2>1. \A u \in Writer : writer[u].session => writer[u].doc \in Doc
    BY DEF CauseInv, WriteInv, IInv, TypeInv, WriterType
  <2>2. ASSUME NEW u \in Writer, writer'[u].session
        PROVE  writer'[u].at \in {"own", "refresh", "open"} /\ (writer'[u].new => NeverMade(writer[u].doc)')
    <3>1. CASE u = w
      BY <1>1, <2>2, <3>1 DEF NeverMade
    <3>2. CASE u # w
      BY <1>1, <1>2, <1>3, <2>1, <2>2, <3>2 DEF CauseInv, WriteInv
    <3> QED
      BY <3>1, <3>2
  <2>3. \A a, b \in Writer : writer'[a].session /\ writer'[b].session /\ writer'[a].doc = writer'[b].doc => a = b
    BY <1>1, <1>2 DEF CauseInv, WriteInv
  <2>4. \A u \in Writer : writer'[u].at = "open" => writer'[u].session
    BY <1>1 DEF CauseInv, WriteInv
  <2> QED
    BY <2>2, <2>3, <2>4 DEF WriteInv, NeverMade
<1>5. \A x \in Deletion : x[1] = w => x \notin scan /\ found[x] = {}
  BY <1>1 DEF CauseInv, SweepInv
<1>6. SweepInv'
  <2>1. \A x \in Deletion : x[1] \in Writer
    BY DEF Deletion
  <2> QED
    BY <1>1, <1>5, <2>1 DEF CauseInv, SweepInv
<1>7. ASSUME NEW k \in Swept, Stale(k)' PROVE k \in late' \/ \E u \in Writer : PendingKey(u, k)'
  <2>1. cache[k] # None
    BY <1>1, <1>7 DEF Stale
  <2>2. CASE Stale(k)
    <3>1. CASE k \in late
      BY <1>1, <3>1
    <3>2. CASE \E u \in Writer : PendingKey(u, k)
      <4>1. PICK u \in Writer : PendingKey(u, k)
        BY <3>2
      <4>2. u # w
        <5>1. \A p \in Pattern : <<w, p>> \notin scan /\ found[<<w, p>>] = {}
          <6>1. \A p \in Pattern : <<w, p>> \in Deletion /\ <<w, p>>[1] = w
            BY DEF Deletion
          <6> QED
            BY <1>5, <6>1
        <5>2. /\ writer[w].at \notin {"own", "refresh"}
              /\ \A p \in Pattern : <<w, p>> \notin scan /\ k \notin found[<<w, p>>]
          BY <1>1, <5>1
        <5> SUFFICES ASSUME u = w PROVE FALSE
          OBVIOUS
        <5> QED
          BY <4>1, <5>2 DEF PendingKey
      <4>3. PendingKey(u, k)'
        BY <1>1, <4>1, <4>2, PendingElse
      <4> QED
        BY <4>3
    <3> QED
      BY <1>7, <2>2, <3>1, <3>2 DEF CauseInv, CausedInv
  <2>3. CASE ~Stale(k)
    <3>1. View(k, Db)' # View(k, Db)
      BY <1>1, <1>7, <2>3 DEF Stale
    <3>2. Append1(d, v)
      <4>1. CASE log' = log
        BY <3>1, <4>1 DEF Db
      <4> QED
        BY <1>1, <4>1
    <3>3. k = ById(d) \/ k = Listing \/ k = Paging
      BY <3>1, <3>2, ViewsChange
    <3>4. k = ById(d) => ~new
      BY <2>1, NeverCached
    <3>5. Covered(w)' = Cover(new, d)
      <4>1. writer'[w].new = new /\ writer'[w].doc = d
        BY <1>1
      <4> QED
        BY <4>1 DEF Covered, Cover
    <3>6. k \in Covered(w)'
      BY <3>3, <3>4, <3>5, CoveredKeys
    <3> QED
      BY <1>1, <3>6 DEF PendingKey
  <2> QED
    BY <2>2, <2>3
<1> QED
  BY <1>4, <1>6, <1>7 DEF CauseInv, CausedInv

\* A step that leaves the log and the writes' documents, and caches nothing
\* outdated without recording it.
LEMMA QuietCause ==
  ASSUME IInv, CauseInv, WriteInv', SweepInv', UNCHANGED log,
         \A k \in Swept : cache'[k] = cache[k] /\ cache[k] # None /\ k \in late => k \in late',
         \A k \in Swept : cache'[k] # cache[k] =>
            k \in late' \/ cache'[k] = None \/ cache'[k] = View(k, Db),
         \A k \in Swept, w \in Writer : PendingKey(w, k) /\ cache'[k] = cache[k] /\ cache[k] # None => PendingKey(w, k)'
  PROVE  CauseInv'
<1>1. ASSUME NEW k \in Swept, Stale(k)' PROVE k \in late' \/ \E w \in Writer : PendingKey(w, k)'
  <2>1. cache'[k] # None /\ cache'[k] # View(k, Db)
    BY <1>1 DEF Stale, Db
  <2>2. CASE cache'[k] = cache[k]
    <3>1. Stale(k)
      BY <2>1, <2>2 DEF Stale
    <3> QED
      BY <2>1, <2>2, <3>1 DEF CauseInv, CausedInv
  <2> QED
    BY <2>1, <2>2
<1> QED
  BY <1>1 DEF CauseInv, CausedInv

\* WriteInv depends on the log and the writes.
LEMMA WriteQuiet ==
  ASSUME WriteInv, UNCHANGED log,
         \A w \in Writer :
           /\ writer'[w].session => writer[w].session
           /\ writer'[w].doc = writer[w].doc /\ writer'[w].new = writer[w].new
           /\ writer'[w].at = "open" => writer'[w].session
           /\ writer'[w].session => writer'[w].at \in {"own", "refresh", "open"}
  PROVE  WriteInv'
BY DEF WriteInv, NeverMade

\* Reads, which fill the cache with what was shown when they looked.
LEMMA ReaderCause ==
  ASSUME IInv, CauseInv, NEW r \in Reader, Begin(r) \/ ReaderStep(r)
  PROVE  CauseInv'
<1>1. UNCHANGED <<log, writer, scan, found>>
  BY DEF Begin, ReaderStep, Lookup, Query, QueryPage, Fill
<1>2. WriteInv' /\ SweepInv'
  BY <1>1 DEF CauseInv, WriteInv, SweepInv, NeverMade
<1>3. \A k, w : PendingKey(w, k)' <=> PendingKey(w, k)
  BY <1>1 DEF PendingKey, Covered, Matches, Patterns
<1>4. CASE UNCHANGED <<cache, late>>
  BY <1>1, <1>2, <1>3, <1>4, QuietCause
<1>5. CASE Fill(r) /\ cache' # cache
  <2>1. PICK k, v : k = reader[r].key /\ v = reader[r].got
    OBVIOUS
  <2>2. /\ cache' = [cache EXCEPT ![k] = v]
        /\ late' = IF v = View(k, Db) THEN late \ {k} ELSE late \cup {k}
    BY <1>5, <2>1 DEF Fill, CacheKey
  <2>3. \A x \in Swept \ {k} : cache'[x] = cache[x] /\ (x \in late => x \in late')
    BY <2>2, SweptKeys, ReadKeyIsKey DEF IInv, TypeInv
  <2>4. k \in Swept => cache'[k] = v /\ (v = View(k, Db) \/ k \in late')
    BY <2>2, SweptKeys, ReadKeyIsKey DEF IInv, TypeInv
  <2>5. ASSUME NEW x \in Swept, Stale(x)' PROVE x \in late' \/ \E w \in Writer : PendingKey(w, x)'
    <3>1. CASE x = k
      BY <1>1, <2>4, <2>5, <3>1 DEF Stale, Db
    <3>2. CASE x # k
      <4>1. Stale(x)
        BY <1>1, <2>3, <2>5, <3>2 DEF Stale, Db
      <4> QED
        BY <1>3, <2>3, <3>2, <4>1 DEF CauseInv, CausedInv
    <3> QED
      BY <3>1, <3>2
  <2> QED
    BY <1>2, <2>5 DEF CauseInv, CausedInv
<1>6. CASE Fill(r) /\ cache' = cache
  <2>1. CASE UNCHANGED late
    BY <1>4, <1>6, <2>1
  <2>2. CASE late' # late
    <3>1. PICK k, v : k = reader[r].key /\ v = reader[r].got
      OBVIOUS
    <3>2. /\ cache' = [cache EXCEPT ![k] = v]
          /\ late' = IF v = View(k, Db) THEN late \ {k} ELSE late \cup {k}
      BY <1>6, <2>2, <3>1 DEF Fill, CacheKey
    <3>3. ASSUME NEW x \in Swept, Stale(x)' PROVE x \in late' \/ \E w \in Writer : PendingKey(w, x)'
      <4>1. Stale(x)
        BY <1>1, <1>6, <3>3 DEF Stale, Db
      <4>2. x \in late => x \in late'
        <5>1. CASE x = k
          <6>1. x \in DOMAIN cache
            BY SweptKeys, ReadKeyIsKey DEF IInv, TypeInv
          <6>2. cache[x] = v
            BY <1>6, <3>2, <5>1, <6>1
          <6>3. v # View(k, Db)
            BY <4>1, <5>1, <6>2 DEF Stale
          <6> QED
            BY <3>2, <5>1, <6>3
        <5>2. CASE x # k
          BY <3>2, <5>2
        <5> QED
          BY <5>1, <5>2
      <4> QED
        BY <1>3, <4>1, <4>2 DEF CauseInv, CausedInv
    <3> QED
      BY <1>2, <3>3 DEF CauseInv, CausedInv
  <2> QED
    BY <2>1, <2>2
<1> QED
  BY <1>4, <1>5, <1>6 DEF Begin, ReaderStep, Lookup, Query, QueryPage

\* Steps of a write that leave the log: what it has to drop stays pending.
LEMMA WriterQuietCause ==
  ASSUME IInv, ScanType, CauseInv, NEW w \in Writer, CacheOwn(w) \/ RefreshCache(w) \/ Abort(w)
  PROVE  CauseInv'
<1>1. /\ \A u \in Writer \ {w} : writer'[u] = writer[u]
      /\ writer'[w].doc = writer[w].doc /\ writer'[w].new = writer[w].new
      /\ UNCHANGED <<log, found, late>>
  BY DEF CacheOwn, RefreshCache, Abort, IInv, TypeInv, WriterType, WriterState
<1>2. \A x \in Deletion : x[1] \in Writer /\ x[2] \in Pattern /\ x = <<x[1], x[2]>>
  BY DEF Deletion
<1>3. WriteInv'
  <2>1. /\ writer'[w].session => writer[w].session
        /\ writer'[w].at = "open" => writer'[w].session
        /\ writer'[w].session => writer'[w].at \in {"own", "refresh", "open"}
    BY DEF CacheOwn, RefreshCache, Abort, IInv, TypeInv, WriterType, WriterState
  <2> QED
    BY <1>1, <2>1, WriteQuiet DEF CauseInv, WriteInv
<1>4. \A k \in Swept : cache'[k] = cache[k]
  <2>1. CASE CacheOwn(w)
    <3>1. \A d : Own(d) \notin Swept
      BY DEF Own, Swept, ReadKey, ById, ByField, Listing, Paging
    <3> QED
      BY <2>1, <3>1 DEF CacheOwn, IInv, TypeInv
  <2>2. CASE RefreshCache(w) \/ Abort(w)
    BY <2>2 DEF RefreshCache, Abort
  <2> QED
    BY <2>1, <2>2
<1>5. CASE CacheOwn(w)
  <2>1. writer[w].at = "own" /\ writer'[w].at = "refresh" /\ scan' = scan
    BY <1>5 DEF CacheOwn, IInv, TypeInv, WriterType, WriterState
  <2>2. SweepInv'
    BY <1>1, <1>2, <2>1 DEF CauseInv, SweepInv
  <2>3. ASSUME NEW k \in Swept, NEW u \in Writer, PendingKey(u, k) PROVE PendingKey(u, k)'
    BY <1>1, <2>1, <2>3 DEF PendingKey, Covered, Matches, Patterns
  <2> QED
    BY <1>1, <1>3, <1>4, <2>2, <2>3, QuietCause
<1>6. CASE RefreshCache(w)
  <2>1. /\ writer[w].at = "refresh" /\ writer'[w].at \in {"open", "done"}
        /\ scan' = scan \cup ({w} \X Patterns(writer[w].new))
    BY <1>6 DEF RefreshCache, IInv, TypeInv, WriterType, WriterState
  <2>2. SweepInv'
    BY <1>1, <1>2, <2>1 DEF CauseInv, SweepInv
  <2>3. ASSUME NEW k \in Swept, NEW u \in Writer, PendingKey(u, k) PROVE PendingKey(u, k)'
    <3>1. CASE u # w
      <4>1. \A p \in Pattern : <<u, p>> \in scan => <<u, p>> \in scan'
        BY <2>1
      <4> QED
        BY <1>1, <2>3, <3>1, <4>1, PendingElse
    <3>2. CASE u = w /\ k \in Covered(w)
      <4>1. PICK p \in Patterns(writer[w].new) : k \in Matches(p, writer[w].doc)
        BY <3>2 DEF Covered
      <4>2. p \in Pattern /\ <<w, p>> \in scan'
        BY <2>1, <4>1 DEF Patterns, Pattern
      <4>3. k \in Matches(p, writer'[w].doc)
        BY <1>1, <4>1
      <4> QED
        BY <3>2, <4>2, <4>3 DEF PendingKey, Matches
    <3>3. CASE u = w /\ k \notin Covered(w)
      <4>1. PICK p \in Pattern : (<<w, p>> \in scan /\ k \in Matches(p, writer[w].doc)) \/ k \in found[<<w, p>>]
        BY <2>3, <3>3 DEF PendingKey
      <4>2. <<w, p>> \in scan => <<w, p>> \in scan'
        BY <2>1
      <4> QED
        BY <1>1, <3>3, <4>1, <4>2 DEF PendingKey, Matches
    <3> QED
      BY <3>1, <3>2, <3>3
  <2> QED
    BY <1>1, <1>3, <1>4, <2>2, <2>3, QuietCause
<1>7. CASE Abort(w)
  <2>1. writer[w].at = "open" /\ writer'[w].at = "done" /\ scan' = scan
    BY <1>7 DEF Abort, IInv, TypeInv, WriterType, WriterState
  <2>2. SweepInv'
    BY <1>1, <1>2, <2>1 DEF CauseInv, SweepInv
  <2>3. ASSUME NEW k \in Swept, NEW u \in Writer, PendingKey(u, k) PROVE PendingKey(u, k)'
    BY <1>1, <2>1, <2>3 DEF PendingKey, Covered, Matches, Patterns
  <2> QED
    BY <1>1, <1>3, <1>4, <2>2, <2>3, QuietCause
<1> QED
  BY <1>5, <1>6, <1>7

\* A commit: what its deletions have passed and now is outdated is recorded.
LEMMA CommitCause ==
  ASSUME IInv, ScanType, CauseInv, NEW w \in Writer, Commit(w)
  PROVE  CauseInv'
<1>1. PICK d, v, new : d = writer[w].doc /\ v = writer[w].val /\ new = writer[w].new
  OBVIOUS
<1>2. /\ writer[w].at = "open" /\ writer[w].session /\ d \in Doc
      /\ Append1(d, v)
      /\ \A u \in Writer \ {w} : writer'[u] = writer[u]
      /\ writer'[w].doc = d /\ writer'[w].new = new /\ writer'[w].at = "done" /\ ~writer'[w].session
      /\ UNCHANGED <<cache, scan, found>>
  BY <1>1 DEF Commit, CauseInv, WriteInv, IInv, TypeInv, WriterType, WriterState
<1>3. ASSUME NEW e \in Doc, e # d, NeverMade(e) PROVE NeverMade(e)'
  <2>1. log' = Append(log, [Db EXCEPT ![d] = v]) /\ Db \in State /\ log \in Seq(State) /\ Len(log) \in Nat \ {0}
    BY <1>2, DbType DEF Append1, IInv, TypeInv
  <2>2. Db[e] = None
    BY <1>3, <2>1 DEF NeverMade, Db
  <2>3. [Db EXCEPT ![d] = v][e] = None
    BY <1>3, <2>1, <2>2 DEF State
  <2> QED
    BY <1>3, <2>1, <2>3 DEF NeverMade
<1>4. WriteInv'
  <2>1. \A u \in Writer : writer[u].session => writer[u].doc \in Doc
    BY DEF CauseInv, WriteInv, IInv, TypeInv, WriterType
  <2>2. ASSUME NEW u \in Writer, writer'[u].session
        PROVE  writer'[u].at \in {"own", "refresh", "open"} /\ (writer'[u].new => NeverMade(writer[u].doc)')
    <3>1. u # w /\ writer'[u] = writer[u] /\ writer[u].doc # d
      BY <1>1, <1>2, <2>2 DEF CauseInv, WriteInv
    <3> QED
      BY <1>3, <2>1, <2>2, <3>1 DEF CauseInv, WriteInv
  <2>3. \A a, b \in Writer : writer'[a].session /\ writer'[b].session /\ writer'[a].doc = writer'[b].doc => a = b
    BY <1>2 DEF CauseInv, WriteInv
  <2>4. \A u \in Writer : writer'[u].at = "open" => writer'[u].session
    BY <1>2 DEF CauseInv, WriteInv
  <2>5. \A u \in Writer : writer'[u].session => writer'[u].doc = writer[u].doc
    BY <1>2
  <2> QED
    BY <2>2, <2>3, <2>4, <2>5 DEF WriteInv, NeverMade
<1>5. SweepInv'
  <2>1. \A x \in Deletion : x[1] \in Writer
    BY DEF Deletion
  <2> QED
    BY <1>2, <2>1 DEF CauseInv, SweepInv
<1>6. ASSUME NEW k \in Swept, NEW u \in Writer, PendingKey(u, k) PROVE PendingKey(u, k)'
  <2>1. CASE u # w
    BY <1>2, <1>6, <2>1, PendingElse
  <2>2. CASE u = w
    BY <1>1, <1>2, <1>6, <2>2 DEF PendingKey, Matches
  <2> QED
    BY <2>1, <2>2
<1>7. PICK swept :
        /\ swept = {k \in Covered(w) : \A p \in Pattern :
                      /\ k \in Matches(p, writer[w].doc) => <<w, p>> \notin scan
                      /\ k \notin found[<<w, p>>]}
        /\ late' = late \cup {k \in swept : cache[k] # None /\ cache[k] # View(k, Db')}
  BY DEF Commit
<1>8. ASSUME NEW k \in Swept, Stale(k)' PROVE k \in late' \/ \E u \in Writer : PendingKey(u, k)'
  <2>1. cache[k] # None /\ cache[k] # View(k, Db')
    BY <1>2, <1>8 DEF Stale, Db
  <2>2. CASE Stale(k)
    BY <1>6, <1>7, <1>8, <2>2 DEF CauseInv, CausedInv
  <2>3. CASE ~Stale(k)
    <3>1. View(k, Db)' # View(k, Db)
      BY <1>2, <1>8, <2>1, <2>3 DEF Stale
    <3>2. k = ById(d) \/ k = Listing \/ k = Paging
      BY <1>2, <3>1, ViewsChange
    <3>3. k = ById(d) => ~new
      BY <1>1, <1>2, <2>1, NeverCached DEF CauseInv, WriteInv
    <3>4. k \in Covered(w)
      <4>1. Covered(w) = Cover(new, d)
        BY <1>1 DEF Covered, Cover
      <4> QED
        BY <3>2, <3>3, <4>1, CoveredKeys
    <3>5. CASE k \in swept
      BY <1>7, <2>1, <3>5
    <3>6. CASE k \notin swept
      <4>1. PICK p \in Pattern : (k \in Matches(p, writer[w].doc) /\ <<w, p>> \in scan) \/ k \in found[<<w, p>>]
        BY <1>7, <3>4, <3>6
      <4>2. PendingKey(w, k)
        BY <4>1 DEF PendingKey
      <4> QED
        BY <1>6, <4>2
    <3> QED
      BY <3>5, <3>6
  <2> QED
    BY <2>2, <2>3
<1> QED
  BY <1>4, <1>5, <1>8 DEF CauseInv, CausedInv

\* A deletion finds, and drops, what is cached of what it has to drop.
LEMMA DeletionCause ==
  ASSUME IInv, ScanType, CauseInv, NEW x \in Deletion, Scan(x) \/ Delete(x)
  PROVE  CauseInv'
<1>1. UNCHANGED <<log, writer>>
  BY DEF Scan, Delete
<1>2. WriteInv'
  BY <1>1 DEF CauseInv, WriteInv, NeverMade
<1>3. x[1] \in Writer /\ x[2] \in Pattern /\ x = <<x[1], x[2]>>
  BY DEF Deletion
<1>4. CASE Scan(x)
  <2>1. /\ x \in scan /\ scan' = scan \ {x} /\ UNCHANGED <<cache, late>>
        /\ found' = [found EXCEPT ![x] = {k \in Matches(x[2], writer[x[1]].doc) : cache[k] # None}]
    BY <1>4 DEF Scan
  <2>2. SweepInv'
    BY <1>1, <2>1 DEF CauseInv, SweepInv
  <2>3. ASSUME NEW k \in Swept, NEW u \in Writer, PendingKey(u, k), cache[k] # None PROVE PendingKey(u, k)'
    <3>1. CASE writer[u].at \in {"own", "refresh"} /\ k \in Covered(u)
      BY <1>1, <3>1 DEF PendingKey, Covered, Matches, Patterns
    <3>2. ASSUME NEW p \in Pattern,
                 (<<u, p>> \in scan /\ k \in Matches(p, writer[u].doc)) \/ k \in found[<<u, p>>]
          PROVE  PendingKey(u, k)'
      <4>1. <<u, p>> \in Deletion
        BY <3>2 DEF Deletion
      <4>2. CASE x = <<u, p>>
        <5>1. found[x] = {} /\ x[1] = u /\ x[2] = p
          BY <2>1, <4>2 DEF CauseInv, SweepInv
        <5>2. k \in Matches(p, writer[u].doc)
          BY <3>2, <4>2, <5>1
        <5>3. k \in found'[<<u, p>>]
          BY <2>1, <2>3, <4>1, <4>2, <5>1, <5>2 DEF CauseInv, SweepInv
        <5> QED
          BY <3>2, <5>3 DEF PendingKey
      <4>3. CASE x # <<u, p>>
        <5>1. found'[<<u, p>>] = found[<<u, p>>] /\ (<<u, p>> \in scan => <<u, p>> \in scan')
          BY <2>1, <4>1, <4>3 DEF CauseInv, SweepInv
        <5> QED
          BY <1>1, <3>2, <5>1 DEF PendingKey, Matches
      <4> QED
        BY <4>2, <4>3
    <3> QED
      BY <2>3, <3>1, <3>2 DEF PendingKey
  <2> QED
    BY <1>1, <1>2, <2>1, <2>2, <2>3, QuietCause
<1>5. CASE Delete(x)
  <2>1. /\ cache' = [k \in Key |-> IF k \in found[x] THEN None ELSE cache[k]]
        /\ late' = late \ found[x] /\ found' = [found EXCEPT ![x] = {}] /\ scan' = scan
    BY <1>5 DEF Delete
  <2>2. SweepInv'
    BY <1>1, <2>1 DEF CauseInv, SweepInv
  <2>3. \A k \in Swept : k \in Key /\ cache'[k] = IF k \in found[x] THEN None ELSE cache[k]
    BY <2>1, SweptKeys, ReadKeyIsKey
  <2>4. ASSUME NEW k \in Swept, NEW u \in Writer, PendingKey(u, k), k \notin found[x] PROVE PendingKey(u, k)'
    <3>1. CASE writer[u].at \in {"own", "refresh"} /\ k \in Covered(u)
      BY <1>1, <3>1 DEF PendingKey, Covered, Matches, Patterns
    <3>2. ASSUME NEW p \in Pattern,
                 (<<u, p>> \in scan /\ k \in Matches(p, writer[u].doc)) \/ k \in found[<<u, p>>]
          PROVE  PendingKey(u, k)'
      <4>1. <<u, p>> \in Deletion
        BY <3>2 DEF Deletion
      <4>2. k \in found[<<u, p>>] => k \in found'[<<u, p>>]
        BY <2>1, <2>4, <4>1 DEF CauseInv, SweepInv
      <4> QED
        BY <1>1, <2>1, <3>2, <4>2 DEF PendingKey, Matches
    <3> QED
      BY <2>4, <3>1, <3>2 DEF PendingKey
  <2>5. \A k \in Swept : cache'[k] = cache[k] /\ cache[k] # None => k \notin found[x]
    BY <2>3
  <2>6. \A k \in Swept, u \in Writer : PendingKey(u, k) /\ cache'[k] = cache[k] /\ cache[k] # None => PendingKey(u, k)'
    BY <2>4, <2>5
  <2>7. \A k \in Swept : cache'[k] = cache[k] /\ cache[k] # None /\ k \in late => k \in late'
    BY <2>1, <2>5
  <2>8. \A k \in Swept : cache'[k] # cache[k] => cache'[k] = None
    BY <2>3
  <2> QED
    BY <1>1, <1>2, <2>2, <2>6, <2>7, <2>8, QuietCause
<1> QED
  BY <1>4, <1>5

\* Redis drops an entry.
LEMMA ExpiryCause ==
  ASSUME IInv, CauseInv, NEW k \in Key, Expire(k)
  PROVE  CauseInv'
<1>1. UNCHANGED <<log, writer, scan, found>> /\ late' = late \ {k} /\ cache' = [cache EXCEPT ![k] = None]
  BY DEF Expire
<1>2. WriteInv' /\ SweepInv'
  BY <1>1 DEF CauseInv, WriteInv, SweepInv, NeverMade
<1>3. \A j, w : PendingKey(w, j)' <=> PendingKey(w, j)
  BY <1>1 DEF PendingKey, Covered, Matches, Patterns
<1>4. cache[k] # None
  BY DEF Expire
<1>5. \A j \in Swept : cache'[j] = IF j = k THEN None ELSE cache[j]
  BY <1>1, SweptKeys, ReadKeyIsKey DEF IInv, TypeInv
<1>6. \A j \in Swept : cache'[j] = cache[j] /\ cache[j] # None /\ j \in late => j \in late'
  BY <1>1, <1>4, <1>5
<1> QED
  BY <1>1, <1>2, <1>3, <1>5, <1>6, QuietCause

\* Deletions are scanned for their writes.
LEMMA ScanTypes ==
  ASSUME ScanType, [Next]_vars
  PROVE  ScanType'
<1>1. \A w \in Writer : RefreshCache(w) => ScanType'
  BY DEF RefreshCache, ScanType, Deletion, Patterns, Pattern
<1>2. \/ scan' \subseteq scan
      \/ \E w \in Writer : RefreshCache(w)
  BY DEF Next, Begin, ReaderStep, Lookup, Query, QueryPage, Fill, Create, Update, Remove, Wrote,
         WriteNothing, WriterStep, CacheOwn, Commit, Abort, Scan, Delete, Expire, vars
<1> QED
  BY <1>1, <1>2 DEF ScanType

\* The invariant behind it holds in every state.
THEOREM Caused == Spec => [](ScanType /\ CauseInv)
<1>1. Init => ScanType /\ CauseInv
  <2> SUFFICES ASSUME Init PROVE ScanType /\ CauseInv
    OBVIOUS
  <2>1. \A w \in Writer : writer[w].at = "idle" /\ ~writer[w].session
    BY DEF Init, Unused
  <2>2. ScanType /\ WriteInv /\ SweepInv
    BY <2>1 DEF Init, ScanType, WriteInv, SweepInv
  <2>3. CausedInv
    BY SweptKeys, ReadKeyIsKey DEF Init, CausedInv, Stale
  <2> QED
    BY <2>2, <2>3 DEF CauseInv
<1>2. IInv /\ ScanType /\ CauseInv /\ [Next]_vars => ScanType' /\ CauseInv'
  <2> SUFFICES ASSUME IInv, ScanType, CauseInv, [Next]_vars PROVE CauseInv'
    BY ScanTypes
  <2>1. ASSUME NEW r \in Reader, Begin(r) \/ ReaderStep(r) PROVE CauseInv'
    BY <2>1, ReaderCause
  <2>2. ASSUME NEW w \in Writer, Create(w) \/ Update(w) \/ Remove(w) PROVE CauseInv'
    BY <2>2, WroteCause DEF Create, Update, Remove
  <2>3. ASSUME NEW w \in Writer, WriterStep(w) PROVE CauseInv'
    BY <2>3, WriterQuietCause, CommitCause DEF WriterStep
  <2>4. ASSUME NEW w \in Writer, WriteNothing(w) PROVE CauseInv'
    <3>1. /\ \A u \in Writer \ {w} : writer'[u] = writer[u]
          /\ writer[w].at = "idle" /\ writer'[w].at = "done"
          /\ writer'[w].doc = writer[w].doc /\ writer'[w].new = writer[w].new
          /\ writer'[w].session = writer[w].session
          /\ UNCHANGED <<log, cache, scan, found, late>>
      BY <2>4 DEF WriteNothing, IInv, TypeInv, WriterType, WriterState
    <3>2. WriteInv'
      <4>1. ~writer[w].session
        BY <3>1 DEF CauseInv, WriteInv
      <4> QED
        BY <3>1, <4>1, WriteQuiet DEF CauseInv, WriteInv
    <3>3. SweepInv'
      <4>1. \A x \in Deletion : x[1] \in Writer
        BY DEF Deletion
      <4> QED
        BY <3>1, <4>1 DEF CauseInv, SweepInv
    <3>4. ASSUME NEW k \in Swept, NEW u \in Writer, PendingKey(u, k) PROVE PendingKey(u, k)'
      BY <3>1, <3>4 DEF PendingKey, Covered, Matches, Patterns
    <3> QED
      BY <3>1, <3>2, <3>3, <3>4, QuietCause
  <2>5. ASSUME NEW x \in Deletion, Scan(x) \/ Delete(x) PROVE CauseInv'
    BY <2>5, DeletionCause
  <2>6. ASSUME NEW k \in Key, Expire(k) PROVE CauseInv'
    BY <2>6, ExpiryCause
  <2>7. CASE UNCHANGED vars
    BY <2>7 DEF vars, CauseInv, WriteInv, SweepInv, CausedInv, Stale, Db, NeverMade,
                PendingKey, Covered, Matches, Patterns
  <2> QED
    BY <2>1, <2>2, <2>3, <2>4, <2>5, <2>6, <2>7 DEF Next
<1> QED
  BY <1>1, <1>2, Correct, PTL DEF Spec

\* An outdated document or listing in the cache is about to be dropped, or was
\* filled in after the scan, or left there by a commit after it (update,
\* create, delete and refreshCache of repository.service.ts).
THEOREM StalenessHasCause == Spec => []StaleHasCause
<1>1. ScanType /\ CauseInv => StaleHasCause
  <2> SUFFICES ASSUME ScanType, CauseInv PROVE StaleHasCause
    OBVIOUS
  <2> QED
    BY PendingKeys DEF CauseInv, CausedInv, StaleHasCause, ScanType
<1> QED
  BY <1>1, Caused, PTL

-----------------------------------------------------------------------------
(* The refinement of ReadService.                                          *)

\* What a reader has asked and got, in the service.
Asking(s) == [at |-> "asked", key |-> s.key, forced |-> s.forced, begin |-> s.begin]
RequestShape ==
  /\ requestOf = [r \in Reader |-> requestOf[r]]
  /\ \A r \in Reader :
       /\ reader[r].at = "idle" => requestOf[r] = [at |-> "idle"]
       /\ reader[r].at = "done" => requestOf[r] = [at |-> "answered", answer |-> reader[r].got]
       /\ reader[r].at \in {"lookup", "query", "fill"} => requestOf[r] = Asking(reader[r])

\* It is the refinement mapping's.
LEMMA RequestShapes == RequestShape
<1>1. requestOf = [r \in Reader |-> requestOf[r]]
  BY DEF requestOf
<1>2. ASSUME NEW r \in Reader, reader[r].at = "idle" PROVE requestOf[r] = [at |-> "idle"]
  BY <1>2 DEF requestOf
<1>3. ASSUME NEW r \in Reader, reader[r].at = "done"
      PROVE requestOf[r] = [at |-> "answered", answer |-> reader[r].got]
  BY <1>3 DEF requestOf
<1>4. ASSUME NEW r \in Reader, reader[r].at \in {"lookup", "query", "fill"}
      PROVE requestOf[r] = Asking(reader[r])
  BY <1>4 DEF requestOf, Asking
<1> QED
  BY <1>1, <1>2, <1>3, <1>4 DEF RequestShape

\* A step of a reader that goes on waiting, is answered, or asks.
LEMMA RequestMoves ==
  ASSUME TypeInv, TypeInv', NEW r \in Reader, \A q \in Reader \ {r} : reader'[q] = reader[q],
         NEW v, requestOf'[r] = v
  PROVE  requestOf' = [requestOf EXCEPT ![r] = v]
<1>1. RequestShape /\ RequestShape'
  BY RequestShapes, PTL
<1>2. ASSUME NEW q \in Reader \ {r} PROVE requestOf'[q] = requestOf[q]
  BY <1>1, <1>2 DEF RequestShape, TypeInv, ReaderType, Asking
<1> QED
  BY <1>1, <1>2 DEF RequestShape

\* A read asks and is answered in the service; its own steps are not seen.
LEMMA ReaderRefines ==
  ASSUME IInv, IInv', NEW r \in Reader, Begin(r) \/ ReaderStep(r)
  PROVE  Service!Ask(r) \/ Service!Answer(r) \/ UNCHANGED <<log, requestOf>>
<1>1. UNCHANGED log /\ \A q \in Reader \ {r} : reader'[q] = reader[q]
  BY DEF Begin, ReaderStep, Lookup, Query, QueryPage, Fill, IInv, TypeInv
<1>2. RequestShape /\ RequestShape'
  BY RequestShapes, PTL
<1>3. ReaderType(reader[r]) /\ ReaderSeen(reader[r]) /\ Len(log) \in Nat \ {0}
  BY DbType DEF IInv, TypeInv, SeenInv
<1>4. ASSUME NEW v, requestOf'[r] = v PROVE requestOf' = [requestOf EXCEPT ![r] = v]
  BY <1>1, <1>4, RequestMoves DEF IInv
<1>5. ASSUME NEW n, n = reader[r], n.at \in {"lookup", "fill"}, NEW v, Seen(v, n.key, n.begin),
             reader'[r] = Answered(v)
      PROVE  Service!Answer(r)
  <2>1. n.key \in ReadKey /\ requestOf[r] = Asking(n)
    BY <1>2, <1>3, <1>5 DEF RequestShape, ReaderType
  <2>2. requestOf'[r] = [at |-> "answered", answer |-> v]
    BY <1>2, <1>5 DEF RequestShape, Answered, Idle
  <2>3. v \in Service!Possible(n.key, n.begin)
    BY <1>5, <2>1, SeenIsPossible
  <2> QED
    BY <1>1, <1>4, <2>1, <2>2, <2>3 DEF Service!Answer, Asking
<1>6. ASSUME reader[r].at \in {"lookup", "query"}, reader'[r].at \in {"query", "fill"},
             Asking(reader[r])' = Asking(reader[r])
      PROVE  UNCHANGED <<log, requestOf>>
  <2>1. requestOf'[r] = requestOf[r]
    BY <1>2, <1>6 DEF RequestShape
  <2>2. requestOf' = [requestOf EXCEPT ![r] = requestOf[r]]
    BY <1>4, <2>1
  <2> QED
    BY <1>1, <1>2, <2>2 DEF RequestShape
<1>7. CASE Begin(r)
  <2>1. PICK k \in Asked, f \in BOOLEAN :
          reader' = [reader EXCEPT ![r] = [at |-> "lookup", key |-> k, forced |-> f,
                                           begin |-> IF f THEN Len(log) ELSE 1, got |-> None]]
    BY <1>7 DEF Begin
  <2>2. requestOf'[r] = [at |-> "asked", key |-> k, forced |-> f, begin |-> IF f THEN Len(log) ELSE 1]
    BY <1>2, <2>1 DEF RequestShape, Asking, IInv, TypeInv
  <2>3. k \in Service!ReadKey
    BY AskedAssumption, SameViews
  <2>4. requestOf[r].at # "asked"
    BY <1>2, <1>7 DEF Begin, RequestShape
  <2>5. requestOf' = [requestOf EXCEPT ![r] =
          [at |-> "asked", key |-> k, forced |-> f, begin |-> IF f THEN Len(log) ELSE 1]]
    BY <1>4, <2>2
  <2> QED
    BY <1>1, <2>3, <2>4, <2>5 DEF Service!Ask
<1>8. CASE Lookup(r)
  <2>1. PICK n : n = reader[r]
    OBVIOUS
  <2>2. n.at = "lookup" /\ n.key \in ReadKey /\ (~n.forced => n.begin = 1)
    BY <1>3, <1>8, <2>1 DEF Lookup, ReaderType
  <2>3. CASE reader' = [reader EXCEPT ![r] = [n EXCEPT !.at = "query"]]
    <3>1. reader'[r] = [n EXCEPT !.at = "query"]
      BY <2>3 DEF IInv, TypeInv
    <3>2. reader'[r].at = "query" /\ Asking(reader[r])' = Asking(reader[r])
      BY <1>3, <2>1, <3>1 DEF Asking, ReaderType
    <3> QED
      BY <1>6, <2>1, <2>2, <3>2
  <2>4. ASSUME NEW v, v = cache[n.key], v # None, ~n.forced, reader' = [reader EXCEPT ![r] = Answered(v)]
        PROVE  Service!Answer(r)
    <3>1. Seen(v, n.key, n.begin)
      BY <2>2, <2>4 DEF IInv, SeenInv
    <3>2. reader'[r] = Answered(v)
      BY <2>4 DEF IInv, TypeInv
    <3> QED
      BY <1>5, <2>1, <2>2, <3>1, <3>2
  <2>5. \/ reader' = [reader EXCEPT ![r] = [n EXCEPT !.at = "query"]]
        \/ \E v : /\ v = cache[n.key] /\ v # None /\ ~n.forced
                  /\ reader' = [reader EXCEPT ![r] = Answered(v)]
    BY <1>8, <2>1 DEF Lookup, CacheKey
  <2> QED
    BY <2>3, <2>4, <2>5
<1>9. CASE Query(r) \/ QueryPage(r)
  <2>1. reader[r].at = "query"
    BY <1>9 DEF Query, QueryPage
  <2>2. PICK n : n = reader[r] /\ n = [at |-> n.at, key |-> n.key, forced |-> n.forced,
                                       begin |-> n.begin, got |-> n.got]
    BY <1>3 DEF ReaderType
  <2>3. /\ reader'[r].at \in {"query", "fill"} /\ reader'[r].key = n.key
        /\ reader'[r].forced = n.forced /\ reader'[r].begin = n.begin
    <3>1. CASE Query(r)
      <4>1. PICK v : v = View(n.key, Db)
        OBVIOUS
      <4>2. PICK m : m = [n EXCEPT !.at = "fill", !.got = v]
        OBVIOUS
      <4>3. reader' = [reader EXCEPT ![r] = m]
        BY <2>2, <3>1, <4>1, <4>2 DEF Query, IInv, TypeInv
      <4>4. reader'[r] = m
        BY <4>3 DEF IInv, TypeInv
      <4> QED
        BY <2>2, <4>2, <4>4
    <3>2. CASE QueryPage(r)
      <4>1. PICK seen : seen = IF n.got = None THEN [data |-> None, pages |-> None] ELSE n.got
        OBVIOUS
      <4>2. PICK part \in {"data", "pages"} :
              LET now == [seen EXCEPT ![part] = View(Paging, Db)[part]]
              IN reader' = [reader EXCEPT ![r].got = now,
                                          ![r].at = IF None \in {now.data, now.pages} THEN @ ELSE "fill"]
        BY <2>2, <3>2, <4>1 DEF QueryPage
      <4>3. PICK now : now = [seen EXCEPT ![part] = View(Paging, Db)[part]]
        OBVIOUS
      <4>4. PICK label \in {"query", "fill"} :
              label = IF None \in {now.data, now.pages} THEN "query" ELSE "fill"
        OBVIOUS
      <4>5. PICK m : m = [n EXCEPT !.at = label, !.got = now]
        OBVIOUS
      <4>6. reader' = [reader EXCEPT ![r] = m]
        BY <2>1, <2>2, <4>2, <4>3, <4>4, <4>5 DEF IInv, TypeInv
      <4>7. reader'[r] = m
        BY <4>6 DEF IInv, TypeInv
      <4> QED
        BY <2>2, <4>5, <4>7
    <3> QED
      BY <1>9, <3>1, <3>2
  <2>4. Asking(reader[r])' = Asking(reader[r])
    BY <2>2, <2>3 DEF Asking
  <2> QED
    BY <1>6, <2>1, <2>3, <2>4
<1>10. CASE Fill(r)
  <2>1. PICK n, v : n = reader[r] /\ v = n.got
    OBVIOUS
  <2>2. n.at = "fill" /\ Seen(v, n.key, n.begin) /\ reader'[r] = Answered(v)
    BY <1>3, <1>10, <2>1 DEF Fill, ReaderSeen, IInv, TypeInv
  <2> QED
    BY <1>5, <2>1, <2>2
<1> QED
  BY <1>7, <1>8, <1>9, <1>10 DEF ReaderStep

\* Reads through the cache implement the service: every answer was committed,
\* a forced one after its call began (find, findMultiple, findMultiplePaging).
THEOREM Refinement == Spec => ImplementsReadService
<1>1. Init => Service!ServiceInit
  <2> SUFFICES ASSUME Init PROVE Service!ServiceInit
    OBVIOUS
  <2>1. RequestShape
    BY RequestShapes
  <2>2. requestOf = [r \in Reader |-> [at |-> "idle"]]
    BY <2>1 DEF Init, Idle, RequestShape
  <2>3. \E s \in Service!State : log = <<s>>
    BY SameViews DEF Init, State
  <2> QED
    BY <2>2, <2>3 DEF Service!ServiceInit
<1>2. IInv /\ IInv' /\ [Next]_vars => [Service!ServiceNext]_(Service!svars)
  <2> SUFFICES ASSUME IInv, IInv', [Next]_vars
               PROVE  Service!ServiceNext \/ UNCHANGED Service!svars
    OBVIOUS
  <2>1. ASSUME NEW r \in Reader, Begin(r) \/ ReaderStep(r)
        PROVE  Service!ServiceNext \/ UNCHANGED Service!svars
    BY <2>1, ReaderRefines DEF Service!ServiceNext, Service!svars
  <2>2. ASSUME UNCHANGED reader, NEW s \in State, log' = log \/ log' = Append(log, s)
        PROVE  Service!ServiceNext \/ UNCHANGED Service!svars
    <3>1. UNCHANGED requestOf
      BY <2>2 DEF requestOf
    <3> QED
      BY <2>2, <3>1, SameViews DEF Service!ServiceNext, Service!Change, Service!svars
  <2>3. ASSUME NEW w \in Writer, Create(w) \/ Update(w) \/ Remove(w) \/ WriteNothing(w) \/ WriterStep(w)
        PROVE  UNCHANGED reader /\ \E s \in State : log' = log \/ log' = Append(log, s)
    BY <2>3, WriterLog
  <2>4. CASE UNCHANGED <<log, reader>>
    BY <2>2, <2>4, DbType DEF IInv
  <2>5. ASSUME NEW x \in Deletion, Scan(x) \/ Delete(x) PROVE UNCHANGED <<log, reader>>
    BY <2>5 DEF Scan, Delete
  <2>6. ASSUME NEW k \in Key, Expire(k) PROVE UNCHANGED <<log, reader>>
    BY <2>6 DEF Expire
  <2>7. CASE UNCHANGED vars
    BY <2>4, <2>7 DEF vars
  <2> QED
    BY <2>1, <2>2, <2>3, <2>4, <2>5, <2>6, <2>7 DEF Next
<1> QED
  BY <1>1, <1>2, Correct, PTL DEF Spec, ImplementsReadService, Service!ServiceSpec

-----------------------------------------------------------------------------
(* Types of the whole, and how often a document is written.                *)

\* The writes that have committed, or never will.
Spent == {w \in Writer : writer[w].at # "idle" /\ ~writer[w].session}

\* A write commits at most once.
CountInv == Len(log) <= 1 + Cardinality(Spent)

\* The calls and the deletions.
CallInv ==
  /\ \A r \in Reader : reader[r].key \in ReadKey \cup {None} /\ reader[r].begin \in 1..Len(log)
  /\ scan \subseteq Deletion
  /\ \A x \in scan : writer[x[1]].at # "idle" /\ writer[x[1]].doc \in Doc
  /\ found \in [Deletion -> SUBSET Key]
  /\ late \in SUBSET Key

\* What is cached besides the views of a state.
EntryInv ==
  /\ \A d \in Doc : cache[Own(d)] \in Value \cup {Gone, None}
  /\ cache[Listing] # None => cache[Listing] # {}
  /\ cache[Paging] # None => cache[Paging].data # {}

\* The writers' steps and the log.
LEMMA SpentGrows ==
  ASSUME NEW w \in Writer, Spent' = Spent \cup {w}, w \notin Spent
  PROVE  Cardinality(Spent') = Cardinality(Spent) + 1 /\ Cardinality(Spent) \in Nat
<1>1. IsFiniteSet(Spent)
  BY WriterAssumption, FS_Subset DEF Spent
<1> QED
  BY <1>1, FS_AddElement, FS_CardinalityType

\* No write commits a second time.
LEMMA CountNext == ASSUME IInv, CauseInv, CountInv, [Next]_vars PROVE CountInv'
<1>1. Len(log) \in Nat /\ log \in Seq(State) /\ writer \in [Writer -> WriterState]
  BY DEF IInv, TypeInv, WriterType
<1>2. IsFiniteSet(Spent) /\ Cardinality(Spent) \in Nat
  BY WriterAssumption, FS_Subset, FS_CardinalityType DEF Spent
<1>3. ASSUME UNCHANGED log, Spent' = Spent \/ \E w \in Writer \ Spent : Spent' = Spent \cup {w}
      PROVE  CountInv'
  <2>1. Cardinality(Spent') \in Nat /\ Cardinality(Spent') >= Cardinality(Spent)
    BY <1>2, <1>3, SpentGrows
  <2> QED
    BY <1>1, <1>2, <1>3, <2>1 DEF CountInv
<1>4. ASSUME NEW s, log' = Append(log, s), NEW w \in Writer \ Spent, Spent' = Spent \cup {w}
      PROVE  CountInv'
  <2>1. Len(log') = Len(log) + 1
    BY <1>1, <1>4
  <2>2. Cardinality(Spent') = Cardinality(Spent) + 1
    BY <1>4, SpentGrows
  <2> QED
    BY <1>1, <1>2, <2>1, <2>2 DEF CountInv
<1>5. ASSUME NEW w \in Writer, NEW new \in BOOLEAN, NEW d \in Doc, NEW v, NEW session \in BOOLEAN,
             Wrote(w, new, d, v, session)
      PROVE  CountInv'
  <2>1. /\ writer[w].at = "idle" /\ writer'[w].at # "idle" /\ writer'[w].session = session
        /\ \A u \in Writer \ {w} : writer'[u] = writer[u]
    BY <1>1, <1>5 DEF Wrote
  <2>2. CASE session
    <3>1. UNCHANGED log /\ Spent' = Spent
      BY <1>5, <2>1, <2>2 DEF Wrote, Spent
    <3> QED
      BY <1>3, <3>1
  <2>3. CASE ~session
    <3>1. w \in Writer \ Spent /\ Spent' = Spent \cup {w}
      BY <2>1, <2>3 DEF Spent
    <3>2. log' = Append(log, [Db EXCEPT ![d] = v])
      BY <1>5, <2>3 DEF Wrote, Append1
    <3> QED
      BY <1>4, <3>1, <3>2
  <2> QED
    BY <2>2, <2>3
<1>6. ASSUME NEW w \in Writer, Create(w) \/ Update(w) \/ Remove(w) PROVE CountInv'
  BY <1>5, <1>6 DEF Create, Update, Remove
<1>7. ASSUME NEW w \in Writer, WriteNothing(w) \/ CacheOwn(w) \/ RefreshCache(w) \/ Abort(w) PROVE CountInv'
  <2>1. /\ UNCHANGED log /\ writer'[w].at # "idle" /\ \A u \in Writer \ {w} : writer'[u] = writer[u]
        /\ writer[w].at # "idle" /\ ~writer[w].session => ~writer'[w].session
    BY <1>1, <1>7 DEF WriteNothing, CacheOwn, RefreshCache, Abort, WriterState
  <2>2. Spent' = Spent \/ (w \notin Spent /\ Spent' = Spent \cup {w})
    BY <2>1 DEF Spent
  <2> QED
    BY <1>3, <2>1, <2>2
<1>8. ASSUME NEW w \in Writer, Commit(w) PROVE CountInv'
  <2>1. /\ writer[w].session /\ writer'[w].at = "done" /\ ~writer'[w].session
        /\ \A u \in Writer \ {w} : writer'[u] = writer[u]
    BY <1>1, <1>8 DEF Commit, CauseInv, WriteInv, WriterState
  <2>2. w \in Writer \ Spent /\ Spent' = Spent \cup {w}
    BY <2>1 DEF Spent
  <2>3. log' = Append(log, [Db EXCEPT ![writer[w].doc] = writer[w].val])
    BY <1>8 DEF Commit, Append1
  <2> QED
    BY <1>4, <2>2, <2>3
<1>9. CASE UNCHANGED <<log, writer>>
  BY <1>3, <1>9 DEF Spent
<1>10. ASSUME NEW r \in Reader, Begin(r) \/ ReaderStep(r) PROVE UNCHANGED <<log, writer>>
  BY <1>10 DEF Begin, ReaderStep, Lookup, Query, QueryPage, Fill
<1>11. ASSUME NEW x \in Deletion, Scan(x) \/ Delete(x) PROVE UNCHANGED <<log, writer>>
  BY <1>11 DEF Scan, Delete
<1>12. ASSUME NEW k \in Key, Expire(k) PROVE UNCHANGED <<log, writer>>
  BY <1>12 DEF Expire
<1> QED
  BY <1>6, <1>7, <1>8, <1>9, <1>10, <1>11, <1>12 DEF Next, WriterStep, vars

\* The keys of a document are keys of Redis.
LEMMA MatchedKeys == \A d \in Doc, p \in Pattern : Matches(p, d) \subseteq Key
  BY DEF Matches, Pattern, Key, ReadKey

\* Where a read is after each of its steps.
LEMMA ReaderCalls ==
  ASSUME IInv, CallInv, NEW r \in Reader, Begin(r) \/ ReaderStep(r)
  PROVE  CallInv'
<1>1. UNCHANGED <<log, writer, scan, found>>
  BY DEF Begin, ReaderStep, Lookup, Query, QueryPage, Fill
<1>2. PICK n : n = reader[r]
  OBVIOUS
<1>3. /\ DOMAIN reader = Reader /\ Len(log) \in Nat \ {0}
      /\ n.key \in ReadKey \cup {None} /\ n.begin \in 1..Len(log)
      /\ n = [at |-> n.at, key |-> n.key, forced |-> n.forced, begin |-> n.begin, got |-> n.got]
  BY <1>2, DbType DEF IInv, TypeInv, CallInv, ReaderType
<1>4. /\ \A q \in Reader \ {r} : reader'[q] = reader[q]
      /\ reader'[r].key \in ReadKey \cup {None} /\ reader'[r].begin \in 1..Len(log)
  <2>1. CASE Begin(r)
    BY <1>3, <2>1, AskedAssumption DEF Begin
  <2>2. \A v : Answered(v).key = None /\ Answered(v).begin = 1
    BY DEF Answered, Idle
  <2>3. CASE Lookup(r)
    <3>1. PICK m : /\ reader' = [reader EXCEPT ![r] = m]
                   /\ m = [n EXCEPT !.at = "query"] \/ \E v : m = Answered(v)
      BY <1>2, <2>3 DEF Lookup
    <3>2. m.key \in ReadKey \cup {None} /\ m.begin \in 1..Len(log)
      BY <1>3, <2>2, <3>1
    <3> QED
      BY <1>3, <3>1, <3>2
  <2>4. CASE Query(r) \/ QueryPage(r)
    <3>1. /\ \A q \in Reader \ {r} : reader'[q] = reader[q]
          /\ reader'[r].key = n.key /\ reader'[r].begin = n.begin
      BY <1>2, <1>3, <2>4 DEF Query, QueryPage
    <3> QED
      BY <1>3, <3>1
  <2>6. CASE Fill(r)
    <3>1. reader' = [reader EXCEPT ![r] = Answered(n.got)]
      BY <1>2, <2>6 DEF Fill
    <3> QED
      BY <1>3, <2>2, <3>1
  <2> QED
    BY <2>1, <2>3, <2>4, <2>6 DEF ReaderStep
<1>5. \A q \in Reader : reader'[q].key \in ReadKey \cup {None} /\ reader'[q].begin \in 1..Len(log)
  BY <1>3, <1>4 DEF CallInv
<1>6. late' \in SUBSET Key
  <2>1. CASE Fill(r)
    <3>1. n.at = "fill" => n.key \in ReadKey
      BY <1>2 DEF IInv, TypeInv, ReaderType
    <3>2. late' = late \/ late' = late \ {n.key} \/ (n.key \in ReadKey /\ late' = late \cup {n.key})
      BY <1>2, <2>1, <3>1 DEF Fill
    <3> QED
      BY <3>2, ReadKeyIsKey DEF CallInv
  <2>2. CASE UNCHANGED late
    BY <2>2 DEF CallInv
  <2> QED
    BY <2>1, <2>2 DEF Begin, ReaderStep, Lookup, Query, QueryPage
<1> QED
  BY <1>1, <1>5, <1>6 DEF CallInv

\* Where a write is after each of its steps, and the deletions it starts.
LEMMA WriterCalls ==
  ASSUME IInv, CallInv, NEW w \in Writer,
         Create(w) \/ Update(w) \/ Remove(w) \/ WriteNothing(w) \/ WriterStep(w)
  PROVE  CallInv'
<1>1. /\ Len(log) \in Nat \ {0} /\ Len(log') \in Nat /\ Len(log') >= Len(log) /\ UNCHANGED reader
  BY WriterLog, DbType DEF IInv, TypeInv
<1>2. \A r \in Reader : reader'[r].key \in ReadKey \cup {None} /\ reader'[r].begin \in 1..Len(log')
  BY <1>1 DEF CallInv
<1>3. UNCHANGED found
  BY DEF Create, Update, Remove, Wrote, WriteNothing, WriterStep, CacheOwn, RefreshCache, Commit, Abort
<1>4. writer \in [Writer -> WriterState] /\ \A x \in Deletion : x[1] \in Writer
  BY DEF IInv, TypeInv, WriterType, Deletion
<1>5. ASSUME UNCHANGED scan, writer[w].at = "idle", writer'[w].at # "idle",
             \A u \in Writer \ {w} : writer'[u] = writer[u]
      PROVE  scan' \subseteq Deletion /\ \A x \in scan' : writer'[x[1]].at # "idle" /\ writer'[x[1]].doc \in Doc
  BY <1>4, <1>5 DEF CallInv
<1>6. ASSUME UNCHANGED scan, writer'[w].at # "idle", writer'[w].doc = writer[w].doc,
             \A u \in Writer \ {w} : writer'[u] = writer[u]
      PROVE  scan' \subseteq Deletion /\ \A x \in scan' : writer'[x[1]].at # "idle" /\ writer'[x[1]].doc \in Doc
  BY <1>4, <1>6 DEF CallInv
<1>7. CASE Create(w) \/ Update(w) \/ Remove(w)
  <2>1. ASSUME NEW new \in BOOLEAN, NEW d \in Doc, NEW v, NEW session \in BOOLEAN, Wrote(w, new, d, v, session)
        PROVE  /\ writer[w].at = "idle" /\ writer'[w].at # "idle" /\ UNCHANGED <<scan, late>>
               /\ \A u \in Writer \ {w} : writer'[u] = writer[u]
    BY <1>4, <2>1 DEF Wrote
  <2>2. /\ writer[w].at = "idle" /\ writer'[w].at # "idle" /\ UNCHANGED <<scan, late>>
        /\ \A u \in Writer \ {w} : writer'[u] = writer[u]
    BY <1>7, <2>1 DEF Create, Update, Remove
  <2> QED
    BY <1>2, <1>3, <1>5, <2>2 DEF CallInv
<1>8. CASE WriteNothing(w)
  <2>1. /\ writer[w].at = "idle" /\ writer'[w].at # "idle" /\ UNCHANGED <<scan, late>>
        /\ \A u \in Writer \ {w} : writer'[u] = writer[u]
    BY <1>4, <1>8 DEF WriteNothing, WriterState
  <2> QED
    BY <1>2, <1>3, <1>5, <2>1 DEF CallInv
<1>9. CASE CacheOwn(w) \/ Abort(w)
  <2>1. /\ writer'[w].at # "idle" /\ writer'[w].doc = writer[w].doc /\ UNCHANGED <<scan, late>>
        /\ \A u \in Writer \ {w} : writer'[u] = writer[u]
    BY <1>4, <1>9 DEF CacheOwn, Abort, WriterState
  <2> QED
    BY <1>2, <1>3, <1>6, <2>1 DEF CallInv
<1>10. CASE Commit(w)
  <2>1. /\ writer'[w].at # "idle" /\ writer'[w].doc = writer[w].doc /\ UNCHANGED scan
        /\ \A u \in Writer \ {w} : writer'[u] = writer[u] /\ writer[w].doc \in Doc
    BY <1>4, <1>10 DEF Commit, WriterState, IInv, TypeInv, WriterType
  <2>2. Covered(w) \subseteq Key
    <3>1. writer[w].doc \in Doc
      BY <1>10 DEF Commit, IInv, TypeInv, WriterType
    <3> QED
      BY <3>1, MatchedKeys DEF Covered, Patterns, Pattern
  <2>3. late' \in SUBSET Key
    BY <1>10, <2>2 DEF Commit, CallInv
  <2> QED
    BY <1>2, <1>3, <1>6, <2>1, <2>3 DEF CallInv
<1>11. CASE RefreshCache(w)
  <2>1. writer[w].at = "refresh" /\ writer[w].doc \in Doc
    BY <1>11 DEF RefreshCache, IInv, TypeInv, WriterType
  <2>2. /\ writer'[w].at # "idle" /\ writer'[w].doc = writer[w].doc /\ UNCHANGED late
        /\ \A u \in Writer \ {w} : writer'[u] = writer[u]
    BY <1>4, <1>11 DEF RefreshCache, WriterState
  <2>3. scan' = scan \cup ({w} \X Patterns(writer[w].new)) /\ Patterns(writer[w].new) \subseteq Pattern
    BY <1>11 DEF RefreshCache, Patterns, Pattern
  <2>4. \A x \in scan' : x \in scan \/ (x[1] = w /\ x \in Deletion)
    BY <2>3 DEF Deletion
  <2>5. scan' \subseteq Deletion /\ \A x \in scan' : writer'[x[1]].at # "idle" /\ writer'[x[1]].doc \in Doc
    BY <1>4, <2>1, <2>2, <2>4 DEF CallInv
  <2> QED
    BY <1>2, <1>3, <2>2, <2>5 DEF CallInv
<1> QED
  BY <1>7, <1>8, <1>9, <1>10, <1>11 DEF WriterStep

\* Every step keeps the calls and the deletions in their domains.
LEMMA CallNext == ASSUME IInv, CallInv, [Next]_vars PROVE CallInv'
<1>1. ASSUME NEW x \in Deletion, Scan(x) PROVE CallInv'
  <2>1. x[2] \in Pattern /\ writer[x[1]].doc \in Doc
    BY <1>1 DEF Scan, Deletion, CallInv
  <2>2. found' \in [Deletion -> SUBSET Key]
    BY <1>1, <2>1, MatchedKeys DEF Scan, CallInv
  <2>3. scan' \subseteq scan /\ UNCHANGED <<log, reader, writer, late>>
    BY <1>1 DEF Scan
  <2> QED
    BY <2>2, <2>3 DEF CallInv
<1>2. ASSUME NEW x \in Deletion, Delete(x) PROVE CallInv'
  BY <1>2 DEF Delete, CallInv
<1>3. ASSUME NEW k \in Key, Expire(k) PROVE CallInv'
  BY <1>3 DEF Expire, CallInv
<1>4. CASE UNCHANGED vars
  BY <1>4 DEF vars, CallInv
<1> QED
  BY <1>1, <1>2, <1>3, <1>4, ReaderCalls, WriterCalls DEF Next

\* Every step keeps what is cached in its domain, and caches no empty listing.
LEMMA EntryNext == ASSUME IInv, EntryInv, [Next]_vars PROVE EntryInv'
<1>1. \A d \in Doc : Own(d) \in Key /\ Own(d) \notin ReadKey /\ Own(d) # Listing /\ Own(d) # Paging
  BY DEF Own, Key, ReadKey, ById, ByField, Listing, Paging
<1>2. {Listing, Paging} \subseteq Key /\ DOMAIN cache = Key /\ Listing # Paging
  BY DEF Key, ReadKey, Listing, Paging, IInv, TypeInv
<1>3. ASSUME \A k \in Key : cache'[k] = cache[k] \/ cache'[k] = None PROVE EntryInv'
  BY <1>1, <1>2, <1>3 DEF EntryInv
<1>4. ASSUME NEW r \in Reader, Fill(r) PROVE EntryInv'
  <2>1. PICK k, v : k = reader[r].key /\ v = reader[r].got
    OBVIOUS
  <2>2. k \in ReadKey
    BY <1>4, <2>1 DEF Fill, IInv, TypeInv, ReaderType
  <2>3. CASE Cacheable(k, v)
    <3>1. cache' = [cache EXCEPT ![k] = v]
      BY <1>4, <2>1, <2>3 DEF Fill, CacheKey
    <3>2. k = Listing => v # {}
      BY <2>3 DEF Cacheable, Listing
    <3>3. k = Paging => v.data # {}
      BY <2>3 DEF Cacheable, Paging
    <3> QED
      BY <1>1, <1>2, <2>2, <3>1, <3>2, <3>3 DEF EntryInv
  <2>4. CASE ~Cacheable(k, v)
    BY <1>3, <1>4, <2>1, <2>4 DEF Fill
  <2> QED
    BY <2>3, <2>4
<1>5. ASSUME NEW w \in Writer, CacheOwn(w) PROVE EntryInv'
  <2>1. /\ writer[w].doc \in Doc /\ writer[w].val \in Value \cup {Gone, None}
        /\ cache' = [cache EXCEPT ![Own(writer[w].doc)] = writer[w].val]
    BY <1>5 DEF CacheOwn, IInv, TypeInv, WriterType, WriterState
  <2>2. /\ \A k \in {Listing, Paging} : cache'[k] = cache[k]
        /\ \A d \in Doc : cache'[Own(d)] = cache[Own(d)] \/ cache'[Own(d)] = writer[w].val
    BY <1>1, <1>2, <2>1
  <2> QED
    BY <2>1, <2>2 DEF EntryInv
<1>6. ASSUME NEW r \in Reader, Begin(r) \/ ReaderStep(r) PROVE EntryInv'
  <2>1. CASE UNCHANGED cache
    BY <1>3, <2>1
  <2> QED
    BY <1>4, <1>6, <2>1 DEF Begin, ReaderStep, Lookup, Query, QueryPage
<1>7. ASSUME NEW w \in Writer, Create(w) \/ Update(w) \/ Remove(w) \/ WriteNothing(w) \/ WriterStep(w) PROVE EntryInv'
  <2>1. CASE UNCHANGED cache
    BY <1>3, <2>1
  <2> QED
    BY <1>5, <1>7, <2>1 DEF Create, Update, Remove, Wrote, WriteNothing, WriterStep, RefreshCache, Commit, Abort
<1>8. ASSUME NEW x \in Deletion, Scan(x) \/ Delete(x) PROVE EntryInv'
  <2>1. \A k \in Key : cache'[k] = cache[k] \/ cache'[k] = None
    BY <1>8 DEF Scan, Delete
  <2> QED
    BY <1>3, <2>1
<1>9. ASSUME NEW k \in Key, Expire(k) PROVE EntryInv'
  <2>1. \A j \in Key : cache'[j] = cache[j] \/ cache'[j] = None
    BY <1>2, <1>9 DEF Expire
  <2> QED
    BY <1>3, <2>1
<1>10. CASE UNCHANGED vars
  BY <1>3, <1>10 DEF vars
<1> QED
  BY <1>6, <1>7, <1>8, <1>9, <1>10 DEF Next

\* Every variable stays in its domain; a write commits at most once, no empty
\* listing is cached, and a read shows documents of the collection (all of
\* repository.service.ts).
THEOREM TypesKept == Spec => []TypeOK
<1>1. Init => CountInv /\ CallInv /\ EntryInv
  <2> SUFFICES ASSUME Init PROVE CountInv /\ CallInv /\ EntryInv
    OBVIOUS
  <2>1. CountInv
    <3>1. Spent = {} /\ Len(log) = 1
      BY DEF Init, Spent, Unused
    <3> QED
      BY <3>1, FS_EmptySet DEF CountInv
  <2>2. CallInv
    BY DEF Init, CallInv, Idle
  <2>3. EntryInv
    <3>1. \A k \in Key : cache[k] = None
      BY DEF Init
    <3>2. {Listing, Paging} \subseteq Key /\ \A d \in Doc : Own(d) \in Key
      BY DEF Key, ReadKey
    <3> QED
      BY <3>1, <3>2 DEF EntryInv
  <2> QED
    BY <2>1, <2>2, <2>3
<1>2. IInv /\ CauseInv /\ CountInv /\ CallInv /\ EntryInv /\ [Next]_vars => CountInv' /\ CallInv' /\ EntryInv'
  BY CountNext, CallNext, EntryNext
<1>3. IInv /\ CountInv /\ CallInv /\ EntryInv => TypeOK
  <2> SUFFICES ASSUME IInv, CountInv, CallInv, EntryInv PROVE TypeOK
    OBVIOUS
  <2>1. Len(log) \in 1..(1 + Cardinality(Writer)) /\ \A i \in DOMAIN log : log[i] \in State
    <3>1. IsFiniteSet(Spent) /\ Cardinality(Spent) \in Nat /\ Cardinality(Writer) \in Nat
          /\ Cardinality(Spent) <= Cardinality(Writer)
      BY WriterAssumption, FS_Subset, FS_CardinalityType DEF Spent
    <3> QED
      BY <3>1, DbType DEF IInv, TypeInv, CountInv
  <2>2. ASSUME NEW i \in 1..Len(log) PROVE log[i] \in [Doc -> Value \cup {Gone, None}]
    BY <2>2 DEF IInv, TypeInv, State
  <2>3. ASSUME NEW d \in Doc PROVE {cache[ById(d)], cache[ByField(d)], cache[Own(d)]} \subseteq Value \cup {Gone, None}
    <3>1. ASSUME NEW k \in {ById(d), ByField(d)} PROVE cache[k] \in Value \cup {Gone, None}
      <4>1. k \in ReadKey /\ k # Paging /\ \A s : View(k, s) = s[d]
        BY DEF ReadKey, ById, ByField, Paging, View
      <4>2. cache[k] # None => \E i \in 1..Len(log) : cache[k] = log[i][d]
        BY <4>1 DEF IInv, SeenInv, Seen
      <4> QED
        BY <2>2, <4>2
    <3> QED
      BY <3>1 DEF EntryInv
  <2>4. \A s : Shown(s) \subseteq Doc \X Value
    BY DEF Shown, Live
  <2>5. {Listing, Paging} \subseteq ReadKey /\ Listing # Paging /\ \A s : View(Listing, s) = Shown(s)
    BY DEF ReadKey, Listing, Paging, View
  <2>6. cache[Listing] # None => cache[Listing] # {} /\ cache[Listing] \subseteq Doc \X Value
    <3>1. cache[Listing] # None => \E i \in 1..Len(log) : cache[Listing] = Shown(log[i])
      BY <2>5 DEF IInv, SeenInv, Seen
    <3> QED
      BY <2>4, <3>1 DEF EntryInv
  <2>7. cache[Paging] # None => cache[Paging].data # {} /\ cache[Paging].data \subseteq Doc \X Value
    <3>1. ASSUME cache[Paging] # None
          PROVE  \E i \in 1..Len(log) : cache[Paging].data = Shown(log[i])
      <4>1. PICK i \in 1..Len(log), j \in 1..Len(log) :
                   cache[Paging] = [data |-> Shown(log[i]), pages |-> Pages(log[j])]
        BY <2>5, <3>1 DEF IInv, SeenInv, Seen
      <4> QED
        BY <4>1
    <3> QED
      BY <2>4, <3>1 DEF EntryInv
  <2>8. \A r \in Reader : /\ reader[r].at \in {"idle", "lookup", "query", "fill", "done"}
                          /\ reader[r].key \in ReadKey \cup {None} /\ reader[r].begin \in 0..Len(log)
    BY DEF IInv, TypeInv, ReaderType, CallInv
  <2>9. writer \in [Writer -> WriterState]
    BY DEF IInv, TypeInv, WriterType
  <2> QED
    BY <2>1, <2>3, <2>6, <2>7, <2>8, <2>9 DEF TypeOK, WriterState, CallInv
<1> QED
  BY <1>1, <1>2, <1>3, Correct, Caused, PTL DEF Spec
=============================================================================
