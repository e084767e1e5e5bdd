----------------------- MODULE ProductCatalogueProofs -----------------------
(* ProductCatalogue: open transactions are isolated, an update is whole and *)
(* what is created is found, for every set of calls.                        *)
EXTENDS ProductCatalogue, TLAPS

-----------------------------------------------------------------------------
(* Types.                                                                  *)

\* What is created under a parent.
Made == Kind \ {"category"}

Local == [at : {"idle", "push", "tasks", "replace", "commit", "done", "lost", "failed"},
          what : Kind \cup {"none", "update", "list"}, parent : Id \cup {None},
          parts : SUBSET Part, done : SUBSET (InSession \cup {"product", "push"}), list : SUBSET Id]

\* What a call may have written by the time it is where it is.
Shape(s) ==
  /\ s.at = "idle" => s.what = "none"
  /\ s.at = "replace" => s.what = "list"
  /\ s.at = "push" => s.what \in Made /\ s.parent \in Id /\ s.done = {}
  /\ s.at = "tasks" => s.what = "update" /\ s.done \subseteq s.parts \cap InSession
  /\ s.at = "commit" =>
       \/ s.what \in Made /\ s.parent \in Id /\ s.done \subseteq {"push"}
       \/ /\ s.what = "update"
          /\ s.parts \cap InSession \subseteq s.done
          /\ s.done \subseteq (s.parts \cap InSession) \cup {"product"}

TypeInv ==
  /\ option \in [Id -> {"none", "live", "deleted"}]
  /\ editor \in [Id -> Call \cup {None}]
  /\ cost \subseteq Id
  /\ product \in [Id -> [options : SUBSET Id, costs : SUBSET Id, current : Id \cup {None}]]
  /\ docs \in [Kind -> SUBSET Id] /\ gone \in [Kind -> SUBSET Id]
  /\ children \in [Parent -> [Id -> SUBSET Id]]
  /\ removing \subseteq Call /\ replaced \subseteq Id
  /\ call \in [Call -> Local]
  /\ \A c \in Call : Shape(call[c])
  /\ DOMAIN stale = Call

\* Open transactions hold disjoint sets of documents, none of them changed.
HeldInv ==
  \A c \in Call :
    /\ Written(c) \cap stale[c] = {}
    /\ \A e \in Call \ {c} : Written(c) \cap Written(e) = {}

\* The kind of the parent of each kind.
LEMMA ParentKinds ==
  /\ ParentKind("group") = "category" /\ ParentKind("collection") = "group"
  /\ ParentKind("product") = "collection"
  /\ Parent = {"category", "group", "collection"}
<1>1. Parent = {"category", "group", "collection"}
  BY DEF Parent, Child
<1> QED
  BY <1>1 DEF ParentKind, Child

\* The local state of a call after each of its steps.
LEMMA CallMoves ==
  ASSUME TypeInv, NEW c \in Call, Begin(c) \/ Step(c) \/ Fail(c)
  PROVE  /\ call' \in [Call -> Local] /\ Shape(call'[c])
         /\ \A e \in Call \ {c} : call'[e] = call[e]
<1>1. PICK s : s = call[c]
  OBVIOUS
<1>2. s \in Local /\ Shape(s)
  BY <1>1 DEF TypeInv
<1>3. ASSUME NEW n \in Local, Shape(n), call' = [call EXCEPT ![c] = n]
      PROVE  /\ call' \in [Call -> Local] /\ Shape(call'[c])
             /\ \A e \in Call \ {c} : call'[e] = call[e]
  BY <1>3 DEF TypeInv
<1>4. ASSUME NEW w \in {s.what, Idle.what}, NEW at \in {"done", "failed"},
             call' = [call EXCEPT ![c] = [Idle EXCEPT !.at = at, !.what = w]]
      PROVE  /\ call' \in [Call -> Local] /\ Shape(call'[c])
             /\ \A e \in Call \ {c} : call'[e] = call[e]
  <2>1. [Idle EXCEPT !.at = at, !.what = w] \in Local /\ Shape([Idle EXCEPT !.at = at, !.what = w])
    BY <1>2 DEF Idle, Local, Shape, Kind
  <2> QED
    BY <1>3, <1>4, <2>1
<1>5. CASE Create(c)
  <2>1. PICK kind \in Made :
          \E p \in docs[ParentKind(kind)], list \in SUBSET (IF kind = "group" THEN docs["collection"] ELSE {}) :
            call' = [call EXCEPT ![c] =
              [Idle EXCEPT !.at = "push", !.what = kind, !.parent = p, !.list = list]]
    BY <1>5 DEF Create, Made
  <2>2. PICK p \in Id, list \in SUBSET Id :
          call' = [call EXCEPT ![c] =
            [Idle EXCEPT !.at = "push", !.what = kind, !.parent = p, !.list = list]]
    BY <2>1, ParentKinds DEF TypeInv, Kind, Made
  <2>3. PICK n : n = [Idle EXCEPT !.at = "push", !.what = kind, !.parent = p, !.list = list]
    OBVIOUS
  <2>4. n \in Local /\ Shape(n)
    BY <2>3 DEF Idle, Local, Shape, Made
  <2> QED
    BY <1>3, <2>2, <2>3, <2>4
<1>6. CASE Push(c)
  <2>1. PICK d \in SUBSET {"push"} : call' = [call EXCEPT ![c].at = "commit", ![c].done = d]
    BY <1>6 DEF Push
  <2>2. PICK n : n = [s EXCEPT !.at = "commit", !.done = d]
    OBVIOUS
  <2>3. n \in Local /\ Shape(n)
    BY <1>1, <1>2, <1>6, <2>2 DEF Push, At, Committed, Local, Shape
  <2>4. call' = [call EXCEPT ![c] = n]
    BY <1>1, <2>1, <2>2 DEF TypeInv
  <2> QED
    BY <1>3, <2>3, <2>4
<1>7. CASE CommitAnswer(c)
  <2>1. PICK label \in {"done", "lost"} :
          call' = [call EXCEPT ![c].at = label, ![c].parts = @ \cap InSession, ![c].done = {}]
    BY <1>7 DEF CommitAnswer
  <2> DEFINE n == [s EXCEPT !.at = label, !.parts = @ \cap InSession, !.done = {}]
  <2>2. n \in Local /\ Shape(n)
    BY <1>2 DEF Local, Shape
  <2>3. call' = [call EXCEPT ![c] = n]
    BY <1>1, <2>1 DEF TypeInv
  <2> QED
    BY <1>3, <2>2, <2>3
<1>8. CASE UpdateProduct(c)
  <2>1. PICK ps \in SUBSET Part :
          call' = [call EXCEPT ![c] = [Idle EXCEPT !.at = "tasks", !.what = "update", !.parts = ps]]
    BY <1>8 DEF UpdateProduct
  <2>2. PICK n : n = [Idle EXCEPT !.at = "tasks", !.what = "update", !.parts = ps]
    OBVIOUS
  <2>3. n \in Local /\ Shape(n)
    BY <2>2 DEF Idle, Local, Shape
  <2> QED
    BY <1>3, <2>1, <2>2, <2>3
<1>9. ASSUME NEW part \in InSession, Task(c, part)
      PROVE  /\ call' \in [Call -> Local] /\ Shape(call'[c])
             /\ \A e \in Call \ {c} : call'[e] = call[e]
  <2>1. PICK n : n = [s EXCEPT !.done = @ \cup {part}]
    OBVIOUS
  <2>2. n \in Local /\ Shape(n)
    BY <1>1, <1>2, <1>9, <2>1 DEF Task, At, Committed, Local, Shape
  <2>3. call' = [call EXCEPT ![c] = n]
    BY <1>1, <1>9, <2>1 DEF Task, TypeInv
  <2> QED
    BY <1>3, <2>2, <2>3
<1>10. CASE UpdateFields(c)
  <2>1. PICK n : n = [s EXCEPT !.at = "commit", !.done = @ \cup {"product"}]
    OBVIOUS
  <2>2. n \in Local /\ Shape(n)
    BY <1>1, <1>2, <1>10, <2>1 DEF UpdateFields, Awaited, At, Committed, Local, Shape
  <2>3. call' = [call EXCEPT ![c] = n]
    BY <1>1, <1>10, <2>1 DEF UpdateFields, TypeInv
  <2> QED
    BY <1>3, <2>2, <2>3
<1>11. CASE EditGroup(c)
  <2>1. PICK list \in SUBSET children["group"][Base] :
          call' = [call EXCEPT ![c] = [Idle EXCEPT !.at = "replace", !.what = "list", !.list = list]]
    BY <1>11 DEF EditGroup
  <2>2. list \subseteq Id
    BY ParentKinds DEF TypeInv, Id
  <2>3. PICK n : n = [Idle EXCEPT !.at = "replace", !.what = "list", !.list = list]
    OBVIOUS
  <2>4. n \in Local /\ Shape(n)
    BY <2>2, <2>3 DEF Idle, Local, Shape
  <2> QED
    BY <1>3, <2>1, <2>3, <2>4
<1>12. CASE SafeDelete(c) \/ DeleteCollection(c) \/ UpdateGroup(c)
  <2>1. call' = [call EXCEPT ![c] = [Idle EXCEPT !.at = "done", !.what = s.what]]
    BY <1>1, <1>12 DEF SafeDelete, DeleteCollection, Plain, UpdateGroup, End
  <2> QED
    BY <1>4, <2>1
<1>13. CASE Fail(c)
  <2>1. call' = [call EXCEPT ![c] = [Idle EXCEPT !.at = "failed", !.what = Idle.what]]
    BY <1>13 DEF Fail, Idle
  <2> QED
    BY <1>4, <2>1
<1> QED
  BY <1>5, <1>6, <1>7, <1>8, <1>9, <1>10, <1>11, <1>12, <1>13 DEF Begin, Step, CommitCreate, CommitUpdate

\* A commit ends the call, which keeps what it was asked for.
LEMMA CommitAnswers ==
  ASSUME TypeInv, NEW c \in Call, CommitAnswer(c)
  PROVE  /\ Committed(c)'
         /\ call'[c].what = call[c].what /\ call'[c].parent = call[c].parent /\ call'[c].list = call[c].list
         /\ call'[c].parts = call[c].parts \cap InSession
<1>1. PICK s : s = call[c] /\ s \in Local
  BY DEF TypeInv
<1>2. PICK label \in {"done", "lost"} :
        call'[c] = [s EXCEPT !.at = label, !.parts = @ \cap InSession, !.done = {}]
  BY <1>1 DEF CommitAnswer, TypeInv
<1> QED
  BY <1>1, <1>2 DEF Local, Committed

\* One entry of a table of rows is set.
LEMMA NestedUpdate ==
  ASSUME NEW K, NEW I, NEW S, NEW f \in [K -> [I -> S]], NEW k \in K, NEW i \in I, NEW v \in S
  PROVE  /\ [f EXCEPT ![k][i] = v] \in [K -> [I -> S]]
         /\ \A j \in K, x \in I : [f EXCEPT ![k][i] = v][j][x] = IF j = k /\ x = i THEN v ELSE f[j][x]
<1>1. PICK row : row = [f[k] EXCEPT ![i] = v]
  OBVIOUS
<1>2. row \in [I -> S] /\ \A x \in I : row[x] = IF x = i THEN v ELSE f[k][x]
  BY <1>1
<1>3. [f EXCEPT ![k][i] = v] = [f EXCEPT ![k] = row]
  BY <1>1
<1> QED
  BY <1>2, <1>3

\* The commit of a creation adds the document,
LEMMA Created ==
  ASSUME TypeInv, NEW c \in Call, CommitCreate(c)
  PROVE  /\ call[c].what \in Made /\ call[c].parent \in Id /\ call[c].list \in SUBSET Id
         /\ At(c, "commit") /\ Changed(Written(c), c)
         /\ docs' \in [Kind -> SUBSET Id]
         /\ \A k \in Kind : docs'[k] = IF k = call[c].what THEN docs[k] \cup {c} ELSE docs[k]
         /\ call'[c].what = call[c].what /\ call'[c].parent = call[c].parent /\ call'[c].list = call[c].list
         /\ Committed(c)'
         /\ UNCHANGED <<gone, removing, replaced>>
<1>1. PICK s : s = call[c]
  OBVIOUS
<1>2. s \in Local /\ Shape(s) /\ s.at = "commit" /\ s.what \in Kind
  BY <1>1 DEF CommitCreate, TypeInv, At, Committed
<1>3. s.what \in Made /\ s.parent \in Id /\ s.list \in SUBSET Id
  BY <1>2 DEF Shape, Kind, Made, Local
<1>4. PICK kind \in Kind : kind = s.what
  BY <1>2
<1>5. docs' = [docs EXCEPT ![kind] = docs[kind] \cup {c}] /\ c \in Id
  BY <1>1, <1>4 DEF CommitCreate, Id
<1>6. /\ docs' \in [Kind -> SUBSET Id]
      /\ \A k \in Kind : docs'[k] = IF k = kind THEN docs[k] \cup {c} ELSE docs[k]
  BY <1>5 DEF TypeInv
<1>7. /\ call'[c].what = s.what /\ call'[c].parent = s.parent /\ call'[c].list = s.list
      /\ Committed(c)'
  BY <1>1, CommitAnswers DEF CommitCreate
<1>9. At(c, "commit") /\ Changed(Written(c), c) /\ UNCHANGED <<gone, removing, replaced>>
  BY DEF CommitCreate, CommitAnswer
<1> QED
  BY <1>1, <1>3, <1>4, <1>6, <1>7, <1>9

\* with its parts,
LEMMA CreatedParts ==
  ASSUME TypeInv, NEW c \in Call, CommitCreate(c)
  PROVE  \/ /\ call[c].what = "product"
            /\ option' = [option EXCEPT ![c] = "live"]
            /\ cost' = cost \cup {c}
            /\ product' = [product EXCEPT ![c] = [options |-> {c}, costs |-> {c}, current |-> c]]
            /\ editor' = editor
         \/ /\ call[c].what # "product"
            /\ UNCHANGED <<option, cost, product, editor>>
<1>1. CASE call[c].what = "product"
  BY <1>1 DEF CommitCreate
<1>2. CASE call[c].what # "product"
  BY <1>2 DEF CommitCreate, parts
<1> QED
  BY <1>1, <1>2

\* and lists it in its parent.
LEMMA CreatedListed ==
  ASSUME TypeInv, NEW c \in Call, CommitCreate(c)
  PROVE  /\ children' \in [Parent -> [Id -> SUBSET Id]]
         /\ call[c].what = "group" => children'["group"][c] = call[c].list
         /\ \A k \in Parent, i \in Id : k # "group" \/ i # c => children[k][i] \subseteq children'[k][i]
         /\ "push" \in call[c].done /\ call[c].parent # c =>
              c \in children'[ParentKind(call[c].what)][call[c].parent]
<1>1. PICK s : s = call[c]
  OBVIOUS
<1>2. s.what \in Made /\ s.parent \in Id /\ s.list \in SUBSET Id
  BY <1>1, Created
<1>3. PICK p \in Parent : p = ParentKind(s.what)
  BY <1>2, ParentKinds DEF Made, Kind
<1>4. PICK pushed : pushed = IF "push" \notin s.done THEN children
                             ELSE [children EXCEPT ![p][s.parent] = Pushed(@, c)]
  OBVIOUS
<1>5. children' = IF s.what = "group" THEN [pushed EXCEPT !["group"][c] = s.list] ELSE pushed
  BY <1>1, <1>3, <1>4 DEF CommitCreate
<1>6. /\ pushed \in [Parent -> [Id -> SUBSET Id]]
      /\ \A k \in Parent, i \in Id : pushed[k][i] =
           IF "push" \in s.done /\ k = p /\ i = s.parent
           THEN children[k][i] \cup {c} ELSE children[k][i]
  <2>1. CASE "push" \in s.done
    <3>1. PICK v : v = children[p][s.parent] \cup {c}
      OBVIOUS
    <3>2. v \in SUBSET Id
      <4>1. children[p][s.parent] \subseteq Id
        BY <1>2 DEF TypeInv
      <4> QED
        BY <3>1, <4>1 DEF Id
    <3>3. pushed = [children EXCEPT ![p][s.parent] = v]
      BY <1>4, <2>1, <3>1 DEF Pushed
    <3>4. /\ pushed \in [Parent -> [Id -> SUBSET Id]]
          /\ \A k \in Parent, i \in Id : pushed[k][i] = IF k = p /\ i = s.parent THEN v ELSE children[k][i]
      BY <1>2, <3>2, <3>3, NestedUpdate DEF TypeInv
    <3> QED
      BY <2>1, <3>1, <3>4
  <2>2. CASE "push" \notin s.done
    BY <1>4, <2>2 DEF TypeInv
  <2> QED
    BY <2>1, <2>2
<1>7. /\ \A k \in Parent, i \in Id : children[k][i] \subseteq pushed[k][i]
      /\ "push" \in s.done => c \in pushed[p][s.parent]
  <2>1. ASSUME NEW k \in Parent, NEW i \in Id PROVE children[k][i] \subseteq pushed[k][i]
    <3>1. pushed[k][i] = children[k][i] \/ pushed[k][i] = children[k][i] \cup {c}
      BY <1>6
    <3> QED
      BY <3>1
  <2>2. ASSUME "push" \in s.done PROVE c \in pushed[p][s.parent]
    <3>1. pushed[p][s.parent] = children[p][s.parent] \cup {c}
      BY <1>2, <1>6, <2>2
    <3> QED
      BY <3>1
  <2> QED
    BY <2>1, <2>2
<1>8. CASE s.what = "group"
  <2>1. c \in Id /\ "group" \in Parent
    BY ParentKinds DEF Id
  <2>2. /\ children' \in [Parent -> [Id -> SUBSET Id]]
        /\ \A k \in Parent, i \in Id : children'[k][i] =
             IF k = "group" /\ i = c THEN s.list ELSE pushed[k][i]
    BY <1>2, <1>5, <1>6, <1>8, <2>1, NestedUpdate
  <2>3. /\ children'["group"][c] = s.list
        /\ \A k \in Parent, i \in Id : k # "group" \/ i # c => children'[k][i] = pushed[k][i]
    BY <2>1, <2>2
  <2> QED
    BY <1>1, <1>2, <1>3, <1>7, <2>2, <2>3
<1>9. CASE s.what # "group"
  BY <1>1, <1>3, <1>5, <1>6, <1>7, <1>9
<1> QED
  BY <1>8, <1>9

\* Every variable but the calls' keeps its type.
LEMMA StoreTypes ==
  ASSUME TypeInv, NEW c \in Call, Begin(c) \/ Step(c) \/ Fail(c) \/ RemoveOption(c)
  PROVE  /\ option' \in [Id -> {"none", "live", "deleted"}]
         /\ editor' \in [Id -> Call \cup {None}]
         /\ cost' \subseteq Id
         /\ product' \in [Id -> [options : SUBSET Id, costs : SUBSET Id, current : Id \cup {None}]]
         /\ docs' \in [Kind -> SUBSET Id] /\ gone' \in [Kind -> SUBSET Id]
         /\ children' \in [Parent -> [Id -> SUBSET Id]]
         /\ removing' \subseteq Call /\ replaced' \subseteq Id
         /\ DOMAIN stale' = Call
<1>1. c \in Id /\ Base \in Id
  BY DEF Id
<1>2. CASE Create(c) \/ Push(c) \/ (\E part \in InSession : Task(c, part)) \/ UpdateFields(c)
           \/ EditGroup(c) \/ Fail(c) \/ UpdateProduct(c)
  BY <1>2 DEF TypeInv, Create, Push, Task, UpdateFields, EditGroup, Fail, UpdateProduct, parts, tree
<1>3. CASE RemoveOption(c)
  BY <1>1, <1>3 DEF TypeInv, RemoveOption, tree
<1>4. CASE CommitCreate(c)
  <2>2. docs' \in [Kind -> SUBSET Id]
    BY <1>4, Created
  <2>3. /\ children' \in [Parent -> [Id -> SUBSET Id]] /\ UNCHANGED <<gone, removing, replaced>>
        /\ DOMAIN stale' = Call
    BY <1>4, Created, CreatedListed DEF Changed
  <2>4. /\ option' \in [Id -> {"none", "live", "deleted"}]
        /\ editor' \in [Id -> Call \cup {None}]
        /\ cost' \subseteq Id
        /\ product' \in [Id -> [options : SUBSET Id, costs : SUBSET Id, current : Id \cup {None}]]
    <3>1. [options |-> {c}, costs |-> {c}, current |-> c] \in
            [options : SUBSET Id, costs : SUBSET Id, current : Id \cup {None}]
      BY <1>1
    <3>2. CASE UNCHANGED <<option, cost, product, editor>>
      BY <3>2 DEF TypeInv
    <3>3. ASSUME option' = [option EXCEPT ![c] = "live"], cost' = cost \cup {c},
                 product' = [product EXCEPT ![c] = [options |-> {c}, costs |-> {c}, current |-> c]],
                 editor' = editor
          PROVE  /\ option' \in [Id -> {"none", "live", "deleted"}]
                 /\ editor' \in [Id -> Call \cup {None}]
                 /\ cost' \subseteq Id
                 /\ product' \in [Id -> [options : SUBSET Id, costs : SUBSET Id, current : Id \cup {None}]]
      BY <1>1, <3>1, <3>3 DEF TypeInv
    <3> QED
      BY <1>4, <3>2, <3>3, CreatedParts
  <2> QED
    BY <2>2, <2>3, <2>4 DEF TypeInv
<1>5. CASE CommitUpdate(c)
  <2>1. Fields(c, product[Base]) \in [options : SUBSET Id, costs : SUBSET Id, current : Id \cup {None}]
    <3>1. PICK p : p = product[Base] /\ p \in [options : SUBSET Id, costs : SUBSET Id, current : Id \cup {None}]
      BY <1>1 DEF TypeInv
    <3>2. PICK o \in SUBSET Id, k \in SUBSET Id, u \in Id \cup {None} :
            Fields(c, p) = [p EXCEPT !.options = o, !.costs = k, !.current = u]
      <4>1. \E o \in SUBSET Id : o = IF "options" \in call[c].parts THEN p.options \cup {c} ELSE p.options
        BY <1>1, <3>1
      <4>2. \E k \in SUBSET Id : k = IF "cost" \in call[c].parts THEN p.costs \cup {c} ELSE p.costs
        BY <1>1, <3>1
      <4>3. \E u \in Id \cup {None} : u = IF "cost" \in call[c].parts THEN c ELSE p.current
        BY <1>1, <3>1
      <4> QED
        BY <4>1, <4>2, <4>3 DEF Fields
    <3> QED
      BY <3>1, <3>2
  <2>2. product' = [product EXCEPT ![Base] = Fields(c, product[Base])]
    BY <1>1, <1>5 DEF CommitUpdate, TypeInv
  <2>3. product' \in [Id -> [options : SUBSET Id, costs : SUBSET Id, current : Id \cup {None}]]
    BY <2>1, <2>2 DEF TypeInv
  <2> QED
    BY <1>1, <1>5, <2>3 DEF CommitUpdate, CommitAnswer, TypeInv, tree, Changed
<1>6. CASE SafeDelete(c) \/ DeleteCollection(c)
  <2>1. UNCHANGED <<parts, removing, replaced>> /\ DOMAIN stale' = Call
    BY <1>6 DEF SafeDelete, DeleteCollection, Plain, Changed
  <2>2. /\ docs' \in [Kind -> SUBSET Id] /\ gone' \in [Kind -> SUBSET Id]
        /\ children' \in [Parent -> [Id -> SUBSET Id]]
    <3>1. ASSUME SafeDelete(c) PROVE docs' = docs /\ gone' \in [Kind -> SUBSET Id] /\ children' = children
      <4>1. PICK kind \in Kind : \E i \in docs[kind] :
              UNCHANGED <<docs, children>> /\ gone' = [gone EXCEPT ![kind] = @ \cup {i}]
        BY <3>1 DEF SafeDelete
      <4> QED
        BY <4>1 DEF TypeInv
    <3>2. ASSUME DeleteCollection(c)
          PROVE  gone' = gone /\ docs' \in [Kind -> SUBSET Id] /\ children' \in [Parent -> [Id -> SUBSET Id]]
      <4>1. PICK i \in docs["collection"] :
              /\ UNCHANGED gone
              /\ docs' = [docs EXCEPT !["collection"] = @ \ {i}]
              /\ children' = [children EXCEPT !["collection"][i] = {}]
        BY <3>2 DEF DeleteCollection
      <4>2. i \in Id /\ "collection" \in Parent
        BY <4>1, ParentKinds DEF TypeInv, Kind
      <4>3. docs' \in [Kind -> SUBSET Id]
        BY <4>1 DEF TypeInv
      <4> QED
        BY <4>1, <4>2, <4>3, NestedUpdate DEF TypeInv
    <3> QED
      BY <1>6, <3>1, <3>2 DEF TypeInv
  <2> QED
    BY <2>1, <2>2 DEF TypeInv, parts
<1>7. CASE UpdateGroup(c)
  <2>1. call[c].list \in SUBSET Id
    BY DEF TypeInv, Local
  <2>2. children' \in [Parent -> [Id -> SUBSET Id]]
    BY <1>1, <1>7, <2>1, ParentKinds, NestedUpdate DEF UpdateGroup, TypeInv
  <2>3. replaced' \subseteq Id
    BY <1>1, <1>7, ParentKinds DEF UpdateGroup, TypeInv
  <2> QED
    BY <1>7, <2>2, <2>3 DEF UpdateGroup, TypeInv, parts, Changed
<1> QED
  BY <1>2, <1>3, <1>4, <1>5, <1>6, <1>7 DEF Begin, Step

\* Initial types.
LEMMA InitTypes == Init => TypeInv
<1> SUFFICES ASSUME Init PROVE TypeInv
  OBVIOUS
<1>1. Base \in Id
  BY DEF Id
<1>2. Idle \in Local /\ Shape(Idle) /\ NoProduct \in [options : SUBSET Id, costs : SUBSET Id, current : Id \cup {None}]
  BY DEF Idle, Local, Shape, NoProduct, Kind
<1> QED
  BY <1>1, <1>2 DEF Init, TypeInv

\* Types are kept.
LEMMA TypesKept ==
  ASSUME TypeInv, [Next]_vars
  PROVE  TypeInv'
<1>1. ASSUME NEW c \in Call, Begin(c) \/ Step(c) \/ Fail(c) PROVE TypeInv'
  <2>1. \A e \in Call : Shape(call'[e])
    BY <1>1, CallMoves DEF TypeInv
  <2>2. \A e \in Call : Shape(call[e])'
    BY <2>1 DEF Shape
  <2> QED
    BY <1>1, <2>2, CallMoves, StoreTypes DEF TypeInv
<1>2. ASSUME NEW c \in Call, RemoveOption(c) PROVE TypeInv'
  <2>1. UNCHANGED call
    BY <1>2 DEF RemoveOption
  <2>2. \A e \in Call : Shape(call[e])'
    BY <2>1 DEF TypeInv, Shape
  <2> QED
    BY <1>2, <2>1, <2>2, StoreTypes DEF TypeInv
<1>3. CASE UNCHANGED vars
  BY <1>3 DEF TypeInv, vars, Shape
<1> QED
  BY <1>1, <1>2, <1>3 DEF Next

-----------------------------------------------------------------------------
(* Isolation.                                                              *)

\* A transaction that writes what no other holds and nobody has changed.
LEMMA WriteIsolated ==
  ASSUME HeldInv, NEW c \in Call, NEW d, ~Conflict(c, d), UNCHANGED stale,
         Written(c)' \subseteq Written(c) \cup {d},
         \A e \in Call \ {c} : Written(e)' = Written(e)
  PROVE  HeldInv'
<1>1. /\ d \notin stale[c]
      /\ \A e \in Call \ {c} : d \notin Written(e)
  BY DEF Conflict
<1>2. ASSUME NEW a \in Call PROVE Written(a)' \cap stale[a]' = {}
  BY <1>1 DEF HeldInv
<1>3. ASSUME NEW a \in Call, NEW e \in Call \ {a} PROVE Written(a)' \cap Written(e)' = {}
  <2>1. Written(a) \cap Written(e) = {}
    BY DEF HeldInv
  <2>2. CASE a = c
    BY <1>1, <2>1, <2>2
  <2>3. CASE e = c
    BY <1>1, <2>1, <2>3
  <2> QED
    BY <2>1, <2>2, <2>3
<1> QED
  BY <1>2, <1>3 DEF HeldInv

\* A call that has ended holds nothing.
LEMMA EndsHoldingNothing ==
  ASSUME NEW c \in Call, ~Open(c)'
  PROVE  Written(c)' = {}
BY DEF Written

\* What others hold is not changed by a call.
LEMMA OthersHold ==
  ASSUME TypeInv, NEW c \in Call, Begin(c) \/ Step(c) \/ Fail(c)
  PROVE  \A e \in Call \ {c} : Written(e)' = Written(e) /\ Open(e)' = Open(e)
BY CallMoves DEF Written, Open

\* Isolation is kept.
LEMMA HeldKept ==
  ASSUME TypeInv, HeldInv, [Next]_vars
  PROVE  HeldInv'
<1>1. ASSUME NEW c \in Call, Push(c) \/ (\E part \in InSession : Task(c, part)) \/ UpdateFields(c) PROVE HeldInv'
  <2>1. PICK s : s = call[c] /\ s \in Local /\ Shape(s)
    BY DEF TypeInv
  <2>2. \A e \in Call \ {c} : Written(e)' = Written(e)
    BY <1>1, OthersHold DEF Step
  <2>3. UNCHANGED stale
    BY <1>1 DEF Push, Task, UpdateFields
  <2>4. CASE Push(c)
    <3>1. /\ ~Conflict(c, <<ParentKind(s.what), s.parent>>)
          /\ call'[c].what = s.what /\ call'[c].parent = s.parent /\ call'[c].done \subseteq {"push"}
          /\ call'[c].at = "commit"
      BY <2>1, <2>4 DEF Push, TypeInv, Local
    <3>2. Written(c)' \subseteq {<<ParentKind(s.what), s.parent>>}
      BY <3>1 DEF Written
    <3> QED
      BY <2>2, <2>3, <3>1, <3>2, WriteIsolated
  <2>5. ASSUME NEW part \in InSession, Task(c, part) PROVE HeldInv'
    <3>1. /\ call'[c].done = s.done \cup {part} /\ call'[c].what = s.what /\ call'[c].parent = s.parent
          /\ call'[c].at = "tasks" /\ s.at = "tasks" /\ s.done \subseteq InSession
      BY <2>1, <2>5 DEF Task, TypeInv, Local, Shape, At, Committed
    <3>2. part = "edit" => ~Conflict(c, <<"option", Base>>)
      BY <2>5 DEF Task
    <3>3. CASE part = "edit"
      <4>1. Written(c)' \subseteq Written(c) \cup {<<"option", Base>>}
        BY <2>1, <3>1, <3>3 DEF Written, Open, InSession
      <4> QED
        BY <2>2, <2>3, <3>2, <3>3, <4>1, WriteIsolated
    <3>4. CASE part # "edit"
      <4>1. Written(c)' \subseteq Written(c)
        BY <2>1, <3>1, <3>4 DEF Written, Open, InSession
      <4> QED
        BY <2>2, <2>3, <4>1 DEF HeldInv
    <3> QED
      BY <3>3, <3>4
  <2>6. CASE UpdateFields(c)
    <3>1. /\ call'[c].done = s.done \cup {"product"} /\ call'[c].what = s.what /\ call'[c].parent = s.parent
          /\ call'[c].at = "commit" /\ s.at = "tasks" /\ s.done \subseteq InSession
      BY <2>1, <2>6 DEF UpdateFields, TypeInv, Local, Shape, At, Committed
    <3>2. Written(c)' \subseteq Written(c) \cup {<<"product", Base>>}
      BY <2>1, <3>1 DEF Written, Open, InSession
    <3>3. ~Conflict(c, <<"product", Base>>)
      BY <2>6 DEF UpdateFields
    <3> QED
      BY <2>2, <2>3, <3>2, <3>3, WriteIsolated
  <2> QED
    BY <1>1, <2>4, <2>5, <2>6
<1>2. ASSUME NEW c \in Call, Create(c) \/ UpdateProduct(c) \/ EditGroup(c) \/ Fail(c) PROVE HeldInv'
  <2>1. \A e \in Call \ {c} : Written(e)' = Written(e)
    BY <1>2, OthersHold DEF Begin
  <2>2. call'[c].done = {}
    <3>1. CASE Create(c)
      BY <3>1 DEF Create, Idle, TypeInv
    <3>2. CASE UpdateProduct(c)
      BY <3>2 DEF UpdateProduct, Idle, TypeInv
    <3>3. CASE EditGroup(c)
      BY <3>3 DEF EditGroup, Idle, TypeInv
    <3>4. CASE Fail(c)
      BY <3>4 DEF Fail, Idle, TypeInv
    <3> QED
      BY <1>2, <3>1, <3>2, <3>3, <3>4
  <2>3. Written(c)' = {}
    BY <2>2 DEF Written
  <2>4. \A e \in Call : stale'[e] \subseteq stale[e]
    BY <1>2 DEF Create, UpdateProduct, EditGroup, Fail, TypeInv
  <2> QED
    BY <2>1, <2>3, <2>4 DEF HeldInv
<1>3. ASSUME NEW c \in Call, NEW ds, Begin(c) \/ Step(c), Changed(ds, c), ~Open(c)',
             \A e \in Call \ {c} : Written(e) \cap ds = {}
      PROVE  HeldInv'
  <2>1. \A e \in Call \ {c} : Written(e)' = Written(e)
    BY <1>3, OthersHold
  <2>2. Written(c)' = {}
    BY <1>3, EndsHoldingNothing
  <2>3. \A e \in Call : stale'[e] \subseteq stale[e] \cup ds
    BY <1>3 DEF Changed
  <2> QED
    BY <1>3, <2>1, <2>2, <2>3 DEF HeldInv
<1>4. ASSUME NEW c \in Call, CommitCreate(c) \/ CommitUpdate(c) \/ UpdateGroup(c) \/ SafeDelete(c) \/ DeleteCollection(c)
      PROVE  ~Open(c)'
  <2>1. CASE CommitCreate(c) \/ CommitUpdate(c)
    BY <2>1, CommitAnswers DEF CommitCreate, CommitUpdate, Open, Committed
  <2>2. CASE UpdateGroup(c) \/ SafeDelete(c) \/ DeleteCollection(c)
    <3>1. End(c)
      BY <2>2 DEF UpdateGroup, SafeDelete, DeleteCollection, Plain
    <3> QED
      BY <3>1 DEF End, Idle, Open, TypeInv
  <2> QED
    BY <1>4, <2>1, <2>2
<1>5. ASSUME NEW c \in Call, CommitCreate(c) \/ CommitUpdate(c) PROVE HeldInv'
  <2>1. Changed(Written(c), c)
    BY <1>5 DEF CommitCreate, CommitUpdate, CommitAnswer
  <2>2. \A e \in Call \ {c} : Written(e) \cap Written(c) = {}
    BY DEF HeldInv
  <2> QED
    BY <1>3, <1>4, <1>5, <2>1, <2>2 DEF Step
<1>6. ASSUME NEW c \in Call, UpdateGroup(c) \/ SafeDelete(c) \/ DeleteCollection(c) PROVE HeldInv'
  <2>1. PICK d : Changed({d}, c) /\ ~Held(d)
    BY <1>6 DEF UpdateGroup, SafeDelete, DeleteCollection, Plain
  <2>2. \A e \in Call \ {c} : Written(e) \cap {d} = {}
    BY <2>1 DEF Held
  <2> QED
    BY <1>3, <1>4, <1>6, <2>1, <2>2 DEF Step, Begin
<1>7. ASSUME NEW c \in Call, RemoveOption(c) PROVE HeldInv'
  <2>1. \A e \in Call : Written(e)' = Written(e)
    BY <1>7 DEF RemoveOption, Written, Open
  <2>2. \A e \in Call : <<"option", Base>> \notin Written(e) /\ stale'[e] \subseteq stale[e] \cup {<<"option", Base>>}
    BY <1>7 DEF RemoveOption, Held
  <2> QED
    BY <2>1, <2>2 DEF HeldInv
<1>8. CASE UNCHANGED vars
  BY <1>8 DEF HeldInv, vars, Written, Open
<1> QED
  BY <1>1, <1>2, <1>5, <1>6, <1>7, <1>8 DEF Next, Begin, Step

\* Every variable stays in its domain, and open transactions hold disjoint sets
\* of documents, none of them changed since the snapshot, whatever is refused,
\* aborted, or removed beside them.
THEOREM TypeSafe == Spec => []TypeOK
<1>1. Init => TypeInv /\ HeldInv
  <2> SUFFICES ASSUME Init PROVE TypeInv /\ HeldInv
    OBVIOUS
  <2>1. \A c \in Call : Written(c) = {}
    BY DEF Init, Written, Open, Idle
  <2> QED
    BY <2>1, InitTypes DEF HeldInv
<1>2. TypeInv /\ HeldInv /\ [Next]_vars => TypeInv' /\ HeldInv'
  BY TypesKept, HeldKept
<1>3. TypeInv /\ HeldInv => TypeOK
  BY DEF TypeInv, HeldInv, TypeOK, Local
<1> QED
  BY <1>1, <1>2, <1>3, PTL DEF Spec

-----------------------------------------------------------------------------
(* An update is whole.                                                     *)

\* The options and costs there are, are those of the products.
PartsInv ==
  /\ Base \in docs["product"] /\ Base \in product[Base].options
  /\ \A p \in docs["product"] : product[p].current \in product[p].costs
  /\ \A i \in Id :
       /\ i \in cost <=> \E p \in docs["product"] : i \in product[p].costs
       /\ option[i] # "none" <=> \E p \in docs["product"] : i \in product[p].options

\* A call that has not committed has left nothing.
FreshInv ==
  \A c \in Call : ~Committed(c) =>
    c \notin cost /\ option[c] = "none" /\ editor[Base] # c /\ \A k \in Kind : c \notin docs[k]

\* What is created or edited only by a commit.
LEMMA OnlyCommitsWrite ==
  ASSUME TypeInv, [Next]_vars
  PROVE  \/ \E c \in Call : CommitCreate(c) \/ CommitUpdate(c)
         \/ /\ UNCHANGED <<cost, product, editor>>
            /\ \A k \in Kind : docs'[k] \subseteq docs[k] /\ (k # "collection" => docs'[k] = docs[k])
            /\ option' = option \/ option' = [option EXCEPT ![Base] = "deleted"]
<1>1. ASSUME NEW c \in Call, UpdateProduct(c) \/ Create(c) \/ EditGroup(c) \/ Push(c) \/ UpdateFields(c)
               \/ (\E part \in InSession : Task(c, part)) \/ Fail(c) \/ UpdateGroup(c)
      PROVE  UNCHANGED <<cost, product, editor, docs, option>>
  BY <1>1 DEF UpdateProduct, Create, EditGroup, Push, UpdateFields, Task, Fail, UpdateGroup, parts, tree
<1>2. ASSUME NEW c \in Call, SafeDelete(c) PROVE UNCHANGED <<cost, product, editor, docs, option>>
  BY <1>2 DEF SafeDelete, Plain, parts
<1>3. ASSUME NEW c \in Call, DeleteCollection(c)
      PROVE  /\ UNCHANGED <<cost, product, editor, option>>
             /\ \A k \in Kind : docs'[k] \subseteq docs[k] /\ (k # "collection" => docs'[k] = docs[k])
  BY <1>3 DEF DeleteCollection, Plain, parts, TypeInv
<1>4. ASSUME NEW c \in Call, RemoveOption(c)
      PROVE  UNCHANGED <<cost, product, editor, docs>> /\ option' = [option EXCEPT ![Base] = "deleted"]
  BY <1>4 DEF RemoveOption, tree
<1> QED
  BY <1>1, <1>2, <1>3, <1>4 DEF Next, Begin, Step, vars

\* A call that is done stays so.
LEMMA DoneStays ==
  ASSUME TypeInv, [Next]_vars
  PROVE  \A c \in Call : Committed(c) => call'[c] = call[c]
<1>1. ASSUME NEW c \in Call, Begin(c) \/ Step(c) \/ Fail(c), NEW e \in Call, Committed(e)
      PROVE  call'[e] = call[e]
  <2>1. ~Committed(c)
    BY <1>1 DEF Begin, Step, At, Committed, Create, UpdateProduct, EditGroup, SafeDelete, DeleteCollection, Plain,
                Push, CommitCreate, Task, UpdateFields, CommitUpdate, UpdateGroup, Fail, Open, CommitAnswer
  <2> QED
    BY <1>1, <2>1, CallMoves
<1>2. ASSUME NEW c \in Call, RemoveOption(c) \/ UNCHANGED vars PROVE UNCHANGED call
  BY <1>2 DEF RemoveOption, vars
<1> QED
  BY <1>1, <1>2 DEF Next, vars

\* What the commit of updateProduct leaves.
LEMMA Updated ==
  ASSUME TypeInv, NEW c \in Call, CommitUpdate(c)
  PROVE  LET s == call[c] IN
         /\ \A x \in InSession : x \in s.parts <=> x \in s.done
         /\ \A p \in Id \ {Base} : product'[p] = product[p]
         /\ product'[Base].options = product[Base].options \cup (IF "options" \in s.parts THEN {c} ELSE {})
         /\ product'[Base].costs = product[Base].costs \cup (IF "cost" \in s.parts THEN {c} ELSE {})
         /\ product'[Base].current = IF "cost" \in s.parts THEN c ELSE product[Base].current
         /\ \A i \in Id : i \in cost' <=> i \in cost \/ (i = c /\ "cost" \in s.parts)
         /\ \A i \in Id : option'[i] = IF i = c /\ "options" \in s.parts THEN "live" ELSE option[i]
         /\ editor'[Base] \in {editor[Base], c}
         /\ UNCHANGED <<docs, gone, children, replaced>>
         /\ ~Committed(c) /\ Committed(c)' /\ call'[c].what = "update"
         /\ call'[c].parts = s.parts \cap InSession
<1>1. PICK s : s = call[c]
  OBVIOUS
<1>2. s \in Local /\ Shape(s) /\ s.at = "commit" /\ s.what = "update"
  BY <1>1 DEF CommitUpdate, TypeInv, At, Committed
<1>3. \A x \in InSession : x \in s.parts <=> x \in s.done
  BY <1>2 DEF Shape, InSession, Made, Kind
<1>4. c \in Id /\ Base \in Id
  BY DEF Id
<1>5. PICK p : p = product[Base] /\ p \in [options : SUBSET Id, costs : SUBSET Id, current : Id \cup {None}]
  BY <1>4 DEF TypeInv
<1>6. product' = [product EXCEPT ![Base] = Fields(c, p)]
  BY <1>5 DEF CommitUpdate
<1>7. PICK n : n = Fields(c, p)
  OBVIOUS
<1>8. /\ n.options = p.options \cup (IF "options" \in s.parts THEN {c} ELSE {})
      /\ n.costs = p.costs \cup (IF "cost" \in s.parts THEN {c} ELSE {})
      /\ n.current = IF "cost" \in s.parts THEN c ELSE p.current
  <2>1. /\ n.options = IF "options" \in s.parts THEN p.options \cup {c} ELSE p.options
        /\ n.costs = IF "cost" \in s.parts THEN p.costs \cup {c} ELSE p.costs
        /\ n.current = IF "cost" \in s.parts THEN c ELSE p.current
    <3>1. n = [p EXCEPT !.options = IF "options" \in s.parts THEN p.options \cup {c} ELSE p.options,
                        !.costs = IF "cost" \in s.parts THEN p.costs \cup {c} ELSE p.costs,
                        !.current = IF "cost" \in s.parts THEN c ELSE p.current]
      BY <1>1, <1>7 DEF Fields
    <3> QED
      BY <1>5, <3>1
  <2> QED
    BY <2>1
<1>9. product'[Base] = n /\ \A q \in Id \ {Base} : product'[q] = product[q]
  BY <1>4, <1>6, <1>7 DEF TypeInv
<1>10. /\ \A i \in Id : i \in cost' <=> i \in cost \/ (i = c /\ "cost" \in s.parts)
       /\ \A i \in Id : option'[i] = IF i = c /\ "options" \in s.parts THEN "live" ELSE option[i]
  BY <1>1, <1>3, <1>4 DEF CommitUpdate, TypeInv, InSession
<1>11. editor'[Base] \in {editor[Base], c} /\ UNCHANGED <<docs, gone, children, replaced>>
  BY <1>4 DEF CommitUpdate, TypeInv, tree
<1>12. /\ ~Committed(c) /\ Committed(c)' /\ call'[c].what = "update"
       /\ call'[c].parts = s.parts \cap InSession
  BY <1>1, <1>2, CommitAnswers DEF CommitUpdate, Committed
<1> QED
  BY <1>1, <1>3, <1>5, <1>8, <1>9, <1>10, <1>11, <1>12

\* Only its own commit leaves what a call creates.
LEMMA FreshKept ==
  ASSUME TypeInv, PartsInv, FreshInv, [Next]_vars
  PROVE  FreshInv'
<1>1. Base \notin Call /\ Base \in Id /\ Call \subseteq Id
  BY ProductCatalogueAssumption DEF Id
<1>2. \A e \in Call : ~Committed(e)' => ~Committed(e)
  BY DoneStays DEF At, Committed
<1>3. ASSUME NEW c \in Call, CommitCreate(c) \/ CommitUpdate(c) PROVE FreshInv'
  <2>1. Committed(c)'
    <3>1. CASE CommitCreate(c)
      BY <3>1, Created
    <3>2. CASE CommitUpdate(c)
      BY <3>2, Updated DEF At, Committed
    <3> QED
      BY <1>3, <3>1, <3>2
  <2>2. ASSUME NEW e \in Call \ {c}
        PROVE  /\ e \in cost' => e \in cost
               /\ option'[e] = option[e]
               /\ editor'[Base] = e => editor[Base] = e
               /\ \A k \in Kind : e \in docs'[k] => e \in docs[k]
    <3>1. CASE CommitCreate(c)
      <4>1. ASSUME NEW k \in Kind, e \in docs'[k] PROVE e \in docs[k]
        <5>1. docs'[k] = docs[k] \/ docs'[k] = docs[k] \cup {c}
          BY <3>1, Created
        <5> QED
          BY <4>1, <5>1
      <4>2. /\ e \in cost' => e \in cost
            /\ option'[e] = option[e]
            /\ editor'[Base] = e => editor[Base] = e
        BY <1>1, <3>1, CreatedParts DEF TypeInv
      <4> QED
        BY <4>1, <4>2
    <3>2. CASE CommitUpdate(c)
      BY <1>1, <3>2, Updated
    <3> QED
      BY <1>3, <3>1, <3>2
  <2> QED
    BY <1>2, <2>1, <2>2 DEF FreshInv
<1>4. ASSUME UNCHANGED <<cost, product, editor>>,
             \A k \in Kind : docs'[k] \subseteq docs[k],
             option' = option \/ option' = [option EXCEPT ![Base] = "deleted"]
      PROVE  FreshInv'
  <2>1. \A e \in Call : option'[e] = option[e]
    BY <1>1, <1>4 DEF TypeInv
  <2> QED
    BY <1>2, <1>4, <2>1 DEF FreshInv
<1> QED
  BY <1>3, <1>4, OnlyCommitsWrite

\* A commit leaves the options and costs of products, and only those.
LEMMA PartsKept ==
  ASSUME TypeInv, PartsInv, FreshInv, [Next]_vars
  PROVE  PartsInv'
<1>1. Base \notin Call /\ Base \in Id /\ Call \subseteq Id /\ docs["product"] \subseteq Id
  BY ProductCatalogueAssumption DEF Id, TypeInv, Kind
<1>2. ASSUME NEW c \in Call, CommitCreate(c) PROVE PartsInv'
  <2>1. CASE call[c].what = "product"
    <3>1. c \notin docs["product"]
      BY <1>2, Created DEF FreshInv, Kind, At, Committed
    <3>2. docs'["product"] = docs["product"] \cup {c}
      BY <1>2, <2>1, Created DEF Kind
    <3>3. /\ \A i \in Id : option'[i] = IF i = c THEN "live" ELSE option[i]
          /\ cost' = cost \cup {c}
          /\ \A p \in Id : product'[p] = IF p = c THEN [options |-> {c}, costs |-> {c}, current |-> c] ELSE product[p]
      BY <1>2, <2>1, CreatedParts DEF TypeInv
    <3>4. /\ product'[c].options = {c} /\ product'[c].costs = {c} /\ product'[c].current = c
          /\ \A p \in docs["product"] : product'[p] = product[p]
      BY <1>1, <3>1, <3>3
    <3> QED
      BY <1>1, <3>1, <3>2, <3>3, <3>4 DEF PartsInv
  <2>2. CASE call[c].what # "product"
    <3>1. docs'["product"] = docs["product"]
      BY <1>2, <2>2, Created DEF Kind
    <3>2. UNCHANGED <<option, cost, product>>
      BY <1>2, <2>2, CreatedParts
    <3> QED
      BY <3>1, <3>2 DEF PartsInv
  <2> QED
    BY <2>1, <2>2
<1>3. ASSUME NEW c \in Call, CommitUpdate(c) PROVE PartsInv'
  <2>2. /\ \A p \in Id \ {Base} : product'[p] = product[p]
        /\ \A i \in Id : i \in product'[Base].options <=> i \in product[Base].options \/ (i = c /\ "options" \in call[c].parts)
        /\ \A i \in Id : i \in product'[Base].costs <=> i \in product[Base].costs \/ (i = c /\ "cost" \in call[c].parts)
        /\ product'[Base].current = IF "cost" \in call[c].parts THEN c ELSE product[Base].current
        /\ \A i \in Id : i \in cost' <=> i \in cost \/ (i = c /\ "cost" \in call[c].parts)
        /\ \A i \in Id : option'[i] = IF i = c /\ "options" \in call[c].parts THEN "live" ELSE option[i]
        /\ docs' = docs
    BY <1>3, Updated
  <2>3. product[Base].current \in Id \cup {None} /\ product[Base].costs \subseteq Id
    BY <1>1 DEF TypeInv
  <2>4. c \in Id /\ None \notin Id
    BY <1>1, ProductCatalogueAssumption
  <2>5. \A p \in docs'["product"] : product'[p].current \in product'[p].costs
    <3>1. product[Base].current \in product[Base].costs
      BY DEF PartsInv
    <3>2. product'[Base].current \in product'[Base].costs
      BY <2>2, <2>3, <2>4, <3>1
    <3> QED
      BY <1>1, <2>2, <3>2 DEF PartsInv
  <2>6. ASSUME NEW i \in Id
        PROVE  /\ i \in cost' <=> \E p \in docs'["product"] : i \in product'[p].costs
               /\ option'[i] # "none" <=> \E p \in docs'["product"] : i \in product'[p].options
    <3>1. \A p \in docs["product"] : i \in product'[p].costs <=>
            i \in product[p].costs \/ (p = Base /\ i = c /\ "cost" \in call[c].parts)
      BY <1>1, <2>2
    <3>2. \A p \in docs["product"] : i \in product'[p].options <=>
            i \in product[p].options \/ (p = Base /\ i = c /\ "options" \in call[c].parts)
      BY <1>1, <2>2
    <3>3. i \in cost' <=> \E p \in docs'["product"] : i \in product'[p].costs
      BY <2>2, <3>1 DEF PartsInv
    <3>4. option'[i] # "none" <=> \E p \in docs'["product"] : i \in product'[p].options
      BY <2>2, <3>2 DEF PartsInv
    <3> QED
      BY <3>3, <3>4
  <2>7. Base \in docs'["product"] /\ Base \in product'[Base].options
    BY <1>1, <2>2 DEF PartsInv
  <2> QED
    BY <2>5, <2>6, <2>7 DEF PartsInv
<1>4. ASSUME UNCHANGED <<cost, product>>, docs'["product"] = docs["product"],
             option' = option \/ option' = [option EXCEPT ![Base] = "deleted"]
      PROVE  PartsInv'
  <2>1. option[Base] # "none"
    BY <1>1 DEF PartsInv
  <2>2. \A i \in Id : option'[i] = "none" <=> option[i] = "none"
    BY <1>1, <1>4, <2>1 DEF TypeInv
  <2> QED
    BY <1>4, <2>2 DEF PartsInv
<1> QED
  BY <1>2, <1>3, <1>4, OnlyCommitsWrite DEF Kind

\* A committed update has added what it was asked for.
AddedInv ==
  \A c \in Call : Committed(c) /\ call[c].what = "update" =>
    /\ "cost" \in call[c].parts => c \in product[Base].costs
    /\ "options" \in call[c].parts => c \in product[Base].options

\* Nothing takes an option or a cost from a product.
LEMMA BaseGrows ==
  ASSUME TypeInv, PartsInv, FreshInv, [Next]_vars
  PROVE  product[Base].costs \subseteq product'[Base].costs /\ product[Base].options \subseteq product'[Base].options
<1>1. Base \notin Call
  BY ProductCatalogueAssumption
<1>2. ASSUME NEW c \in Call, CommitCreate(c) PROVE product'[Base] = product[Base]
  BY <1>1, <1>2, CreatedParts DEF TypeInv, Id
<1>3. ASSUME NEW c \in Call, CommitUpdate(c)
      PROVE  product[Base].costs \subseteq product'[Base].costs /\ product[Base].options \subseteq product'[Base].options
  BY <1>3, Updated
<1> QED
  BY <1>2, <1>3, OnlyCommitsWrite

\* A commit of updateProduct adds it, and it stays.
LEMMA AddedKept ==
  ASSUME TypeInv, PartsInv, FreshInv, AddedInv, [Next]_vars
  PROVE  AddedInv'
<1> SUFFICES ASSUME NEW c \in Call, Committed(c)', call'[c].what = "update"
             PROVE  /\ "cost" \in call'[c].parts => c \in product'[Base].costs
                    /\ "options" \in call'[c].parts => c \in product'[Base].options
  BY DEF AddedInv
<1>1. CASE Committed(c)
  <2>1. call'[c] = call[c]
    BY <1>1, DoneStays
  <2> QED
    BY <1>1, <2>1, BaseGrows DEF AddedInv
<1>2. CASE CommitUpdate(c)
  BY <1>2, Updated
<1>3. CASE ~Committed(c) /\ ~CommitUpdate(c)
  <2>1. call'[c].what # "update" \/ ~Committed(c)'
    <3>1. PICK s : s = call[c] /\ s \in Local /\ Shape(s)
      BY DEF TypeInv
    <3>2. CASE call'[c] = call[c]
      BY <1>3, <3>2 DEF Committed
    <3>3. CASE Create(c) \/ Push(c) \/ (\E part \in InSession : Task(c, part)) \/ UpdateFields(c)
               \/ EditGroup(c) \/ Fail(c) \/ UpdateProduct(c)
      <4>1. call'[c].at \in {"push", "commit", "tasks", "replace", "failed"}
        <5>1. CASE Create(c)
          BY <5>1 DEF Create, Idle, TypeInv
        <5>2. CASE Push(c) \/ UpdateFields(c)
          <6>1. \E d : call' = [call EXCEPT ![c].at = "commit", ![c].done = d]
            BY <5>2 DEF Push, UpdateFields
          <6> QED
            BY <3>1, <6>1 DEF TypeInv, Local
        <5>3. CASE \E part \in InSession : Task(c, part)
          BY <3>1, <5>3 DEF Task, At, TypeInv, Local
        <5>4. CASE EditGroup(c) \/ Fail(c) \/ UpdateProduct(c)
          BY <5>4 DEF EditGroup, Fail, UpdateProduct, Idle, TypeInv
        <5> QED
          BY <3>3, <5>1, <5>2, <5>3, <5>4
      <4> QED
        BY <4>1 DEF Committed
    <3>4. CASE CommitCreate(c)
      <4>1. call'[c].what \in Made
        BY <3>4, Created
      <4> QED
        BY <4>1 DEF Made, Kind
    <3>5. CASE SafeDelete(c) \/ DeleteCollection(c) \/ UpdateGroup(c)
      <4>1. s.what \in {"none", "list"}
        BY <3>1, <3>5 DEF SafeDelete, DeleteCollection, UpdateGroup, Plain, At, Shape
      <4>2. call'[c].what = s.what
        BY <3>1, <3>5 DEF SafeDelete, DeleteCollection, UpdateGroup, Plain, End, Idle, TypeInv
      <4> QED
        BY <4>1, <4>2
    <3>6. ASSUME NEW e \in Call \ {c}, Begin(e) \/ Step(e) \/ Fail(e) PROVE call'[c] = call[c]
      BY <3>6, CallMoves
    <3>7. ASSUME NEW e \in Call, RemoveOption(e) PROVE call'[c] = call[c]
      BY <3>7 DEF RemoveOption
    <3> QED
      BY <1>3, <3>2, <3>3, <3>4, <3>5, <3>6, <3>7 DEF Next, Begin, Step, vars
  <2> QED
    BY <2>1
<1> QED
  BY <1>1, <1>2, <1>3

\* The invariant of an update.
WholeInv == TypeInv /\ PartsInv /\ FreshInv /\ AddedInv

\* The options and costs there are, are those of the products (product.service.ts).
THEOREM Whole == Spec => []WholeInv
<1>1. Init => WholeInv
  <2> SUFFICES ASSUME Init PROVE WholeInv
    OBVIOUS
  <2>1. Base \in Id /\ Base \notin Call /\ None \notin Call
    BY ProductCatalogueAssumption DEF Id
  <2>2. /\ \A i \in Id : product[i] = IF i = Base THEN [options |-> {Base}, costs |-> {Base}, current |-> Base] ELSE NoProduct
        /\ docs["product"] = {Base}
    BY DEF Init, Kind
  <2>3. product[Base].options = {Base} /\ product[Base].costs = {Base} /\ product[Base].current = Base
    BY <2>1, <2>2
  <2>4. PartsInv
    BY <2>1, <2>2, <2>3 DEF Init, PartsInv
  <2>5. FreshInv
    BY <2>1 DEF Init, FreshInv, Id
  <2>6. AddedInv
    BY DEF Init, Idle, AddedInv, Committed
  <2> QED
    BY <2>4, <2>5, <2>6, InitTypes DEF WholeInv
<1>2. WholeInv /\ [Next]_vars => WholeInv'
  BY TypesKept, FreshKept, PartsKept, AddedKept DEF WholeInv
<1> QED
  BY <1>1, <1>2, PTL DEF Spec

\* A product has exactly the options and costs that were created for it, its
\* price among them; an aborted transaction has added none of them and edited
\* nothing, a committed one has added all it was asked for, whether its caller was
\* told or not, and whatever other transactions do (createProduct, updateProduct).
THEOREM UpdatesAreWhole == Spec => []UpdateIsWhole
<1>1. WholeInv => UpdateIsWhole
  <2> SUFFICES ASSUME WholeInv PROVE UpdateIsWhole
    OBVIOUS
  <2>1. \A c \in Call : At(c, "failed") => ~Committed(c)
    BY DEF At, Committed
  <2> QED
    BY <2>1 DEF WholeInv, PartsInv, FreshInv, AddedInv, UpdateIsWhole
<1> QED
  BY <1>1, Whole, PTL

-----------------------------------------------------------------------------
(* What has been created is found.                                         *)

\* What is there when a creation names it as its parent.
Settled(i) == i = Base \/ (i \in Call /\ Committed(i))

\* A creation has a parent; one that has not pushed to it has found it gone.
ParentInv ==
  /\ gone["collection"] = {}
  /\ \A c \in Call : call[c].what \in Made =>
       /\ call[c].parent \in Id
       /\ Settled(call[c].parent)
       /\ At(c, "commit") /\ "push" \notin call[c].done =>
            call[c].parent \notin docs[ParentKind(call[c].what)]

\* What each finished creation has left, and where.
ListedInv ==
  /\ \A k \in Kind : \A c \in Call \cap docs[k] : call[c].what = k
  /\ \A c \in Call : product[c].options \subseteq {c}
  /\ \A c \in Call : Committed(c) =>
       /\ call[c].what = "product" => c \in product[c].options /\ option[c] = "live"
       /\ call[c].what \in Made /\ call[c].parent \in docs[ParentKind(call[c].what)] =>
            \/ c \in children[ParentKind(call[c].what)][call[c].parent]
            \/ call[c].what = "collection" /\ c \in replaced
       /\ call[c].what = "group" => call[c].list \subseteq children["group"][c]

\* A list loses an entry only by a PUT or with its document.
LEMMA ListsLose ==
  ASSUME TypeInv, [Next]_vars
  PROVE  /\ replaced \subseteq replaced'
         /\ \A k \in Parent, i \in Id : \A x \in children[k][i] :
              \/ x \in children'[k][i]
              \/ k = "collection" /\ i \notin docs'["collection"]
              \/ k = "group" /\ i = Base /\ x \in replaced'
              \/ k = "group" /\ i \in Call /\ ~Committed(i)
<1>1. CASE UNCHANGED <<children, replaced>>
  BY <1>1
<1>2. ASSUME NEW c \in Call, CommitCreate(c)
      PROVE  /\ replaced' = replaced
             /\ \A k \in Parent, i \in Id : \A x \in children[k][i] :
                  x \in children'[k][i] \/ (k = "group" /\ i \in Call /\ ~Committed(i))
  <2>1. ~Committed(c) /\ replaced' = replaced
    BY <1>2, Created DEF At, Committed
  <2>2. ASSUME NEW k \in Parent, NEW i \in Id, ~(k = "group" /\ i = c), NEW x \in children[k][i]
        PROVE  x \in children'[k][i]
    BY <1>2, <2>2, CreatedListed
  <2> QED
    BY <2>1, <2>2
<1>3. ASSUME NEW c \in Call, DeleteCollection(c)
      PROVE  /\ replaced' = replaced
             /\ \A k \in Parent, i \in Id :
                  children'[k][i] = children[k][i] \/ (k = "collection" /\ i \notin docs'["collection"])
  <2>1. PICK d \in docs["collection"] :
          /\ docs' = [docs EXCEPT !["collection"] = @ \ {d}]
          /\ children' = [children EXCEPT !["collection"][d] = {}]
          /\ replaced' = replaced
    BY <1>3 DEF DeleteCollection
  <2>2. d \in Id /\ "collection" \in Parent /\ d \notin docs'["collection"]
    BY <2>1, ParentKinds DEF TypeInv, Kind
  <2>3. \A k \in Parent, i \in Id : children'[k][i] = IF k = "collection" /\ i = d THEN {} ELSE children[k][i]
    BY <2>1, <2>2, NestedUpdate DEF TypeInv
  <2> QED
    BY <2>1, <2>2, <2>3
<1>4. ASSUME NEW c \in Call, UpdateGroup(c)
      PROVE  /\ replaced \subseteq replaced'
             /\ \A k \in Parent, i \in Id : \A x \in children[k][i] :
                  x \in children'[k][i] \/ (k = "group" /\ i = Base /\ x \in replaced')
  <2>1. PICK list \in SUBSET Id :
          /\ children' = [children EXCEPT !["group"][Base] = list]
          /\ replaced' = replaced \cup (children["group"][Base] \ list)
    <3>1. call[c].list \in SUBSET Id
      BY DEF TypeInv, Local
    <3> QED
      BY <1>4, <3>1 DEF UpdateGroup
  <2>2. Base \in Id /\ "group" \in Parent
    BY ParentKinds DEF Id
  <2>3. \A k \in Parent, i \in Id : children'[k][i] = IF k = "group" /\ i = Base THEN list ELSE children[k][i]
    BY <2>1, <2>2, NestedUpdate DEF TypeInv
  <2> QED
    BY <2>1, <2>3
<1>5. ASSUME [Next]_vars,
             ~ \E c \in Call : CommitCreate(c) \/ DeleteCollection(c) \/ UpdateGroup(c)
      PROVE  UNCHANGED <<children, replaced>>
  BY <1>5 DEF Next, Begin, Step, Create, UpdateProduct, SafeDelete, EditGroup, Push, Task, UpdateFields,
              CommitUpdate, Fail, RemoveOption, vars, tree
<1> QED
  BY <1>1, <1>2, <1>3, <1>4, <1>5

\* Documents appear by the commit of the call that names them.
LEMMA DocsGain ==
  ASSUME TypeInv, [Next]_vars
  PROVE  \A k \in Kind : \A x \in docs'[k] \ docs[k] : x \in Call /\ CommitCreate(x) /\ call[x].what = k
<1>1. ASSUME NEW c \in Call, CommitCreate(c)
      PROVE  \A k \in Kind : \A x \in docs'[k] \ docs[k] : x = c /\ call[c].what = k
  <2>1. \A k \in Kind : docs'[k] = IF k = call[c].what THEN docs[k] \cup {c} ELSE docs[k]
    BY <1>1, Created
  <2>2. ASSUME NEW k \in Kind, NEW x \in docs'[k] \ docs[k] PROVE x = c /\ call[c].what = k
    <3>1. CASE k = call[c].what
      <4>1. docs'[k] = docs[k] \cup {c}
        BY <2>1, <3>1
      <4> QED
        BY <3>1, <4>1
    <3>2. CASE k # call[c].what
      <4>1. docs'[k] = docs[k]
        BY <2>1, <3>2
      <4> QED
        BY <4>1
    <3> QED
      BY <3>1, <3>2
  <2> QED
    BY <2>2
<1>2. ASSUME NEW c \in Call, CommitUpdate(c) PROVE docs' = docs
  BY <1>2 DEF CommitUpdate, tree
<1> QED
  BY <1>1, <1>2, OnlyCommitsWrite

\* A settled parent is not created again.
LEMMA SettledStays ==
  ASSUME TypeInv, [Next]_vars, NEW i, Settled(i)
  PROVE  Settled(i)' /\ \A k \in Kind : i \in docs'[k] => i \in docs[k]
<1>1. Base \notin Call
  BY ProductCatalogueAssumption
<1>2. Settled(i)'
  BY DoneStays DEF Settled, At, Committed
<1>3. ASSUME NEW k \in Kind, i \in docs'[k], i \notin docs[k] PROVE FALSE
  <2>1. i \in Call /\ CommitCreate(i)
    BY <1>3, DocsGain
  <2>2. ~Committed(i)
    BY <2>1, Created DEF At, Committed
  <2> QED
    BY <1>1, <2>1, <2>2 DEF Settled
<1> QED
  BY <1>2, <1>3

\* The steps after which a call is a creation.
LEMMA CreationSteps ==
  ASSUME TypeInv, [Next]_vars, NEW e \in Call
  PROVE  call'[e] = call[e] \/ Create(e) \/ Push(e) \/ CommitCreate(e) \/ call'[e].what \notin Made
<1>1. ASSUME NEW c \in Call, Begin(c) \/ Step(c) \/ Fail(c), c # e PROVE call'[e] = call[e]
  BY <1>1, CallMoves
<1>2. ASSUME RemoveOption(e) \/ UNCHANGED vars PROVE call' = call
  BY <1>2 DEF RemoveOption, vars
<1>3. PICK s : s = call[e]
  OBVIOUS
<1>4. s \in Local /\ Shape(s)
  BY <1>3 DEF TypeInv
<1>5. "none" \notin Made /\ "update" \notin Made /\ "list" \notin Made
  BY DEF Made, Kind
<1>6. ASSUME UpdateProduct(e) \/ EditGroup(e) \/ Fail(e) PROVE call'[e].what \notin Made
  BY <1>5, <1>6 DEF UpdateProduct, EditGroup, Fail, Idle, TypeInv
<1>7. ASSUME SafeDelete(e) \/ DeleteCollection(e) \/ UpdateGroup(e) \/ CommitUpdate(e)
      PROVE  call'[e].what \notin Made
  <2>1. s.what \in {"none", "list", "update"}
    BY <1>3, <1>4, <1>7 DEF SafeDelete, DeleteCollection, UpdateGroup, CommitUpdate, Plain, At, Shape
  <2>2. call'[e].what = s.what
    <3>1. CASE CommitUpdate(e)
      BY <1>3, <3>1, CommitAnswers DEF CommitUpdate
    <3>2. CASE End(e)
      BY <1>3, <3>2 DEF End, Idle, TypeInv
    <3> QED
      BY <1>7, <3>1, <3>2 DEF SafeDelete, DeleteCollection, UpdateGroup, Plain
  <2> QED
    BY <1>5, <2>1, <2>2
<1>8. ASSUME (\E part \in InSession : Task(e, part)) \/ UpdateFields(e) PROVE call'[e].what \notin Made
  <2>1. s.what = "update"
    BY <1>3, <1>4, <1>8 DEF Task, UpdateFields, At, Committed, Shape
  <2>2. call'[e].what = s.what
    BY <1>3, <1>4, <1>8 DEF Task, UpdateFields, TypeInv, Local
  <2> QED
    BY <1>5, <2>1, <2>2
<1> QED
  BY <1>1, <1>2, <1>6, <1>7, <1>8 DEF Next, Begin, Step, RemoveOption

\* A push is left out only when the parent is gone.
LEMMA ParentKept ==
  ASSUME TypeInv, FreshInv, ParentInv, [Next]_vars
  PROVE  ParentInv'
<1>1. gone'["collection"] = {}
  <2>1. ASSUME NEW c \in Call, SafeDelete(c) PROVE gone'["collection"] = gone["collection"]
    BY <2>1 DEF SafeDelete, TypeInv, Kind
  <2>2. ASSUME [Next]_vars, ~ \E c \in Call : SafeDelete(c) PROVE gone' = gone
    BY <2>2 DEF Next, Begin, Step, Create, UpdateProduct, DeleteCollection, EditGroup, Push, CommitCreate,
                Task, UpdateFields, CommitUpdate, UpdateGroup, Fail, RemoveOption, vars, tree
  <2> QED
    BY <2>1, <2>2 DEF ParentInv
<1>2. ASSUME NEW k \in Made PROVE ParentKind(k) \in Kind
  BY <1>2, ParentKinds DEF Made, Kind
<1>3. ASSUME NEW e \in Call, call'[e].what \in Made
      PROVE  \E p \in Id :
               /\ call'[e].parent = p
               /\ Settled(p)'
               /\ call'[e].at = "commit" /\ "push" \notin call'[e].done =>
                    p \notin docs'[ParentKind(call'[e].what)]
  <2>1. PICK s : s = call[e] /\ s \in Local /\ Shape(s)
    BY DEF TypeInv
  <2>2. PICK n, p : n = call'[e] /\ p = n.parent
    OBVIOUS
  <2>3. SUFFICES /\ p \in Id /\ Settled(p)
                 /\ n.at = "commit" /\ "push" \notin n.done => p \notin docs[ParentKind(n.what)]
    BY <1>2, <1>3, <2>2, SettledStays
  <2>4. CASE n = s
    BY <1>3, <2>1, <2>2, <2>4 DEF ParentInv, At, Committed
  <2>5. CASE Create(e)
    <3>1. PICK kind \in Made :
            \E x \in docs[ParentKind(kind)], list \in SUBSET (IF kind = "group" THEN docs["collection"] ELSE {}) :
              call' = [call EXCEPT ![e] =
                [Idle EXCEPT !.at = "push", !.what = kind, !.parent = x, !.list = list]]
      BY <2>5 DEF Create, Made
    <3>2. n.at = "push" /\ p \in docs[ParentKind(kind)]
      BY <2>2, <3>1 DEF TypeInv, Idle
    <3>3. p \in Id /\ Settled(p)
      BY <1>2, <3>2 DEF TypeInv, Id, Settled, FreshInv
    <3> QED
      BY <3>2, <3>3
  <2>6. CASE Push(e)
    <3>1. /\ s.at = "push" /\ s.what \in Made
          /\ n = [s EXCEPT !.at = "commit",
                           !.done = IF s.parent \in docs[ParentKind(s.what)] THEN {"push"} ELSE {}]
      BY <2>1, <2>2, <2>6 DEF Push, At, Committed, Shape, TypeInv
    <3>2. /\ n.what = s.what /\ p = s.parent
          /\ "push" \notin n.done => s.parent \notin docs[ParentKind(s.what)]
      BY <2>1, <2>2, <3>1 DEF Local
    <3>3. s.parent \in Id /\ Settled(s.parent)
      BY <2>1, <3>1 DEF ParentInv
    <3> QED
      BY <3>2, <3>3
  <2>7. CASE CommitCreate(e)
    <3>1. s.what \in Made /\ Committed(e)' /\ p = s.parent
      BY <2>1, <2>2, <2>7, Created
    <3>2. n.at # "commit"
      BY <2>2, <3>1 DEF Committed
    <3>3. s.parent \in Id /\ Settled(s.parent)
      BY <2>1, <3>1 DEF ParentInv
    <3> QED
      BY <3>1, <3>2, <3>3
  <2> QED
    BY <1>3, <2>1, <2>2, <2>4, <2>5, <2>6, <2>7, CreationSteps
<1> QED
  BY <1>1, <1>3 DEF ParentInv, At, Committed, Settled, ParentKind, Child, Parent

\* Nobody else touches what a finished creation has made.
LEMMA MadeStays ==
  ASSUME TypeInv, [Next]_vars, NEW e \in Call, Committed(e)
  PROVE  product'[e] = product[e] /\ option'[e] = option[e]
<1>1. e \in Id /\ e # Base
  BY ProductCatalogueAssumption DEF Id
<1>2. ASSUME NEW c \in Call, CommitCreate(c) PROVE product'[e] = product[e] /\ option'[e] = option[e]
  <2>1. c # e
    BY <1>2, Created DEF At, Committed
  <2>2. \/ option' = [option EXCEPT ![c] = "live"] /\ \E p : product' = [product EXCEPT ![c] = p]
        \/ UNCHANGED <<option, product>>
    BY <1>2, CreatedParts
  <2> QED
    BY <1>1, <2>1, <2>2 DEF TypeInv
<1>3. ASSUME NEW c \in Call, CommitUpdate(c) PROVE product'[e] = product[e] /\ option'[e] = option[e]
  <2>1. ~Committed(c)
    BY <1>3, Updated
  <2>2. c # e
    BY <2>1
  <2>3. /\ \A p \in Id \ {Base} : product'[p] = product[p]
        /\ \A i \in Id : option'[i] = IF i = c /\ "options" \in call[c].parts THEN "live" ELSE option[i]
    BY <1>3, Updated
  <2> QED
    BY <1>1, <2>2, <2>3
<1>4. ASSUME UNCHANGED product, option' = option \/ option' = [option EXCEPT ![Base] = "deleted"]
      PROVE  product'[e] = product[e] /\ option'[e] = option[e]
  BY <1>1, <1>4 DEF TypeInv
<1> QED
  BY <1>2, <1>3, <1>4, OnlyCommitsWrite

\* A product holds no option of another call.
LEMMA OwnOptions ==
  ASSUME TypeInv, [Next]_vars, NEW e \in Call, product[e].options \subseteq {e}
  PROVE  product'[e].options \subseteq {e}
<1>1. e \in Id /\ e # Base
  BY ProductCatalogueAssumption DEF Id
<1>2. ASSUME NEW c \in Call, CommitCreate(c) PROVE product'[e].options \subseteq {e}
  <2>1. \/ product' = [product EXCEPT ![c] = [options |-> {c}, costs |-> {c}, current |-> c]]
        \/ UNCHANGED product
    BY <1>2, CreatedParts
  <2> QED
    BY <1>1, <2>1 DEF TypeInv
<1>3. ASSUME NEW c \in Call, CommitUpdate(c) PROVE product'[e] = product[e]
  BY <1>1, <1>3, Updated
<1> QED
  BY <1>2, <1>3, OnlyCommitsWrite

\* A finished creation stays listed.
LEMMA ListedStays ==
  ASSUME TypeInv, ParentInv, ListedInv, [Next]_vars, NEW e \in Call, Committed(e),
         NEW s, s = call[e]
  PROVE  /\ s.what \in Made /\ s.parent \in docs'[ParentKind(s.what)] =>
              \/ e \in children'[ParentKind(s.what)][s.parent]
              \/ s.what = "collection" /\ e \in replaced'
         /\ s.what = "group" => s.list \subseteq children'["group"][e]
<1>1. ASSUME s.what \in Made, s.parent \in docs'[ParentKind(s.what)]
      PROVE  \/ e \in children'[ParentKind(s.what)][s.parent]
             \/ s.what = "collection" /\ e \in replaced'
  <2>1. PICK k \in Parent \cap Kind, p \in Id : k = ParentKind(s.what) /\ p = s.parent /\ Settled(p)
    BY <1>1, ParentKinds DEF ParentInv, Made, Kind
  <2>2. p \in docs[k]
    BY <1>1, <2>1, SettledStays
  <2>3. e \in children[k][p] \/ (s.what = "collection" /\ e \in replaced)
    BY <1>1, <2>1, <2>2 DEF ListedInv
  <2>4. k = "group" => s.what = "collection"
    BY <1>1, <2>1, ParentKinds DEF Made, Kind
  <2>5. Settled(p) => ~(p \in Call /\ ~Committed(p))
    BY ProductCatalogueAssumption DEF Settled
  <2>6. p \in docs'[k]
    BY <1>1, <2>1
  <2>7. replaced \subseteq replaced'
    BY ListsLose
  <2>8. e \in children[k][p] => e \in children'[k][p] \/ (k = "group" /\ e \in replaced')
    BY <2>1, <2>5, <2>6, ListsLose
  <2> QED
    BY <2>1, <2>3, <2>4, <2>7, <2>8
<1>2. ASSUME s.what = "group" PROVE s.list \subseteq children'["group"][e]
  <2>1. e \in Id /\ e # Base /\ "group" \in Parent /\ "group" # "collection"
    BY ProductCatalogueAssumption, ParentKinds DEF Id
  <2>2. s.list \subseteq children["group"][e]
    BY <1>2 DEF ListedInv
  <2>3. \A x \in children["group"][e] : x \in children'["group"][e]
    BY <2>1, ListsLose
  <2> QED
    BY <2>2, <2>3
<1> QED
  BY <1>1, <1>2

\* What the commit of a creation has listed.
LEMMA CommitLists ==
  ASSUME TypeInv, ParentInv, [Next]_vars, NEW e \in Call, CommitCreate(e), NEW s, s = call[e]
  PROVE  /\ s.what = "product" => e \in product'[e].options /\ option'[e] = "live"
         /\ s.parent \in docs'[ParentKind(s.what)] => e \in children'[ParentKind(s.what)][s.parent]
         /\ s.what = "group" => s.list \subseteq children'["group"][e]
<1>1. e \in Id /\ s.what \in Made /\ At(e, "commit")
  BY Created DEF Id
<1>2. s.what = "product" => e \in product'[e].options /\ option'[e] = "live"
  BY <1>1, CreatedParts DEF TypeInv
<1>3. s.what = "group" => s.list \subseteq children'["group"][e]
  BY CreatedListed
<1>4. ASSUME s.parent \in docs'[ParentKind(s.what)] PROVE e \in children'[ParentKind(s.what)][s.parent]
  <2>1. ParentKind(s.what) \in Kind
    BY <1>1, ParentKinds DEF Made, Kind
  <2>2. PICK p : p = s.parent /\ Settled(p)
    BY <1>1 DEF ParentInv
  <2>3. p \in docs[ParentKind(s.what)]
    BY <1>4, <2>1, <2>2, SettledStays
  <2>4. "push" \in s.done
    BY <1>1, <2>2, <2>3 DEF ParentInv
  <2>5. s.parent # e
    BY <1>1, <2>2, ProductCatalogueAssumption DEF Settled, At, Committed
  <2> QED
    BY <2>4, <2>5, CreatedListed
<1> QED
  BY <1>2, <1>3, <1>4

\* A commit lists what it creates, and lists lose nothing else.
LEMMA ListedKept ==
  ASSUME TypeInv, FreshInv, ParentInv, ListedInv, [Next]_vars
  PROVE  ListedInv'
<1>1. ASSUME NEW k \in Kind, NEW c \in Call, c \in docs'[k] PROVE call'[c].what = k
  <2>1. CASE c \in docs[k]
    <3>1. Committed(c)
      BY <2>1 DEF FreshInv
    <3> QED
      BY <2>1, <3>1, DoneStays DEF ListedInv
  <2>2. CASE c \notin docs[k]
    <3>1. CommitCreate(c) /\ call[c].what = k
      BY <1>1, <2>2, DocsGain
    <3> QED
      BY <3>1, Created DEF TypeInv, Local
  <2> QED
    BY <2>1, <2>2
<1>2. \A c \in Call : product'[c].options \subseteq {c}
  BY OwnOptions DEF ListedInv
<1>3. ASSUME NEW c \in Call, Committed(c)'
      PROVE  /\ call'[c].what = "product" => c \in product'[c].options /\ option'[c] = "live"
             /\ call'[c].what \in Made /\ call'[c].parent \in docs'[ParentKind(call'[c].what)] =>
                  \/ c \in children'[ParentKind(call'[c].what)][call'[c].parent]
                  \/ call'[c].what = "collection" /\ c \in replaced'
             /\ call'[c].what = "group" => call'[c].list \subseteq children'["group"][c]
  <2>1. PICK s, n : s = call[c] /\ n = call'[c]
    OBVIOUS
  <2>2. s \in Local /\ Shape(s)
    BY <2>1 DEF TypeInv
  <2>3. CASE Committed(c)
    <3>1. n = s
      BY <2>1, <2>3, DoneStays
    <3>2. s.what = "product" => c \in product'[c].options /\ option'[c] = "live"
      BY <2>1, <2>3, MadeStays DEF ListedInv
    <3> QED
      BY <2>1, <2>3, <3>1, <3>2, ListedStays
  <2>4. CASE CommitCreate(c)
    <3>2. n.what = s.what /\ n.parent = s.parent /\ n.list = s.list
      BY <2>1, <2>4, Created
    <3> QED
      BY <2>1, <2>4, <3>2, CommitLists
  <2>5. CASE n.what \notin Made
    BY <2>1, <2>5 DEF Made, Kind
  <2>6. CASE Create(c) \/ Push(c)
    <3>1. n.at \notin {"done", "lost"}
      <4>1. CASE Create(c)
        BY <2>1, <4>1 DEF Create, TypeInv, Idle
      <4>2. CASE Push(c)
        BY <2>1, <4>2 DEF Push, TypeInv
      <4> QED
        BY <2>6, <4>1, <4>2
    <3> QED
      BY <1>3, <2>1, <3>1 DEF Committed
  <2> QED
    BY <1>3, <2>1, <2>3, <2>4, <2>5, <2>6, CreationSteps DEF At, Committed
<1> QED
  BY <1>1, <1>2, <1>3 DEF ListedInv, At, Committed, ParentKind, Child, Parent

\* What is created has a parent and is in its list (category, collection, collection group and product services).
THEOREM Listed == Spec => [](ParentInv /\ ListedInv)
<1>1. Init => ParentInv /\ ListedInv
  <2> SUFFICES ASSUME Init PROVE ParentInv /\ ListedInv
    OBVIOUS
  <2>1. Base \notin Call /\ "none" \notin Made
    BY ProductCatalogueAssumption DEF Made, Kind
  <2>2. \A c \in Call : call[c].at = "idle" /\ call[c].what = "none"
    BY DEF Init, Idle
  <2>3. \A c \in Call : product[c].options \subseteq {c}
    BY <2>1 DEF Init, NoProduct, Id
  <2> QED
    BY <2>1, <2>2, <2>3 DEF Init, ParentInv, ListedInv, At, Committed, Kind
<1>2. WholeInv /\ ParentInv /\ ListedInv /\ [Next]_vars => ParentInv' /\ ListedInv'
  BY ParentKept, ListedKept DEF WholeInv
<1> QED
  BY <1>1, <1>2, Whole, PTL DEF Spec

\* What a committed creation has made is found by every later query while it and
\* its parents exist, whatever other creations, updates, deletions and PUTs do meanwhile
\* (createProduct, createCollection, createCollectionGroup, updateProduct).
THEOREM CreationsAreFound == Spec => []CreatedIsFound
<1>1. WholeInv /\ ParentInv /\ ListedInv => CreatedIsFound
  <2> SUFFICES ASSUME WholeInv, ParentInv, ListedInv, NEW c \in Call, Committed(c), NEW s, s = call[c]
               PROVE
                 /\ s.what = "product" /\ s.parent \in docs["collection"] /\ c \in NotDeleted("product") =>
                      /\ c \in ProductsQuery(s.parent)
                      /\ DetailQuery(c) # {} /\ DetailQuery(c) \subseteq FilterQuery(s.parent)
                 /\ s.what = "update" =>
                      \A q \in docs["collection"] :
                        Base \in ProductsQuery(q) /\ option[c] = "live" => c \in FilterQuery(q)
                 /\ s.what = "collection" =>
                      \A a \in NotDeleted("category") :
                        /\ s.parent \in children["category"][a] \cap NotDeleted("group")
                        /\ c \in docs["collection"] \ replaced
                        => <<a, s.parent, c>> \in CategoriesQuery
                 /\ s.what = "group" =>
                      (s.parent \in NotDeleted("category") /\ c \in NotDeleted("group") =>
                        \A q \in s.list \cap docs["collection"] : <<s.parent, c, q>> \in CategoriesQuery)
    BY DEF CreatedIsFound
  <2>1. c \in Id /\ c # Base /\ \A k \in Kind : docs[k] \subseteq Id
    BY ProductCatalogueAssumption DEF Id, WholeInv, TypeInv
  <2>2. ASSUME s.what = "product", s.parent \in docs["collection"], c \in NotDeleted("product")
        PROVE  /\ c \in ProductsQuery(s.parent)
               /\ DetailQuery(c) # {} /\ DetailQuery(c) \subseteq FilterQuery(s.parent)
    <3>1. c \in children["collection"][s.parent]
      BY <2>2, ParentKinds DEF ListedInv, Made, Kind
    <3>2. c \in product[c].options /\ option[c] = "live"
      BY <2>2 DEF ListedInv
    <3>3. c \in docs["product"]
      BY <2>2 DEF NotDeleted
    <3> QED
      BY <2>2, <3>1, <3>2, <3>3 DEF ProductsQuery, DetailQuery, FilterQuery
  <2>3. ASSUME s.what = "update", NEW q \in docs["collection"], Base \in ProductsQuery(q), option[c] = "live"
        PROVE  c \in FilterQuery(q)
    <3>1. PICK p \in docs["product"] : c \in product[p].options
      BY <2>1, <2>3 DEF WholeInv, PartsInv
    <3>2. p = Base
      <4>1. p \in Call => p = c
        BY <3>1 DEF ListedInv
      <4>2. c \in docs["product"] => s.what = "product"
        BY DEF ListedInv, Kind
      <4>3. p \in Id
        BY <2>1, <3>1 DEF Kind
      <4> QED
        BY <2>3, <3>1, <4>1, <4>2, <4>3 DEF Id
    <3> QED
      BY <2>3, <3>1, <3>2 DEF ProductsQuery, NotDeleted, FilterQuery
  <2>4. ASSUME s.what = "collection", NEW a \in NotDeleted("category"),
               s.parent \in children["category"][a] \cap NotDeleted("group"),
               c \in docs["collection"] \ replaced
        PROVE  <<a, s.parent, c>> \in CategoriesQuery
    <3>1. c \in children["group"][s.parent]
      BY <2>4, ParentKinds DEF ListedInv, NotDeleted, Made, Kind
    <3>2. c \in NotDeleted("collection")
      BY <2>4 DEF ParentInv, NotDeleted
    <3>3. a \in Id /\ s.parent \in Id
      BY <2>1, <2>4 DEF NotDeleted, Kind
    <3> QED
      BY <2>1, <2>4, <3>1, <3>2, <3>3 DEF CategoriesQuery
  <2>5. ASSUME s.what = "group", s.parent \in NotDeleted("category"), c \in NotDeleted("group"),
               NEW q \in s.list \cap docs["collection"]
        PROVE  <<s.parent, c, q>> \in CategoriesQuery
    <3>1. c \in children["category"][s.parent] /\ q \in children["group"][c]
      BY <2>5, ParentKinds DEF ListedInv, NotDeleted, Made, Kind
    <3>2. q \in NotDeleted("collection")
      BY <2>5 DEF ParentInv, NotDeleted
    <3>3. q \in Id /\ s.parent \in Id
      BY <2>1, <2>5 DEF NotDeleted, Kind
    <3> QED
      BY <2>1, <2>5, <3>1, <3>2, <3>3 DEF CategoriesQuery
  <2> QED
    BY <2>2, <2>3, <2>4, <2>5
<1> QED
  BY <1>1, Whole, Listed, PTL

=============================================================================
