-------------------------- MODULE ProductCatalogue --------------------------
(***************************************************************************)
(* The catalogue: categories hold collection groups, groups collections,   *)
(* collections products, and a product its options and costs.  Creations   *)
(* and updateProduct run in MongoDB transactions and race each other and   *)
(* the writes that are given no session (product.service.ts,               *)
(* collection.service.ts, collection-group.service.ts,                     *)
(* category.service.ts).  The queries of the reads are operators over the   *)
(* committed state; between them and the storefront is the cache of every   *)
(* collection, which RepositoryCache describes.                             *)
(***************************************************************************)
CONSTANTS
  Call,     \* calls; a call names the documents it creates
  Base,     \* names the documents that exist at the start
  None

Id == Call \cup {Base}

ASSUME ProductCatalogueAssumption ==
  /\ Base \notin Call
  /\ None \notin Id

Kind == {"category", "group", "collection", "product"}
Child == [category |-> "group", group |-> "collection", collection |-> "product"]
Parent == DOMAIN Child
ParentKind(kind) == CHOOSE p \in Parent : Child[p] = kind
InSession == {"cost", "options", "edit"}
Part == InSession \cup {"remove", "newImages", "deleteImages"}

NoProduct == [options |-> {}, costs |-> {}, current |-> None]
Idle == [at |-> "idle", what |-> "none", parent |-> None, parts |-> {}, done |-> {}, list |-> {}]

VARIABLES
  option,     \* the options: none, live, or deleted
  editor,     \* the call that last edited each option
  cost,       \* the cost documents
  product,    \* the fields of each product
  docs,       \* the documents of each kind
  gone,       \* those marked isDeleted
  children,   \* the ids in the list of each category, group and collection
  call,       \* the local state of each call, its uncommitted writes included
  stale,      \* documents changed since the snapshot of each open transaction
  removing,   \* calls whose safeDelete of the first option nobody awaits
  replaced    \* history: ids a PUT has taken out of a group

vars == <<option, editor, cost, product, docs, gone, children, call, stale, removing, replaced>>
parts == <<option, editor, cost, product>>
tree == <<docs, gone, children>>

Init ==
  /\ option = [i \in Id |-> IF i = Base THEN "live" ELSE "none"]
  /\ editor = [i \in Id |-> None]
  /\ cost = {Base}
  /\ product = [i \in Id |-> IF i = Base
                 THEN [options |-> {Base}, costs |-> {Base}, current |-> Base]
                 ELSE NoProduct]
  /\ docs = [k \in Kind |-> {Base}]
  /\ gone = [k \in Kind |-> {}]
  /\ children = [k \in Parent |-> [i \in Id |-> IF i = Base THEN {Base} ELSE {}]]
  /\ call = [c \in Call |-> Idle]
  /\ stale = [c \in Call |-> {}]
  /\ removing = {}
  /\ replaced = {}

At(c, label) == call[c].at = label
End(c) == call' = [call EXCEPT ![c] = [Idle EXCEPT !.at = "done", !.what = call[c].what]]
Open(c) == call[c].at \in {"push", "tasks", "commit"}
\* The call's transaction is committed; "lost": the caller got an error all the same.
Committed(c) == call[c].at \in {"done", "lost"}

\* The existing documents an open transaction has written.
Written(c) ==
  IF ~Open(c) THEN {}
  ELSE {<<"option", Base>> : w \in {"edit"} \cap call[c].done}
    \cup {<<"product", Base>> : w \in {"product"} \cap call[c].done}
    \cup {<<ParentKind(call[c].what), call[c].parent>> : w \in {"push"} \cap call[c].done}

Held(d) == \E c \in Call : d \in Written(c)
\* MongoDB: another transaction has written the document, or it has changed.
\* Mutant: only the second is noticed.
ConflictLate(c, d) == d \in stale[c]
Conflict(c, d) == d \in stale[c] \/ \E e \in Call \ {c} : d \in Written(e)
Changed(ds, c) == stale' = [e \in Call |-> IF e # c /\ Open(e) THEN stale[e] \cup ds ELSE {}]

\* commitTransaction is applied; its answer arrives or is lost, and then the
\* call throws (abortTransaction comes too late).
CommitAnswer(c) ==
  /\ Changed(Written(c), c)
  /\ \E label \in {"done", "lost"} :
       call' = [call EXCEPT ![c].at = label, ![c].parts = @ \cap InSession, ![c].done = {}]

\* A throw, MongoDB's refusal, or a commit that is not applied: what the
\* transaction wrote is dropped.
Fail(c) ==
  /\ Open(c)
  /\ call' = [call EXCEPT ![c] = [Idle EXCEPT !.at = "failed"]]
  /\ stale' = [stale EXCEPT ![c] = {}]
  /\ UNCHANGED <<parts, tree, removing, replaced>>

-----------------------------------------------------------------------------
(* createProduct, createCollection, createCollectionGroup.                 *)

\* The new documents are written in the session; nobody else knows their ids.
Create(c) ==
  /\ At(c, "idle")
  /\ \E kind \in Kind \ {"category"} :
       \E p \in docs[ParentKind(kind)], list \in SUBSET (IF kind = "group" THEN docs["collection"] ELSE {}) :
         call' = [call EXCEPT ![c] =
           [Idle EXCEPT !.at = "push", !.what = kind, !.parent = p, !.list = list]]
  /\ UNCHANGED <<parts, tree, stale, removing, replaced>>

\* $push into the parent, in the session; a parent that is gone is not missed.
Push(c) ==
  /\ At(c, "push")
  /\ LET d == <<ParentKind(call[c].what), call[c].parent>>
     IN /\ ~Conflict(c, d)
        /\ call' = [call EXCEPT ![c].at = "commit",
             ![c].done = IF call[c].parent \in docs[d[1]] THEN {"push"} ELSE {}]
  /\ UNCHANGED <<parts, tree, stale, removing, replaced>>

\* Mutant: the list is set, not pushed to.
PushedSet(list, i) == {i}
Pushed(list, i) == list \cup {i}

CommitCreate(c) ==
  /\ At(c, "commit")
  /\ call[c].what \in Kind
  /\ LET kind == call[c].what
         p == ParentKind(kind)
     IN /\ docs' = [docs EXCEPT ![kind] = @ \cup {c}]
        /\ children' =
             LET pushed == IF "push" \notin call[c].done THEN children
                           ELSE [children EXCEPT ![p][call[c].parent] = Pushed(@, c)]
             IN IF kind = "group" THEN [pushed EXCEPT !["group"][c] = call[c].list] ELSE pushed
        /\ IF kind = "product"
           THEN /\ option' = [option EXCEPT ![c] = "live"]
                /\ cost' = cost \cup {c}
                /\ product' = [product EXCEPT ![c] =
                     [options |-> {c}, costs |-> {c}, current |-> c]]
                /\ UNCHANGED editor
           ELSE UNCHANGED parts
  /\ CommitAnswer(c)
  /\ UNCHANGED <<gone, removing, replaced>>

-----------------------------------------------------------------------------
(* updateProduct of the first product.                                     *)

\* findById has opened the snapshot; the tasks start.
UpdateProduct(c) ==
  /\ At(c, "idle")
  /\ \E ps \in SUBSET Part :
       /\ call' = [call EXCEPT ![c] = [Idle EXCEPT !.at = "tasks", !.what = "update", !.parts = ps]]
       /\ removing' = IF "remove" \in ps THEN removing \cup {c} ELSE removing
  /\ UNCHANGED <<parts, tree, stale, replaced>>

\* create of the cost, create of the options, update of the option, in any order.
Task(c, part) ==
  /\ At(c, "tasks")
  /\ part \in (call[c].parts \cap InSession) \ call[c].done
  /\ part = "edit" => ~Conflict(c, <<"option", Base>>)
  /\ call' = [call EXCEPT ![c].done = @ \cup {part}]
  /\ UNCHANGED <<parts, tree, stale, removing, replaced>>

\* deleteOptions: safeDelete without session, which waits for the transaction
\* that holds the option; the map returns before it has ended.
RemoveOption(c) ==
  /\ c \in removing
  /\ ~Held(<<"option", Base>>)
  /\ removing' = removing \ {c}
  /\ option' = [option EXCEPT ![Base] = "deleted"]
  /\ stale' = [e \in Call |-> IF Open(e) THEN stale[e] \cup {<<"option", Base>>} ELSE {}]
  /\ UNCHANGED <<editor, cost, product, tree, call, replaced>>

\* What Promise.all waits for.
\* Mutant: the map returns the promise of safeDelete.
AwaitedRemoval(c) == call[c].parts \cap InSession \subseteq call[c].done /\ c \notin removing
Awaited(c) == call[c].parts \cap InSession \subseteq call[c].done

\* The update of the product itself; $push and $pull of the one path of the
\* images are refused.  The other plain fields are left out.
UpdateFields(c) ==
  /\ At(c, "tasks")
  /\ Awaited(c)
  /\ ~Conflict(c, <<"product", Base>>)
  /\ ~({"newImages", "deleteImages"} \subseteq call[c].parts)
  /\ call' = [call EXCEPT ![c].at = "commit", ![c].done = @ \cup {"product"}]
  /\ UNCHANGED <<parts, tree, stale, removing, replaced>>

\* Mutant: a new cost is made current but not pushed.
FieldsUnlisted(c, p) ==
  [p EXCEPT !.options = IF "options" \in call[c].parts THEN @ \cup {c} ELSE @,
            !.current = IF "cost" \in call[c].parts THEN c ELSE @]
Fields(c, p) ==
  [p EXCEPT !.options = IF "options" \in call[c].parts THEN @ \cup {c} ELSE @,
            !.costs = IF "cost" \in call[c].parts THEN @ \cup {c} ELSE @,
            !.current = IF "cost" \in call[c].parts THEN c ELSE @]

CommitUpdate(c) ==
  /\ At(c, "commit")
  /\ call[c].what = "update"
  /\ product' = [product EXCEPT ![Base] = Fields(c, @)]
  /\ cost' = IF "cost" \in call[c].done THEN cost \cup {c} ELSE cost
  /\ option' = IF "options" \in call[c].done THEN [option EXCEPT ![c] = "live"] ELSE option
  /\ editor' = IF "edit" \in call[c].done THEN [editor EXCEPT ![Base] = c] ELSE editor
  /\ CommitAnswer(c)
  /\ UNCHANGED <<tree, removing, replaced>>

-----------------------------------------------------------------------------
(* Writes of one document without a session: each waits for the holder.    *)

Plain(c, d) ==
  /\ At(c, "idle")
  /\ ~Held(d)
  /\ Changed({d}, c)
  /\ End(c)
  /\ UNCHANGED <<parts, removing>>

\* safeDelete of a product, a group or a category.
SafeDelete(c) ==
  \E kind \in Kind \ {"collection"} : \E i \in docs[kind] :
    /\ Plain(c, <<kind, i>>)
    /\ gone' = [gone EXCEPT ![kind] = @ \cup {i}]
    /\ UNCHANGED <<docs, children, replaced>>

\* CollectionController.deleteCollection: the document itself goes, its id
\* stays in the group.
DeleteCollection(c) ==
  \E i \in docs["collection"] :
    /\ Plain(c, <<"collection", i>>)
    /\ docs' = [docs EXCEPT !["collection"] = @ \ {i}]
    /\ children' = [children EXCEPT !["collection"][i] = {}]
    /\ UNCHANGED <<gone, replaced>>

\* updateCollectionGroup sets the list the administrator has edited meanwhile.
EditGroup(c) ==
  /\ At(c, "idle")
  /\ \E list \in SUBSET children["group"][Base] :
       call' = [call EXCEPT ![c] = [Idle EXCEPT !.at = "replace", !.what = "list", !.list = list]]
  /\ UNCHANGED <<parts, tree, stale, removing, replaced>>

UpdateGroup(c) ==
  /\ At(c, "replace")
  /\ ~Held(<<"group", Base>>)
  /\ children' = [children EXCEPT !["group"][Base] = call[c].list]
  /\ replaced' = replaced \cup (children["group"][Base] \ call[c].list)
  /\ Changed({<<"group", Base>>}, c)
  /\ End(c)
  /\ UNCHANGED <<parts, docs, gone, removing>>

\* What the next operation of a transaction is refused for.
Refuse(c) ==
  /\ \/ /\ At(c, "push")
        /\ Conflict(c, <<ParentKind(call[c].what), call[c].parent>>)
     \/ /\ At(c, "tasks")
        /\ "edit" \in call[c].parts \ call[c].done
        /\ Conflict(c, <<"option", Base>>)
     \/ /\ At(c, "tasks")
        /\ Awaited(c)
        /\ Conflict(c, <<"product", Base>>) \/ {"newImages", "deleteImages"} \subseteq call[c].parts
  /\ Fail(c)

Begin(c) == Create(c) \/ UpdateProduct(c) \/ SafeDelete(c) \/ DeleteCollection(c) \/ EditGroup(c)
Step(c) ==
  \/ Push(c) \/ CommitCreate(c) \/ \E part \in InSession : Task(c, part)
  \/ UpdateFields(c) \/ CommitUpdate(c) \/ UpdateGroup(c)

Next == \E c \in Call : Begin(c) \/ Step(c) \/ Fail(c) \/ RemoveOption(c)

Spec == Init /\ [][Next]_vars

\* MongoDB answers what it accepts and refuses what conflicts; nothing is
\* assumed of other failures.
Fairness ==
  \A c \in Call :
    /\ WF_vars(Step(c) \/ Refuse(c))
    /\ WF_vars(RemoveOption(c))
FairSpec == Spec /\ Fairness

-----------------------------------------------------------------------------
(* What the reads find that miss the cache.                                *)

NotDeleted(kind) == docs[kind] \ gone[kind]

\* The options populated in a product's details.
DetailQuery(p) == {o \in product[p].options : option[o] = "live"}

ProductsQuery(q) == children["collection"][q] \cap NotDeleted("product")

\* getCollection with its filters: colours, sizes and materials of the products'
\* options, each abstracted to the option; isDeleted is not looked at.
FilterQuery(q) ==
  UNION {product[p].options : p \in children["collection"][q] \cap docs["product"]}

\* The collections and groups under every category.
CategoriesQuery ==
  {path \in Id \X Id \X Id :
     /\ path[1] \in NotDeleted("category")
     /\ path[2] \in children["category"][path[1]] \cap NotDeleted("group")
     /\ path[3] \in children["group"][path[2]] \cap NotDeleted("collection")}

-----------------------------------------------------------------------------
(* Safety.                                                                 *)

\* Every variable stays in its domain; open transactions hold disjoint sets of
\* documents, none of them changed since the snapshot.
TypeOK ==
  /\ option \in [Id -> {"none", "live", "deleted"}]
  /\ editor \in [Id -> Call \cup {None}]
  /\ cost \subseteq Id
  /\ product \in [Id -> [options : SUBSET Id, costs : SUBSET Id, current : Id \cup {None}]]
  /\ docs \in [Kind -> SUBSET Id] /\ gone \in [Kind -> SUBSET Id]
  /\ children \in [Parent -> [Id -> SUBSET Id]]
  /\ removing \subseteq Call /\ replaced \subseteq Id
  /\ \A c \in Call :
       /\ call[c].at \in {"idle", "push", "tasks", "replace", "commit", "done", "lost", "failed"}
       /\ Written(c) \cap stale[c] = {}
       /\ \A e \in Call \ {c} : Written(c) \cap Written(e) = {}

\* A product has exactly the options and costs that were created for it, its
\* price among them.  A transaction that was aborted has added none of them and
\* edited nothing, one that was committed has added all it was asked for, also
\* when the caller got an error (createProduct, updateProduct).  Removals are not
\* part of the whole.
UpdateIsWhole ==
  /\ \A p \in docs["product"] : product[p].current \in product[p].costs
  /\ \A i \in Id :
       /\ i \in cost <=> \E p \in docs["product"] : i \in product[p].costs
       /\ option[i] # "none" <=> \E p \in docs["product"] : i \in product[p].options
  /\ \A c \in Call : At(c, "failed") =>
       c \notin cost /\ option[c] = "none" /\ editor[Base] # c /\ \A k \in Kind : c \notin docs[k]
  /\ \A c \in Call : Committed(c) /\ call[c].what = "update" =>
       /\ "cost" \in call[c].parts => c \in product[Base].costs
       /\ "options" \in call[c].parts => c \in product[Base].options

\* What a committed creation has made is found while it and its parents exist,
\* by every query that starts after the commit (what the cache still answers is
\* another matter, StaleHasCause of RepositoryCache):
\* a product with its option in its collection and in the filters of it (so is
\* an option that updateProduct has added), a collection in its group
\* unless a PUT took it out, a group with its collections in its category.
CreatedIsFound ==
  \A c \in Call : Committed(c) =>
    LET p == call[c].parent
    IN CASE call[c].what = "product" ->
              p \in docs["collection"] /\ c \in NotDeleted("product") =>
                /\ c \in ProductsQuery(p)
                /\ DetailQuery(c) # {} /\ DetailQuery(c) \subseteq FilterQuery(p)
         [] call[c].what = "update" ->
              \A q \in docs["collection"] :
                Base \in ProductsQuery(q) /\ option[c] = "live" => c \in FilterQuery(q)
         [] call[c].what = "collection" ->
              \A a \in NotDeleted("category") :
                /\ p \in children["category"][a] \cap NotDeleted("group")
                /\ c \in docs["collection"] \ replaced
                => <<a, p, c>> \in CategoriesQuery
         [] call[c].what = "group" ->
              p \in NotDeleted("category") /\ c \in NotDeleted("group") =>
                \A q \in call[c].list \cap docs["collection"] : <<p, c, q>> \in CategoriesQuery
         [] OTHER -> TRUE

(* Liveness. *)

\* Every call ends without a transaction timing out, and every removal an
\* update has started takes place, also of an option the same update edits
\* (updateProduct).
CallsEnd ==
  \A c \in Call :
    /\ Open(c) ~> Committed(c) \/ At(c, "failed")
    /\ c \in removing ~> option[Base] = "deleted"

=============================================================================
