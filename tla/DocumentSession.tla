--------------------------- MODULE DocumentSession ---------------------------
(***************************************************************************)
(* A DocumentSession: the unit of work of SessionUnitOfWork together with  *)
(* the calls that go to the server (SaveChanges, the loads, queries,       *)
(* Refresh, the lazy operations), the server's documents, and another      *)
(* client that writes to them.  A session is used by one goroutine, so     *)
(* one call is one step.  A request may be lost on its way, and the answer *)
(* to one that was carried out may be lost too.                            *)
(***************************************************************************)
EXTENDS SessionUnitOfWork

CONSTANTS GenIds,      \* the ids the server gives to documents put under Prefix
          Stored,      \* the ids that have a document at the start
          Workloads,   \* sets of calls: a program makes calls of one of them
          MaxCalls     \* bound on the calls of a program and their kinds together

ASSUME DocumentSessionAssumption ==
  /\ GenIds \subseteq Ids /\ Prefix \notin GenIds \cup Stored
  /\ Stored \subseteq Ids /\ MaxCalls \in Nat

VARIABLES s,         \* the session
          db,        \* the server: its documents and the last change vector
          lazies,    \* the Lazy values handed out, each with its operation
          pending,   \* pendingLazyOperations, as indexes into lazies
          calls,     \* calls made so far
          last,      \* the call made last
          failed,    \* has a SaveChanges or a multi-get returned an error
          kept,      \* the number a patch of the session last wrote to an id
          work       \* the program's workload

vars == <<s, db, lazies, pending, calls, last, failed, kept, work>>

(******************************* the server ********************************)

cvOf(docs, id) == IF docs[id] = None THEN 0 ELSE docs[id].cv

contentOf(d) == [n |-> d.n, f |-> d.f]

\* The script of a patch: each step adds to the number, sets it, or adds to an
\* array and leaves the number alone.
patched(n, val) ==
  FoldLeft(LAMBDA m, v : CASE v = "inc" -> m + 1 [] v = "set" -> 0 [] OTHER -> m, n, val)

\* One command of a batch; a is the transaction so far.
ApplyCommand(a, c) ==
  LET id  == IF c.id = Prefix /\ c.t = "PUT"
               THEN CHOOSE g \in GenIds : a.docs[g] = None ELSE c.id
      old == a.docs[id]
      cv  == a.etag + 1
      put(d, r) == [a EXCEPT !.docs[id] = d, !.old[id] = IF old = None THEN @ ELSE old,
                             !.etag = cv, !.results = Append(@, r)]
      res == [t |-> c.t, id |-> id, cv |-> cv]
  IN  IF ~a.ok THEN a
      ELSE IF c.chk # NoCheck /\ c.chk # cvOf(a.docs, id) THEN [a EXCEPT !.ok = FALSE]
      ELSE CASE c.t = "PUT"    -> put([n |-> c.val[1].n, f |-> c.val[1].f, cv |-> cv], res)
             [] c.t = "DELETE" -> put(None, res)
             [] c.t = "PATCH"  ->
                  put(IF old = None THEN None
                      ELSE [old EXCEPT !.n = patched(@, c.val), !.cv = cv], res)
             [] OTHER -> IF old = None THEN [a EXCEPT !.ok = FALSE]
                         ELSE put([old EXCEPT !.cv = cv], res)

\* A batch is one transaction: a command that is refused undoes the others.
ApplyBatch(cmds) ==
  FoldLeft(ApplyCommand, [docs |-> db.docs, old |-> db.old, etag |-> db.etag, ok |-> TRUE,
                          results |-> <<>>], cmds)

(******************************** the calls ********************************)

Init ==
  /\ \E optimistic \in BOOLEAN, listener \in {"none", "changes", "defers"} :
       s = newSession(optimistic, listener)
  /\ db = [docs |-> [id \in Ids |-> IF id \in Stored THEN [n |-> 1, f |-> FALSE, cv |-> 1] ELSE None],
           old |-> [id \in Ids |-> None], etag |-> 1]
  /\ lazies = <<>> /\ pending = <<>> /\ calls = 0 /\ last = "Init" /\ failed = FALSE
  /\ kept = [id \in Ids |-> None]
  /\ work \in Workloads
  /\ s.listener # "none" => s.listener \in work

\* The bound: a program of fewer kinds of calls makes more of them.
callsLeft == calls + Cardinality(work) < MaxCalls

\* The program may make the call; a panic ends it.
May(op) == op \in work /\ callsLeft /\ s.res # "panic"

Called(op) == last' = op /\ calls' = calls + 1 /\ UNCHANGED work

forgetPatches == kept' = [id \in Ids |-> None]

\* A call that stays in the session.
Local(op, t) ==
  /\ May(op) /\ s' = t /\ Called(op) /\ forgetPatches
  /\ UNCHANGED <<db, lazies, pending, failed>>

Entities == DOMAIN s.ent

\* The program makes a new object, or gives back one it already has.
NewEntity == [s EXCEPT !.ent = Append(@, [n |-> 1, f |-> FALSE])]

Store(id) == Local("Store", storeInternal(NewEntity, Len(s.ent) + 1, 0, id, "auto"))

StoreAgain(e, id) == Local("StoreAgain", storeInternal(s, e, 0, id, "auto"))

StoreWithChangeVectorAndID(e, cv, id) ==
  Local("StoreCV", storeInternal(s, e, cv, id, IF cv # 0 THEN "forced" ELSE "disabled"))

\* The program assigns to a field of an object it was given.
Change(e) == Local("Change", [s EXCEPT !.ent[e].n = (@ + 1) % 4, !.res = "ok"])

Flip(e) == Local("Flip", [s EXCEPT !.ent[e].f = ~@, !.res = "ok"])

\* Exists asks the server only about an id the session knows nothing of.
Exists(id) ==
  Local("Exists", IF IsDeleted(s, id) THEN Returns(s, "no")
                  ELSE UsingDocumentsByID(s,
                    Returns(s, IF s.byID[id] # 0 \/ db.docs[id] # None THEN "yes" ELSE "no")))

\* tryMergePatches: the patch deferred before is taken out and the merged one
\* goes to the end of the list.
tryMergePatches(t, id, v) ==
  LET old == SelectInSeq(t.deferred, LAMBDA c : c.id = id /\ c.t = "PATCH")
      val == IF old = 0 THEN <<v>> ELSE Append(t.deferred[old].val, v)
      u   == IF old = 0 THEN t ELSE [t EXCEPT !.deferred = RemoveAt(@, old)]
  IN  Defer(u, [t |-> "PATCH", id |-> id, chk |-> NoCheck, val |-> val])

IncrementByID(t, id) == tryMergePatches(t, id, "inc")

PatchByID(t, id) == tryMergePatches(t, id, "set")

PatchArrayByID(t, id) == tryMergePatches(t, id, "add")

\* The forms that take an entity read its id from the metadata, which one that
\* was never saved does not have: only PatchArray checks, the others convert nil
\* to a string and panic.
PatchEntity(e, v, unnamed) ==
  LET t == GetMetadataFor(s, e)
      i == getDocumentInfoByEntity(s, e)
  IN  IF t.res # "ok" THEN t
      ELSE IF ~s.info[i].named THEN Returns(t, unnamed)
      ELSE tryMergePatches(t, s.info[i].id, v)

Increment(e) == PatchEntity(e, "inc", "panic")

Patch(e) == PatchEntity(e, "set", "panic")

PatchArray(e) == PatchEntity(e, "add", "error")

(******************************* SaveChanges *******************************)

Orders(S) == {q \in [1..Cardinality(S) -> S] : \A a, b \in DOMAIN q : a # b => q[a] # q[b]}

\* The session after the answer to its batch p, applied as a; BatchOperation
\* looks at the answers to its own commands only.
saved(p, a) ==
  FoldLeft(LAMBDA t, k : setResult(p, t, k, a.results[k]), p.s,
           [k \in 1..(Len(p.cmds) - Len(p.deferred)) |-> k])

\* The server of the model has an id left for each document put under Prefix.
idsLeft(p) ==
  Cardinality({k \in DOMAIN p.cmds : p.cmds[k].id = Prefix /\ p.cmds[k].t = "PUT"})
    <= Cardinality({g \in GenIds : db.docs[g] = None})

SaveChanges ==
  /\ May("SaveChanges")
  /\ \E order \in Orders(s.deleted), net \in {"ok", "refused", "answer lost"} :
     \E p \in {q \in {createRequest(s, order)} : idsLeft(q)} : \E a \in {ApplyBatch(p.cmds)} :
       LET sent == p.s.res = "ok" /\ p.cmds # <<>>
       IN  /\ sent \/ net = "ok"
           /\ db' = IF sent /\ net # "refused" /\ a.ok
                      THEN [docs |-> a.docs, old |-> a.old, etag |-> a.etag] ELSE db
           /\ s' = IF ~sent THEN p.s
                   ELSE IF net = "ok" /\ a.ok THEN saved(p, a) ELSE Returns(p.s, "error")
           /\ kept' = IF db' = db THEN kept
                      ELSE [id \in Ids |-> IF HasDeferred(p.cmds, id, {"PATCH"}) /\ a.docs[id] # None
                                             THEN a.docs[id].n ELSE kept[id]]
  /\ failed' = (failed \/ s'.res = "error")
  /\ Called("SaveChanges") /\ UNCHANGED <<lazies, pending>>

(******************************** loading **********************************)

addDocument(docs, t, id) ==
  IF docs[id] = None THEN t
  ELSE addByID([t EXCEPT !.info = Append(@, getNewDocumentInfo(id, docs[id].cv, contentOf(docs[id])))],
               Len(t.info) + 1)

addLoaded(t, id) == addDocument(db.docs, t, id)

includeLoaded(t, id) ==
  IF db.docs[id] = None THEN t
  ELSE registerIncludes(t, id, db.docs[id].cv, contentOf(db.docs[id]))

\* LoadOperation.getDocumentWithID: what the session knows of the id.
getDocumentWithID(t, id) ==
  IF IsDeleted(t, id) THEN [t EXCEPT !.got = 0, !.res = "ok"]
  ELSE LET i == IF t.byID[id] # 0 THEN t.byID[id] ELSE t.included[id]
       IN  IF i = 0 THEN [t EXCEPT !.got = 0, !.res = "ok"]
           ELSE TrackEntity(t, id, t.info[i].cv, t.info[i].doc, FALSE)

trackStep(t, id) == IF t.res = "panic" THEN t ELSE getDocumentWithID(t, id)

getDocuments(t, ids) == FoldLeft(trackStep, t, SetToSeq(ids))

\* LoadOperation.byIds: the ids the session has no document of.
idsToCheckOnServer(t, ids) == {id \in ids : ~IsLoadedOrDeleted(t, id)}

\* createRequest: no request when every id has an entity.
NeedsRequest(t, ids) == idsToCheckOnServer(t, ids) # {} /\ ~checkIfIdAlreadyIncluded(t, ids)

\* setResult: the included documents first, then those asked for.
loadSetResult(t, ids, incs) ==
  FoldLeft(addLoaded, FoldLeft(includeLoaded, t, SetToSeq(incs)), SetToSeq(ids))

\* Load and LoadMulti, with the paths of documents to include: incs are their ids.
loadInternalMulti(t, ids, incs, net) ==
  UsingDocumentsByID(t,
    LET c == incrementRequestCount(t)
    IN  IF ~NeedsRequest(t, ids) THEN getDocuments(t, ids)
        ELSE IF c.res # "ok" \/ net # "ok" THEN Returns(c, "error")
        ELSE getDocuments(loadSetResult(c, idsToCheckOnServer(t, ids), incs), ids))

Load(id, incs) ==
  /\ incs # {} => "Include" \in work
  /\ \E net \in {"ok", "refused"} : Local("Load", loadInternalMulti(s, {id}, incs, net))

LoadMulti(ids) == Local("LoadMulti", loadInternalMulti(s, ids, {}, "ok"))

\* LoadIntoStream: the answer goes to the writer and the session learns nothing.
LoadIntoStream(ids) ==
  Local("IntoStream", UsingDocumentsByID(s, IF NeedsRequest(s, ids) THEN incrementRequestCount(s)
                                            ELSE Returns(s, "ok")))

GetRevision(id) ==
  /\ db.old[id] # None
  /\ Local("Revision", GetRevisionWithDocument(s, id, db.old[id].cv, contentOf(db.old[id])))

\* LoadStartingWith: every document whose id matches is added, and handed out
\* unless the session knows it as deleted.
startingWithDocuments(t, found) ==
  UsingDocumentsByID(t, getDocuments(FoldLeft(addLoaded, t, SetToSeq(found)), found))

LoadStartingWith ==
  LET c == incrementRequestCount(s)
  IN  Local("LoadStartingWith",
            IF c.res # "ok" THEN c ELSE startingWithDocuments(c, {id \in Ids : db.docs[id] # None}))

\* queryOperation.complete: each document of the answer goes to TrackEntity.
completeQuery(t, docs, noTracking) ==
  FoldLeft(LAMBDA u, id : IF u.res = "panic" THEN u
                          ELSE TrackEntity(u, id, docs[id].cv, contentOf(docs[id]), noTracking),
           [t EXCEPT !.res = "ok"], SetToSeq({id \in Ids : docs[id] # None}))

Query(noTracking) ==
  LET c == incrementRequestCount(s)
  IN  Local("Query", IF c.res # "ok" THEN c ELSE completeQuery(c, db.docs, noTracking))

Refresh(e) ==
  LET i == getDocumentInfoByEntity(s, e)
      c == incrementRequestCount(s)
      d == db.docs[s.info[i].id]
  IN  Local("Refresh", IF i = 0 THEN Returns(s, "error")
                        ELSE IF c.res # "ok" \/ d = None THEN Returns(c, "error")
                        ELSE refreshInternal(c, i, d.cv, contentOf(d)))

(***************************** lazy operations *****************************)

newLazy(kind, ids, eval) ==
  [kind |-> kind, ids |-> ids, eval |-> eval, answer |-> None, created |-> FALSE, err |-> FALSE]

\* Lazy calls after Clear, which panic like the others, are left out.
addLazyOperation(op, l) ==
  /\ May(op) /\ ~s.cleared
  /\ lazies' = Append(lazies, l)
  /\ pending' = IF l.kind = "eager" THEN pending ELSE Append(pending, Len(lazies) + 1)
  /\ s' = Returns(s, "ok")
  /\ Called(op) /\ forgetPatches /\ UNCHANGED <<db, failed>>

\* A document the session has becomes a plain Load; a callback is dropped then.
LoadWithEval(id, eval) ==
  addLazyOperation("LazyLoad", newLazy(IF IsLoadedOrDeleted(s, id) THEN "eager" ELSE "load",
                                       {id}, eval))

lazyLoadInternal(ids) ==
  addLazyOperation("LazyMulti", newLazy(IF checkIfIdAlreadyIncluded(s, ids) THEN "eager" ELSE "load",
                                        ids, FALSE))

LazyStartingWith == addLazyOperation("LazyPrefix", newLazy("prefix", {}, FALSE))

LazyQuery == addLazyOperation("LazyQuery", newLazy("query", {}, FALSE))

addLazyCountOperation == addLazyOperation("LazyCount", newLazy("count", {}, FALSE))

\* Mutant: nothing is asked for when one of the documents is there.
livePendingUnknown == SelectSeq(pending, LAMBDA k : \/ lazies[k].kind # "load"
                                                    \/ idsToCheckOnServer(s, lazies[k].ids) = lazies[k].ids)

\* Mutant: an operation that names no document is taken for one that has them.
livePendingNamed == SelectSeq(pending, LAMBDA k : idsToCheckOnServer(s, lazies[k].ids) # {})

\* LazyLoadOperation.createRequest is nil when the session has the documents.
livePending == SelectSeq(pending, LAMBDA k : \/ lazies[k].kind # "load"
                                             \/ idsToCheckOnServer(s, lazies[k].ids) # {})

\* LazyLoadOperation.handleResponse: the documents become known.
handleResponse(t, k) ==
  IF lazies[k].kind # "load" THEN t
  ELSE loadSetResult(t, idsToCheckOnServer(s, lazies[k].ids), {})

\* executeAllPendingLazyOperations: one multi-get for all of them.  The answers
\* are taken in order up to the first that reports an error (m answers are
\* good), the callbacks run when all are good; then nothing is pending any
\* more, whatever happened.
executeAllPendingLazyOperations(m) ==
  LET c    == incrementRequestCount(s)
      good == SubSeq(livePending, 1, m)
      full == FoldLeft(handleResponse, c, good)
      eval == SelectSeq(good, LAMBDA k : lazies[k].eval)
  IN  IF livePending = <<>> THEN [s |-> Returns(s, "ok"), pending |-> <<>>, lazies |-> lazies]
      ELSE IF c.res # "ok" THEN [s |-> c, pending |-> livePending, lazies |-> lazies]
      ELSE [s |-> IF m = Len(livePending)
                    THEN FoldLeft(LAMBDA t, k : getDocuments(t, lazies[k].ids), full, eval)
                    ELSE Returns(full, "error"),
            pending |-> <<>>,
            lazies |-> [k \in DOMAIN lazies |->
                          IF k \in Range(good) THEN [lazies[k] EXCEPT !.answer = <<db.docs>>]
                          ELSE lazies[k]]]

\* LazyStartsWithOperation.getResult: a document the session deleted makes it
\* put a value of the wrong type into the result map, which panics.
startsWithResult(t, docs) ==
  FoldLeft(LAMBDA u, id : IF u.res = "panic" THEN u
                          ELSE IF IsDeleted(u, id) THEN Returns(u, "panic")
                          ELSE getDocumentWithID(addDocument(docs, u, id), id),
           t, SetToSeq({id \in Ids : docs[id] # None}))

\* The getResult of each kind; an operation that got no answer dereferences nil.
getResult(t, l) ==
  IF l.kind = "load" THEN getDocuments(t, l.ids)
  ELSE IF l.answer = None THEN Returns(t, "panic")
  ELSE CASE l.kind = "query"  -> completeQuery(t, l.answer[1], FALSE)
         [] l.kind = "prefix" -> startsWithResult(t, l.answer[1])
         [] OTHER             -> Returns(t, "ok")

\* Lazy.GetValue: the operation runs at the first call, an error is kept, and a
\* second call returns no value.
GetValue(k) ==
  /\ May("GetValue") /\ ~s.cleared
  /\ \E m \in 0..Len(livePending) :
       LET x == executeAllPendingLazyOperations(m)
           l == lazies[k]
           memo(ls, u) == [ls EXCEPT ![k].created = TRUE, ![k].err = (u.res = "error")]
       IN  IF l.created
             THEN /\ s' = [s EXCEPT !.got = 0, !.res = IF l.err THEN "error" ELSE "ok"]
                  /\ m = Len(livePending) /\ UNCHANGED <<lazies, pending, failed>>
           ELSE IF l.kind = "eager"
             THEN /\ s' = loadInternalMulti(s, l.ids, {}, IF m = Len(livePending) THEN "ok" ELSE "refused")
                  /\ lazies' = memo(lazies, s') /\ UNCHANGED <<pending, failed>>
           ELSE /\ s' = IF x.s.res # "ok" THEN x.s ELSE getResult(x.s, x.lazies[k])
                /\ lazies' = memo(x.lazies, s') /\ pending' = x.pending
                /\ failed' = (failed \/ x.s.res = "error")
  /\ Called("GetValue") /\ forgetPatches /\ UNCHANGED db

\* Eagerly().ExecuteAllPendingLazyOperations.
ExecuteAllPendingLazyOperations ==
  /\ May("Eagerly") /\ ~s.cleared
  /\ \E m \in 0..Len(livePending) :
       LET x == executeAllPendingLazyOperations(m)
       IN  /\ s' = x.s /\ pending' = x.pending /\ lazies' = x.lazies
           /\ failed' = (failed \/ x.s.res = "error")
  /\ Called("Eagerly") /\ forgetPatches /\ UNCHANGED db

(***************************** another client ******************************)

OtherClientWrites(id) ==
  /\ May("Other") /\ id # Prefix
  /\ db' = [db EXCEPT !.docs[id] = [n |-> 2, f |-> FALSE, cv |-> db.etag + 1],
                       !.old[id] = IF db.docs[id] = None THEN @ ELSE db.docs[id], !.etag = @ + 1]
  /\ Called("Other") /\ forgetPatches /\ UNCHANGED <<s, lazies, pending, failed>>

OtherClientDeletes(id) ==
  /\ May("Other") /\ db.docs[id] # None
  /\ db' = [db EXCEPT !.docs[id] = None]
  /\ Called("Other") /\ forgetPatches /\ UNCHANGED <<s, lazies, pending, failed>>

\* The ids a program uses: not those the server makes.
clientIds == Ids \ GenIds

Next ==
  \/ \E id \in clientIds :
       \/ Store(id) \/ Exists(id) \/ GetRevision(id)
       \/ \E eval \in BOOLEAN : LoadWithEval(id, eval)
       \/ OtherClientWrites(id) \/ OtherClientDeletes(id)
       \/ Local("DeleteByID", DeleteByID(s, id, 0))
       \/ \E incs \in {{}, clientIds \ {id}} : Load(id, incs)
  \/ LoadMulti(clientIds) \/ LoadIntoStream(clientIds) \/ lazyLoadInternal(clientIds)
  \/ \E id \in clientIds \ {Prefix} :
       \/ Local("Attach", StoreAttachmentByID(Attachments(s), id))
       \/ Local("Attach", DeleteAttachmentByID(Attachments(s), id))
       \/ Local("PatchByID", IncrementByID(s, id))
       \/ Local("PatchByID", PatchByID(s, id))
       \/ Local("PatchByID", PatchArrayByID(s, id))
  \/ \E e \in Entities :
       \/ Change(e) \/ Flip(e) \/ Refresh(e)
       \/ Local("Patch", Increment(e)) \/ Local("Patch", Patch(e)) \/ Local("Patch", PatchArray(e))
       \/ Local("Delete", Delete(s, e))
       \/ Local("Evict", Evict(s, e))
       \/ Local("Ignore", IgnoreChangesFor(s, e))
       \/ Local("GetMetadataFor", GetMetadataFor(s, e))
       \/ \E id \in clientIds : StoreAgain(e, id)
       \/ \E id \in clientIds, cv \in {0, 1} : StoreWithChangeVectorAndID(e, cv, id)
  \/ Local("WhatChanged", WhatChanged(s))
  \/ Local("WhatChanged", Returns(s, IF HasChanges(s) THEN "yes" ELSE "no"))
  \/ Local("Clear", Clear(s))
  \/ LoadStartingWith \/ LazyStartingWith \/ LazyQuery \/ addLazyCountOperation \/ SaveChanges
  \/ \E noTracking \in BOOLEAN : Query(noTracking)
  \/ \E k \in DOMAIN lazies : GetValue(k)
  \/ ExecuteAllPendingLazyOperations

Spec == Init /\ [][Next]_vars

(******************************* properties ********************************)

tracked == {s.byEntity[k] : k \in DOMAIN s.byEntity}

\* Type invariant of the session, of the server and of the lazy operations.
TypeOK ==
  /\ \A i \in DOMAIN s.info :
       /\ s.info[i].id \in Ids /\ s.info[i].cv \in 0..db.etag
       /\ s.info[i].doc \in Contents \cup {None} /\ s.info[i].ent \in 0..Len(s.ent)
       /\ s.info[i].mode \in Modes /\ s.info[i].md \in {"none", "source", "dirty"}
  /\ s.ent \in Seq(Contents) /\ s.deleted \subseteq Entities /\ s.missing \subseteq Ids
  /\ tracked \subseteq DOMAIN s.info
  /\ \A id \in Ids : {s.byID[id], s.included[id]} \subseteq 0..Len(s.info)
  /\ s.requests \in Nat /\ s.res \in {"ok", "error", "panic", "yes", "no"}
  /\ \A k \in DOMAIN pending : pending[k] \in DOMAIN lazies

\* The session is an identity map: as long as no SaveChanges has failed, a
\* tracked entity is the one the session has for its id, so no two entities
\* stand for one document (assertNoNonUniqueInstance, documentsByID.add).
\* An id the server has yet to complete may have several, and so has a
\* document of which a revision was asked for.  Types are kept.
IdentityMap ==
  TypeOK /\ (~failed => \A i \in tracked :
    LET id == s.info[i].id IN
      (id # Prefix /\ ~\E j \in tracked : s.info[j].rev /\ s.info[j].id = id) => s.byID[id] = i)

\* What the session compares an entity with is the document the server has
\* under the change vector the session holds: no mix of an old document and a
\* new change vector or the reverse, by any of the ways a document comes in
\* (a load, an include, a query, Refresh, the answer to a PUT).
SnapshotIsServerVersion ==
  ~failed => \A i \in tracked :
    LET info == s.info[i] IN
      (info.mode # "forced" /\ ~info.new /\ info.doc # None
         /\ cvOf(db.docs, info.id) = info.cv /\ info.cv # 0)
        => info.doc = contentOf(db.docs[info.id])

\* After a SaveChanges that succeeded nothing is left to save: every tracked
\* entity whose changes are not ignored is unchanged, and the server has its
\* number unless somebody else has written since.
SaveIsComplete ==
  (last = "SaveChanges" /\ s.res = "ok" /\ ~failed /\ s.listener = "none") =>
    \A i \in tracked : ~s.info[i].ignore =>
      /\ ~EntityChanged(s, i)
      /\ cvOf(db.docs, s.info[i].id) = s.info[i].cv /\ s.info[i].mode # "forced" =>
           db.docs[s.info[i].id].n = s.ent[s.info[i].ent].n

\* With UseOptimisticConcurrency a save never overwrites or deletes a version
\* of a document that the session has not seen, except by commands the program
\* deferred itself, after it switched the check off for the entity, or by the
\* deletion of an entity that was stored and never saved: that one has no
\* change vector, so it deletes whatever the server has under its id.
NoLostUpdate ==
  [][(last' = "SaveChanges" /\ s.optimistic) =>
       \A id \in Ids : (db.docs[id] # None /\ db'.docs[id] # db.docs[id]) =>
         \/ HasDeferred(s.deferred, id, AllTypes)
         \/ \E i \in tracked : /\ s.info[i].id = id
                               /\ \/ s.info[i].mode = "disabled" \/ s.info[i].cv = db.docs[id].cv
                                  \/ s.info[i].cv = 0 /\ s.info[i].ent \in s.deleted]_vars

\* The calls that panic are these and no others: any after Clear, a save or a
\* lazy value after a request that failed, a Defer after a BeforeStore listener
\* deferred a command, DeleteByID and WhatChanged while the session holds a
\* document whose entity was never asked for, Patch and Increment of an unsaved
\* entity, the save of a deleted entity that was a revision or shared an id
\* yet to be completed, and the lazy value of a prefix that a deleted document
\* has.
PanicsAreKnown ==
  s.res = "panic" =>
    \/ s.cleared \/ failed \/ s.mapNil
    \/ last \in {"DeleteByID", "WhatChanged"} /\ \E id \in Ids : s.byID[id] # 0 /\ s.info[s.byID[id]].ent = 0
    \/ last = "Patch" /\ \E i \in tracked : ~s.info[i].named
    \/ /\ last = "SaveChanges"
       /\ \/ \E i \in DOMAIN s.info : s.info[i].rev
          \/ Cardinality({i \in DOMAIN s.info : s.info[i].id = Prefix}) > 1
    \/ last = "GetValue" /\ s.missing # {} /\ \E k \in DOMAIN lazies : lazies[k].kind = "prefix"

\* A lazy load that returns no error has an entity for each of its ids, unless
\* the server answered that there is no such document or the session deleted
\* it, whichever operation it shared its request with, as long as no request
\* has failed (LazyLoadOperation.getResult).
LazyLoadIsRight ==
  [][(last' = "GetValue" /\ s'.res = "ok" /\ ~failed') =>
       \A k \in DOMAIN lazies :
         (lazies'[k].created /\ ~lazies[k].created /\ lazies[k].kind = "load") =>
           \A id \in lazies[k].ids :
             \/ IsDeleted(s, id)
             \/ lazies'[k].answer # None /\ lazies'[k].answer[1][id] = None
             \/ s'.byID[id] # 0 /\ s'.info[s'.byID[id]].ent # 0]_vars

\* "HasChanged returns true if an entity has changed."
\* (in_memory_document_session_operations.go).
HasChangedTellsTheTruth ==
  \A i \in tracked : (~s.info[i].new /\ s.info[i].doc # None /\ s.info[i].doc # s.ent[s.info[i].ent])
                       => HasChanged(s, s.info[i].ent)

\* "Patch updates entity by changing part identified by path to a given value"
\* (document_session.go): what a saved patch wrote stays when the session only
\* saves again.
PatchIsKept == \A id \in Ids : kept[id] # None => (db.docs[id] # None /\ db.docs[id].n = kept[id])

\* "Delete marks the specified entity for deletion. The entity will be deleted
\* when SaveChanges is called.": a save does not send the deleted entity.
DeletedIsNotPut ==
  [][(last' = "SaveChanges" /\ s'.res = "ok") => \A e \in s.deleted : getDocumentInfoByEntity(s', e) = 0]_vars
=============================================================================
