------------------------- MODULE SessionUnitOfWork -------------------------
(***************************************************************************)
(* The in-memory half of a session (InMemoryDocumentSessionOperations):    *)
(* what the session believes about each document, which entity stands for  *)
(* it, and the commands it would send.  A session is one record s and each *)
(* method of the code an operator that returns the session after the call, *)
(* with the call's outcome in s.res and the entity it returned in s.got.   *)
(*                                                                         *)
(* A documentInfo and an entity are heap objects: an info is an index into *)
(* s.info, an entity an index into s.ent, and 0 is nil.  The JSON of a     *)
(* document is what change tracking tells apart: a number n and a boolean  *)
(* f.  Change vectors are numbers, 0 for none.                             *)
(***************************************************************************)
EXTENDS Integers, Sequences, FiniteSets, SequencesExt

CONSTANTS Ids,          \* document ids
          Prefix,       \* the id in Ids that ends in '/': the server completes it
          None,         \* no document
          MaxRequests   \* MaxNumberOfRequestsPerSession

ASSUME SessionAssumption == Prefix \in Ids /\ MaxRequests \in Nat

NoCheck == -1              \* a command with no change vector: the server checks nothing

Contents == [n : Nat, f : BOOLEAN]

Modes == {"auto", "forced", "disabled"}

\* getNewDocumentInfo: what a document in an answer of the server becomes.
getNewDocumentInfo(id, cv, doc) ==
  [id |-> id, cv |-> cv, doc |-> doc, ent |-> 0, new |-> FALSE, mode |-> "auto",
   ignore |-> FALSE, md |-> "none", named |-> TRUE, rev |-> FALSE]

newSession(optimistic, listener) ==
  [optimistic |-> optimistic, info |-> <<>>, ent |-> <<>>, byEntity |-> <<>>, byID |-> [id \in Ids |-> 0],
   included |-> [id \in Ids |-> 0], deleted |-> {}, missing |-> {}, deferred |-> <<>>,
   mapNil |-> FALSE, cleared |-> FALSE, requests |-> 0, listener |-> listener,
   att |-> [on |-> FALSE, stale |-> FALSE, keys |-> {}], res |-> "ok", got |-> 0]

Returns(s, r) == [s EXCEPT !.res = r]

\* Clear leaves the documentsByID pointer nil: each use of it dereferences nil.
UsingDocumentsByID(s, t) == IF s.cleared THEN Returns(s, "panic") ELSE t

(******************************* the two maps ******************************)

getDocumentInfoByEntity(s, e) ==
  LET k == SelectInSeq(s.byEntity, LAMBDA i : s.info[i].ent = e)
  IN  IF k = 0 THEN 0 ELSE s.byEntity[k]

setDocumentInfo(s, i) ==
  LET k == SelectInSeq(s.byEntity, LAMBDA j : s.info[j].ent = s.info[i].ent)
  IN  IF k = 0 THEN [s EXCEPT !.byEntity = Append(@, i)] ELSE [s EXCEPT !.byEntity[k] = i]

deleteDocumentInfoByEntity(s, e) ==
  [s EXCEPT !.byEntity = SelectSeq(@, LAMBDA i : s.info[i].ent # e)]

\* documentsByID.add never replaces what the map holds.
addByID(s, i) ==
  LET id == s.info[i].id IN IF s.byID[id] = 0 THEN [s EXCEPT !.byID[id] = i] ELSE s

IsDeleted(s, id) == id \in s.missing

IsLoadedOrDeleted(s, id) ==
  \/ s.byID[id] # 0 /\ s.info[s.byID[id]].doc # None
  \/ IsDeleted(s, id)
  \/ s.included[id] # 0

checkIfIdAlreadyIncluded(s, ids) ==
  \A id \in ids \ s.missing :
    LET i == IF s.byID[id] # 0 THEN s.byID[id] ELSE s.included[id]
    IN  i # 0 /\ s.info[i].ent # 0

\* The count is taken before it is compared: a refused request counts too.
incrementRequestCount(s) ==
  [s EXCEPT !.requests = @ + 1,
            !.res = IF s.requests + 1 > MaxRequests THEN "error" ELSE "ok"]

(***************************** change tracking *****************************)

\* jsonOperationCompareJson: a number or a string that differs is a change;
\* the comparison of two booleans is made and its result dropped.
CompareJson(old, new) == old.n # new.n

EntityChanged(s, i) ==
  \/ s.info[i].new \/ s.info[i].doc = None
  \/ CompareJson(s.info[i].doc, s.ent[s.info[i].ent])

\* The pass that asks a metadata instance for its keys is what marks it dirty.
UpdateMetadataModifications(s, i) ==
  [s EXCEPT !.info[i].md = IF @ = "none" THEN "none" ELSE "dirty"]

GetMetadataFor(s, e) ==
  LET i == getDocumentInfoByEntity(s, e)
  IN  IF i = 0 THEN Returns(s, "error")
      ELSE [s EXCEPT !.info[i].md = IF @ = "none" THEN "source" ELSE @, !.res = "ok"]

IgnoreChangesFor(s, e) ==
  LET i == getDocumentInfoByEntity(s, e)
  IN  IF i = 0 THEN Returns(s, "error") ELSE [s EXCEPT !.info[i].ignore = TRUE, !.res = "ok"]

HasChanges(s) == s.deleted # {} \/ \E k \in DOMAIN s.byEntity : EntityChanged(s, s.byEntity[k])

HasChanged(s, e) ==
  LET i == getDocumentInfoByEntity(s, e) IN i # 0 /\ EntityChanged(s, i)

\* WhatChanged goes over documentsByID, where a document loaded but not yet
\* handed out has no entity: its JSON is a nil map, and writing to it panics.
WhatChanged(s) ==
  UsingDocumentsByID(s,
    LET held == {i \in DOMAIN s.info : s.byID[s.info[i].id] = i}
    IN  IF \E i \in held : s.info[i].ent = 0 THEN Returns(s, "panic")
        ELSE [s EXCEPT !.info = [i \in DOMAIN s.info |->
                 IF i \in held /\ s.info[i].md # "none" THEN [s.info[i] EXCEPT !.md = "dirty"]
                 ELSE s.info[i]], !.res = "ok"])

(******************************** tracking *********************************)

\* TrackEntity: the entity of a known document is handed out as it is, one
\* known without an entity gets an entity made of the document PASSED IN and
\* keeps its own document and change vector.
TrackEntity(s, id, cv, doc, noTracking) ==
  UsingDocumentsByID(s,
    LET known == IF s.byID[id] # 0 THEN s.byID[id] ELSE s.included[id]
        i     == IF known # 0 THEN known ELSE Len(s.info) + 1
        e     == Len(s.ent) + 1
        made  == [s EXCEPT !.ent = Append(@, doc), !.got = e, !.res = "ok"]
        t     == IF known # 0 /\ s.info[known].ent # 0
                   THEN [s EXCEPT !.got = s.info[known].ent, !.res = "ok"]
                 ELSE IF known # 0 THEN [made EXCEPT !.info[known].ent = e]
                 ELSE IF noTracking THEN made
                 ELSE [made EXCEPT !.info =
                         Append(@, [getNewDocumentInfo(id, cv, doc) EXCEPT !.ent = e])]
    IN  IF noTracking THEN t
        ELSE setDocumentInfo(addByID([t EXCEPT !.included[id] = 0], i), i))

(******************************** commands *********************************)

\* The map of deferred commands holds a key exactly when the list holds a
\* command for it: a merged patch is taken out of the list and deferred again.
HasDeferred(cmds, id, types) == \E c \in Range(cmds) : c.id = id /\ c.t \in types

AllTypes == {"PUT", "DELETE", "PATCH", "ATTACH", "DETACH"}

Defer(s, c) ==
  IF s.mapNil THEN Returns([s EXCEPT !.deferred = Append(@, c)], "panic")
  ELSE [s EXCEPT !.deferred = Append(@, c), !.res = "ok"]

Delete(s, e) ==
  LET i == getDocumentInfoByEntity(s, e)
  IN  IF i = 0 THEN Returns(s, "error")
      ELSE [s EXCEPT !.deleted = @ \cup {e}, !.included[s.info[i].id] = 0,
                     !.missing = @ \cup {s.info[i].id}, !.res = "ok"]

DeleteByID(s, id, expected) ==
  UsingDocumentsByID(s,
    LET i   == s.byID[id]
        t   == IF i = 0 THEN s
               ELSE [deleteDocumentInfoByEntity(s, s.info[i].ent) EXCEPT !.byID[id] = 0]
        own == IF i # 0 /\ s.optimistic THEN s.info[i].cv ELSE 0
        chk == IF expected # 0 THEN expected ELSE IF own # 0 THEN own ELSE NoCheck
    IN  IF i # 0 /\ s.info[i].ent = 0 THEN Returns(s, "panic")
        ELSE IF i # 0 /\ EntityChanged(s, i) THEN Returns(s, "error")
        ELSE Defer([t EXCEPT !.missing = @ \cup {id}],
                   [t |-> "DELETE", id |-> id, chk |-> chk, val |-> <<>>]))

\* Mutant: only ids still to be completed are looked at.
assertNothing(s, e, id) == id = Prefix \/ TRUE

assertNoNonUniqueInstance(s, e, id) ==
  \/ id = Prefix \/ s.byID[id] = 0
  \/ s.info[s.byID[id]].ent = e

storeEntityInUnitOfWork(s, e, cv, id, mode) ==
  LET i    == Len(s.info) + 1
      info == [getNewDocumentInfo(id, cv, None) EXCEPT !.ent = e, !.new = TRUE, !.mode = mode,
                                                     !.named = FALSE]
  IN  addByID(setDocumentInfo([s EXCEPT !.info = Append(@, info), !.deleted = @ \ {e},
                                        !.missing = @ \ {id}, !.res = "ok"], i), i)

\* An entity that is already tracked only gets the change vector and the mode,
\* even when it is marked for deletion.
storeInternal(s, e, cv, id, mode) ==
  LET i == getDocumentInfoByEntity(s, e)
  IN  IF i # 0 THEN [s EXCEPT !.info[i].cv = IF cv # 0 THEN cv ELSE @,
                              !.info[i].mode = mode, !.res = "ok"]
      ELSE IF HasDeferred(s.deferred, id, AllTypes) \/ e \in s.deleted THEN Returns(s, "error")
      ELSE UsingDocumentsByID(s,
             IF ~assertNoNonUniqueInstance(s, e, id) THEN Returns(s, "error")
             ELSE storeEntityInUnitOfWork(s, e, cv, id, mode))

Evict(s, e) ==
  LET i == getDocumentInfoByEntity(s, e)
      t == IF i = 0 THEN s ELSE [deleteDocumentInfoByEntity(s, e) EXCEPT !.byID[s.info[i].id] = 0]
  IN  [t EXCEPT !.deleted = @ \ {e}, !.res = "ok"]

Clear(s) ==
  [s EXCEPT !.byEntity = <<>>, !.deleted = {}, !.byID = [id \in Ids |-> 0], !.missing = {},
            !.included = [id \in Ids |-> 0], !.cleared = TRUE, !.res = "ok"]

\* registerIncludes: an included document replaces one included before.
registerIncludes(s, id, cv, doc) ==
  IF s.cleared THEN Returns(s, "panic")
  ELSE [s EXCEPT !.info = Append(@, getNewDocumentInfo(id, cv, doc)),
                 !.included[id] = Len(s.info) + 1]

\* A revision that was asked for is tracked under the id of its document, but
\* it is not in documentsByID (rev marks it for the properties).
GetRevisionWithDocument(s, id, cv, doc) ==
  LET i == Len(s.info) + 1
      e == Len(s.ent) + 1
  IN  setDocumentInfo([s EXCEPT !.ent = Append(@, doc), !.got = e, !.res = "ok", !.info =
        Append(@, [getNewDocumentInfo(id, cv, doc) EXCEPT !.ent = e, !.rev = TRUE])], i)

\* Mutant: the entity and the change vector are new, the document is not.
refreshEntityOnly(s, i, cv, doc) ==
  [s EXCEPT !.info[i].cv = cv, !.ent[s.info[i].ent] = doc, !.res = "ok"]

refreshInternal(s, i, cv, doc) ==
  [s EXCEPT !.info[i].cv = cv, !.info[i].doc = doc, !.info[i].named = TRUE,
            !.ent[s.info[i].ent] = doc, !.res = "ok"]

(******************************* attachments *******************************)

\* Attachments(): made at the first call, with the map of deferred commands of
\* that moment; prepareForSaveChanges gives the session another map.
Attachments(s) == [s EXCEPT !.att.on = TRUE]

attachmentKeys(s) ==
  IF s.att.stale THEN s.att.keys ELSE {<<c.t, c.id>> : c \in Range(s.deferred)}

entityIsDeleted(s, id) == s.byID[id] # 0 /\ s.info[s.byID[id]].ent \in s.deleted

StoreAttachmentByID(s, id) ==
  UsingDocumentsByID(s,
    IF \/ \E t \in {"DELETE", "ATTACH", "DETACH"} : <<t, id>> \in attachmentKeys(s)
       \/ entityIsDeleted(s, id)
      THEN Returns(s, "error")
      ELSE Defer(s, [t |-> "ATTACH", id |-> id, chk |-> NoCheck, val |-> <<>>]))

DeleteAttachmentByID(s, id) ==
  IF \E t \in {"DELETE", "DETACH"} : <<t, id>> \in attachmentKeys(s) THEN Returns(s, "ok")
  ELSE UsingDocumentsByID(s,
         IF entityIsDeleted(s, id) THEN Returns(s, "ok")
         ELSE IF <<"ATTACH", id>> \in attachmentKeys(s) THEN Returns(s, "error")
         ELSE Defer(s, [t |-> "DETACH", id |-> id, chk |-> NoCheck, val |-> <<>>]))

(******************************* save changes ******************************)

\* saveChangesData: the session, the commands its entities need and the
\* entities they stand for, and the commands deferred before.
newSaveChangesData(s) ==
  [s |-> [s EXCEPT !.deferred = <<>>, !.mapNil = FALSE, !.res = "ok",
                   !.att.keys = attachmentKeys(s), !.att.stale = s.att.on],
   cmds |-> <<>>, entities |-> <<>>, deferred |-> s.deferred]

\* One round of prepareForEntitiesDeletion.  The info is looked up a second
\* time, by id; the set is replaced by an empty one while the loop goes on.
DeleteEntity(p, e) ==
  LET s  == p.s
      i  == getDocumentInfoByEntity(s, e)
      id == s.info[i].id
      j  == s.byID[id]
      cv == IF s.optimistic /\ s.info[j].cv # 0 THEN s.info[j].cv ELSE NoCheck
  IN  IF s.res # "ok" \/ i = 0 THEN p
      ELSE IF HasDeferred(p.deferred, id, AllTypes) THEN [p EXCEPT !.s.res = "error"]
      ELSE IF j = 0 THEN [p EXCEPT !.s.res = "panic"]
      ELSE [p EXCEPT !.s = [deleteDocumentInfoByEntity(s, s.info[j].ent) EXCEPT
                              !.byID[id] = 0, !.deleted = {}],
                     !.entities = Append(@, s.info[j].ent),
                     !.cmds = Append(@, [t |-> "DELETE", id |-> id, chk |-> cv, val |-> <<>>])]

\* Mutant: the check is left to the entities that force it.
putForcedOnly(s, info) == IF info.mode = "forced" /\ info.cv # 0 THEN info.cv ELSE NoCheck

\* The change vector a PUT carries.
putChangeVector(s, info) ==
  IF s.optimistic THEN (IF info.mode # "disabled" THEN info.cv ELSE NoCheck)
  ELSE IF info.mode = "forced" /\ info.cv # 0 THEN info.cv ELSE NoCheck

\* The BeforeStore listener of the model: none, one that changes the entity,
\* or one that defers a command.
beforeStore(s, e) ==
  CASE s.listener = "changes" -> [s EXCEPT !.ent[e].n = @ + 1]
    [] s.listener = "defers"  -> Defer(s, [t |-> "DELETE", id |-> Prefix, chk |-> NoCheck, val |-> <<>>])
    [] OTHER                  -> s

\* Mutant: the entity is still compared with what was loaded.
PutKeepingDocument(p, i) ==
  IF p.s.res # "ok" \/ p.s.info[i].ignore \/ ~EntityChanged(p.s, i) THEN p
  ELSE [p EXCEPT !.s.info[i].new = FALSE, !.s.byID[p.s.info[i].id] = 0,
                 !.entities = Append(@, p.s.info[i].ent),
                 !.cmds = Append(@, [t |-> "PUT", id |-> p.s.info[i].id,
                                     chk |-> putChangeVector(p.s, p.s.info[i]),
                                     val |-> <<p.s.ent[p.s.info[i].ent]>>])]

\* One round of prepareForEntitiesPuts.  The document that is sent becomes the
\* one the entity is compared with, before anything is sent.
PutEntity(p, i) ==
  LET s       == p.s
      info    == s.info[i]
      before  == s.ent[info.ent]
      changed == EntityChanged(s, i)
      t       == UpdateMetadataModifications(s, i)
      u       == beforeStore(t, info.ent)
      doc     == IF changed THEN u.ent[info.ent] ELSE before
  IN  IF s.res # "ok" \/ info.ignore THEN p
      ELSE IF ~changed /\ info.md # "dirty" THEN [p EXCEPT !.s = t]
      ELSE IF HasDeferred(p.deferred, info.id, {"PUT", "DELETE", "PATCH"})
             THEN [p EXCEPT !.s = Returns(t, "error")]
      ELSE [p EXCEPT !.s = [u EXCEPT !.info[i].new = FALSE, !.info[i].doc = doc,
                                     !.byID[info.id] = 0],
                     !.entities = Append(@, info.ent),
                     !.cmds = Append(@, [t |-> "PUT", id |-> info.id,
                                         chk |-> putChangeVector(s, info), val |-> <<doc>>])]

\* prepareForSaveChanges: the deferred commands leave the session first, then
\* come the deletions, in the order the map gives them, then the puts; what
\* a listener deferred meanwhile is sent too.
deferredMeanwhile(p) ==
  IF p.s.res # "ok" \/ p.s.deferred = <<>> THEN p
  ELSE [p EXCEPT !.deferred = @ \o p.s.deferred, !.s.deferred = <<>>, !.s.mapNil = TRUE]

prepareForEntitiesDeletion(p, order) == FoldLeft(DeleteEntity, p, order)

prepareForEntitiesPuts(p) == FoldLeft(PutEntity, p, p.s.byEntity)

prepareForSaveChanges(s, order) ==
  deferredMeanwhile(prepareForEntitiesPuts(prepareForEntitiesDeletion(newSaveChangesData(s), order)))

\* BatchOperation.createRequest: an empty batch is not sent and not counted.
batchOf(p) ==
  IF p.s.res # "ok" \/ p.cmds \o p.deferred = <<>> THEN p
  ELSE [p EXCEPT !.cmds = @ \o p.deferred, !.s = incrementRequestCount(@)]

createRequest(s, order) == batchOf(prepareForSaveChanges(s, order))

\* BatchOperation.setResult for the k-th command, answered with r.
setResult(p, s, k, r) ==
  LET i == getDocumentInfoByEntity(s, p.entities[k])
  IN  IF r.t # "PUT" \/ i = 0 THEN s
      ELSE addByID([s EXCEPT !.info[i].id = r.id, !.info[i].cv = r.cv,
                             !.info[i].md = "none", !.info[i].named = TRUE], i)
=============================================================================
