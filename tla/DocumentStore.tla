--------------------------- MODULE DocumentStore ----------------------------
(***************************************************************************)
(* The document store: its registry of request executors, aggressive       *)
(* caching with the listener that evicts cached answers, and commands      *)
(* executed over the executors' caches by several callers.                 *)
(*                                                                         *)
(* A workload is the set of things its callers do; Init picks one.         *)
(***************************************************************************)
EXTENDS HttpCache, Sequences, FiniteSets

CONSTANTS
    Callers,      \* goroutines that use the store
    Databases,
    Workloads,    \* sets of the operations below
    MaxVersion,   \* bound: writes of a database
    MaxCalls,     \* bound: operations of a caller
    MaxCommands   \* bound: operations of a caller in the "commands" workload

ASSUME StoreAssumption ==
    /\ IsFiniteSet(Callers) /\ Callers # {} /\ Databases # {} /\ Nodes # {}
    /\ MaxVersion \in Nat \ {0} /\ MaxCalls \in Nat

VARIABLES
    workload,
    version,      \* server: the version of each database
    store,        \* aggressiveCachingUsed, requestsExecutors, disposed, and how
                  \* many executors were created
    executor,     \* of each executor: its cache, aggressiveCaching
    listening,    \* of each executor: eviction listeners that act on its cache
    pending,      \* of each executor: changes the listeners have yet to hear
    caller,       \* what each caller is doing
    tracked       \* history: URLs whose item was current when it was stored, and
                  \* has had a listener since

vars == <<workload, version, store, executor, listening, pending, caller,
          tracked>>

Executors == Databases \X (1..Cardinality(Callers))
NoExecutor == 0

NoAnswer == [status |-> "none", tagged |-> FALSE, payload |-> NoPayload]
NoOutcome == [kind |-> "none", payload |-> NoPayload]

AnyDatabase == CHOOSE d \in Databases : TRUE

\* A caller.  db and ex are the database and the executor of its session,
\* target and re those of the store's method it is in, then what the method
\* does with the executor; saved are the restorers it has not run; the rest is
\* the command it executes.
NewCaller ==
    [pc |-> "idle", calls |-> 0, db |-> AnyDatabase, ex |-> NoExecutor,
     target |-> AnyDatabase, re |-> NoExecutor, then |-> "", saved |-> <<>>,
     command |-> GetDocuments, arg |-> 0, node |-> CHOOSE n \in Nodes : TRUE,
     tried |-> {}, item |-> NoItem, answer |-> NoAnswer, start |-> 0,
     aggressive |-> FALSE, out |-> NoOutcome, from |-> "none"]

Idle(c) == [c EXCEPT !.pc = "idle", !.then = "", !.tried = {}, !.re = NoExecutor,
                     !.target = AnyDatabase, !.item = NoItem, !.answer = NoAnswer]

Does(op) == op \in workload

\* The operations of a caller begin at rest, on its database or any.  One
\* caller executes the commands of the catalogue.
Calls(p) ==
    /\ caller[p].pc = "idle" /\ caller[p].out.kind # "panic"
    /\ Does("commands") => p = CHOOSE q \in Callers : TRUE
    /\ caller[p].calls < IF Does("commands") THEN MaxCommands ELSE MaxCalls

Begin(p) == [caller[p] EXCEPT !.calls = @ + 1, !.out = NoOutcome,
                              !.from = "none"]

Targets(p) == IF Does("databases") THEN Databases ELSE {caller[p].db}

-----------------------------------------------------------------------------

\* In the "commands" workload the session exists, cached aggressively or not.
Init ==
    /\ workload \in Workloads
    /\ version = [d \in Databases |-> 1]
    /\ store = [used |-> FALSE, disposed |-> FALSE,
                registry |-> [d \in Databases |-> NoExecutor],
                created |-> [d \in Databases |-> 0]]
    /\ \E a \in (IF Does("commands") THEN BOOLEAN ELSE {FALSE}) :
          executor = [e \in Executors |->
                         [cache |-> newHttpCache, aggressive |-> a]]
    /\ listening = [e \in Executors |-> 0]
    /\ pending = [e \in Executors |-> 0]
    /\ caller = [p \in Callers |->
                    IF Does("commands") THEN [NewCaller EXCEPT !.ex = 1]
                    ELSE NewCaller]
    /\ tracked = [e \in Executors |-> {}]

-----------------------------------------------------------------------------
(* GetRequestExecutor looks the executor up, releases the lock, creates one *)
(* if there was none and stores it over whatever is there by then.          *)

Holding(c, e) ==
    IF c.then = "session"
    THEN Idle([c EXCEPT !.db = c.target, !.ex = e])
    ELSE [c EXCEPT !.pc = c.then, !.re = e]

GetRequestExecutor(p) ==
    /\ caller[p].pc = "lookup"
    /\ LET e == store.registry[caller[p].target]
       IN  caller' = [caller EXCEPT ![p] =
                         IF e # NoExecutor THEN Holding(@, e)
                         ELSE [@ EXCEPT !.pc = "create"]]
    /\ UNCHANGED <<workload, version, store, executor, listening, pending,
                   tracked>>

RequestExecutorCreate(p) ==
    /\ caller[p].pc = "create"
    /\ LET d == caller[p].target
           e == store.created[d] + 1
       IN  /\ store' = [store EXCEPT !.created[d] = e, !.registry[d] = e]
           /\ caller' = [caller EXCEPT ![p] = Holding(@, e)]
    /\ UNCHANGED <<workload, version, executor, listening, pending, tracked>>

\* OpenSession refuses to work on a closed store.
OpenSession(p) ==
    /\ Calls(p) /\ Does("open") /\ caller[p].ex = NoExecutor
    /\ \E d \in Targets(p) :
          caller' = [caller EXCEPT ![p] =
              IF store.disposed THEN Begin(p)
              ELSE [Begin(p) EXCEPT !.pc = "lookup", !.then = "session",
                                    !.target = d]]
    /\ UNCHANGED <<workload, version, store, executor, listening, pending,
                   tracked>>

-----------------------------------------------------------------------------
(* Aggressive caching.                                                      *)

\* Only the first database that is cached is given a listener.
AggressivelyCacheForDatabase(p) ==
    /\ Calls(p) /\ Does("cache")
    /\ \E d \in Targets(p) :
          caller' = [caller EXCEPT ![p] =
              [Begin(p) EXCEPT !.pc = IF store.used THEN "lookup" ELSE "listen",
                               !.then = "options", !.target = d]]
    /\ UNCHANGED <<workload, version, store, executor, listening, pending,
                   tracked>>

\* listenToChangesAndUpdateTheCache marks the store before it listens, and
\* listens unless the database has its listener.
listenToChangesAndUpdateTheCache(p) ==
    /\ caller[p].pc = "listen"
    /\ store' = [store EXCEPT !.used = TRUE]
    /\ LET heard == \E e \in Executors :
                       e[1] = caller[p].target /\ listening[e] > 0
       IN  caller' = [caller EXCEPT
                         ![p].pc = "lookup",
                         ![p].then = IF heard THEN "options" ELSE "subscribe"]
    /\ UNCHANGED <<workload, version, executor, listening, pending, tracked>>

\* newEvictItemsFromCacheBasedOnChanges subscribes to the changes of the
\* database, or fails and leaves the store marked.
newEvictItemsFromCacheBasedOnChanges(p) ==
    /\ caller[p].pc = "subscribe"
    /\ \/ /\ listening' = [listening EXCEPT
                              ![<<caller[p].target, caller[p].re>>] = @ + 1]
          /\ caller' = [caller EXCEPT ![p].pc = "lookup", ![p].then = "options"]
       \/ /\ Does("failures")
          /\ caller' = [caller EXCEPT ![p] = Idle(@)]
          /\ UNCHANGED listening
    /\ UNCHANGED <<workload, version, store, executor, pending, tracked>>

DisableAggressiveCaching(p) ==
    /\ Calls(p) /\ Does("disable")
    /\ \E d \in Targets(p) :
          caller' = [caller EXCEPT ![p] =
              [Begin(p) EXCEPT !.pc = "lookup", !.then = "disable",
                               !.target = d]]
    /\ UNCHANGED <<workload, version, store, executor, listening, pending,
                   tracked>>

\* Both exchange the options; the restorer remembers the old ones.
ExchangeOptions(p) ==
    /\ caller[p].pc \in {"options", "disable"}
    /\ LET e == <<caller[p].target, caller[p].re>>
       IN  /\ executor' = [executor EXCEPT
                              ![e].aggressive = caller[p].pc = "options"]
           /\ caller' = [caller EXCEPT ![p] =
                  Idle([@ EXCEPT !.saved =
                      Append(caller[p].saved, <<e, executor[e].aggressive>>)])]
    /\ UNCHANGED <<workload, version, store, listening, pending, tracked>>

\* A restorer (RestoreCaching.Close or the CancelFunc), in any order.
Restore(p) ==
    /\ caller[p].pc = "idle" /\ Does("restore")
    /\ \E i \in DOMAIN caller[p].saved :
          /\ executor' = [executor EXCEPT ![caller[p].saved[i][1]].aggressive =
                              caller[p].saved[i][2]]
          /\ caller' = [caller EXCEPT ![p].saved =
                  SubSeq(@, 1, i - 1) \o SubSeq(@, i + 1, Len(@))]
    /\ UNCHANGED <<workload, version, store, listening, pending, tracked>>

\* A change notification reaches a listener.
NotifyChange(e) ==
    /\ pending[e] > 0
    /\ pending' = [pending EXCEPT ![e] = @ - 1]
    /\ executor' = [executor EXCEPT ![e].cache = incGeneration(@)]
    /\ UNCHANGED <<workload, version, store, listening, caller, tracked>>

-----------------------------------------------------------------------------
(* The execution of a command.                                              *)

Finished(c, out, from) ==
    Idle([c EXCEPT !.from = from, !.out =
             IF c.command.deref /\ out.kind = "nil"
             THEN Outcome("panic", NoPayload) ELSE out])

\* Execute up to the sending of the request: the cache may answer.
Execute(c, node) ==
    LET x == executor[<<c.db, c.ex>>]
        url == UrlOf(node, c.command, c.arg)
        uses == isCacheable(c.command) \/ c.command.type = "raw"
        found == IF x.cache.open THEN getFromCache(x.cache, c.command, url)
                 ELSE NoItem
    IN  IF uses /\ ~x.cache.open
        THEN Finished(c, Outcome("panic", NoPayload), "none")
        ELSE IF servedFromCache(x.cache, x.aggressive, c.command, found)
        THEN Finished([c EXCEPT !.aggressive = x.aggressive],
                      Outcome(SetResponse(c.command, found.payload),
                              found.payload), "cache")
        ELSE [c EXCEPT !.pc = "sent", !.node = node, !.tried = @ \cup {node},
                       !.aggressive = x.aggressive, !.answer = NoAnswer,
                       !.item = IF c.command.type = "raw"
                                THEN get(x.cache, multiGetUrl(node, c.arg))
                                ELSE found]

\* What a caller may execute: any command of the catalogue and then one that
\* could use the same URL, or what the workload says.
Choices(c) ==
    IF Does("commands")
    THEN {x \in Catalogue \X Args :
             /\ c.calls = 0 \/ x[1].url = c.command.url
             /\ x[1].keyed => x[2] = 1}
    ELSE {x \in {GetDocuments, PutDocument, MultiGet} \X {1} :
             Does(x[1].name)}

\* chooseNodeForRequest: with no node ever down, the first.
ChosenNodes == IF Does("lost") THEN Nodes ELSE {CHOOSE n \in Nodes : TRUE}

ExecuteCommand(p) ==
    /\ Calls(p) /\ caller[p].ex # NoExecutor
    /\ \E x \in Choices(caller[p]), n \in ChosenNodes :
          caller' = [caller EXCEPT ![p] =
              Execute([Begin(p) EXCEPT !.command = x[1], !.arg = x[2],
                                       !.start = version[caller[p].db]], n)]
    /\ UNCHANGED <<workload, version, store, executor, listening, pending,
                   tracked>>

\* A command made with an invalid argument.
RejectCommand(p) ==
    /\ Calls(p) /\ Does("commands")
    /\ \E c \in Catalogue :
          /\ c.bad # "accepted"
          /\ caller' = [caller EXCEPT ![p] =
                [Begin(p) EXCEPT !.command = c, !.from = "none", !.arg = 1,
                                 !.out = Outcome(c.bad, NoPayload)]]
    /\ UNCHANGED <<workload, version, store, executor, listening, pending,
                   tracked>>

\* The server (external).  A write makes a new version and notifies the
\* listeners; If-None-Match is answered by "not modified".
Changed(d) ==
    /\ version[d] < MaxVersion
    /\ version' = [version EXCEPT ![d] = @ + 1]
    /\ pending' = [e \in Executors |->
                      IF e[1] = d THEN pending[e] + listening[e] ELSE pending[e]]

Statuses(c) ==
    (IF Does("commands") THEN {"ok", "empty", "notfound", "error"} ELSE {"ok"})
    \cup (IF c.item.cv = version[c.db] /\ ~c.command.write
          THEN {IF c.command.type = "raw" THEN "submodified" ELSE "notmodified"}
          ELSE {})

AnswerCommand(p) ==
    LET c == caller[p] IN
    /\ c.pc = "sent"
    /\ \E s \in Statuses(c), t \in (IF Does("commands") THEN BOOLEAN ELSE {TRUE}) :
          /\ IF c.command.write /\ s \in {"ok", "empty"} THEN Changed(c.db)
             ELSE UNCHANGED <<version, pending>>
          /\ caller' = [caller EXCEPT
                ![p].pc = "answered",
                ![p].answer = [status |-> s, tagged |-> t,
                               payload |-> [name |-> c.command.name,
                                            arg |-> c.arg,
                                            version |-> version'[c.db]]]]
    /\ UNCHANGED <<workload, store, executor, listening, tracked>>

\* Execute from the arrival of the answer.
ReceiveAnswer(p) ==
    LET c == caller[p]
        e == <<c.db, c.ex>>
        url == UrlOf(c.node, c.command, c.arg)
        raw == multiGetUrl(c.node, c.arg)
        old == executor[e].cache
    IN
    /\ c.pc = "answered"
    /\ \E r \in {Received(old, c.command, url, raw, c.item, c.answer)} :
          /\ executor' = [executor EXCEPT ![e].cache = r.cache]
          /\ caller' = [caller EXCEPT ![p] = Finished(c, r.out, "server")]
          /\ LET stored == {u \in {url, raw} : get(r.cache, u) # get(old, u)}
             IN  tracked' = [tracked EXCEPT ![e] =
                     IF /\ listening[e] > 0
                        /\ c.answer.payload.version = version[c.db]
                     THEN @ \cup stored ELSE @ \ stored]
    /\ UNCHANGED <<workload, version, store, listening, pending>>

\* handleServerDown: the request or its answer is lost, or the node answers
\* that it is unavailable; another node is tried from the start.
handleServerDown(p) ==
    LET c == caller[p] IN
    /\ c.pc \in {"sent", "answered"} /\ Does("lost")
    /\ caller' = [caller EXCEPT ![p] =
          IF Nodes \subseteq c.tried
          THEN Finished(c, Outcome("error", NoPayload), "none")
          ELSE Execute(c, CHOOSE n \in Nodes \ c.tried : TRUE)]
    /\ UNCHANGED <<workload, version, store, executor, listening, pending,
                   tracked>>

-----------------------------------------------------------------------------
(* The environment, and the end of the store.                               *)

\* Another client writes.
WriteElsewhere(d) ==
    /\ Does("write") /\ (d = AnyDatabase \/ Does("databases"))
    /\ Changed(d)
    /\ UNCHANGED <<workload, store, executor, listening, caller, tracked>>

\* The duration of aggressive caching passes.
Expire ==
    /\ Does("expire")
    /\ \E e \in Executors : \E u \in DOMAIN executor[e].cache.items :
          /\ ~executor[e].cache.items[u].expired
          /\ executor' = [executor EXCEPT ![e].cache.items[u].expired = TRUE]
    /\ UNCHANGED <<workload, version, store, listening, pending, caller,
                   tracked>>

\* Close: the listeners first ...
CloseListeners(p) ==
    /\ Calls(p) /\ Does("close")
    /\ caller' = [caller EXCEPT ![p] =
          IF store.disposed THEN Begin(p) ELSE [Begin(p) EXCEPT !.pc = "closing"]]
    /\ listening' = IF store.disposed THEN listening
                    ELSE [e \in Executors |-> 0]
    /\ pending' = IF store.disposed THEN pending ELSE [e \in Executors |-> 0]
    /\ tracked' = IF store.disposed THEN tracked ELSE [e \in Executors |-> {}]
    /\ UNCHANGED <<workload, version, store, executor>>

\* ... and the registered executors last, with their caches.
CloseExecutors(p) ==
    /\ caller[p].pc = "closing"
    /\ store' = [store EXCEPT !.disposed = TRUE]
    /\ executor' = [e \in Executors |->
                       IF store.registry[e[1]] = e[2]
                       THEN [executor[e] EXCEPT !.cache = close(@)]
                       ELSE executor[e]]
    /\ tracked' = [e \in Executors |->
                      IF store.registry[e[1]] = e[2] THEN {} ELSE tracked[e]]
    /\ caller' = [caller EXCEPT ![p] = Idle(@)]
    /\ UNCHANGED <<workload, version, listening, pending>>

-----------------------------------------------------------------------------

Step(p) ==
    \/ OpenSession(p) \/ GetRequestExecutor(p) \/ RequestExecutorCreate(p)
    \/ AggressivelyCacheForDatabase(p) \/ listenToChangesAndUpdateTheCache(p)
    \/ newEvictItemsFromCacheBasedOnChanges(p)
    \/ DisableAggressiveCaching(p) \/ ExchangeOptions(p) \/ Restore(p)
    \/ ExecuteCommand(p) \/ RejectCommand(p) \/ AnswerCommand(p)
    \/ ReceiveAnswer(p) \/ handleServerDown(p)
    \/ CloseListeners(p) \/ CloseExecutors(p)

Next ==
    \/ \E p \in Callers : Step(p)
    \/ \E e \in Executors : NotifyChange(e)
    \/ \E d \in Databases : WriteElsewhere(d)
    \/ Expire

Spec == Init /\ [][Next]_vars

-----------------------------------------------------------------------------

(* Type invariant of the store, its executors and its callers; an answer the *)
(* properties follow is one the cache holds.                                *)
TypeOK ==
    /\ workload \in Workloads
    /\ version \in [Databases -> 1..MaxVersion]
    /\ store \in [used : BOOLEAN, disposed : BOOLEAN,
                  registry : [Databases -> 0..Cardinality(Callers)],
                  created : [Databases -> 0..Cardinality(Callers)]]
    /\ \A e \in Executors :
          /\ executor[e].aggressive \in BOOLEAN
          /\ executor[e].cache.gen \in Nat
          /\ \A u \in DOMAIN executor[e].cache.items :
                executor[e].cache.items[u] \in Items
          /\ tracked[e] \subseteq DOMAIN executor[e].cache.items
    /\ listening \in [Executors -> Nat]
    /\ pending \in [Executors -> Nat]
    /\ \A p \in Callers : caller[p].out.payload \in Payloads

(* What the eviction listener is for (evictItemsFromCacheBasedOnChanges and *)
(* getMightHaveBeenModified): once it has heard every change of the         *)
(* database, an answer that was up to date when it entered the cache, and   *)
(* that the generation test still lets through, is up to date.  Types are   *)
(* kept.                                                                    *)
TrackedItemsAreCurrent ==
    TypeOK /\ \A e \in Executors : \A u \in tracked[e] :
        LET c == executor[e].cache
            i == get(c, u)
        IN  (/\ i.cv > 0 /\ ~getMightHaveBeenModified(c, i)
             /\ listening[e] > 0 /\ pending[e] = 0)
            => i.payload.version = version[e[1]]

(* A read whose executor was not caching aggressively when Execute ran      *)
(* returns a version at least as new as the one at the start of the call,   *)
(* through retries on other nodes, "not modified" answers and the answers   *)
(* of other callers that replace the cached item meanwhile.                 *)
ReadIsCurrent ==
    \A p \in Callers :
        LET c == caller[p]
        IN  (/\ c.pc = "idle" /\ c.out.kind = "result" /\ ~c.aggressive
             /\ c.command # MultiGet)
            => c.out.payload.version >= c.start

\* The commands that can be given another command's or another request's
\* answer because they share its URL and are marked as reads.
KnownToShare == {"ExplainQuery", "RemoveCompareExchangeValue", "NextHiLo",
                 "QueryNonStale", "Query"}

(* The cache is keyed by URL alone, and a PUT, a DELETE and a GET of one    *)
(* resource have the same URL.  Only commands marked as reads take answers  *)
(* from it (getFromCache), so of all pairs of commands with one URL only    *)
(* these can be given the answer to something else, and only two commands   *)
(* that change the server can be answered without being sent.               *)
ForeignAnswersKnown ==
    \A p \in Callers :
        LET c == caller[p]
        IN  /\ (/\ c.pc = "idle" /\ c.out.kind = "result"
                /\ <<c.out.payload.name, c.out.payload.arg>> #
                   <<c.command.name, c.arg>>)
               => c.command.name \in KnownToShare
            /\ (c.pc = "idle" /\ c.from = "cache" /\ c.command.write)
               => c.command.name \in KnownToShare

(* The library panics only when a constructor is given an argument it       *)
(* refuses, when a caller inside the library uses the result of a command   *)
(* that succeeded without one, when a multi-get is answered "not found",    *)
(* or when a store is used while or after it is closed.                     *)
PanicsAreKnown ==
    \A p \in Callers :
        caller[p].out.kind = "panic" =>
            \/ caller[p].command.bad = "panic"
            \/ caller[p].command.deref
            \/ caller[p].command = MultiGet
            \/ store.disposed

-----------------------------------------------------------------------------
(* Statements that this code does not satisfy.                             *)

(* AggressivelyCacheForDatabase gives every database it caches a listener: *)
(* not the second one, and not a second executor of the same database.     *)
EveryCachedDatabaseIsHeard ==
    \A e \in Executors :
        executor[e].aggressive =>
            listening[e] > 0 \/ store.disposed \/ Does("commands")

(* When every restorer has run, nothing is cached aggressively: restorers   *)
(* run in another order than the reverse of their creation leave it on.    *)
RestoreEndsCaching ==
    (/\ \A p \in Callers : caller[p].pc = "idle" /\ caller[p].saved = <<>>
     /\ ~Does("commands"))
    => \A e \in Executors : ~executor[e].aggressive

(* A multi-get answered "not modified" returns the version it asked about:  *)
(* maybeReadFromCache reads the cache again, where another caller's late    *)
(* answer may have put an older one.                                        *)
MultiGetIsCurrent ==
    \A p \in Callers :
        (/\ caller[p].pc = "idle" /\ caller[p].out.kind = "result"
         /\ caller[p].command = MultiGet)
        => caller[p].out.payload.version >= caller[p].start

(* query_command.go: "we need to add a query hash because we are using POST *)
(* queries so we need to unique parameter per query so the query cache will *)
(* work properly".  ExplainQueryCommand is cached and adds none.            *)
ExplanationIsOfItsQuery ==
    \A p \in Callers :
        (/\ caller[p].pc = "idle" /\ caller[p].out.kind = "result"
         /\ caller[p].command = ExplainQuery)
        => caller[p].out.payload.arg = caller[p].arg

(* SendPatchOperation sets PatchStatusDocumentDoesNotExist on a 404 answer  *)
(* and PatchStatusNotModified on a 304, after it has used the result that   *)
(* such an answer does not have.                                            *)
PatchOfMissingReturns ==
    \A p \in Callers :
        caller[p].command = Patch => caller[p].out.kind # "panic"
=============================================================================
