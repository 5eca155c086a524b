----------------------- MODULE FirstTopologyUpdate -----------------------
(***************************************************************************)
(* How a RequestExecutor gets its first topology (request_executor.go).    *)
(* Goroutines call ExecuteCommand; the first one that finds no topology    *)
(* update in flight starts firstTopologyUpdate, and all wait for its       *)
(* completableFuture.  The update goroutine asks the initial URLs in turn, *)
(* one topology request at a time holding a semaphore.  A timer repeats    *)
(* the topology update later.                                              *)
(*                                                                         *)
(* A goroutine that needs the node selector calls ensureNodeSelector,      *)
(* which waits for the first update too: also the update goroutine itself, *)
(* when its request fails over to another node.                            *)
(*                                                                         *)
(* Commands are executed in RequestFailover; here they end in any way.     *)
(***************************************************************************)
EXTENDS Future, FiniteSets

CONSTANTS
  Callers,      \* goroutines that call ExecuteCommand
  Timer,        \* the goroutine of the topology timer
  TimerUpdate,  \* the update goroutine it starts
  NumUrls,      \* initial URLs of the executor
  Error,        \* an error
  None,         \* no goroutine
  MaxCalls,     \* bound: calls made, by all callers
  MaxTicks,     \* bound: firings of the timer
  MaxTries      \* bound: nodes a topology request fails over to

ASSUME StartupAssumption ==
  /\ NumUrls \in Nat \ {0}
  /\ MaxCalls \in Nat /\ MaxTicks \in Nat /\ MaxTries \in Nat
  /\ Nil \notin {Error, Cancellation, "empty", "urls", "fetched"}

\* a call starts at most one update, beside the one of the constructor
FutureIds == 1..(MaxCalls + 1)
Updates == FutureIds \cup {TimerUpdate}   \* update goroutine k completes future k
Goroutines == Callers \cup Updates \cup {Timer}

\* They are different goroutines.
ASSUME GoroutineAssumption ==
  /\ Callers \cap Updates = {} /\ Timer \notin Callers \cup Updates
  /\ TimerUpdate \notin FutureIds

VARIABLES
  futures,    \* the futures of the first updates
  nfutures,   \* how many were created
  first,      \* re.firstTopologyUpdateFuture, 0 for nil
  lastKnownUrls,  \* re.lastKnownUrls is not empty
  selector,   \* re.nodeSelector: Nil, or where its topology is from
  semaphore,  \* holder of updateDatabaseTopologySemaphore
  timer,      \* re.updateTopologyTimer: Nil, "armed", or "fired"
  ticks,
  disposed,
  pc,
  mine,       \* per goroutine: the future it read from re.firstTopologyUpdateFuture
  site,       \* per goroutine: which Get() it is in
  url,        \* per update goroutine: index of the URL it asks
  tries,      \* per update goroutine: nodes its request failed over to
  failed,     \* per update goroutine: its err is set
  calls,      \* calls made
  result      \* per caller: result of its last call

topology == <<selector, semaphore>>
timing == <<timer, ticks>>
local == <<mine, site, url, tries, failed>>
calling == <<calls, result>>
vars == <<futures, nfutures, first, lastKnownUrls, topology, timing, disposed, pc, local, calling>>

Goto(x, label) == pc' = [pc EXCEPT ![x] = label]

\* RequestExecutorCreate starts the first update
Init ==
  /\ futures = [k \in FutureIds |-> newCompletableFuture]
  /\ nfutures = 1
  /\ first = 1
  /\ lastKnownUrls = FALSE
  /\ selector = Nil
  /\ semaphore = None
  /\ timer = Nil /\ ticks = 0
  /\ disposed = FALSE
  /\ pc = [x \in Goroutines |-> IF x = 1 THEN "start" ELSE "idle"]
  /\ mine = [x \in Goroutines |-> 0]
  /\ site = [x \in Goroutines |-> "inner"]
  /\ url = [u \in Updates |-> 1]
  /\ tries = [u \in Updates |-> 0]
  /\ failed = [u \in Updates |-> FALSE]
  /\ calls = 0
  /\ result = [c \in Callers |-> "none"]

---------------------------------------------------------------------------
(* ExecuteCommand *)

Return(c, r) ==
  /\ Goto(c, "idle")
  /\ result' = [result EXCEPT ![c] = r]

ExecuteCommand(c) ==
  /\ pc[c] = "idle" /\ calls < MaxCalls
  /\ calls' = calls + 1
  /\ IF disposed
     THEN Return(c, "disposed") /\ UNCHANGED mine
     ELSE /\ mine' = [mine EXCEPT ![c] = first]
          /\ Goto(c, "isDone") /\ UNCHANGED result
  /\ UNCHANGED <<futures, nfutures, first, lastKnownUrls, topology, timing, disposed,
                 site, url, tries, failed>>

CheckIsDone(c) ==
  LET f == futures[mine[c]]
  IN /\ pc[c] = "isDone"
     /\ Goto(c, IF mine[c] # 0 /\ IsDone(f) /\ ~IsCompletedExceptionally(f) /\ ~isCancelled(f)
                THEN "ensure" ELSE "unlikely")
     /\ UNCHANGED <<futures, nfutures, first, lastKnownUrls, topology, timing, disposed,
                    local, calling>>

\* unlikelyExecuteInner up to Get(), under mu
UnlikelyExecute(c) ==
  /\ pc[c] = "unlikely"
  /\ site' = [site EXCEPT ![c] = "inner"]
  /\ CASE mine[c] # 0 ->
            Goto(c, "get") /\ UNCHANGED <<nfutures, first, mine, result>>
       [] mine[c] = 0 /\ first # 0 ->
            /\ mine' = [mine EXCEPT ![c] = first]
            /\ Goto(c, "get") /\ UNCHANGED <<nfutures, first, result>>
       [] mine[c] = 0 /\ first = 0 /\ ~lastKnownUrls ->
            Return(c, "noKnownTopology") /\ UNCHANGED <<nfutures, first, mine>>
       [] mine[c] = 0 /\ first = 0 /\ lastKnownUrls ->
            /\ nfutures' = nfutures + 1
            /\ first' = nfutures + 1
            /\ mine' = [mine EXCEPT ![c] = nfutures + 1]
            /\ pc' = [pc EXCEPT ![c] = "get", ![nfutures + 1] = "start"]
            /\ UNCHANGED result
  /\ UNCHANGED <<futures, lastKnownUrls, topology, timing, disposed, url, tries, failed, calls>>

\* mutant: a late error also drops an update started meanwhile
ResetAnyUpdate(c) ==
  /\ pc[c] = "reset"
  /\ first' = 0
  /\ Return(c, "error")
  /\ UNCHANGED <<futures, nfutures, lastKnownUrls, topology, timing, disposed, local, calls>>

\* the error path of unlikelyExecute, under mu
ResetFirstUpdate(c) ==
  /\ pc[c] = "reset"
  /\ first' = IF first = mine[c] THEN 0 ELSE first
  /\ Return(c, "error")
  /\ UNCHANGED <<futures, nfutures, lastKnownUrls, topology, timing, disposed, local, calls>>

\* chooseNodeForRequest has the selector; the command is executed.  That
\* ensureNodeSelector refuses a command does not happen (SelectorBeforeCommand).
ChooseAndExecute(c) ==
  /\ pc[c] = "selected"
  /\ selector' = IF selector = Nil THEN "empty" ELSE selector
  /\ \E r \in {"ok", "error"} : Return(c, IF selector' = "empty" THEN "noNodes" ELSE r)
  /\ UNCHANGED <<futures, nfutures, first, lastKnownUrls, semaphore, timing, disposed,
                 local, calls>>

---------------------------------------------------------------------------
(* ensureNodeSelector, and Get() on the future in mine *)

EnsureNodeSelector(x) ==
  LET f == futures[first]
  IN /\ pc[x] = "ensure"
     /\ IF first # 0 /\ (~IsDone(f) \/ IsCompletedExceptionally(f))
        THEN /\ mine' = [mine EXCEPT ![x] = first]
             /\ site' = [site EXCEPT ![x] = "ensure"]
             /\ Goto(x, "get")
        ELSE Goto(x, "selected") /\ UNCHANGED <<mine, site>>
     /\ UNCHANGED <<futures, nfutures, first, lastKnownUrls, topology, timing, disposed,
                    url, tries, failed, calling>>

\* mutant: unlikelyExecute drops the future on success too
DropAfterGet(x, f) ==
  Goto(x, IF site[x] = "inner" THEN "reset"
          ELSE IF f.err # Nil THEN "refused" ELSE "selected")

AfterGet(x, f) ==
  Goto(x, IF site[x] = "inner"
          THEN (IF f.err # Nil THEN "reset" ELSE "ensure")
          ELSE (IF f.err # Nil THEN "refused" ELSE "selected"))

Get(x) ==
  LET f == futures[mine[x]]
  IN /\ pc[x] = "get"
     /\ IF f.completed THEN AfterGet(x, f) ELSE Goto(x, "wait")
     /\ UNCHANGED <<futures, nfutures, first, lastKnownUrls, topology, timing, disposed,
                    local, calling>>

WakeUp(x) ==
  /\ pc[x] = "wait" /\ CanReceive(futures[mine[x]])
  /\ futures' = [futures EXCEPT ![mine[x]] = Receive(@)]
  /\ AfterGet(x, futures[mine[x]])
  /\ UNCHANGED <<nfutures, first, lastKnownUrls, topology, timing, disposed, local, calling>>

---------------------------------------------------------------------------
(* updateTopologyAsyncWithForceUpdate, for update goroutine u *)

Release == semaphore' = None

\* a disposed executor answers Ok: false with no error, which the caller
\* takes for success
StartUpdate(u) ==
  /\ pc[u] = "start"
  /\ Goto(u, IF disposed THEN "succeeded" ELSE "acquire")
  /\ tries' = [tries EXCEPT ![u] = 0]
  /\ UNCHANGED <<futures, nfutures, first, lastKnownUrls, topology, timing, disposed,
                 mine, site, url, failed, calling>>

AcquireSemaphore(u) ==
  /\ pc[u] = "acquire" /\ semaphore = None
  /\ semaphore' = u
  /\ Goto(u, "execute")
  /\ UNCHANGED <<futures, nfutures, first, lastKnownUrls, selector, timing, disposed,
                 local, calling>>

\* onUpdateTopology keeps the topology it has if that is as recent
TopologyReceived(u) ==
  /\ pc[u] = "execute"
  /\ selector' \in {"fetched", selector} \ {Nil}
  /\ Release
  /\ Goto(u, "succeeded")
  /\ UNCHANGED <<futures, nfutures, first, lastKnownUrls, timing, disposed, local, calling>>

\* mutant: the error of the answer is dropped
DropError(u) ==
  /\ pc[u] = "execute"
  /\ Release
  /\ Goto(u, "missing") \/ Goto(u, "succeeded")
  /\ UNCHANGED <<futures, nfutures, first, lastKnownUrls, selector, timing, disposed,
                 local, calling>>

\* mutant: the semaphore is not released on the error path
ErrorHolding(u) ==
  /\ pc[u] = "execute"
  /\ Goto(u, "missing") \/ Goto(u, "failed")
  /\ UNCHANGED <<futures, nfutures, first, lastKnownUrls, topology, timing, disposed,
                 local, calling>>

\* the server answers with an error: that the database does not exist, or
\* another one
ErrorReceived(u) ==
  /\ pc[u] = "execute"
  /\ Release
  /\ Goto(u, "missing") \/ Goto(u, "failed")
  /\ UNCHANGED <<futures, nfutures, first, lastKnownUrls, selector, timing, disposed,
                 local, calling>>

\* no answer: handleServerDown fails over if there is a node selector
ServerIsDown(u) ==
  /\ pc[u] = "execute"
  /\ IF selector = Nil
     THEN Release /\ Goto(u, "failed")
     ELSE Goto(u, "ensure") /\ UNCHANGED semaphore
  /\ UNCHANGED <<futures, nfutures, first, lastKnownUrls, selector, timing, disposed,
                 local, calling>>

\* the preferred node is tried unless the request already failed there
FailOver(u) ==
  /\ pc[u] = "selected"
  /\ \/ /\ tries[u] < MaxTries
        /\ tries' = [tries EXCEPT ![u] = @ + 1]
        /\ Goto(u, "execute")
        /\ UNCHANGED semaphore
     \/ /\ Release /\ Goto(u, "failed") /\ UNCHANGED tries
  /\ UNCHANGED <<futures, nfutures, first, lastKnownUrls, selector, timing, disposed,
                 mine, site, url, failed, calling>>

FailoverRefused(u) ==
  /\ pc[u] = "refused"
  /\ Release
  /\ Goto(u, "failed")
  /\ UNCHANGED <<futures, nfutures, first, lastKnownUrls, selector, timing, disposed,
                 local, calling>>

---------------------------------------------------------------------------
(* firstTopologyUpdate, for the goroutine that completes future k *)

\* initializeUpdateTopologyTimer
Arm == timer' = IF timer = Nil THEN "armed" ELSE timer

FirstUpdateSucceeds(k) ==
  /\ pc[k] = "succeeded"
  /\ Arm
  /\ failed' = [failed EXCEPT ![k] = FALSE]
  /\ Goto(k, "complete")
  /\ UNCHANGED <<futures, nfutures, first, lastKnownUrls, topology, ticks, disposed,
                 mine, site, url, tries, calling>>

DatabaseDoesNotExist(k) ==
  /\ pc[k] = "missing"
  /\ lastKnownUrls' = TRUE
  /\ failed' = [failed EXCEPT ![k] = TRUE]
  /\ Goto(k, "complete")
  /\ UNCHANGED <<futures, nfutures, first, topology, timing, disposed,
                 mine, site, url, tries, calling>>

NextUrl(k) ==
  /\ pc[k] = "failed" /\ url[k] < NumUrls
  /\ url' = [url EXCEPT ![k] = @ + 1]
  /\ Goto(k, "start")
  /\ UNCHANGED <<futures, nfutures, first, lastKnownUrls, topology, timing, disposed,
                 mine, site, tries, failed, calling>>

\* no URL answered: the nodes known, or the URLs, become the topology, and
\* err still holds the error of the last URL
FallBack(k) ==
  /\ pc[k] = "failed" /\ url[k] = NumUrls
  /\ selector' = IF selector \in {Nil, "empty"} THEN "urls" ELSE selector
  /\ Arm
  /\ failed' = [failed EXCEPT ![k] = TRUE]
  /\ Goto(k, "complete")
  /\ UNCHANGED <<futures, nfutures, first, lastKnownUrls, semaphore, ticks, disposed,
                 mine, site, url, tries, calling>>

CompleteFuture(k) ==
  /\ pc[k] = "complete"
  /\ futures' = [futures EXCEPT ![k] = IF failed[k] THEN completeWithError(@, Error)
                                                    ELSE complete(@, Nil)]
  /\ Goto(k, "done")
  /\ UNCHANGED <<nfutures, first, lastKnownUrls, topology, timing, disposed, local, calling>>

---------------------------------------------------------------------------
(* The topology timer, and Close *)

\* updateTopologyCallback returns at once after a recent response or without
\* a selector
TimerFires ==
  /\ timer = "armed" /\ pc[Timer] = "idle" /\ ticks < MaxTicks
  /\ timer' = "fired"
  /\ ticks' = ticks + 1
  /\ \/ Goto(Timer, "rearm")
     \/ selector # Nil /\ Goto(Timer, "ensure")
  /\ UNCHANGED <<futures, nfutures, first, lastKnownUrls, topology, disposed, local, calling>>

\* UpdateTopologyAsync is started and not waited for
TimerStartsUpdate ==
  /\ pc[Timer] = "selected" /\ pc[TimerUpdate] = "idle"
  /\ pc' = [pc EXCEPT ![Timer] = "rearm", ![TimerUpdate] = "start"]
  /\ UNCHANGED <<futures, nfutures, first, lastKnownUrls, topology, timing, disposed,
                 local, calling>>

TimerRefused ==
  /\ pc[Timer] = "refused"
  /\ Goto(Timer, "rearm")
  /\ UNCHANGED <<futures, nfutures, first, lastKnownUrls, topology, timing, disposed,
                 local, calling>>

TimerRearms ==
  /\ pc[Timer] = "rearm"
  /\ timer' = "armed"
  /\ Goto(Timer, "idle")
  /\ UNCHANGED <<futures, nfutures, first, lastKnownUrls, topology, ticks, disposed,
                 local, calling>>

TimerUpdateEnds ==
  /\ pc[TimerUpdate] \in {"succeeded", "missing", "failed"}
  /\ Goto(TimerUpdate, "idle")
  /\ UNCHANGED <<futures, nfutures, first, lastKnownUrls, topology, timing, disposed,
                 local, calling>>

Close ==
  /\ ~disposed
  /\ disposed' = TRUE
  /\ timer' = Nil
  /\ UNCHANGED <<futures, nfutures, first, lastKnownUrls, topology, ticks, pc, local, calling>>

CallerStep(c) ==
  CheckIsDone(c) \/ UnlikelyExecute(c) \/ ResetFirstUpdate(c) \/ ChooseAndExecute(c)
SelectorStep(x) == EnsureNodeSelector(x) \/ Get(x) \/ WakeUp(x)
UpdateStep(u) ==
  \/ StartUpdate(u) \/ AcquireSemaphore(u) \/ TopologyReceived(u) \/ ErrorReceived(u)
  \/ ServerIsDown(u) \/ FailOver(u) \/ FailoverRefused(u)
FirstUpdateStep(k) ==
  \/ FirstUpdateSucceeds(k) \/ DatabaseDoesNotExist(k) \/ NextUrl(k) \/ FallBack(k)
  \/ CompleteFuture(k)
TimerStep == TimerStartsUpdate \/ TimerRefused \/ TimerRearms

Next ==
  \/ \E c \in Callers : ExecuteCommand(c) \/ CallerStep(c)
  \/ \E x \in Goroutines : SelectorStep(x)
  \/ \E u \in Updates : UpdateStep(u)
  \/ \E k \in FutureIds : FirstUpdateStep(k)
  \/ TimerFires \/ TimerStep \/ TimerUpdateEnds
  \/ Close

Spec == Init /\ [][Next]_vars

\* Goroutines keep running, requests end, a semaphore serves every waiter in
\* turn.  Callers may stop calling, the timer may not fire, nobody need Close.
FairSpec ==
  /\ Spec
  /\ \A c \in Callers : WF_vars(CallerStep(c) \/ SelectorStep(c))
  /\ \A k \in FutureIds : WF_vars(UpdateStep(k) \/ SelectorStep(k) \/ FirstUpdateStep(k))
  /\ WF_vars(UpdateStep(TimerUpdate) \/ SelectorStep(TimerUpdate) \/ TimerUpdateEnds)
  /\ WF_vars(TimerStep \/ SelectorStep(Timer))
  /\ \A u \in Updates : SF_vars(AcquireSemaphore(u))

---------------------------------------------------------------------------
(* Properties *)

Running(k) == k <= nfutures /\ ~futures[k].completed
WaitsFor(x, k) == pc[x] = "wait" /\ mine[x] = k

\* The executor's fields and the goroutines' locals keep their types.
TypeOK ==
  /\ nfutures \in FutureIds /\ first \in 0..nfutures
  /\ selector \in {Nil, "empty", "urls", "fetched"}
  /\ semaphore \in Updates \cup {None}
  /\ timer \in {Nil, "armed", "fired"}
  /\ mine \in [Goroutines -> 0..nfutures]
  /\ \A x \in Goroutines : pc[x] \in {"get", "wait"} => mine[x] # 0
  /\ \A k \in FutureIds : futures[k].signal \in 0..1

\* A first topology update that is still running is the one every new command
\* finds: a command whose own update failed late does not drop it (the check
\* in unlikelyExecute), so two of them never run at once.  Types are kept.
RunningUpdateIsCurrent ==
  /\ TypeOK
  /\ \A k \in FutureIds : Running(k) => first = k

\* A command that gets past the first update has nodes to choose from: the
\* empty selector that ensureNodeSelector can build appears only after Close,
\* and ensureNodeSelector does not fail on the error of another update.
SelectorBeforeCommand ==
  /\ ~disposed => selector # "empty"
  /\ \A c \in Callers : pc[c] # "refused"

\* Once the first update has succeeded, it is never forgotten or repeated.
SuccessIsFinal ==
  [][first # 0 /\ futures[first].completed /\ futures[first].err = Nil => first' = first]_vars

\* A command returns unless two goroutines came to wait for one future.
\* Nothing else makes ExecuteCommand hang: not the semaphore, not a failing
\* update, not Close.
CommandReturnsUnlessTwoWait ==
  [](\A k \in FutureIds, x, y \in Goroutines : WaitsFor(x, k) /\ WaitsFor(y, k) => x = y)
    => \A c \in Callers : pc[c] # "idle" ~> pc[c] = "idle"

\* "next request will raise it" (request_executor.go:629): an update that a
\* request starts again comes to an end.
UpdateCompletes ==
  \A k \in FutureIds : Running(k) ~> ~Running(k)

\* "No known topology and no previously known one, cannot proceed, likely a
\* bug" (request_executor.go:610): no command ends with that error.
NeverLikelyABug ==
  \A c \in Callers : result[c] # "noKnownTopology"

==========================================================================
