------------------------- MODULE RequestFailover -------------------------
(***************************************************************************)
(* A RequestExecutor once it has a topology (request_executor.go and       *)
(* node_selector.go): commands that fail over from node to node, health    *)
(* checks that bring failed nodes back, and topology updates that replace  *)
(* the state of the node selector under both.                              *)
(*                                                                         *)
(* A *ServerNode is <<g, i>>: place i (from 1) of topology g, as each      *)
(* topology has nodes of its own.  A node not of a topology, such as the   *)
(* one Execute makes to refresh the topology, is <<0, 0>>.                 *)
(*                                                                         *)
(* Everything that sends requests is a process: callers, the health check  *)
(* of node n (process n), and the goroutine of UpdateTopologyAsync that    *)
(* process p starts (process Update(p)).  How a server answers is up to    *)
(* the server.                                                             *)
(***************************************************************************)
EXTENDS Naturals, FiniteSets

CONSTANTS
  Callers,       \* goroutines that execute commands
  TopologyTimer, \* the goroutine of the topology timer
  None,          \* no process
  MaxNodes,      \* bound: nodes of a topology
  MaxGen,        \* bound: topologies
  MaxCommands,   \* bound: commands executed
  MaxRefresh,    \* bound: answers that ask to refresh the topology
  MaxTicks,      \* bound: firings of the topology timer
  MaxRetries,    \* bound: health checks that fail
  Starts         \* where behaviours start: topology in use, its size, and how
                 \* much of each of the last four bounds is used up

ASSUME FailoverAssumption ==
  /\ MaxNodes \in Nat \ {0} /\ MaxGen \in Nat \ {0}
  /\ MaxCommands \in Nat /\ MaxRefresh \in Nat /\ MaxTicks \in Nat /\ MaxRetries \in Nat
  /\ Starts \subseteq [gen : 1..MaxGen, size : 1..MaxNodes, commands : 0..MaxCommands,
                       refreshes : 0..MaxRefresh, ticks : 0..MaxTicks, retries : 0..MaxRetries]

Gens == 1..MaxGen
Places == 1..MaxNodes
Nodes == Gens \X Places
NotInTopology == <<0, 0>>
Update(p) == <<0, p>>
Updates == {Update(p) : p \in Callers \cup Nodes \cup {TopologyTimer}}
Processes == Callers \cup Nodes \cup Updates

ASSUME ProcessAssumption ==
  Callers \cap (Nodes \cup Updates) = {} /\ TopologyTimer \notin Processes

VARIABLES
  gen,          \* the topology of the node selector's state
  size,         \* per topology: how many nodes it has
  failures,     \* per topology: the places whose failure count is not zero
  failedNodesTimers,  \* the nodes with an entry in the map
  timer,        \* per node: its health-check timer: "off", "armed", "closed" (nil)
  semaphore,    \* holder of updateDatabaseTopologySemaphore
  crashed,      \* the method that panicked, or None
  pc,
  chosenNode, nodeIndex,  \* per process: arguments of its innermost Execute
  shouldRetry,
  failedNodes,  \* per process: the command's FailedNodes
  scan,         \* per process: topology and place where getPreferredNode is
  moved,        \* per process: it executes the retry after 410 Gone
  result,       \* per caller: how its last command ended
  commands, refreshes, ticks, retries

selector == <<gen, size, failures>>
timers == <<failedNodesTimers, timer>>
command == <<chosenNode, nodeIndex, shouldRetry, failedNodes, scan, moved>>
counters == <<commands, refreshes, ticks, retries>>
vars == <<selector, timers, semaphore, crashed, pc, command, result, counters>>

\* a panic ends the program
Running == crashed = None

Goto(p, label) == Running /\ pc' = [pc EXCEPT ![p] = label]

Init ==
  /\ \E s \in Starts :
       /\ gen = s.gen
       /\ size = [g \in Gens |-> s.size]
       /\ commands = s.commands /\ refreshes = s.refreshes
       /\ ticks = s.ticks /\ retries = s.retries
  /\ failures = [g \in Gens |-> {}]
  /\ failedNodesTimers = {}
  /\ timer = [n \in Nodes |-> "off"]
  /\ semaphore = None
  /\ crashed = None
  /\ pc = [p \in Processes |-> "idle"]
  /\ chosenNode = [p \in Processes |-> NotInTopology]
  /\ nodeIndex = [p \in Processes |-> 1]
  /\ shouldRetry = [p \in Processes |-> FALSE]
  /\ failedNodes = [p \in Processes |-> {}]
  /\ scan = [p \in Processes |-> <<1, 1>>]
  /\ moved = [p \in Processes |-> FALSE]
  /\ result = [c \in Callers |-> "none"]

---------------------------------------------------------------------------
(* Execute: where it comes from and where it returns to *)

\* a fresh command is sent to node n, blamed on place i if that fails
Begin(p, n, i, retry) ==
  /\ chosenNode' = [chosenNode EXCEPT ![p] = n]
  /\ nodeIndex' = [nodeIndex EXCEPT ![p] = i]
  /\ shouldRetry' = [shouldRetry EXCEPT ![p] = retry]
  /\ failedNodes' = [failedNodes EXCEPT ![p] = {}]
  /\ moved' = [moved EXCEPT ![p] = FALSE]

Continuation(p, r) ==
  CASE p \in Callers -> "idle"
    [] p \in Nodes -> IF r = "ok" THEN "healthy" ELSE "unhealthy"
    [] p \in Updates -> IF r = "ok" THEN "install" ELSE "failed"

\* the command and its FailedNodes are dropped
Return(p, r) ==
  /\ Goto(p, Continuation(p, r))
  /\ Begin(p, NotInTopology, 1, FALSE)
  /\ scan' = [scan EXCEPT ![p] = <<1, 1>>]
  /\ result' = [c \in Callers |-> IF c = p THEN r ELSE result[c]]

\* (false, nil) from handleUnsuccessfulResponse
Unrecovered(p) == IF failedNodes[p] = {} THEN "weird" ELSE "error"
\* the retry after 410 reports (false, nil) however it ends
Success(p) == IF moved[p] THEN Unrecovered(p) ELSE "ok"

Send(p, n) ==
  /\ chosenNode' = [chosenNode EXCEPT ![p] = n]
  /\ nodeIndex' = [nodeIndex EXCEPT ![p] = n[2]]
  /\ scan' = [scan EXCEPT ![p] = <<1, 1>>]
  /\ Goto(p, "send")
  /\ UNCHANGED <<shouldRetry, failedNodes, moved, result>>

\* ExecuteCommand: chooseNodeForRequest takes the preferred node, or with
\* read balancing another one without failures
ExecuteCommand(c) ==
  /\ pc[c] = "idle" /\ commands < MaxCommands
  /\ commands' = commands + 1
  /\ Begin(c, NotInTopology, 1, TRUE)
  /\ Goto(c, "choose")
  /\ UNCHANGED <<selector, timers, semaphore, crashed, scan, result, refreshes, ticks, retries>>

ChooseBalanced(c) ==
  /\ pc[c] = "choose"
  /\ \E i \in (1..size[gen]) \ failures[gen] : Send(c, <<gen, i>>)
  /\ UNCHANGED <<selector, timers, semaphore, crashed, counters>>

---------------------------------------------------------------------------
(* NodeSelector.getPreferredNode, one failure counter at a time: in "pick" *)
(* for chooseNodeForRequest, in "scan" for handleServerDown *)

GetPreferredNode(p) ==
  /\ pc[p] \in {"choose", "failover"}
  /\ scan' = [scan EXCEPT ![p] = <<gen, 1>>]
  /\ Goto(p, IF pc[p] = "choose" THEN "pick" ELSE "scan")
  /\ UNCHANGED <<selector, timers, semaphore, crashed, chosenNode, nodeIndex, shouldRetry,
                 failedNodes, moved, result, counters>>

SkipFailed(p) ==
  LET g == scan[p][1] i == scan[p][2]
  IN /\ Running /\ pc[p] \in {"pick", "scan"} /\ i <= size[g] /\ i \in failures[g]
     /\ scan' = [scan EXCEPT ![p] = <<g, i + 1>>]
     /\ UNCHANGED <<selector, timers, semaphore, crashed, pc, chosenNode, nodeIndex, shouldRetry,
                    failedNodes, moved, result, counters>>

\* handleServerDown, and only that, gives up on a node the command failed on
\* before
TakeNode(p, n) ==
  IF pc[p] = "scan" /\ n \in failedNodes[p] THEN Return(p, "gaveUp") ELSE Send(p, n)

TakePreferred(p) ==
  LET g == scan[p][1] i == scan[p][2]
  IN /\ pc[p] \in {"pick", "scan"} /\ i <= size[g] /\ i \notin failures[g]
     /\ TakeNode(p, <<g, i>>)
     /\ UNCHANGED <<selector, timers, semaphore, crashed, counters>>

UnlikelyEveryoneFaultedChoice(p) ==
  LET g == scan[p][1]
  IN /\ pc[p] \in {"pick", "scan"} /\ scan[p][2] > size[g]
     /\ TakeNode(p, <<g, 1>>)
     /\ UNCHANGED <<selector, timers, semaphore, crashed, counters>>

---------------------------------------------------------------------------
(* Answers *)

Answered(p) ==
  /\ pc[p] = "send"
  /\ Return(p, Success(p))
  /\ UNCHANGED <<selector, timers, semaphore, crashed, counters>>

\* UpdateTopologyAsync; p waits for its channel in state label
StartUpdate(p, n, label) ==
  /\ Running
  /\ pc' = [pc EXCEPT ![p] = label, ![Update(p)] = "acquire"]
  /\ Begin(Update(p), n, 1, FALSE)
  /\ UNCHANGED <<scan, result>>

\* forceUpdate, and updates of that kind, which always install a topology
Forced(u) == \E p \in Callers : u = Update(p) /\ pc[p] = "awaitMove"
RoomForTopology == gen + Cardinality({u \in Updates : Forced(u)}) < MaxGen

\* a server answers the health checks in the end
CountRetry(p) ==
  /\ p \in Nodes => retries < MaxRetries
  /\ retries' = IF p \in Nodes THEN retries + 1 ELSE retries

\* the answer asks to refresh the topology
AnsweredRefresh(p) ==
  /\ pc[p] = "send" /\ p \notin Updates /\ refreshes < MaxRefresh
  /\ StartUpdate(p, NotInTopology, "awaitRefresh")
  /\ refreshes' = refreshes + 1
  /\ UNCHANGED <<selector, timers, semaphore, crashed, commands, ticks, retries>>

Refreshed(p) ==
  /\ pc[p] = "refreshed"
  /\ Return(p, Success(p))
  /\ UNCHANGED <<selector, timers, semaphore, crashed, counters>>

\* 410: the database is not on this node; the topology is updated from it
Gone(p) ==
  /\ pc[p] = "send" /\ shouldRetry[p] /\ RoomForTopology
  /\ StartUpdate(p, chosenNode[p], "awaitMove")
  /\ UNCHANGED <<selector, timers, semaphore, crashed, counters>>

RetryMoved(p) ==
  /\ pc[p] = "updated"
  /\ moved' = [moved EXCEPT ![p] = TRUE]
  /\ shouldRetry' = [shouldRetry EXCEPT ![p] = FALSE]
  /\ Goto(p, "choose")
  /\ UNCHANGED <<selector, timers, semaphore, crashed, chosenNode, nodeIndex, failedNodes, scan,
                 result, counters>>

UpdateFailed(p) ==
  /\ pc[p] = "updateFailed"
  /\ Return(p, "error")
  /\ UNCHANGED <<selector, timers, semaphore, crashed, counters>>

GoneAgain(p) ==
  /\ pc[p] = "send" /\ ~shouldRetry[p]
  /\ CountRetry(p)
  /\ Return(p, Unrecovered(p))
  /\ UNCHANGED <<selector, timers, semaphore, crashed, commands, refreshes, ticks>>

\* 403, 409, 500 and others are reported
OtherError(p) ==
  /\ pc[p] = "send"
  /\ CountRetry(p)
  /\ Return(p, "error")
  /\ UNCHANGED <<selector, timers, semaphore, crashed, commands, refreshes, ticks>>

---------------------------------------------------------------------------
(* handleServerDown: no answer, or 408, 502, 503, 504 *)

\* addFailedResponseToCommand and spawnHealthChecks up to LoadOrStore; the
\* health check of a node of no topology ends at once and is left out
ServerDown(p) ==
  LET n == chosenNode[p]
  IN /\ pc[p] = "send"
     /\ CountRetry(p)
     /\ failedNodes' = [failedNodes EXCEPT ![p] = @ \cup {n}]
     /\ IF n \in Nodes \ failedNodesTimers
        THEN failedNodesTimers' = failedNodesTimers \cup {n} /\ Goto(p, "startTimer")
        ELSE Goto(p, "blame") /\ UNCHANGED failedNodesTimers
     /\ UNCHANGED <<selector, timer, semaphore, crashed, chosenNode, nodeIndex, shouldRetry, scan,
                    moved, result, commands, refreshes, ticks>>

StartTimer(p) ==
  /\ pc[p] = "startTimer"
  /\ timer' = [timer EXCEPT ![chosenNode[p]] = "armed"]
  /\ Goto(p, "blame")
  /\ UNCHANGED <<selector, failedNodesTimers, semaphore, crashed, command, result,
                 counters>>

\* onFailedRequest, and then Execute is called again with no retry
OnFailedRequest(p) ==
  /\ pc[p] = "blame"
  /\ failures' = IF nodeIndex[p] <= size[gen]
                 THEN [failures EXCEPT ![gen] = @ \cup {nodeIndex[p]}] ELSE failures
  /\ shouldRetry' = [shouldRetry EXCEPT ![p] = FALSE]
  /\ Goto(p, "failover")
  /\ UNCHANGED <<gen, size, timers, semaphore, crashed, chosenNode, nodeIndex, failedNodes, scan,
                 moved, result, counters>>

---------------------------------------------------------------------------
(* checkNodeStatusCallback, the health check of node n *)

HealthCheck(n) ==
  /\ Running /\ timer[n] = "armed" /\ pc[n] = "idle"
  /\ timer' = [timer EXCEPT ![n] = "off"]
  /\ IF n[1] = gen
     THEN Begin(n, n, n[2], FALSE) /\ Goto(n, "send")
     ELSE UNCHANGED <<pc, chosenNode, nodeIndex, shouldRetry, failedNodes, moved>>
  /\ UNCHANGED <<selector, failedNodesTimers, semaphore, crashed, scan, result,
                 counters>>

\* mutant: the timer is left alone after a failed check
NoNextCheck(n) ==
  /\ pc[n] = "unhealthy"
  /\ Goto(n, "idle")
  /\ UNCHANGED <<selector, timers, semaphore, crashed, command, result, counters>>

\* the entry is looked up in the map, which may have been replaced
CheckFailed(n) ==
  /\ pc[n] = "unhealthy"
  /\ Goto(n, IF n \in failedNodesTimers THEN "rearm" ELSE "idle")
  /\ UNCHANGED <<selector, timers, semaphore, crashed, command, result, counters>>

UpdateTimer(n) ==
  /\ pc[n] = "rearm"
  /\ IF timer[n] = "closed"
     THEN crashed' = "updateTimer" /\ UNCHANGED timer
     ELSE timer' = [timer EXCEPT ![n] = "armed"] /\ UNCHANGED crashed
  /\ Goto(n, "idle")
  /\ UNCHANGED <<selector, failedNodesTimers, semaphore, command, result, counters>>

CheckSucceeded(n) ==
  /\ pc[n] = "healthy"
  /\ timer' = IF n \in failedNodesTimers THEN [timer EXCEPT ![n] = "closed"] ELSE timer
  /\ failedNodesTimers' = failedNodesTimers \ {n}
  /\ Goto(n, "restore")
  /\ UNCHANGED <<selector, semaphore, crashed, command, result, counters>>

\* mutant: the place after the checked one is restored
RestoreNext(n) ==
  /\ pc[n] = "restore"
  /\ failures' = [failures EXCEPT ![gen] = @ \ {n[2] + 1}]
  /\ Goto(n, "idle")
  /\ UNCHANGED <<gen, size, timers, semaphore, crashed, command, result, counters>>

\* restoreNodeIndex: n[2] - 1 is the index; the index equal to the length
\* passes the check
RestoreNodeIndex(n) ==
  /\ pc[n] = "restore"
  /\ crashed' = IF n[2] - 1 = size[gen] THEN "restoreNodeIndex" ELSE crashed
  /\ failures' = [failures EXCEPT ![gen] = @ \ {n[2]}]
  /\ Goto(n, "idle")
  /\ UNCHANGED <<gen, size, timers, semaphore, command, result, counters>>

---------------------------------------------------------------------------
(* updateTopologyAsyncWithForceUpdate *)

\* updateTopologyCallback: UpdateTopologyAsync is not waited for
TopologyTimerFires ==
  LET u == Update(TopologyTimer)
  IN /\ pc[u] = "idle" /\ ticks < MaxTicks
     /\ ticks' = ticks + 1
     /\ \E i \in 1..size[gen] : Begin(u, <<gen, i>>, 1, FALSE)
     /\ Goto(u, "acquire")
     /\ UNCHANGED <<selector, timers, semaphore, crashed, scan, result, commands, refreshes, retries>>

Acquire(u) ==
  /\ pc[u] = "acquire" /\ semaphore = None
  /\ semaphore' = u
  /\ Goto(u, "send")
  /\ UNCHANGED <<selector, timers, crashed, command, result, counters>>

\* onUpdateTopology with a newer topology, or a forced update
Install(u) ==
  /\ pc[u] = "install"
  /\ Forced(u) \/ RoomForTopology
  /\ \E n \in Places :
       /\ gen' = gen + 1
       /\ size' = [size EXCEPT ![gen + 1] = n]
  /\ Goto(u, "closeTimers")
  /\ UNCHANGED <<failures, timers, semaphore, crashed, command, result, counters>>

KeepTopology(u) ==
  /\ pc[u] = "install" /\ ~Forced(u)
  /\ Goto(u, "release")
  /\ UNCHANGED <<selector, timers, semaphore, crashed, command, result, counters>>

\* disposeAllFailedNodesTimers closes what is in the map ...
CloseTimers(u) ==
  /\ pc[u] = "closeTimers"
  /\ timer' = [n \in Nodes |-> IF n \in failedNodesTimers THEN "closed" ELSE timer[n]]
  /\ Goto(u, "resetMap")
  /\ UNCHANGED <<selector, failedNodesTimers, semaphore, crashed, command, result,
                 counters>>

\* ... and then replaces the map
ResetMap(u) ==
  /\ pc[u] = "resetMap"
  /\ failedNodesTimers' = {}
  /\ Goto(u, "release")
  /\ UNCHANGED <<selector, timer, semaphore, crashed, command, result, counters>>

\* mutant: the channel gets no value when the update failed
NotifyOnSuccess(u) ==
  [p \in Processes |->
    CASE p = u -> "idle"
      [] u = Update(p) /\ pc[u] = "release" -> IF Forced(u) THEN "updated" ELSE "refreshed"
      [] OTHER -> pc[p]]

\* who waits for update u learns how it went
Notified(u) ==
  [p \in Processes |->
    CASE p = u -> "idle"
      [] u = Update(p) -> IF pc[u] = "failed" THEN "updateFailed"
                          ELSE IF Forced(u) THEN "updated" ELSE "refreshed"
      [] OTHER -> pc[p]]

Release(u) ==
  /\ Running /\ pc[u] \in {"release", "failed"}
  /\ semaphore' = None
  /\ pc' = Notified(u)
  /\ UNCHANGED <<selector, timers, crashed, command, result, counters>>

RequestStep(p) ==
  \/ GetPreferredNode(p) \/ SkipFailed(p) \/ TakePreferred(p) \/ UnlikelyEveryoneFaultedChoice(p)
  \/ Answered(p) \/ AnsweredRefresh(p) \/ Refreshed(p) \/ Gone(p) \/ RetryMoved(p)
  \/ UpdateFailed(p) \/ GoneAgain(p) \/ OtherError(p)
  \/ ServerDown(p) \/ StartTimer(p) \/ OnFailedRequest(p)
CheckStep(n) == CheckFailed(n) \/ UpdateTimer(n) \/ CheckSucceeded(n) \/ RestoreNodeIndex(n)
UpdateStep(u) ==
  Acquire(u) \/ Install(u) \/ KeepTopology(u) \/ CloseTimers(u) \/ ResetMap(u) \/ Release(u)

Next ==
  \/ \E c \in Callers : ExecuteCommand(c) \/ ChooseBalanced(c)
  \/ \E p \in Processes : RequestStep(p)
  \/ \E n \in Nodes : HealthCheck(n) \/ CheckStep(n)
  \/ TopologyTimerFires
  \/ \E u \in Updates : UpdateStep(u)

Spec == Init /\ [][Next]_vars

\* Requests end (the HTTP client has a timeout), goroutines keep running,
\* health-check timers fire, and the semaphore serves every waiter in turn.
\* Callers may stop calling and the topology timer need not fire.
FairSpec ==
  /\ Spec
  /\ \A p \in Callers : WF_vars(RequestStep(p))
  /\ \A n \in Nodes : WF_vars(HealthCheck(n) \/ RequestStep(n) \/ CheckStep(n))
  /\ \A u \in Updates :
       /\ WF_vars(RequestStep(u) \/ UpdateStep(u))
       /\ SF_vars(Acquire(u))

---------------------------------------------------------------------------
(* Properties *)

\* The selector, the timers and the processes' locals keep their types; a
\* failure is recorded only at a place its topology has.
TypeOK ==
  /\ gen \in Gens
  /\ size \in [Gens -> Places]
  /\ \A g \in Gens : failures[g] \subseteq 1..size[g]
  /\ failedNodesTimers \subseteq Nodes
  /\ timer \in [Nodes -> {"off", "armed", "closed"}]
  /\ semaphore \in Updates \cup {None}
  /\ chosenNode \in [Processes -> Nodes \cup {NotInTopology}]
  /\ nodeIndex \in [Processes -> Places]
  /\ \A p \in Processes : failedNodes[p] \subseteq Nodes \cup {NotInTopology}

\* No command, health check or topology request goes to a node on which it
\* already failed: not after a topology update, and not in the retry after
\* 410, which does not look at FailedNodes.  Types are kept.
ContactedOnce ==
  /\ TypeOK
  /\ \A p \in Processes : pc[p] = "send" => chosenNode[p] \notin failedNodes[p]

\* While a node of the current topology has an entry in failedNodesTimers,
\* which keeps others from starting a health check of it, its check is due or
\* running, or its timer is about to be started, or the map about to be
\* replaced.
WatchIsAlive ==
  \A n \in failedNodesTimers : n[1] = gen =>
    \/ timer[n] = "armed"
    \/ pc[n] # "idle"
    \/ \E p \in Processes : pc[p] = "startTimer" /\ chosenNode[p] = n
    \/ \E u \in Updates : pc[u] = "resetMap"

\* Every command returns, however many nodes fail and whatever the topology
\* updates it has to wait for do.
CommandReturns ==
  \A c \in Callers : pc[c] # "idle" ~> pc[c] = "idle" \/ ~Running

\* While the topology stays the same, a failed node with a health check is
\* used again in the end (servers answer the checks in the end).
WatchedNodeComesBack ==
  \A n \in Nodes :
    n \in failedNodesTimers /\ n[1] = gen /\ n[2] \in failures[gen]
      ~> ~(n[1] = gen /\ n[2] \in failures[gen])

\* "we tried all the nodes...nothing left to do" (request_executor.go:1142):
\* a command that gives up has been sent to every node of the topology.
AllNodesTried ==
  [][\A c \in Callers : LET g == scan[c][1]
                       IN pc[c] = "scan" /\ pc'[c] = "idle" =>
                            \A i \in 1..size[g] : <<g, i>> \in failedNodes[c]]_vars

\* "the state was changed and we no longer have it?" (node_selector.go:110):
\* restoreNodeIndex leaves a topology without that place alone.
RestoreInRange == crashed # "restoreNodeIndex"

\* "This is weird and should not happen" (request_executor.go:877): no
\* command ends with that error.
NeverWeird == \A c \in Callers : result[c] # "weird"

\* "will wait for the next timer call" (request_executor.go:1186): a failed
\* check of a node that is still in the topology is repeated.
FailedCheckRepeated ==
  [][\A n \in Nodes : n[1] = gen /\ pc[n] \in {"unhealthy", "rearm"} /\ pc'[n] = "idle"
       => timer'[n] = "armed"]_vars

==========================================================================
