-------------------------- MODULE FailoverProofs --------------------------
(***************************************************************************)
(* Proofs about RequestFailover: no command is sent twice to a node it     *)
(* failed on, and a node's entry in failedNodesTimers always has a health  *)
(* check behind it.                                                        *)
(***************************************************************************)
EXTENDS RequestFailover, FiniteSetTheorems, TLAPS

Labels ==
  {"idle", "choose", "pick", "send", "failover", "scan", "awaitRefresh",
   "awaitMove", "refreshed", "updated", "updateFailed", "startTimer", "blame",
   "healthy", "unhealthy", "rearm", "restore", "acquire", "install",
   "closeTimers", "resetMap", "release", "failed"}

AnyNode == Nodes \cup {NotInTopology}

TypeInv ==
  /\ gen \in Gens
  /\ size \in [Gens -> Places]
  /\ failures \in [Gens -> SUBSET Places]
  /\ failedNodesTimers \subseteq Nodes
  /\ timer \in [Nodes -> {"off", "armed", "closed"}]
  /\ semaphore \in Updates \cup {None}
  /\ pc \in [Processes -> Labels]
  /\ chosenNode \in [Processes -> AnyNode]
  /\ nodeIndex \in [Processes -> Places]
  /\ shouldRetry \in [Processes -> BOOLEAN]
  /\ failedNodes \in [Processes -> SUBSET AnyNode]
  /\ scan \in [Processes -> Gens \X (1..MaxNodes + 1)]

\* Only topologies seen so far have failures, and only nodes of those are
\* chosen, scanned and watched.
GenInv ==
  /\ \A g \in Gens : failures[g] \subseteq 1..size[g] /\ (g > gen => failures[g] = {})
  /\ \A p \in Processes : chosenNode[p][1] <= gen /\ scan[p][1] <= gen
  /\ \A n \in failedNodesTimers : n[1] <= gen

\* A command that may be retried, or that chooses a node without a look at
\* FailedNodes, has not failed anywhere.
Fresh(p) ==
  /\ shouldRetry[p] => p \in Callers /\ pc[p] \notin {"failover", "scan"}
  /\ \/ pc[p] \in {"choose", "pick", "acquire", "awaitMove", "updated"}
     \/ pc[p] = "send" /\ shouldRetry[p]
     => failedNodes[p] = {}
  /\ pc[p] = "send" => chosenNode[p] \notin failedNodes[p]
FreshInv == \A p \in Processes : Fresh(p)

\* While an update that p started runs, p waits for it.
WaitInv ==
  \A p \in Callers \cup Nodes :
    pc[Update(p)] # "idle" => pc[p] \in {"awaitRefresh", "awaitMove"}

ForcedUpdates == {u \in Updates : Forced(u)}
\* forced updates that have a topology to install
Due == {u \in ForcedUpdates : pc[u] \notin {"closeTimers", "resetMap", "release", "failed"}}

\* There is room for the topologies of all of them.
RoomInv ==
  IsFiniteSet(ForcedUpdates) /\ gen + Cardinality(Due) <= MaxGen

\* somebody is about to start the timer of node n, or to drop its entry
Starting(n) == \E p \in Processes : pc[p] = "startTimer" /\ chosenNode[p] = n
Resetting == \E u \in Updates : pc[u] = "resetMap"

\* A health check that is past taking n out of the map counts for nothing, and
\* a closed timer in the map is replaced.
WatchInv ==
  \A n \in failedNodesTimers :
    /\ n[1] = gen =>
         timer[n] = "armed" \/ pc[n] \notin {"idle", "restore"} \/ Starting(n) \/ Resetting
    /\ timer[n] = "closed" => Starting(n) \/ Resetting

IInv == TypeInv /\ GenInv /\ FreshInv /\ WaitInv /\ RoomInv /\ WatchInv

---------------------------------------------------------------------------
(* Processes and nodes.                                                    *)

\* Callers, health checks and updates are different processes, and each
\* process has an update of its own.
LEMMA ProcessFacts ==
  /\ Callers \subseteq Processes /\ Nodes \subseteq Processes /\ Updates \subseteq Processes
  /\ Callers \cap Nodes = {} /\ Callers \cap Updates = {} /\ Nodes \cap Updates = {}
  /\ \A p \in Callers \cup Nodes \cup {TopologyTimer} : Update(p) \in Updates
  /\ \A u \in Updates : \E p \in Callers \cup Nodes \cup {TopologyTimer} : u = Update(p)
  /\ \A p, q : Update(p) = Update(q) => p = q
  /\ TopologyTimer \notin Processes
  /\ \A u \in Updates : Update(u) \notin Updates
<1>1. \A p, q : Update(p) = Update(q) => p = q
  BY DEF Update
<1>2. Nodes \cap Updates = {}
  BY DEF Nodes, Updates, Update, Gens
<1>3. /\ Callers \subseteq Processes /\ Nodes \subseteq Processes /\ Updates \subseteq Processes
      /\ Callers \cap Nodes = {} /\ Callers \cap Updates = {} /\ TopologyTimer \notin Processes
  BY ProcessAssumption DEF Processes
<1>4. /\ \A p \in Callers \cup Nodes \cup {TopologyTimer} : Update(p) \in Updates
      /\ \A u \in Updates : \E p \in Callers \cup Nodes \cup {TopologyTimer} : u = Update(p)
  BY DEF Updates
<1>5. \A u \in Updates : Update(u) \notin Updates
  BY <1>1, <1>2, <1>3, <1>4
<1> QED
  BY <1>1, <1>2, <1>3, <1>4, <1>5

\* A node is a topology and a place in it; the one of no topology has 0.
LEMMA NodeFacts ==
  /\ Gens \subseteq Nat /\ Places \subseteq Nat /\ 1 \in Gens /\ 1 \in Places
  /\ \A g \in Gens, i \in Places : <<g, i>> \in Nodes
  /\ \A n \in Nodes : n[1] \in Gens /\ n[2] \in Places
  /\ NotInTopology \notin Nodes /\ NotInTopology[1] = 0
BY FailoverAssumption DEF Gens, Places, Nodes, NotInTopology

\* Forced updates can be counted.
LEMMA RoomFacts ==
  ASSUME TypeInv, RoomInv
  PROVE  /\ IsFiniteSet(ForcedUpdates) /\ IsFiniteSet(Due)
         /\ Cardinality(ForcedUpdates) \in Nat /\ Cardinality(Due) \in Nat
         /\ Cardinality(Due) <= Cardinality(ForcedUpdates)
         /\ gen \in Nat /\ MaxGen \in Nat /\ gen + Cardinality(Due) <= MaxGen
<1>1. Due \subseteq ForcedUpdates
  BY DEF Due
<1>2. IsFiniteSet(Due) /\ Cardinality(Due) <= Cardinality(ForcedUpdates)
  BY <1>1, FS_Subset DEF RoomInv
<1> QED
  BY <1>2, FS_CardinalityType, FailoverAssumption, NodeFacts DEF RoomInv, TypeInv

\* A forced update that is done needs no more room.
LEMMA RoomShrinks ==
  ASSUME TypeInv, RoomInv, ForcedUpdates' \subseteq ForcedUpdates, Due' \subseteq Due,
         gen' = gen
  PROVE  RoomInv'
<1>1. IsFiniteSet(ForcedUpdates')
  BY RoomFacts, FS_Subset
<1>2. Cardinality(Due') <= Cardinality(Due) /\ Cardinality(Due') \in Nat
  BY RoomFacts, FS_Subset, FS_CardinalityType
<1> QED
  BY <1>1, <1>2, RoomFacts DEF RoomInv

---------------------------------------------------------------------------
(* Steps that move one process.                                            *)

Installed == {"closeTimers", "resetMap", "release", "failed"}

\* Process p takes a step that starts and ends no update.
LEMMA OneProcess ==
  ASSUME IInv, NEW p \in Processes, TypeInv',
         \A q \in Processes \ {p} :
           UNCHANGED <<pc[q], chosenNode[q], shouldRetry[q], failedNodes[q]>>,
         Fresh(p)',
         pc[p] \notin {"awaitRefresh", "awaitMove"}, pc'[p] # "awaitMove",
         p \in Updates => pc[p] # "idle" \/ p = Update(TopologyTimer),
         pc[p] \in Installed => pc'[p] \in Installed,
         gen' = gen
  PROVE  FreshInv' /\ WaitInv' /\ RoomInv'
<1>0. TypeInv /\ FreshInv /\ WaitInv /\ RoomInv
  BY DEF IInv
<1>1. FreshInv'
  BY <1>0 DEF FreshInv, Fresh
<1>2. WaitInv'
  <2> SUFFICES ASSUME NEW q \in Callers \cup Nodes, pc'[Update(q)] # "idle"
               PROVE  pc'[q] \in {"awaitRefresh", "awaitMove"}
    BY DEF WaitInv
  <2>1. q \in Processes /\ Update(q) \in Processes /\ Update(q) # Update(TopologyTimer)
        /\ Update(q) \in Updates
    BY ProcessFacts
  <2>2. pc[Update(q)] # "idle"
    BY <2>1
  <2>3. pc[q] \in {"awaitRefresh", "awaitMove"}
    BY <1>0, <2>2 DEF WaitInv
  <2> QED
    BY <2>1, <2>3
<1>3. RoomInv'
  <2>1. ForcedUpdates' = ForcedUpdates
    <3>1. \A c \in Callers : pc'[c] = "awaitMove" <=> pc[c] = "awaitMove"
      BY ProcessFacts
    <3> QED
      BY <3>1 DEF ForcedUpdates, Forced
  <2>2. Due' \subseteq Due
    BY <2>1, ProcessFacts DEF Due, ForcedUpdates, Installed
  <2> QED
    BY <1>0, <2>1, <2>2, RoomShrinks
<1> QED
  BY <1>1, <1>2, <1>3

\* Process p takes a step that leaves the timers alone, and neither was to
\* start a timer nor to replace the map.
LEMMA WatchKept ==
  ASSUME IInv, NEW p \in Processes,
         \A q \in Processes \ {p} : UNCHANGED <<pc[q], chosenNode[q]>>,
         pc[p] \notin {"startTimer", "resetMap"},
         p \in failedNodesTimers => pc'[p] \notin {"idle", "restore"} \/ pc[p] = "restore",
         UNCHANGED <<gen, failedNodesTimers, timer>>
  PROVE  WatchInv'
<1>0. TypeInv /\ WatchInv
  BY DEF IInv
<1> SUFFICES ASSUME NEW n \in failedNodesTimers PROVE WatchInv!(n)'
  BY DEF WatchInv
<1>1. n \in Processes
  BY <1>0, ProcessFacts DEF TypeInv
<1>2. Starting(n) => Starting(n)'
  BY DEF Starting
<1>3. Resetting => Resetting'
  BY ProcessFacts DEF Resetting
<1> QED
  BY <1>0, <1>1, <1>2, <1>3 DEF WatchInv

\* Process p takes a step that leaves the selector and the timers alone.
LEMMA QuietStep ==
  ASSUME IInv, NEW p \in Processes, TypeInv',
         \A q \in Processes \ {p} :
           UNCHANGED <<pc[q], chosenNode[q], shouldRetry[q], failedNodes[q], scan[q]>>,
         Fresh(p)', chosenNode'[p][1] <= gen, scan'[p][1] <= gen,
         pc[p] \notin {"awaitRefresh", "awaitMove", "startTimer", "resetMap"},
         pc'[p] # "awaitMove",
         p \in Updates => pc[p] # "idle" \/ p = Update(TopologyTimer),
         pc[p] \in Installed => pc'[p] \in Installed,
         p \in failedNodesTimers => pc'[p] \notin {"idle", "restore"} \/ pc[p] = "restore",
         UNCHANGED <<gen, size, failures, failedNodesTimers, timer>>
  PROVE  IInv'
<1>0. TypeInv /\ GenInv
  BY DEF IInv
<1>1. FreshInv' /\ WaitInv' /\ RoomInv'
  BY OneProcess
<1>2. GenInv'
  BY <1>0 DEF GenInv
<1>3. WatchInv'
  BY WatchKept
<1> QED
  BY <1>1, <1>2, <1>3 DEF IInv

Results == {"ok", "weird", "error", "gaveUp"}

\* Execute returns: to a caller, or to the health check or update it ran for.
LEMMA Returns ==
  ASSUME IInv, NEW p \in Processes, NEW r \in Results, Return(p, r),
         pc[p] \in {"send", "scan", "refreshed", "updateFailed"},
         UNCHANGED <<selector, timers, semaphore>>
  PROVE  IInv'
<1>0. TypeInv /\ GenInv
  BY DEF IInv
<1> DEFINE l == Continuation(p, r)
<1>1. /\ l \in {"idle", "healthy", "unhealthy", "install", "failed"}
      /\ p \in Nodes => l # "idle"
  BY ProcessFacts DEF Continuation, Processes
<1> HIDE DEF l
<1>2. /\ pc' = [pc EXCEPT ![p] = l]
      /\ chosenNode' = [chosenNode EXCEPT ![p] = NotInTopology]
      /\ nodeIndex' = [nodeIndex EXCEPT ![p] = 1]
      /\ shouldRetry' = [shouldRetry EXCEPT ![p] = FALSE]
      /\ failedNodes' = [failedNodes EXCEPT ![p] = {}]
      /\ scan' = [scan EXCEPT ![p] = <<1, 1>>]
      /\ UNCHANGED <<gen, size, failures, failedNodesTimers, timer, semaphore>>
  BY DEF Return, Begin, Goto, selector, timers, l
<1>3. TypeInv'
  <2>1. pc' \in [Processes -> Labels]
    BY <1>0, <1>1, <1>2 DEF TypeInv, Labels
  <2>2. <<1, 1>> \in Gens \X (1..MaxNodes + 1)
    BY NodeFacts, FailoverAssumption
  <2> QED
    BY <1>0, <1>2, <2>1, <2>2, NodeFacts DEF TypeInv, AnyNode
<1>4. \A q \in Processes \ {p} :
         UNCHANGED <<pc[q], chosenNode[q], shouldRetry[q], failedNodes[q], scan[q]>>
  BY <1>0, <1>2 DEF TypeInv
<1>5. /\ pc'[p] = l /\ ~shouldRetry'[p] /\ failedNodes'[p] = {}
      /\ chosenNode'[p] = NotInTopology /\ scan'[p] = <<1, 1>>
  BY <1>0, <1>2 DEF TypeInv
<1>6. Fresh(p)'
  BY <1>1, <1>5 DEF Fresh
<1>7. chosenNode'[p][1] <= gen /\ scan'[p][1] <= gen
  BY <1>0, <1>5, NodeFacts DEF TypeInv, Gens
<1>8. pc'[p] # "awaitMove" /\ (p \in failedNodesTimers => pc'[p] \notin {"idle", "restore"})
  BY <1>0, <1>1, <1>5 DEF TypeInv
<1> QED
  BY <1>2, <1>3, <1>4, <1>6, <1>7, <1>8, QuietStep, Zenon DEF Installed

\* The request is sent to node n: a fresh one, or one that did not fail there.
LEMMA Sends ==
  ASSUME IInv, NEW p \in Processes, NEW n \in Nodes, Send(p, n), n[1] <= gen,
         pc[p] \in {"choose", "pick", "scan"},
         pc[p] = "scan" => n \notin failedNodes[p],
         UNCHANGED <<selector, timers, semaphore>>
  PROVE  IInv'
<1>0. TypeInv /\ GenInv /\ FreshInv
  BY DEF IInv
<1>2. /\ pc' = [pc EXCEPT ![p] = "send"]
      /\ chosenNode' = [chosenNode EXCEPT ![p] = n]
      /\ nodeIndex' = [nodeIndex EXCEPT ![p] = n[2]]
      /\ scan' = [scan EXCEPT ![p] = <<1, 1>>]
      /\ UNCHANGED <<shouldRetry, failedNodes>>
      /\ UNCHANGED <<gen, size, failures, failedNodesTimers, timer, semaphore>>
  BY DEF Send, Goto, selector, timers
<1>3. TypeInv'
  <2>1. pc' \in [Processes -> Labels]
    BY <1>0, <1>2 DEF TypeInv, Labels
  <2>2. <<1, 1>> \in Gens \X (1..MaxNodes + 1)
    BY NodeFacts, FailoverAssumption
  <2> QED
    BY <1>0, <1>2, <2>1, <2>2, NodeFacts DEF TypeInv, AnyNode
<1>4. \A q \in Processes \ {p} :
         UNCHANGED <<pc[q], chosenNode[q], shouldRetry[q], failedNodes[q], scan[q]>>
  BY <1>0, <1>2 DEF TypeInv
<1>5. /\ pc'[p] = "send" /\ chosenNode'[p] = n /\ scan'[p] = <<1, 1>>
  BY <1>0, <1>2 DEF TypeInv
<1>6. Fresh(p)'
  BY <1>0, <1>2, <1>5 DEF Fresh, FreshInv
<1>7. chosenNode'[p][1] <= gen /\ scan'[p][1] <= gen
  BY <1>0, <1>5, NodeFacts DEF TypeInv, Gens
<1> QED
  BY <1>2, <1>3, <1>4, <1>5, <1>6, <1>7, QuietStep DEF Installed

---------------------------------------------------------------------------
(* Commands.                                                               *)

\* ExecuteCommand keeps the invariant: a fresh command has failed nowhere.
LEMMA ExecuteCommandKeeps ==
  ASSUME IInv, NEW c \in Callers, ExecuteCommand(c) PROVE IInv'
<1>0. TypeInv /\ GenInv /\ c \in Processes /\ c \notin Updates /\ c \notin Nodes
  BY ProcessFacts DEF IInv
<1>2. /\ pc[c] = "idle" /\ pc' = [pc EXCEPT ![c] = "choose"]
      /\ chosenNode' = [chosenNode EXCEPT ![c] = NotInTopology]
      /\ nodeIndex' = [nodeIndex EXCEPT ![c] = 1]
      /\ shouldRetry' = [shouldRetry EXCEPT ![c] = TRUE]
      /\ failedNodes' = [failedNodes EXCEPT ![c] = {}]
      /\ UNCHANGED <<gen, size, failures, failedNodesTimers, timer, semaphore, scan>>
  BY DEF ExecuteCommand, Begin, Goto, selector, timers
<1>3. TypeInv'
  <2>1. pc' \in [Processes -> Labels]
    BY <1>0, <1>2 DEF TypeInv, Labels
  <2> QED
    BY <1>0, <1>2, <2>1, NodeFacts DEF TypeInv, AnyNode
<1>4. \A q \in Processes \ {c} :
         UNCHANGED <<pc[q], chosenNode[q], shouldRetry[q], failedNodes[q], scan[q]>>
  BY <1>0, <1>2 DEF TypeInv
<1>5. pc'[c] = "choose" /\ failedNodes'[c] = {} /\ chosenNode'[c] = NotInTopology
  BY <1>0, <1>2 DEF TypeInv
<1>6. Fresh(c)'
  BY <1>5 DEF Fresh
<1>7. chosenNode'[c][1] <= gen /\ scan'[c][1] <= gen
  BY <1>0, <1>2, <1>5, NodeFacts DEF TypeInv, GenInv
<1> QED
  BY <1>0, <1>2, <1>3, <1>4, <1>5, <1>6, <1>7, QuietStep, Zenon DEF Installed

\* getPreferredNode reads the topology in use, and goes on from a failed node.
LEMMA ScanKeeps ==
  ASSUME IInv, NEW p \in Processes, GetPreferredNode(p) \/ SkipFailed(p) PROVE IInv'
<1>0. TypeInv /\ GenInv /\ FreshInv
  BY DEF IInv
<1>1. PICK l \in {"pick", "scan"}, s \in Gens \X (1..MaxNodes + 1) :
        /\ pc' = [pc EXCEPT ![p] = l] /\ scan' = [scan EXCEPT ![p] = s] /\ s[1] <= gen
        /\ \/ pc[p] = "choose" /\ l = "pick"
           \/ pc[p] = "failover" /\ l = "scan"
           \/ pc[p] = l
  <2>1. CASE GetPreferredNode(p)
    <3>1. <<gen, 1>> \in Gens \X (1..MaxNodes + 1) /\ <<gen, 1>>[1] <= gen
      BY <1>0, NodeFacts, FailoverAssumption DEF TypeInv
    <3> QED
      BY <2>1, <3>1, Zenon DEF GetPreferredNode, Goto
  <2>2. CASE SkipFailed(p)
    <3> DEFINE g == scan[p][1]
               i == scan[p][2]
    <3>1. g \in Gens /\ i \in 1..MaxNodes + 1 /\ size[g] \in 1..MaxNodes /\ g <= gen
      BY <1>0 DEF TypeInv, Places, GenInv
    <3>2. i <= size[g] /\ pc[p] \in {"pick", "scan"} /\ pc' = pc
          /\ scan' = [scan EXCEPT ![p] = <<g, i + 1>>]
      BY <2>2 DEF SkipFailed
    <3>3. <<g, i + 1>> \in Gens \X (1..MaxNodes + 1) /\ <<g, i + 1>>[1] <= gen
      BY <3>1, <3>2, FailoverAssumption
    <3>4. pc' = [pc EXCEPT ![p] = pc[p]]
      BY <1>0, <3>2 DEF TypeInv
    <3> QED
      BY <3>2, <3>3, <3>4, Zenon
  <2> QED
    BY <2>1, <2>2
<1>2. UNCHANGED <<gen, size, failures, failedNodesTimers, timer, semaphore, chosenNode,
                  nodeIndex, shouldRetry, failedNodes>>
  BY DEF GetPreferredNode, SkipFailed, selector, timers
<1>3. TypeInv'
  <2>1. pc' \in [Processes -> Labels]
    BY <1>0, <1>1 DEF TypeInv, Labels
  <2> QED
    BY <1>0, <1>1, <1>2, <2>1 DEF TypeInv
<1>4. \A q \in Processes \ {p} :
         UNCHANGED <<pc[q], chosenNode[q], shouldRetry[q], failedNodes[q], scan[q]>>
  BY <1>0, <1>1, <1>2 DEF TypeInv
<1>5. pc'[p] = l /\ scan'[p] = s
  BY <1>0, <1>1 DEF TypeInv
<1>6. Fresh(p)'
  BY <1>0, <1>1, <1>2, <1>5 DEF Fresh, FreshInv
<1>7. chosenNode'[p][1] <= gen /\ scan'[p][1] <= gen
  BY <1>0, <1>1, <1>2, <1>5, Zenon DEF GenInv
<1> QED
  BY <1>1, <1>2, <1>3, <1>4, <1>5, <1>6, <1>7, QuietStep DEF Installed

\* handleServerDown, and only that, gives up on a node the command failed on.
LEMMA TakeNodeKeeps ==
  ASSUME IInv, NEW p \in Processes, NEW n \in Nodes, n[1] <= gen, TakeNode(p, n),
         pc[p] \in {"pick", "scan"}, UNCHANGED <<selector, timers, semaphore>>
  PROVE  IInv'
<1>1. CASE Return(p, "gaveUp") /\ pc[p] = "scan"
  BY <1>1, Returns DEF Results
<1>2. CASE Send(p, n) /\ ~(pc[p] = "scan" /\ n \in failedNodes[p])
  BY <1>2, Sends
<1> QED
  BY <1>1, <1>2 DEF TakeNode

\* A node is chosen: the first one without failures, or, when all have
\* failed, the first one; with read balancing any one without failures.
LEMMA ChoiceKeeps ==
  ASSUME IInv, NEW p \in Processes,
         ChooseBalanced(p) \/ TakePreferred(p) \/ UnlikelyEveryoneFaultedChoice(p)
  PROVE  IInv'
<1>0. TypeInv /\ GenInv
  BY DEF IInv
<1> DEFINE g == scan[p][1]
           i == scan[p][2]
<1>1. g \in Gens /\ i \in 1..MaxNodes + 1 /\ size[g] \in 1..MaxNodes /\ g <= gen
      /\ gen \in Gens /\ size[gen] \in 1..MaxNodes
  BY <1>0 DEF TypeInv, Places, GenInv
<1>2. CASE ChooseBalanced(p)
  <2>1. PICK j \in 1..size[gen] : Send(p, <<gen, j>>)
    BY <1>2 DEF ChooseBalanced
  <2>2. <<gen, j>> \in Nodes /\ <<gen, j>>[1] <= gen
    BY <1>1, <2>1, NodeFacts, FailoverAssumption DEF Places
  <2> QED
    BY <1>2, <2>1, <2>2, Sends DEF ChooseBalanced
<1>3. CASE TakePreferred(p)
  <2>1. /\ pc[p] \in {"pick", "scan"} /\ i <= size[g] /\ TakeNode(p, <<g, i>>)
        /\ UNCHANGED <<selector, timers, semaphore>>
    BY <1>3 DEF TakePreferred
  <2>a. i \in Places
    BY <1>1, <2>1, FailoverAssumption DEF Places
  <2> HIDE DEF g, i
  <2>2. <<g, i>> \in Nodes /\ <<g, i>>[1] <= gen
    BY <1>1, <2>a, NodeFacts
  <2> QED
    BY <2>1, <2>2, TakeNodeKeeps
<1>4. CASE UnlikelyEveryoneFaultedChoice(p)
  <2>1. /\ pc[p] \in {"pick", "scan"} /\ TakeNode(p, <<g, 1>>)
        /\ UNCHANGED <<selector, timers, semaphore>>
    BY <1>4 DEF UnlikelyEveryoneFaultedChoice
  <2>2. <<g, 1>> \in Nodes /\ <<g, 1>>[1] <= gen
    BY <1>1, NodeFacts, Zenon
  <2> QED
    BY <2>1, <2>2, TakeNodeKeeps
<1> QED
  BY <1>2, <1>3, <1>4

\* The retry after 410 chooses a node as a fresh command does.
LEMMA RetryMovedKeeps ==
  ASSUME IInv, NEW p \in Processes, RetryMoved(p) PROVE IInv'
<1>0. TypeInv /\ GenInv /\ FreshInv
  BY DEF IInv
<1>2. /\ pc[p] = "updated" /\ pc' = [pc EXCEPT ![p] = "choose"]
      /\ shouldRetry' = [shouldRetry EXCEPT ![p] = FALSE]
      /\ UNCHANGED <<gen, size, failures, failedNodesTimers, timer, semaphore, chosenNode,
                     nodeIndex, failedNodes, scan>>
  BY DEF RetryMoved, Goto, selector, timers
<1>3. TypeInv'
  <2>1. pc' \in [Processes -> Labels]
    BY <1>0, <1>2 DEF TypeInv, Labels
  <2> QED
    BY <1>0, <1>2, <2>1 DEF TypeInv
<1>4. \A q \in Processes \ {p} :
         UNCHANGED <<pc[q], chosenNode[q], shouldRetry[q], failedNodes[q], scan[q]>>
  BY <1>0, <1>2 DEF TypeInv
<1>5. pc'[p] = "choose" /\ ~shouldRetry'[p]
  BY <1>0, <1>2 DEF TypeInv
<1>6. Fresh(p)'
  BY <1>0, <1>2, <1>5 DEF Fresh, FreshInv
<1>7. chosenNode'[p][1] <= gen /\ scan'[p][1] <= gen
  BY <1>0, <1>2 DEF GenInv
<1> QED
  BY <1>2, <1>3, <1>4, <1>5, <1>6, <1>7, QuietStep, Zenon DEF Installed

\* The command's node is recorded, and its entry in the map is made with the
\* promise to start its timer.
LEMMA ServerDownKeeps ==
  ASSUME IInv, NEW p \in Processes, ServerDown(p) PROVE IInv'
<1>0. TypeInv /\ GenInv /\ FreshInv /\ WatchInv
  BY DEF IInv
<1> DEFINE n == chosenNode[p]
<1>1. n \in AnyNode /\ n[1] <= gen
  BY <1>0 DEF TypeInv, GenInv
<1>2. PICK l \in {"startTimer", "blame"} :
        /\ pc[p] = "send" /\ pc' = [pc EXCEPT ![p] = l]
        /\ failedNodes' = [failedNodes EXCEPT ![p] = @ \cup {n}]
        /\ \/ l = "startTimer" /\ n \in Nodes /\ failedNodesTimers' = failedNodesTimers \cup {n}
           \/ failedNodesTimers' = failedNodesTimers
        /\ UNCHANGED <<gen, size, failures, timer, semaphore, chosenNode, nodeIndex,
                       shouldRetry, scan>>
  BY DEF ServerDown, Goto, selector
<1>3. TypeInv'
  <2>1. pc' \in [Processes -> Labels]
    BY <1>0, <1>2 DEF TypeInv, Labels
  <2>2. failedNodes' \in [Processes -> SUBSET AnyNode]
    BY <1>0, <1>1, <1>2 DEF TypeInv
  <2> QED
    BY <1>0, <1>2, <2>1, <2>2 DEF TypeInv
<1>4. \A q \in Processes \ {p} :
         UNCHANGED <<pc[q], chosenNode[q], shouldRetry[q], failedNodes[q], scan[q]>>
  BY <1>0, <1>2 DEF TypeInv
<1>5. pc'[p] = l
  BY <1>0, <1>2 DEF TypeInv
<1>6. Fresh(p)'
  BY <1>0, <1>2, <1>5 DEF Fresh, FreshInv
<1>7. FreshInv' /\ WaitInv' /\ RoomInv'
  BY <1>2, <1>3, <1>4, <1>5, <1>6, OneProcess DEF Installed
<1>8. GenInv'
  BY <1>0, <1>1, <1>2 DEF GenInv
<1>9. WatchInv'
  <2> SUFFICES ASSUME NEW m \in failedNodesTimers' PROVE WatchInv!(m)'
    BY DEF WatchInv
  <2>1. CASE m \in failedNodesTimers
    <3>1. m \in Processes
      BY <1>0, <2>1, ProcessFacts DEF TypeInv
    <3>2. Starting(m) => Starting(m)'
      BY <1>2, <1>4, Zenon DEF Starting
    <3>3. Resetting => Resetting'
      BY <1>2, <1>4, ProcessFacts, Zenon DEF Resetting
    <3> QED
      BY <1>0, <1>2, <1>4, <1>5, <2>1, <3>1, <3>2, <3>3 DEF WatchInv
  <2>2. CASE m = n /\ l = "startTimer"
    <3>1. Starting(m)'
      BY <1>2, <1>5, <2>2 DEF Starting
    <3> QED
      BY <3>1, Zenon
  <2> QED
    BY <1>2, <2>1, <2>2, Zenon
<1> QED
  BY <1>3, <1>7, <1>8, <1>9 DEF IInv

\* The timer is started.
LEMMA StartTimerKeeps ==
  ASSUME IInv, NEW p \in Processes, StartTimer(p) PROVE IInv'
<1>0. TypeInv /\ GenInv /\ FreshInv /\ WatchInv
  BY DEF IInv
<1> DEFINE n == chosenNode[p]
<1>2. /\ pc[p] = "startTimer" /\ pc' = [pc EXCEPT ![p] = "blame"]
      /\ timer' = [timer EXCEPT ![n] = "armed"]
      /\ UNCHANGED <<gen, size, failures, failedNodesTimers, semaphore, chosenNode, nodeIndex,
                     shouldRetry, failedNodes, scan>>
  BY DEF StartTimer, Goto, selector, command
<1>3. TypeInv'
  <2>1. pc' \in [Processes -> Labels]
    BY <1>0, <1>2 DEF TypeInv, Labels
  <2> QED
    BY <1>0, <1>2, <2>1, Zenon DEF TypeInv
<1>4. \A q \in Processes \ {p} :
         UNCHANGED <<pc[q], chosenNode[q], shouldRetry[q], failedNodes[q], scan[q]>>
  BY <1>0, <1>2 DEF TypeInv
<1>5. pc'[p] = "blame"
  BY <1>0, <1>2 DEF TypeInv
<1>6. Fresh(p)'
  BY <1>0, <1>2, <1>5 DEF Fresh, FreshInv
<1>7. FreshInv' /\ WaitInv' /\ RoomInv'
  BY <1>2, <1>3, <1>4, <1>5, <1>6, OneProcess, Zenon DEF Installed
<1>8. GenInv'
  BY <1>0, <1>2, Zenon DEF GenInv
<1>9. WatchInv'
  <2> SUFFICES ASSUME NEW m \in failedNodesTimers PROVE WatchInv!(m)'
    BY <1>2, Zenon DEF WatchInv
  <2>1. m \in Processes /\ m \in Nodes
    BY <1>0, ProcessFacts DEF TypeInv
  <2>2. CASE m = n
    <3>1. timer'[m] = "armed"
      BY <1>0, <1>2, <2>1, <2>2 DEF TypeInv
    <3> QED
      BY <3>1
  <2>3. CASE m # n
    <3>1. timer'[m] = timer[m]
      BY <1>0, <1>2, <2>1, <2>3 DEF TypeInv
    <3>2. Starting(m) => Starting(m)'
      BY <1>2, <1>4, <2>3, Zenon DEF Starting
    <3>3. Resetting => Resetting'
      BY <1>2, <1>4, ProcessFacts, Zenon DEF Resetting
    <3> QED
      BY <1>0, <1>2, <1>4, <1>5, <2>1, <3>1, <3>2, <3>3, Zenon DEF WatchInv
  <2> QED
    BY <2>2, <2>3, Zenon
<1> QED
  BY <1>3, <1>7, <1>8, <1>9 DEF IInv

\* A failure is recorded at a place the topology in use has.
LEMMA OnFailedRequestKeeps ==
  ASSUME IInv, NEW p \in Processes, OnFailedRequest(p) PROVE IInv'
<1>0. TypeInv /\ GenInv /\ FreshInv
  BY DEF IInv
<1>2. /\ pc[p] = "blame" /\ pc' = [pc EXCEPT ![p] = "failover"]
      /\ failures' = IF nodeIndex[p] <= size[gen]
                     THEN [failures EXCEPT ![gen] = @ \cup {nodeIndex[p]}] ELSE failures
      /\ shouldRetry' = [shouldRetry EXCEPT ![p] = FALSE]
      /\ UNCHANGED <<gen, size, failedNodesTimers, timer, semaphore, chosenNode, nodeIndex,
                     failedNodes, scan>>
  BY Zenon DEF OnFailedRequest, Goto, timers
<1>a. nodeIndex[p] \in Places /\ gen \in Gens
  BY <1>0 DEF TypeInv
<1>3. TypeInv'
  <2>1. pc' \in [Processes -> Labels]
    BY <1>0, <1>2 DEF TypeInv, Labels
  <2>2. failures' \in [Gens -> SUBSET Places]
    BY <1>0, <1>2, <1>a DEF TypeInv
  <2> QED
    BY <1>0, <1>2, <2>1, <2>2, Zenon DEF TypeInv
<1>4. \A q \in Processes \ {p} :
         UNCHANGED <<pc[q], chosenNode[q], shouldRetry[q], failedNodes[q], scan[q]>>
  BY <1>0, <1>2 DEF TypeInv
<1>5. pc'[p] = "failover" /\ ~shouldRetry'[p]
  BY <1>0, <1>2 DEF TypeInv
<1>6. Fresh(p)'
  BY <1>0, <1>2, <1>5 DEF Fresh, FreshInv
<1>7. FreshInv' /\ WaitInv' /\ RoomInv'
  BY <1>2, <1>3, <1>4, <1>5, <1>6, OneProcess, Zenon DEF Installed
<1>8. GenInv'
  <2>1. \A g \in Gens : g # gen => failures'[g] = failures[g]
    BY <1>0, <1>2 DEF TypeInv
  <2>2. failures'[gen] \subseteq failures[gen] \cup {i \in Places : i <= size[gen]}
    BY <1>0, <1>2, <1>a DEF TypeInv
  <2>3. failures'[gen] \subseteq 1..size[gen]
    <3>1. gen \in Gens /\ size[gen] \in Places /\ failures[gen] \subseteq 1..size[gen]
      BY <1>0, Zenon DEF GenInv, TypeInv
    <3>2. {i \in Places : i <= size[gen]} \subseteq 1..size[gen]
      BY ONLY <3>1, FailoverAssumption DEF Places
    <3> QED
      BY <2>2, <3>1, <3>2, Zenon
  <2>4. \A g \in Gens : failures'[g] \subseteq 1..size[g] /\ (g > gen => failures'[g] = {})
    BY <1>0, <1>a, <2>1, <2>3, NodeFacts DEF GenInv
  <2> QED
    BY <1>0, <1>2, <2>4, Zenon DEF GenInv
<1>9. WatchInv'
  BY <1>2, <1>4, <1>5, WatchKept
<1> QED
  BY <1>3, <1>7, <1>8, <1>9 DEF IInv

\* p starts an update and waits for it; a forced one finds room.
LEMMA StartUpdateKeeps ==
  ASSUME IInv, NEW p \in Callers \cup Nodes, NEW n \in AnyNode, n[1] <= gen,
         NEW l \in {"awaitRefresh", "awaitMove"},
         pc[p] = "send", StartUpdate(p, n, l),
         l = "awaitMove" => shouldRetry[p] /\ RoomForTopology,
         UNCHANGED <<selector, timers, semaphore>>
  PROVE  IInv'
<1> DEFINE u == Update(p)
<1>0. TypeInv /\ GenInv /\ FreshInv /\ WaitInv /\ RoomInv /\ WatchInv
  BY DEF IInv
<1>1. /\ p \in Processes /\ u \in Processes /\ u \in Updates /\ u # p /\ u \notin Callers
      /\ u \notin Nodes /\ p \notin Updates
      /\ \A q \in Callers \cup Nodes : q # p => Update(q) # u
  BY ProcessFacts
<1> HIDE DEF u
<1>2. /\ pc' = [pc EXCEPT ![p] = l, ![u] = "acquire"]
      /\ chosenNode' = [chosenNode EXCEPT ![u] = n]
      /\ nodeIndex' = [nodeIndex EXCEPT ![u] = 1]
      /\ shouldRetry' = [shouldRetry EXCEPT ![u] = FALSE]
      /\ failedNodes' = [failedNodes EXCEPT ![u] = {}]
      /\ UNCHANGED <<gen, size, failures, failedNodesTimers, timer, semaphore, scan>>
  BY DEF StartUpdate, Begin, selector, timers, u
<1>3. TypeInv'
  <2>1. pc' \in [Processes -> Labels]
    BY <1>0, <1>2, Zenon DEF TypeInv, Labels
  <2> QED
    BY <1>0, <1>2, <2>1, NodeFacts, Zenon DEF TypeInv
<1>4. \A q \in Processes \ {p, u} :
         UNCHANGED <<pc[q], chosenNode[q], shouldRetry[q], failedNodes[q]>>
  BY <1>0, <1>2, Zenon DEF TypeInv
<1>5. /\ pc'[p] = l /\ UNCHANGED <<chosenNode[p], shouldRetry[p], failedNodes[p]>>
      /\ pc'[u] = "acquire" /\ chosenNode'[u] = n /\ ~shouldRetry'[u] /\ failedNodes'[u] = {}
  BY <1>0, <1>1, <1>2, Zenon DEF TypeInv
<1>6. pc[u] = "idle"
  BY <1>0 DEF WaitInv, u
<1>7. FreshInv'
  <2>1. Fresh(p)'
    BY <1>0, <1>1, <1>5, Zenon DEF Fresh, FreshInv
  <2>2. Fresh(u)'
    BY <1>5 DEF Fresh
  <2> QED
    BY <1>0, <1>4, <2>1, <2>2, Zenon DEF FreshInv, Fresh
<1>8. WaitInv'
  <2> SUFFICES ASSUME NEW q \in Callers \cup Nodes, pc'[Update(q)] # "idle"
               PROVE  pc'[q] \in {"awaitRefresh", "awaitMove"}
    BY DEF WaitInv
  <2>1. CASE q = p
    BY <1>5, <2>1
  <2>2. CASE q # p
    <3>1. Update(q) \in Processes \ {p, u} /\ q \in Processes \ {p, u}
      BY <1>1, <2>2, ProcessFacts, Zenon
    <3> QED
      BY <1>0, <1>4, <3>1, Zenon DEF WaitInv
  <2> QED
    BY <2>1, <2>2
<1>9. GenInv'
  <2>1. \A q \in Processes : chosenNode'[q][1] <= gen
    BY <1>0, <1>4, <1>5, Zenon DEF GenInv
  <2> QED
    BY <1>0, <1>2, <2>1, Zenon DEF GenInv
<1>10. RoomInv'
  <2>1. CASE l = "awaitRefresh"
    <3>1. \A c \in Callers : pc'[c] = "awaitMove" <=> pc[c] = "awaitMove"
      BY <1>1, <1>4, <1>5, <2>1, ProcessFacts, Zenon
    <3>2. ForcedUpdates' = ForcedUpdates
      BY <3>1 DEF ForcedUpdates, Forced
    <3>3. Due' \subseteq Due
      BY <1>1, <1>4, <1>6, <3>2, ProcessFacts, Zenon DEF Due, ForcedUpdates
    <3> QED
      BY <1>0, <1>2, <3>2, <3>3, RoomShrinks
  <2>2. CASE l = "awaitMove"
    <3>1. p \in Callers /\ RoomForTopology
      BY <1>0, <1>1, <2>2, Zenon DEF FreshInv, Fresh
    <3>2. \A c \in Callers : pc'[c] = "awaitMove" <=> pc[c] = "awaitMove" \/ c = p
      BY <1>1, <1>4, <1>5, <2>2, ProcessFacts, Zenon
    <3>3. ForcedUpdates' = ForcedUpdates \cup {u}
      BY <1>1, <3>1, <3>2, Zenon DEF ForcedUpdates, Forced, u
    <3>4. Due' \subseteq Due \cup {u}
      BY <1>1, <1>4, <3>3, ProcessFacts, Zenon DEF Due, ForcedUpdates
    <3>5. gen + Cardinality(ForcedUpdates) < MaxGen
      BY <3>1 DEF RoomForTopology, ForcedUpdates
    <3>6. IsFiniteSet(ForcedUpdates')
      BY <1>0, <3>3, RoomFacts, FS_AddElement
    <3>7. /\ IsFiniteSet(Due \cup {u}) /\ Cardinality(Due \cup {u}) \in Nat
          /\ Cardinality(Due \cup {u}) <= Cardinality(Due) + 1
      <4>1. IsFiniteSet(Due) /\ Cardinality(Due) \in Nat
        BY <1>0, RoomFacts
      <4>2. /\ IsFiniteSet(Due \cup {u})
            /\ \/ Cardinality(Due \cup {u}) = Cardinality(Due)
               \/ Cardinality(Due \cup {u}) = Cardinality(Due) + 1
        BY ONLY <4>1, FS_AddElement
      <4> QED
        BY ONLY <4>1, <4>2
    <3>8. Cardinality(Due') \in Nat /\ Cardinality(Due') <= Cardinality(Due \cup {u})
      BY <3>4, <3>7, FS_Subset, FS_CardinalityType
    <3> QED
      BY <1>0, <1>2, <3>5, <3>6, <3>7, <3>8, RoomFacts DEF RoomInv
  <2> QED
    BY <2>1, <2>2, Zenon
<1>11. WatchInv'
  <2> SUFFICES ASSUME NEW m \in failedNodesTimers PROVE WatchInv!(m)'
    BY <1>2, Zenon DEF WatchInv
  <2>1. m \in Processes /\ m # u
    BY <1>0, <1>1, ProcessFacts DEF TypeInv
  <2>2. Starting(m) => Starting(m)'
    BY <1>4, <1>6, Zenon DEF Starting
  <2>3. Resetting => Resetting'
    BY <1>4, <1>6, ProcessFacts, Zenon DEF Resetting
  <2> QED
    BY <1>0, <1>2, <1>4, <1>5, <2>1, <2>2, <2>3, Zenon DEF WatchInv
<1> QED
  BY <1>3, <1>7, <1>8, <1>9, <1>10, <1>11, Zenon DEF IInv

\* An answer asks for a newer topology, or says that the database has moved.
LEMMA RefreshKeeps ==
  ASSUME IInv, NEW p \in Processes, AnsweredRefresh(p) \/ Gone(p) PROVE IInv'
<1>0. TypeInv /\ GenInv /\ FreshInv
  BY DEF IInv
<1>1. CASE AnsweredRefresh(p)
  <2>1. p \in Callers \cup Nodes
    BY <1>1 DEF AnsweredRefresh, Processes
  <2>2. NotInTopology \in AnyNode /\ NotInTopology[1] <= gen
    <3>1. NotInTopology[1] = 0 /\ gen \in Nat
      BY <1>0, NodeFacts, Zenon DEF TypeInv
    <3>2. 0 <= gen
      BY <3>1
    <3> QED
      BY <3>1, <3>2, Zenon DEF AnyNode
  <2> QED
    BY <1>1, <2>1, <2>2, StartUpdateKeeps, Zenon DEF AnsweredRefresh
<1>2. CASE Gone(p)
  <2>1. p \in Callers
    BY <1>0, <1>2, Zenon DEF Gone, FreshInv, Fresh
  <2>2. chosenNode[p] \in AnyNode /\ chosenNode[p][1] <= gen
    BY <1>0 DEF TypeInv, GenInv
  <2> QED
    BY <1>2, <2>1, <2>2, StartUpdateKeeps, Zenon DEF Gone
<1> QED
  BY <1>1, <1>2

---------------------------------------------------------------------------
(* Health checks.                                                          *)

\* A check that is due is run, if its node is in the topology in use.
LEMMA HealthCheckKeeps ==
  ASSUME IInv, NEW n \in Nodes, HealthCheck(n) PROVE IInv'
<1>0. TypeInv /\ GenInv /\ FreshInv /\ WatchInv /\ n \in Processes
  BY ProcessFacts DEF IInv
<1>2. /\ timer[n] = "armed" /\ pc[n] = "idle" /\ timer' = [timer EXCEPT ![n] = "off"]
      /\ UNCHANGED <<gen, size, failures, failedNodesTimers, semaphore, scan>>
  BY DEF HealthCheck, selector
<1>a. \/ /\ n[1] = gen /\ pc' = [pc EXCEPT ![n] = "send"]
         /\ chosenNode' = [chosenNode EXCEPT ![n] = n]
         /\ nodeIndex' = [nodeIndex EXCEPT ![n] = n[2]]
         /\ shouldRetry' = [shouldRetry EXCEPT ![n] = FALSE]
         /\ failedNodes' = [failedNodes EXCEPT ![n] = {}]
      \/ n[1] # gen /\ UNCHANGED <<pc, chosenNode, nodeIndex, shouldRetry, failedNodes>>
  BY DEF HealthCheck, Begin, Goto
<1>b. timer' \in [Nodes -> {"off", "armed", "closed"}]
  BY <1>0, <1>2 DEF TypeInv
<1>3. TypeInv'
  <2>1. CASE n[1] = gen
    <3>1. pc' \in [Processes -> Labels]
      BY <1>0, <1>a, <2>1 DEF TypeInv, Labels
    <3>2. chosenNode' \in [Processes -> AnyNode] /\ nodeIndex' \in [Processes -> Places]
      BY <1>0, <1>a, <2>1, NodeFacts DEF TypeInv, AnyNode
    <3> QED
      BY <1>0, <1>2, <1>a, <1>b, <2>1, <3>1, <3>2, Zenon DEF TypeInv
  <2>2. CASE n[1] # gen
    BY <1>0, <1>2, <1>a, <1>b, <2>2 DEF TypeInv
  <2> QED
    BY <2>1, <2>2
<1>4. \A q \in Processes \ {n} :
         UNCHANGED <<pc[q], chosenNode[q], shouldRetry[q], failedNodes[q]>>
  BY <1>0, <1>a DEF TypeInv
<1>5. \/ /\ n[1] = gen /\ pc'[n] = "send" /\ chosenNode'[n] = n /\ ~shouldRetry'[n]
         /\ failedNodes'[n] = {}
      \/ n[1] # gen /\ UNCHANGED <<pc[n], chosenNode[n], shouldRetry[n], failedNodes[n]>>
  BY <1>0, <1>a DEF TypeInv
<1>6. Fresh(n)'
  BY <1>0, <1>5 DEF Fresh, FreshInv
<1>c. n \notin Updates /\ pc'[n] \in {"idle", "send"}
  BY <1>2, <1>5, ProcessFacts, Zenon
<1>7. FreshInv' /\ WaitInv' /\ RoomInv'
  BY <1>0, <1>2, <1>3, <1>4, <1>6, <1>c, OneProcess, Zenon DEF Installed
<1>8. GenInv'
  <2>1. ASSUME NEW q \in Processes PROVE chosenNode'[q][1] <= gen
    <3>1. gen <= gen
      BY <1>0, NodeFacts DEF TypeInv
    <3>2. chosenNode'[q] = chosenNode[q] \/ (chosenNode'[q] = n /\ n[1] = gen)
      BY <1>4, <1>5, Zenon
    <3> QED
      BY <1>0, <3>1, <3>2, Zenon DEF GenInv
  <2> QED
    BY <1>0, <1>2, <2>1, Zenon DEF GenInv
<1>9. WatchInv'
  <2> SUFFICES ASSUME NEW m \in failedNodesTimers PROVE WatchInv!(m)'
    BY <1>2, Zenon DEF WatchInv
  <2>1. m \in Processes /\ m \in Nodes
    BY <1>0, ProcessFacts DEF TypeInv
  <2>2. CASE m = n
    BY <1>0, <1>2, <1>5, <2>2, Zenon DEF TypeInv
  <2>3. CASE m # n
    <3>1. timer'[m] = timer[m]
      BY <1>0, <1>2, <2>1, <2>3 DEF TypeInv
    <3>2. Starting(m) => Starting(m)'
      BY <1>2, <1>4, Zenon DEF Starting
    <3>3. Resetting => Resetting'
      BY <1>2, <1>4, ProcessFacts, Zenon DEF Resetting
    <3> QED
      BY <1>0, <1>2, <1>4, <2>1, <2>3, <3>1, <3>2, <3>3, Zenon DEF WatchInv
  <2> QED
    BY <2>2, <2>3, Zenon
<1> QED
  BY <1>3, <1>7, <1>8, <1>9 DEF IInv

\* After a failed check the timer is changed if the node is still watched.
LEMMA CheckFailedKeeps ==
  ASSUME IInv, NEW n \in Nodes, CheckFailed(n) PROVE IInv'
<1>0. TypeInv /\ GenInv /\ FreshInv /\ n \in Processes /\ n \notin Updates
  BY ProcessFacts DEF IInv
<1>2. PICK l \in {"rearm", "idle"} :
        /\ pc[n] = "unhealthy" /\ pc' = [pc EXCEPT ![n] = l]
        /\ n \in failedNodesTimers => l = "rearm"
        /\ UNCHANGED <<gen, size, failures, failedNodesTimers, timer, semaphore, chosenNode,
                       nodeIndex, shouldRetry, failedNodes, scan>>
  BY Zenon DEF CheckFailed, Goto, selector, timers, command
<1>3. TypeInv'
  <2>1. pc' \in [Processes -> Labels]
    BY <1>0, <1>2 DEF TypeInv, Labels
  <2> QED
    BY <1>0, <1>2, <2>1, Zenon DEF TypeInv
<1>4. \A q \in Processes \ {n} :
         UNCHANGED <<pc[q], chosenNode[q], shouldRetry[q], failedNodes[q], scan[q]>>
  BY <1>0, <1>2 DEF TypeInv
<1>5. pc'[n] = l
  BY <1>0, <1>2 DEF TypeInv
<1>6. Fresh(n)'
  BY <1>0, <1>2, <1>5, Zenon DEF Fresh, FreshInv
<1>7. chosenNode'[n][1] <= gen /\ scan'[n][1] <= gen
  BY <1>0, <1>2, Zenon DEF GenInv
<1> QED
  BY <1>0, <1>2, <1>3, <1>4, <1>5, <1>6, <1>7, QuietStep, Zenon DEF Installed

\* The check ends: its timer is armed again (or its nil timer panics), its
\* entry is dropped, or its place is restored.
LEMMA CheckEndsKeeps ==
  ASSUME IInv, NEW n \in Nodes, UpdateTimer(n) \/ CheckSucceeded(n) \/ RestoreNodeIndex(n)
  PROVE  IInv'
<1>0. TypeInv /\ GenInv /\ FreshInv /\ WatchInv /\ n \in Processes /\ n \notin Updates
  BY ProcessFacts DEF IInv
<1>1. PICK l \in {"idle", "restore"} :
        /\ pc[n] \in {"rearm", "healthy", "restore"} /\ pc' = [pc EXCEPT ![n] = l]
        /\ UNCHANGED <<gen, size, semaphore, chosenNode, nodeIndex, shouldRetry, failedNodes, scan>>
  BY Zenon DEF UpdateTimer, CheckSucceeded, RestoreNodeIndex, Goto, selector, command
<1>2. \/ /\ pc[n] = "rearm" /\ UNCHANGED <<failures, failedNodesTimers>>
         /\ \/ timer' = [timer EXCEPT ![n] = "armed"]
            \/ timer[n] = "closed" /\ timer' = timer
      \/ /\ pc[n] = "healthy" /\ failedNodesTimers' = failedNodesTimers \ {n}
         /\ timer' = [timer EXCEPT ![n] = "closed"] \/ timer' = timer
         /\ failures' = failures
      \/ /\ pc[n] = "restore" /\ UNCHANGED <<timer, failedNodesTimers>>
         /\ failures' = [failures EXCEPT ![gen] = @ \ {n[2]}]
  BY Zenon DEF UpdateTimer, CheckSucceeded, RestoreNodeIndex, timers, selector
<1>a. failures' \in [Gens -> SUBSET Places] /\ \A g \in Gens : failures'[g] \subseteq failures[g]
  <2>1. failures \in [Gens -> SUBSET Places] /\ gen \in Gens
    BY <1>0, Zenon DEF TypeInv
  <2>2. failures' = failures \/ failures' = [failures EXCEPT ![gen] = failures[gen] \ {n[2]}]
    BY <1>2, Zenon
  <2> QED
    BY ONLY <2>1, <2>2
<1>b. /\ timer' \in [Nodes -> {"off", "armed", "closed"}]
      /\ \A m \in Nodes : m # n => timer'[m] = timer[m]
  BY <1>0, <1>2 DEF TypeInv
<1>c. failedNodesTimers' \subseteq failedNodesTimers
  BY <1>2, Zenon
<1>3. TypeInv'
  <2>1. pc' \in [Processes -> Labels]
    BY <1>0, <1>1 DEF TypeInv, Labels
  <2> QED
    BY <1>0, <1>1, <1>a, <1>b, <1>c, <2>1, Zenon DEF TypeInv
<1>4. \A q \in Processes \ {n} :
         UNCHANGED <<pc[q], chosenNode[q], shouldRetry[q], failedNodes[q]>>
  BY <1>0, <1>1 DEF TypeInv
<1>5. pc'[n] = l
  BY <1>0, <1>1 DEF TypeInv
<1>6. Fresh(n)'
  BY <1>0, <1>1, <1>5, Zenon DEF Fresh, FreshInv
<1>7. FreshInv' /\ WaitInv' /\ RoomInv'
  BY <1>0, <1>1, <1>3, <1>4, <1>5, <1>6, OneProcess, Zenon DEF Installed
<1>8. GenInv'
  <2>1. \A g \in Gens : failures'[g] \subseteq 1..size[g] /\ (g > gen => failures'[g] = {})
    BY <1>0, <1>a, Zenon DEF GenInv
  <2> QED
    BY <1>0, <1>1, <1>c, <2>1, Zenon DEF GenInv
<1>9. WatchInv'
  <2> SUFFICES ASSUME NEW m \in failedNodesTimers' PROVE WatchInv!(m)'
    BY Zenon DEF WatchInv
  <2>1. m \in failedNodesTimers /\ m \in Processes /\ m \in Nodes
    BY <1>0, <1>c, ProcessFacts DEF TypeInv
  <2>2. Starting(m) => Starting(m)'
    BY <1>1, <1>4, Zenon DEF Starting
  <2>3. Resetting => Resetting'
    BY <1>1, <1>4, ProcessFacts, Zenon DEF Resetting
  <2>4. CASE m # n
    BY <1>0, <1>1, <1>4, <1>b, <2>1, <2>2, <2>3, <2>4, Zenon DEF WatchInv
  <2>5. CASE m = n /\ pc[n] = "rearm"
    <3>1. timer'[n] = "armed" \/ (timer[n] = "closed" /\ timer' = timer)
      BY <1>0, <1>2, <2>5 DEF TypeInv
    <3> QED
      BY <1>0, <2>1, <2>2, <2>3, <2>5, <3>1, Zenon DEF WatchInv
  <2>6. CASE m = n /\ pc[n] = "restore"
    BY <1>0, <1>1, <1>2, <2>1, <2>2, <2>3, <2>6 DEF WatchInv
  <2>7. CASE m = n /\ pc[n] = "healthy"
    BY <1>2, <2>7, Zenon
  <2> QED
    BY <1>1, <2>4, <2>5, <2>6, <2>7, Zenon
<1> QED
  BY <1>3, <1>7, <1>8, <1>9 DEF IInv

---------------------------------------------------------------------------
(* Topology updates.                                                       *)

\* The topology timer starts an update that nobody waits for.
LEMMA TopologyTimerKeeps ==
  ASSUME IInv, TopologyTimerFires PROVE IInv'
<1> DEFINE u == Update(TopologyTimer)
<1>0. TypeInv /\ GenInv /\ u \in Processes /\ u \notin Nodes
  BY ProcessFacts DEF IInv
<1>1. PICK i \in 1..size[gen] : Begin(u, <<gen, i>>, 1, FALSE)
  BY Zenon DEF TopologyTimerFires
<1>a. <<gen, i>> \in AnyNode /\ <<gen, i>>[1] <= gen
  <2>1. gen \in Gens /\ i \in Places
    BY <1>0, <1>1, FailoverAssumption DEF TypeInv, Places
  <2> QED
    BY <2>1, NodeFacts DEF AnyNode
<1>2. /\ pc[u] = "idle" /\ pc' = [pc EXCEPT ![u] = "acquire"]
      /\ chosenNode' = [chosenNode EXCEPT ![u] = <<gen, i>>]
      /\ nodeIndex' = [nodeIndex EXCEPT ![u] = 1]
      /\ shouldRetry' = [shouldRetry EXCEPT ![u] = FALSE]
      /\ failedNodes' = [failedNodes EXCEPT ![u] = {}]
      /\ UNCHANGED <<gen, size, failures, failedNodesTimers, timer, semaphore, scan>>
  BY <1>1, Zenon DEF TopologyTimerFires, Begin, Goto, selector, timers
<1> HIDE DEF u
<1>3. TypeInv'
  <2>1. pc' \in [Processes -> Labels]
    BY <1>0, <1>2 DEF TypeInv, Labels
  <2> QED
    BY <1>0, <1>2, <1>a, <2>1, NodeFacts, Zenon DEF TypeInv
<1>4. \A q \in Processes \ {u} :
         UNCHANGED <<pc[q], chosenNode[q], shouldRetry[q], failedNodes[q], scan[q]>>
  BY <1>0, <1>2 DEF TypeInv
<1>5. /\ pc'[u] = "acquire" /\ ~shouldRetry'[u] /\ failedNodes'[u] = {}
      /\ chosenNode'[u] = <<gen, i>>
  BY <1>0, <1>2 DEF TypeInv
<1>6. Fresh(u)'
  BY <1>5, Zenon DEF Fresh
<1>7. chosenNode'[u][1] <= gen /\ scan'[u][1] <= gen
  BY <1>0, <1>2, <1>5, <1>a, Zenon DEF GenInv
<1> QED
  BY <1>0, <1>2, <1>3, <1>4, <1>5, <1>6, <1>7, QuietStep, Zenon DEF Installed, u

\* The semaphore is taken; a topology that is not newer is not installed.
LEMMA AcquireKeeps ==
  ASSUME IInv, NEW u \in Updates, Acquire(u) \/ KeepTopology(u) PROVE IInv'
<1>0. TypeInv /\ GenInv /\ FreshInv /\ u \in Processes /\ u \notin Nodes
  BY ProcessFacts DEF IInv
<1>2. PICK l \in {"send", "release"} :
        /\ pc[u] \in {"acquire", "install"} /\ pc' = [pc EXCEPT ![u] = l]
        /\ l = "send" => pc[u] = "acquire"
        /\ semaphore' \in {semaphore, u}
        /\ UNCHANGED <<gen, size, failures, failedNodesTimers, timer, chosenNode,
                       nodeIndex, shouldRetry, failedNodes, scan>>
  BY DEF Acquire, KeepTopology, Goto, selector, timers, command
<1>3. TypeInv'
  <2>1. pc' \in [Processes -> Labels]
    BY <1>0, <1>2 DEF TypeInv, Labels
  <2> QED
    BY <1>0, <1>2, <2>1, Zenon DEF TypeInv
<1>4. \A q \in Processes \ {u} :
         UNCHANGED <<pc[q], chosenNode[q], shouldRetry[q], failedNodes[q], scan[q]>>
  BY <1>0, <1>2 DEF TypeInv
<1>5. pc'[u] = l
  BY <1>0, <1>2 DEF TypeInv
<1>6. Fresh(u)'
  BY <1>0, <1>2, <1>5, Zenon DEF Fresh, FreshInv
<1>7. chosenNode'[u][1] <= gen /\ scan'[u][1] <= gen
  BY <1>0, <1>2, Zenon DEF GenInv
<1> QED
  BY <1>0, <1>2, <1>3, <1>4, <1>5, <1>6, <1>7, QuietStep, Zenon DEF Installed

\* disposeAllFailedNodesTimers: from closing the timers to replacing the map
\* the entries are known to go.
LEMMA DisposeTimersKeeps ==
  ASSUME IInv, NEW u \in Updates, CloseTimers(u) \/ ResetMap(u) PROVE IInv'
<1>0. TypeInv /\ GenInv /\ FreshInv /\ u \in Processes
  BY ProcessFacts DEF IInv
<1>2. PICK l \in {"resetMap", "release"} :
        /\ pc[u] \in Installed /\ pc' = [pc EXCEPT ![u] = l]
        /\ l = "resetMap" \/ failedNodesTimers' = {}
        /\ failedNodesTimers' \in {failedNodesTimers, {}}
        /\ timer' \in {timer, [n \in Nodes |-> IF n \in failedNodesTimers THEN "closed" ELSE timer[n]]}
        /\ UNCHANGED <<gen, size, failures, semaphore, chosenNode, nodeIndex, shouldRetry,
                       failedNodes, scan>>
  BY DEF CloseTimers, ResetMap, Goto, selector, command, Installed
<1>3. TypeInv'
  <2>1. pc' \in [Processes -> Labels]
    BY <1>0, <1>2 DEF TypeInv, Labels
  <2>2. timer' \in [Nodes -> {"off", "armed", "closed"}]
    BY <1>0, <1>2 DEF TypeInv
  <2> QED
    BY <1>0, <1>2, <2>1, <2>2, Zenon DEF TypeInv
<1>4. \A q \in Processes \ {u} :
         UNCHANGED <<pc[q], chosenNode[q], shouldRetry[q], failedNodes[q]>>
  BY <1>0, <1>2 DEF TypeInv
<1>5. pc'[u] = l
  BY <1>0, <1>2 DEF TypeInv
<1>6. Fresh(u)'
  BY <1>0, <1>2, <1>5, Zenon DEF Fresh, FreshInv
<1>7. FreshInv' /\ WaitInv' /\ RoomInv'
  BY <1>0, <1>2, <1>3, <1>4, <1>5, <1>6, OneProcess, Zenon DEF Installed
<1>8. GenInv'
  BY <1>0, <1>2, Zenon DEF GenInv
<1>9. WatchInv'
  <2>1. CASE l = "resetMap"
    BY <1>5, <2>1, Zenon DEF WatchInv, Resetting
  <2>2. CASE failedNodesTimers' = {}
    BY <2>2, Zenon DEF WatchInv
  <2> QED
    BY <1>2, <2>1, <2>2
<1> QED
  BY <1>3, <1>7, <1>8, <1>9 DEF IInv

\* A new topology has no failures, and no node of it is watched yet.
LEMMA InstallKeeps ==
  ASSUME IInv, NEW u \in Updates, Install(u) PROVE IInv'
<1>0. TypeInv /\ GenInv /\ FreshInv /\ WaitInv /\ RoomInv /\ WatchInv
  BY DEF IInv
<1>1. u \in Processes /\ u \notin Nodes /\ u \notin Callers /\ gen \in Nat
  BY <1>0, ProcessFacts, NodeFacts DEF TypeInv
<1>2. /\ pc[u] = "install" /\ pc' = [pc EXCEPT ![u] = "closeTimers"] /\ gen' = gen + 1
      /\ UNCHANGED <<failures, failedNodesTimers, timer, semaphore, chosenNode, nodeIndex,
                     shouldRetry, failedNodes, scan>>
  BY DEF Install, Goto, timers, command
<1>a. PICK k \in Places : size' = [size EXCEPT ![gen + 1] = k]
  BY Zenon DEF Install
<1>b. ForcedUpdates' = ForcedUpdates
  <2>1. \A c \in Callers : pc'[c] = pc[c]
    BY <1>0, <1>1, <1>2, ProcessFacts DEF TypeInv
  <2> QED
    BY <2>1 DEF ForcedUpdates, Forced
<1>c. Due' = Due \ {u}
  <2>1. \A v \in ForcedUpdates : v \in Processes
    BY ProcessFacts, Zenon DEF ForcedUpdates
  <2>2. pc'[u] = "closeTimers" /\ \A v \in Processes : v # u => pc'[v] = pc[v]
    BY <1>0, <1>1, <1>2 DEF TypeInv
  <2> QED
    BY ONLY <1>b, <2>1, <2>2, Zenon DEF Due
<1>d. gen + 1 + Cardinality(Due') <= MaxGen /\ Cardinality(Due') \in Nat
  <2>1. CASE Forced(u)
    <3>1. u \in Due
      BY <1>2, <2>1 DEF Due, ForcedUpdates
    <3>2. Cardinality(Due \ {u}) = Cardinality(Due) - 1
      BY <1>0, <3>1, RoomFacts, FS_RemoveElement, Zenon
    <3>3. /\ gen \in Nat /\ MaxGen \in Nat /\ gen + Cardinality(Due) <= MaxGen
          /\ Cardinality(Due) \in Nat /\ Cardinality(Due \ {u}) \in Nat
      BY <1>0, RoomFacts, FS_CardinalityType, FS_RemoveElement, Zenon
    <3> QED
      BY ONLY <1>c, <3>2, <3>3
  <2>2. CASE RoomForTopology
    <3>1. gen + Cardinality(ForcedUpdates) < MaxGen
      BY <2>2 DEF RoomForTopology, ForcedUpdates
    <3>2. Cardinality(Due \ {u}) <= Cardinality(Due) /\ Cardinality(Due \ {u}) \in Nat
      BY <1>0, RoomFacts, FS_Subset, FS_CardinalityType
    <3> QED
      BY <1>0, <1>c, <3>1, <3>2, RoomFacts
  <2> QED
    BY <2>1, <2>2 DEF Install
<1>e. gen + 1 \in Gens
  BY <1>1, <1>d, FailoverAssumption DEF Gens
<1>3. TypeInv'
  <2>1. pc' \in [Processes -> Labels]
    BY <1>0, <1>2, Zenon DEF TypeInv, Labels
  <2>2. size' \in [Gens -> Places]
    BY <1>0, <1>a, Zenon DEF TypeInv
  <2> QED
    BY <1>0, <1>2, <1>e, <2>1, <2>2 DEF TypeInv
<1>4. pc'[u] = "closeTimers" /\ \A q \in Processes \ {u} : pc'[q] = pc[q]
  BY <1>0, <1>1, <1>2 DEF TypeInv
<1>5. FreshInv'
  BY <1>0, <1>1, <1>2, <1>4, Zenon DEF FreshInv, Fresh
<1>6. WaitInv'
  <2> SUFFICES ASSUME NEW q \in Callers \cup Nodes, pc'[Update(q)] # "idle"
               PROVE  pc'[q] \in {"awaitRefresh", "awaitMove"}
    BY DEF WaitInv
  <2>1. q \in Processes \ {u} /\ Update(q) \in Processes
    BY <1>1, ProcessFacts
  <2>2. pc[Update(q)] # "idle"
    BY <1>2, <1>4, <2>1
  <2> QED
    BY <1>0, <1>4, <2>1, <2>2, Zenon DEF WaitInv
<1>7. RoomInv'
  BY <1>0, <1>2, <1>b, <1>d DEF RoomInv
<1>8. GenInv'
  <2>1. \A g \in Gens : g # gen + 1 => size'[g] = size[g]
    BY <1>0, <1>a DEF TypeInv
  <2>2. failures[gen + 1] = {}
    BY <1>0, <1>1, <1>e DEF GenInv
  <2>3. \A g \in Gens : failures'[g] \subseteq 1..size'[g] /\ (g > gen' => failures'[g] = {})
    <3> SUFFICES ASSUME NEW g \in Gens
                 PROVE  failures[g] \subseteq 1..size'[g] /\ (g > gen + 1 => failures[g] = {})
      BY <1>1, <1>2, Zenon
    <3>1. failures[g] \subseteq 1..size[g] /\ (g > gen => failures[g] = {})
      BY <1>0, Zenon DEF GenInv
    <3>2. g \in Nat /\ gen \in Nat
      BY <1>0, NodeFacts DEF TypeInv
    <3>3. g > gen + 1 => g > gen
      BY <3>2
    <3> QED
      BY <2>1, <2>2, <3>1, <3>3, Zenon
  <2>4. /\ \A p \in Processes : chosenNode'[p][1] <= gen' /\ scan'[p][1] <= gen'
        /\ \A n \in failedNodesTimers' : n[1] <= gen'
    <3>1. \A p \in Processes : chosenNode[p][1] \in Nat /\ scan[p][1] \in Nat
      <4>a. \A n \in Nodes : n[1] \in Nat
        BY NodeFacts, Zenon
      <4>b. NotInTopology[1] \in Nat
        BY DEF NotInTopology
      <4>1. \A n \in AnyNode : n[1] \in Nat
        BY <4>a, <4>b DEF AnyNode
      <4>2. \A s \in Gens \X (1..MaxNodes + 1) : s[1] \in Nat
        BY NodeFacts, Zenon
      <4> QED
        BY <1>0, <4>1, <4>2 DEF TypeInv
    <3>2. \A n \in failedNodesTimers : n[1] \in Nat
      BY <1>0, NodeFacts, Zenon DEF TypeInv
    <3>3. gen \in Nat /\ gen' = gen + 1
      BY <1>0, <1>1, <1>2, NodeFacts DEF TypeInv
    <3>4. \A g \in Nat : g <= gen => g <= gen'
      BY <3>3
    <3> QED
      BY <1>0, <1>2, <3>1, <3>2, <3>4, Zenon DEF GenInv
  <2> QED
    BY <2>3, <2>4 DEF GenInv
<1>9. WatchInv'
  <2> SUFFICES ASSUME NEW m \in failedNodesTimers PROVE WatchInv!(m)'
    BY <1>2, Zenon DEF WatchInv
  <2>1. m[1] # gen'
    <3>1. m[1] <= gen /\ m[1] \in Nat
      BY <1>0, NodeFacts, Zenon DEF GenInv, TypeInv
    <3>2. gen \in Nat /\ gen' = gen + 1
      BY <1>1, <1>2, Zenon
    <3> QED
      BY ONLY <3>1, <3>2
  <2>2. Starting(m) => Starting(m)'
    BY <1>2, <1>4 DEF Starting
  <2>3. Resetting => Resetting'
    BY <1>2, <1>4, ProcessFacts DEF Resetting
  <2> QED
    BY <1>0, <1>2, <2>1, <2>2, <2>3, Zenon DEF WatchInv
<1> QED
  BY <1>3, <1>5, <1>6, <1>7, <1>8, <1>9 DEF IInv

\* The update ends, and who waits for it goes on.
LEMMA ReleaseKeeps ==
  ASSUME IInv, NEW u \in Updates, Release(u) PROVE IInv'
<1>0. TypeInv /\ GenInv /\ FreshInv /\ WaitInv /\ RoomInv /\ WatchInv
  BY DEF IInv
<1>1. u \in Processes /\ u \notin Nodes /\ u \notin Callers
  BY ProcessFacts
<1>2. /\ pc[u] \in {"release", "failed"} /\ pc' = Notified(u) /\ semaphore' = None
      /\ UNCHANGED <<gen, size, failures, failedNodesTimers, timer, chosenNode, nodeIndex,
                     shouldRetry, failedNodes, scan>>
  BY DEF Release, selector, timers, command
<1>a. \A q \in Processes : u = Update(q) =>
        q \in Callers \cup Nodes /\ pc[q] \in {"awaitRefresh", "awaitMove"}
  BY <1>0, <1>2, ProcessFacts, Zenon DEF WaitInv, Processes
<1>b. pc'[u] = "idle"
  <2>1. Update(u) # u
    BY ProcessFacts
  <2> QED
    BY <1>1, <1>2, <2>1 DEF Notified
<1>c. \A q \in Processes \ {u} : u # Update(q) => pc'[q] = pc[q]
  BY <1>2 DEF Notified
<1>d. \A q \in Processes \ {u} : u = Update(q) =>
        /\ pc'[q] \in {"updateFailed", "updated", "refreshed"}
        /\ pc'[q] = "updated" => pc[q] = "awaitMove"
  <2> SUFFICES ASSUME NEW q \in Processes \ {u}, u = Update(q)
               PROVE  /\ pc'[q] \in {"updateFailed", "updated", "refreshed"}
                      /\ pc'[q] = "updated" => pc[q] = "awaitMove"
    BY Zenon
  <2>1. pc'[q] = IF pc[u] = "failed" THEN "updateFailed"
                 ELSE IF Forced(u) THEN "updated" ELSE "refreshed"
    BY <1>2 DEF Notified
  <2>2. Forced(u) => pc[q] = "awaitMove"
    BY ProcessFacts, Zenon DEF Forced
  <2> QED
    BY <2>1, <2>2, Zenon
<1>3. TypeInv'
  <2>1. pc' \in [Processes -> Labels]
    <3>1. pc' = [q \in Processes |-> pc'[q]]
      BY <1>2 DEF Notified
    <3>2. \A q \in Processes : pc'[q] \in Labels
      BY <1>0, <1>b, <1>c, <1>d DEF TypeInv, Labels
    <3> QED
      BY ONLY <3>1, <3>2
  <2> QED
    BY <1>0, <1>2, <2>1 DEF TypeInv
<1>4. FreshInv'
  <2> SUFFICES ASSUME NEW q \in Processes PROVE Fresh(q)'
    BY DEF FreshInv
  <2>1. Fresh(q)
    BY <1>0 DEF FreshInv
  <2>2. CASE q = u
    BY <1>2, <1>b, <2>1, <2>2, Zenon DEF Fresh
  <2>3. CASE q # u /\ u = Update(q)
    BY <1>2, <1>d, <2>1, <2>3, Zenon DEF Fresh
  <2>4. CASE q # u /\ u # Update(q)
    BY <1>2, <1>c, <2>1, <2>4, Zenon DEF Fresh
  <2> QED
    BY <2>2, <2>3, <2>4
<1>5. WaitInv'
  <2> SUFFICES ASSUME NEW q \in Callers \cup Nodes, pc'[Update(q)] # "idle"
               PROVE  pc'[q] \in {"awaitRefresh", "awaitMove"}
    BY DEF WaitInv
  <2>1. Update(q) \in Processes \ {u} /\ q \in Processes \ {u} /\ Update(Update(q)) # u
    BY <1>1, <1>b, ProcessFacts
  <2>2. pc'[Update(q)] = pc[Update(q)] /\ pc'[q] = pc[q]
    BY <1>c, <2>1, Zenon
  <2> QED
    BY <1>0, <2>2 DEF WaitInv
<1>6. RoomInv'
  <2>1. \A c \in Callers : pc'[c] = "awaitMove" => pc[c] = "awaitMove"
    BY <1>1, <1>c, <1>d, ProcessFacts, Zenon
  <2>2. ForcedUpdates' \subseteq ForcedUpdates
    BY <2>1, Zenon DEF ForcedUpdates, Forced
  <2>3. u \notin ForcedUpdates'
    <3> SUFFICES ASSUME NEW c \in Callers, u = Update(c), pc'[c] = "awaitMove" PROVE FALSE
      BY DEF ForcedUpdates, Forced
    <3>1. c \in Processes \ {u}
      BY <1>1, ProcessFacts
    <3> QED
      BY <1>d, <3>1
  <2>4. \A v \in Updates \ {u} : pc'[v] = pc[v]
    BY <1>c, ProcessFacts, Zenon
  <2>5. Due' \subseteq Due
    BY <2>2, <2>3, <2>4 DEF Due, ForcedUpdates
  <2> QED
    BY <1>0, <1>2, <2>2, <2>5, RoomShrinks
<1>7. GenInv'
  BY <1>0, <1>2, Zenon DEF GenInv
<1>8. WatchInv'
  <2> SUFFICES ASSUME NEW m \in failedNodesTimers PROVE WatchInv!(m)'
    BY <1>2, Zenon DEF WatchInv
  <2>1. m \in Processes \ {u}
    BY <1>0, <1>1, ProcessFacts DEF TypeInv
  <2>2. Starting(m) => Starting(m)'
    <3> SUFFICES ASSUME NEW q \in Processes, pc[q] = "startTimer", chosenNode[q] = m
                 PROVE  Starting(m)'
      BY DEF Starting
    <3>1. pc'[q] = pc[q]
      BY <1>2, <1>a, <1>c, Zenon
    <3> QED
      BY <1>2, <3>1, Zenon DEF Starting
  <2>3. Resetting => Resetting'
    <3> SUFFICES ASSUME NEW v \in Updates, pc[v] = "resetMap" PROVE Resetting'
      BY Zenon DEF Resetting
    <3>1. pc'[v] = pc[v]
      BY <1>2, <1>c, ProcessFacts, Zenon
    <3> QED
      BY <3>1, Zenon DEF Resetting
  <2>4. pc[m] \notin {"idle", "restore"} => pc'[m] \notin {"idle", "restore"}
    BY <1>c, <1>d, <2>1, Zenon
  <2> QED
    BY <1>0, <1>2, <2>2, <2>3, <2>4, Zenon DEF WatchInv
<1> QED
  BY <1>3, <1>4, <1>5, <1>6, <1>7, <1>8 DEF IInv

---------------------------------------------------------------------------
(* The theorems.                                                           *)

\* The invariant holds at the start.
LEMMA Initial == Init => IInv
<1> SUFFICES ASSUME Init PROVE IInv
  OBVIOUS
<1>1. PICK s \in Starts : gen = s.gen /\ size = [g \in Gens |-> s.size]
  BY DEF Init
<1>2. gen \in Gens /\ s.size \in Places
  BY <1>1, FailoverAssumption DEF Gens, Places
<1>a. <<1, 1>> \in Gens \X (1..MaxNodes + 1)
  BY NodeFacts, FailoverAssumption
<1>3. TypeInv
  <2>1. size \in [Gens -> Places] /\ failures \in [Gens -> SUBSET Places]
    BY <1>1, <1>2 DEF Init
  <2>2. pc \in [Processes -> Labels] /\ shouldRetry \in [Processes -> BOOLEAN]
    BY Zenon DEF Init, Labels
  <2>3. /\ chosenNode \in [Processes -> AnyNode] /\ nodeIndex \in [Processes -> Places]
        /\ failedNodes \in [Processes -> SUBSET AnyNode]
        /\ scan \in [Processes -> Gens \X (1..MaxNodes + 1)]
    BY <1>a, NodeFacts DEF Init, AnyNode
  <2>4. /\ failedNodesTimers \subseteq Nodes /\ semaphore \in Updates \cup {None}
        /\ timer \in [Nodes -> {"off", "armed", "closed"}]
    BY DEF Init
  <2> QED
    BY <1>2, <2>1, <2>2, <2>3, <2>4 DEF TypeInv
<1>4. GenInv
  BY <1>2, NodeFacts DEF GenInv, Init, Gens
<1>5. FreshInv
  BY DEF FreshInv, Fresh, Init
<1>6. WaitInv
  BY ProcessFacts DEF WaitInv, Init
<1>7. RoomInv
  <2>1. ForcedUpdates = {} /\ Due = {}
    BY ProcessFacts, Zenon DEF ForcedUpdates, Forced, Due, Init
  <2> QED
    BY <1>2, <2>1, FS_EmptySet, FailoverAssumption DEF RoomInv, Gens
<1>8. WatchInv
  BY Zenon DEF WatchInv, Init
<1> QED
  BY <1>3, <1>4, <1>5, <1>6, <1>7, <1>8 DEF IInv

\* Every step keeps the invariant.
LEMMA Inductive == IInv /\ [Next]_vars => IInv'
<1> SUFFICES ASSUME IInv, [Next]_vars PROVE IInv'
  OBVIOUS
<1>1. ASSUME NEW c \in Callers, ExecuteCommand(c) \/ ChooseBalanced(c) PROVE IInv'
  BY <1>1, ExecuteCommandKeeps, ChoiceKeeps, ProcessFacts
<1>2. ASSUME NEW p \in Processes, RequestStep(p) PROVE IInv'
  <2>1. CASE Answered(p) \/ Refreshed(p)
    <3>1. Success(p) \in Results
      BY Zenon DEF Success, Unrecovered, Results
    <3> QED
      BY <2>1, <3>1, Returns DEF Answered, Refreshed
  <2>2. CASE UpdateFailed(p) \/ GoneAgain(p) \/ OtherError(p)
    <3>1. Unrecovered(p) \in Results /\ "error" \in Results
      BY DEF Unrecovered, Results
    <3> QED
      BY <2>2, <3>1, Returns, Zenon DEF UpdateFailed, GoneAgain, OtherError
  <2> QED
    BY <1>2, <2>1, <2>2, ScanKeeps, ChoiceKeeps, RefreshKeeps, RetryMovedKeeps,
       ServerDownKeeps, StartTimerKeeps, OnFailedRequestKeeps DEF RequestStep
<1>3. ASSUME NEW n \in Nodes, HealthCheck(n) \/ CheckStep(n) PROVE IInv'
  BY <1>3, HealthCheckKeeps, CheckFailedKeeps, CheckEndsKeeps DEF CheckStep
<1>4. CASE TopologyTimerFires
  BY <1>4, TopologyTimerKeeps
<1>5. ASSUME NEW u \in Updates, UpdateStep(u) PROVE IInv'
  BY <1>5, AcquireKeeps, InstallKeeps, DisposeTimersKeeps, ReleaseKeeps DEF UpdateStep
<1>6. CASE UNCHANGED vars
  <2> USE <1>6 DEF vars, selector, timers, command
  <2>1. TypeInv' /\ GenInv' /\ FreshInv' /\ WaitInv'
    BY Zenon DEF IInv, TypeInv, GenInv, FreshInv, Fresh, WaitInv
  <2>2. RoomInv'
    BY Zenon DEF IInv, RoomInv, ForcedUpdates, Due, Forced
  <2>3. WatchInv'
    BY Zenon DEF IInv, WatchInv, Starting, Resetting
  <2> QED
    BY <2>1, <2>2, <2>3 DEF IInv
<1> QED
  BY <1>1, <1>2, <1>3, <1>4, <1>5, <1>6 DEF Next

\* The request executor: commands, health checks and topology updates keep the
\* invariant, in any number and however they interleave.
THEOREM FailoverInvariant == Spec => []IInv
BY Initial, Inductive, PTL DEF Spec

\* Execute, handleServerDown, handleUnsuccessfulResponse: no command, health
\* check or topology request goes to a node on which it already failed.
THEOREM NodesContactedOnce == Spec => []ContactedOnce
<1>1. IInv => ContactedOnce
  <2> SUFFICES ASSUME IInv PROVE ContactedOnce
    OBVIOUS
  <2>1. TypeInv /\ GenInv /\ FreshInv
    BY DEF IInv
  <2>2. TypeOK
    BY <2>1, Zenon DEF TypeInv, GenInv, TypeOK, AnyNode
  <2> QED
    BY <2>1, <2>2 DEF ContactedOnce, FreshInv, Fresh
<1> QED
  BY <1>1, FailoverInvariant, PTL

\* spawnHealthChecks, checkNodeStatusCallback: an entry in failedNodesTimers of
\* a node of the topology in use has a check behind it, which is due, running
\* or about to be started, unless the map is about to be replaced.
THEOREM EntriesAreWatched == Spec => []WatchIsAlive
<1>1. IInv => WatchIsAlive
  BY Zenon DEF IInv, WatchInv, WatchIsAlive, Starting, Resetting
<1> QED
  BY <1>1, FailoverInvariant, PTL

===========================================================================
