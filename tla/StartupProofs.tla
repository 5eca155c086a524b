--------------------------- MODULE StartupProofs ---------------------------
(***************************************************************************)
(* Proofs about FirstTopologyUpdate: a running first update is the current *)
(* one, success is final, and a command that gets past the first update    *)
(* finds nodes to choose from.                                             *)
(***************************************************************************)
EXTENDS FirstTopologyUpdate, FiniteSetTheorems, TLAPS

Labels ==
  {"idle", "isDone", "unlikely", "reset", "ensure", "get", "wait", "refused",
   "selected", "start", "acquire", "execute", "succeeded", "missing", "failed",
   "complete", "done", "rearm"}

States ==
  [completed : BOOLEAN, result : {Nil}, err : {Nil, Error}, signal : 0 .. 1]

TypeInv ==
  /\ futures \in [FutureIds -> States]
  /\ nfutures \in FutureIds /\ first \in 0 .. nfutures
  /\ selector \in {Nil, "empty", "urls", "fetched"}
  /\ semaphore \in Updates \cup {None}
  /\ timer \in {Nil, "armed", "fired"}
  /\ pc \in [Goroutines -> Labels]
  /\ mine \in [Goroutines -> 0 .. nfutures]
  /\ site \in [Goroutines -> {"inner", "ensure"}]
  /\ failed \in [Updates -> BOOLEAN]
  /\ calls \in 0 .. MaxCalls
  /\ disposed \in BOOLEAN

\* A future that is not completed has no error, and nobody was signalled; one
\* that was not made yet has no goroutine.
FutureInv ==
  \A k \in FutureIds :
    /\ ~futures[k].completed => futures[k].err = Nil /\ futures[k].signal = 0
    /\ k > nfutures => pc[k] = "idle" /\ ~futures[k].completed

\* The calls that may yet start an update.
Pending == {c \in Callers : pc[c] \in {"isDone", "unlikely"}}

\* They, and the updates started, are no more than the calls made and one.
CountInv ==
  IsFiniteSet(Pending) /\ nfutures + Cardinality(Pending) <= calls + 1

Succeeded(k) == futures[k].completed /\ futures[k].err = Nil

\* An update that runs, or has succeeded, is the current one.
CurrentInv ==
  \A k \in 1 .. nfutures : ~futures[k].completed \/ Succeeded(k) => first = k

\* Who waits has a future; who is to drop it has seen its error.
WaitInv ==
  \A x \in Goroutines :
    /\ pc[x] \in {"get", "wait"} => mine[x] # 0
    /\ pc[x] = "reset" =>
         mine[x] # 0 /\ futures[mine[x]].completed /\ futures[mine[x]].err # Nil

\* A command goes on when its update has succeeded, and so never waits in
\* ensureNodeSelector.
CallerInv ==
  \A c \in Callers :
    /\ pc[c] # "refused"
    /\ pc[c] \in {"get", "wait"} => site[c] = "inner"
    /\ pc[c] \in {"ensure", "selected"} => mine[c] # 0 /\ Succeeded(mine[c])

\* An update that succeeds leaves a selector, unless the store is closed.
ReadyInv ==
  /\ selector = Nil /\ ~disposed =>
       \A k \in FutureIds :
         /\ ~Succeeded(k) /\ pc[k] # "succeeded"
         /\ pc[k] = "complete" => failed[k]
  /\ ~disposed => selector # "empty"

IInv ==
  /\ TypeInv /\ FutureInv /\ CountInv /\ CurrentInv /\ WaitInv /\ CallerInv
  /\ ReadyInv

\* The error of a future is the one it was completed with (completeWithError).
LEMMA CompletedFuture ==
  ASSUME NEW e, NEW g
  PROVE  [completed |-> TRUE, result |-> Nil, err |-> e, signal |-> g].err = e
  OBVIOUS

\* A future signals one waiter at most (complete, Get).
LEMMA OneSignal ==
  ASSUME TypeInv
  PROVE  \A k \in FutureIds : futures[k].signal \in 0 .. 1
  BY DEF TypeInv, States

-----------------------------------------------------------------------------
(* Counting.                                                               *)

\* The pending calls can be counted.
LEMMA CountFacts ==
  ASSUME TypeInv, CountInv
  PROVE  /\ IsFiniteSet(Pending) /\ Cardinality(Pending) \in Nat
         /\ nfutures \in Nat /\ calls \in Nat /\ calls <= MaxCalls /\ MaxCalls \in Nat
         /\ nfutures + Cardinality(Pending) <= calls + 1
<1>1. nfutures \in Nat /\ calls \in Nat /\ calls <= MaxCalls
  BY StartupAssumption DEF TypeInv, FutureIds
<1> QED
  BY <1>1, StartupAssumption, FS_CardinalityType DEF CountInv

\* Calls that go on are no longer counted.
LEMMA FewerPending ==
  ASSUME TypeInv, CountInv, Pending' \subseteq Pending, UNCHANGED <<nfutures, calls>>
  PROVE  CountInv'
<1>1. /\ IsFiniteSet(Pending') /\ Cardinality(Pending') <= Cardinality(Pending)
      /\ Cardinality(Pending') \in Nat
  BY CountFacts, FS_Subset, FS_CardinalityType
<1> QED
  BY <1>1, CountFacts DEF CountInv

\* RequestExecutorCreate: the invariant holds when the first update starts.
LEMMA Initial == Init => IInv
<1> SUFFICES ASSUME Init PROVE IInv
  OBVIOUS
<1> USE StartupAssumption, GoroutineAssumption DEF Init
<1>1. TypeInv
  <2>1. futures \in [FutureIds -> States]
    BY DEF States, newCompletableFuture
  <2>2. nfutures \in FutureIds /\ first \in 0 .. nfutures
    BY DEF FutureIds
  <2>3. pc \in [Goroutines -> Labels] /\ mine \in [Goroutines -> 0 .. nfutures]
    BY DEF Labels
  <2>4. /\ site \in [Goroutines -> {"inner", "ensure"}] /\ failed \in [Updates -> BOOLEAN]
        /\ disposed \in BOOLEAN
    BY Zenon
  <2>5. /\ selector \in {Nil, "empty", "urls", "fetched"} /\ semaphore \in Updates \cup {None}
        /\ timer \in {Nil, "armed", "fired"}
    OBVIOUS
  <2>6. calls \in 0 .. MaxCalls
    OBVIOUS
  <2> HIDE DEF Init
  <2> QED
    BY ONLY <2>1, <2>2, <2>3, <2>4, <2>5, <2>6, Zenon DEF TypeInv
<1>2. FutureInv
  <2>1. \A k \in FutureIds : futures[k] = newCompletableFuture /\ (k > 1 => pc[k] = "idle")
    BY DEF Goroutines, Updates
  <2> QED
    BY <2>1 DEF FutureInv, newCompletableFuture
<1>3. CountInv
  <2>1. Pending = {}
    BY DEF Pending, Goroutines
  <2> QED
    BY <2>1, FS_EmptySet DEF CountInv
<1>4. CurrentInv
  BY DEF CurrentInv
<1>5. WaitInv /\ CallerInv
  BY DEF WaitInv, CallerInv, Goroutines
<1>6. ReadyInv
  BY Zenon DEF ReadyInv, Succeeded, newCompletableFuture, Goroutines, Updates
<1> QED
  BY <1>1, <1>2, <1>3, <1>4, <1>5, <1>6 DEF IInv

\* A goroutine leaves Get(), or waits there: nothing else changes, but that
\* one that was signalled takes the signal (Get, WakeUp).
LEMMA LeavesGet ==
  ASSUME IInv, NEW x \in Goroutines, pc[x] \in {"get", "wait"},
         NEW l \in {"wait", "reset", "ensure", "refused", "selected"},
         pc' = [pc EXCEPT ![x] = l],
         l \in {"reset", "ensure"} => site[x] = "inner" /\ futures[mine[x]].completed,
         l = "reset" => futures[mine[x]].err # Nil,
         l = "ensure" => futures[mine[x]].err = Nil,
         l \in {"refused", "selected"} => site[x] # "inner",
         futures' \in [FutureIds -> States],
         \A k \in FutureIds : /\ futures'[k].completed = futures[k].completed
                              /\ futures'[k].err = futures[k].err
                              /\ (futures[k].completed \/ futures'[k] = futures[k]),
         UNCHANGED <<nfutures, first, selector, semaphore, timer, mine, site,
                     failed, calls, disposed>>
  PROVE  IInv'
<1>0. TypeInv /\ FutureInv /\ CountInv /\ CurrentInv /\ WaitInv /\ CallerInv /\ ReadyInv
  BY DEF IInv
<1>a. \A y \in Goroutines : pc'[y] = IF y = x THEN l ELSE pc[y]
  BY <1>0 DEF TypeInv
<1>b. \A k \in 1 .. nfutures : k \in FutureIds
  BY <1>0, StartupAssumption DEF TypeInv, FutureIds
<1>c. \A y \in Goroutines : mine[y] # 0 => mine[y] \in FutureIds
  BY <1>0, <1>b DEF TypeInv
<1>d. Callers \subseteq Goroutines /\ FutureIds \subseteq Goroutines
  BY DEF Goroutines, Updates
<1>1. TypeInv'
  <2>1. pc' \in [Goroutines -> Labels]
    BY <1>0 DEF TypeInv, Labels
  <2> QED
    BY <1>0, <2>1 DEF TypeInv
<1>2. FutureInv'
  <2>1. \A k \in FutureIds : pc[k] = "idle" => pc'[k] = "idle"
    BY <1>a, <1>d
  <2> QED
    BY <1>0, <2>1 DEF FutureInv
<1>3. CountInv'
  <2>1. Pending' \subseteq Pending
    BY <1>a, <1>d DEF Pending
  <2> QED
    BY <1>0, <2>1, FewerPending
<1>4. CurrentInv'
  BY <1>0, <1>b DEF CurrentInv, Succeeded
<1>5. WaitInv'
  <2> SUFFICES ASSUME NEW y \in Goroutines PROVE WaitInv!(y)'
    BY DEF WaitInv
  <2>1. CASE y = x
    <3>1. mine[x] # 0
      BY <1>0 DEF WaitInv
    <3> QED
      BY <1>a, <1>c, <2>1, <3>1
  <2>2. CASE y # x
    BY <1>0, <1>a, <1>c, <2>2 DEF WaitInv
  <2> QED
    BY <2>1, <2>2
<1>6. CallerInv'
  <2> SUFFICES ASSUME NEW y \in Callers PROVE CallerInv!(y)'
    BY DEF CallerInv
  <2>1. CASE y = x
    <3>1. site[x] = "inner" /\ mine[x] # 0
      BY <1>0, <2>1 DEF CallerInv, WaitInv
    <3> QED
      BY <1>a, <1>c, <2>1, <3>1 DEF Succeeded
  <2>2. CASE y # x
    BY <1>0, <1>a, <1>c, <1>d, <2>2 DEF CallerInv, Succeeded
  <2> QED
    BY <2>1, <2>2
<1>7. ReadyInv'
  <2>1. \A k \in FutureIds : pc'[k] = pc[k] \/ pc'[k] \notin {"succeeded", "complete"}
    BY <1>a, <1>d
  <2> QED
    BY <1>0, <2>1 DEF ReadyInv, Succeeded
<1> QED
  BY <1>1, <1>2, <1>3, <1>4, <1>5, <1>6, <1>7 DEF IInv

-----------------------------------------------------------------------------

\* The updates and the timer run beside the commands: a step of theirs that
\* completes no future keeps the invariant, if it leaves a selector before it
\* succeeds (updateTopologyAsyncWithForceUpdate, firstTopologyUpdate).
LEMMA BackgroundKeeps ==
  ASSUME IInv,
         pc' \in [Goroutines -> Labels],
         \A c \in Callers : pc'[c] = pc[c],
         \A y \in Goroutines : pc'[y] = pc[y] \/ pc'[y] \notin {"get", "wait", "reset"},
         \A k \in FutureIds : pc[k] = "idle" => pc'[k] = "idle",
         selector' \in {Nil, "empty", "urls", "fetched"},
         semaphore' \in Updates \cup {None},
         timer' \in {Nil, "armed", "fired"},
         failed' \in [Updates -> BOOLEAN],
         disposed' \in BOOLEAN,
         disposed => disposed',
         selector' = Nil => selector = Nil,
         selector' = "empty" => selector = "empty",
         selector' = Nil /\ ~disposed' =>
           \A k \in FutureIds :
             /\ pc'[k] = "succeeded" => pc[k] = "succeeded"
             /\ pc'[k] = "complete" =>
                  failed'[k] \/ (pc[k] = "complete" /\ failed'[k] = failed[k]),
         UNCHANGED <<futures, nfutures, first, mine, site, calls>>
  PROVE  IInv'
<1>0. TypeInv /\ FutureInv /\ CountInv /\ CurrentInv /\ WaitInv /\ CallerInv /\ ReadyInv
  BY Zenon DEF IInv
<1>1. TypeInv'
  BY <1>0 DEF TypeInv
<1>2. FutureInv'
  BY <1>0, Zenon DEF FutureInv
<1>3. CountInv'
  <2>1. Pending' \subseteq Pending
    BY Zenon DEF Pending
  <2> QED
    BY <1>0, <2>1, FewerPending, Zenon
<1>4. CurrentInv'
  BY <1>0, Zenon DEF CurrentInv, Succeeded
<1>5. WaitInv'
  <2>1. \A y \in Goroutines :
          /\ pc'[y] \in {"get", "wait"} => pc[y] \in {"get", "wait"}
          /\ pc'[y] = "reset" => pc[y] = "reset"
    BY Zenon
  <2> QED
    BY <1>0, <2>1, Zenon DEF WaitInv
<1>6. CallerInv'
  BY <1>0, Zenon DEF CallerInv, Succeeded
<1>7. ReadyInv'
  <2>1. ASSUME selector' = Nil, ~disposed', NEW k \in FutureIds
        PROVE  /\ ~Succeeded(k)' /\ pc'[k] # "succeeded"
               /\ pc'[k] = "complete" => failed'[k]
    <3>1. /\ ~Succeeded(k) /\ pc[k] # "succeeded"
          /\ pc[k] = "complete" => failed[k]
      BY <1>0, <2>1, Zenon DEF ReadyInv
    <3> QED
      BY <2>1, <3>1, Zenon DEF Succeeded
  <2>2. ~disposed' => selector' # "empty"
    BY <1>0, Zenon DEF ReadyInv
  <2> QED
    BY <2>1, <2>2, Zenon DEF ReadyInv
<1> QED
  BY <1>1, <1>2, <1>3, <1>4, <1>5, <1>6, <1>7, Zenon DEF IInv

\* The same for a step of one such goroutine.
LEMMA OneMoves ==
  ASSUME IInv, NEW u \in Updates \cup {Timer},
         NEW l \in Labels \ {"get", "wait", "reset"},
         pc' = [pc EXCEPT ![u] = l],
         u \in FutureIds => pc[u] # "idle",
         l = "succeeded" => selector' # Nil \/ disposed',
         l = "complete" => selector' # Nil \/ disposed' \/ failed'[u],
         selector' \in {selector, "urls", "fetched"},
         semaphore' \in {semaphore, u, None}, u # Timer \/ semaphore' = semaphore,
         timer' \in {timer, "armed", "fired"},
         failed' \in [Updates -> BOOLEAN],
         \A k \in FutureIds : k # u => failed'[k] = failed[k],
         UNCHANGED <<futures, nfutures, first, mine, site, calls, disposed>>
  PROVE  IInv'
<1>0. TypeInv
  BY Zenon DEF IInv
<1>1. /\ u \in Goroutines /\ u \notin Callers
      /\ Callers \subseteq Goroutines /\ FutureIds \subseteq Goroutines
  BY GoroutineAssumption, Zenon DEF Goroutines, Updates
<1>2. pc' \in [Goroutines -> Labels] /\ \A y \in Goroutines : pc'[y] = IF y = u THEN l ELSE pc[y]
  BY <1>0, <1>1 DEF TypeInv
<1>3. /\ \A c \in Callers : pc'[c] = pc[c]
      /\ \A y \in Goroutines : pc'[y] = pc[y] \/ pc'[y] \notin {"get", "wait", "reset"}
      /\ \A k \in FutureIds : pc[k] = "idle" => pc'[k] = "idle"
  BY <1>1, <1>2, Zenon
<1>4. /\ selector' \in {Nil, "empty", "urls", "fetched"}
      /\ timer' \in {Nil, "armed", "fired"}
      /\ disposed' \in BOOLEAN /\ (disposed => disposed')
  BY <1>0 DEF TypeInv
<1>5. semaphore' \in Updates \cup {None}
  BY <1>0, Zenon DEF TypeInv
<1>6. (selector' = Nil => selector = Nil) /\ (selector' = "empty" => selector = "empty")
  BY StartupAssumption
<1>7. ASSUME selector' = Nil, ~disposed', NEW k \in FutureIds
      PROVE  /\ pc'[k] = "succeeded" => pc[k] = "succeeded"
             /\ pc'[k] = "complete" =>
                  failed'[k] \/ (pc[k] = "complete" /\ failed'[k] = failed[k])
  BY <1>1, <1>2, <1>7, Zenon
<1> QED
  BY <1>2, <1>3, <1>4, <1>5, <1>6, <1>7, BackgroundKeeps, Zenon

\* The update completes its future, and goes on to its end (CompleteFuture).
LEMMA CompleteKeeps ==
  ASSUME IInv, NEW k \in FutureIds, CompleteFuture(k)
  PROVE  IInv'
<1>0. TypeInv /\ FutureInv /\ CountInv /\ CurrentInv /\ WaitInv /\ CallerInv /\ ReadyInv
  BY Zenon DEF IInv
<1> USE StartupAssumption, GoroutineAssumption
<1>cf. CompleteFuture(k)
  OBVIOUS
<1>a. /\ pc[k] = "complete" /\ pc' = [pc EXCEPT ![k] = "done"] /\ k \in Goroutines
      /\ UNCHANGED <<nfutures, first, selector, semaphore, timer, mine, site, failed, calls, disposed>>
  BY <1>cf DEF CompleteFuture, Goto, topology, timing, local, calling, Goroutines, Updates
<1>b. k \in 1 .. nfutures /\ futures[k] \in States
      /\ (futures[k].completed \/ futures[k].signal = 0)
  BY <1>0, <1>a DEF FutureInv, TypeInv, FutureIds
<1>c. /\ \A j \in FutureIds \ {k} : futures'[j] = futures[j]
      /\ futures' \in [FutureIds -> States] /\ futures'[k].completed
      /\ futures[k].completed => futures'[k] = futures[k]
      /\ ~futures[k].completed => futures'[k].err = IF failed[k] THEN Error ELSE Nil
  <2>1. futures'[k] = IF futures[k].completed THEN futures[k]
                      ELSE [completed |-> TRUE, result |-> Nil,
                            err |-> IF failed[k] THEN Error ELSE Nil,
                            signal |-> futures[k].signal + 1]
    BY <1>0, <1>cf, Zenon DEF CompleteFuture, complete, completeWithError, MarkCompleted, TypeInv
  <2>2. futures'[k] \in States /\ futures'[k].completed
    BY <1>b, <2>1 DEF States
  <2>3. /\ \A j \in FutureIds \ {k} : futures'[j] = futures[j]
        /\ futures' = [j \in FutureIds |-> futures'[j]]
    BY <1>0, <1>cf, Zenon DEF CompleteFuture, TypeInv
  <2>4. \A j \in FutureIds : futures'[j] \in States
    BY <1>0, <2>2, <2>3 DEF TypeInv
  <2>5. futures' \in [FutureIds -> States]
    BY ONLY <2>3, <2>4
  <2>6. futures[k].completed => futures'[k] = futures[k]
    BY <2>1, Zenon
  <2>7. ~futures[k].completed => futures'[k].err = IF failed[k] THEN Error ELSE Nil
    <3>1. ~futures[k].completed =>
            futures'[k] = [completed |-> TRUE, result |-> Nil,
                           err |-> IF failed[k] THEN Error ELSE Nil,
                           signal |-> futures[k].signal + 1]
      BY <2>1, Zenon
    <3> QED
      BY <3>1, CompletedFuture, Zenon
  <2> HIDE <1>cf
  <2> QED
    BY <2>2, <2>3, <2>5, <2>6, <2>7, Zenon
<1>d. \A y \in Goroutines \ {k} : pc'[y] = pc[y]
  BY <1>0, <1>a DEF TypeInv
<1>e. pc'[k] = "done" /\ k \notin Callers
  BY <1>0, <1>a DEF TypeInv, Updates
<1>f. Callers \subseteq Goroutines /\ FutureIds \subseteq Goroutines
  BY DEF Goroutines, Updates
<1>g. /\ \A j \in 1 .. nfutures : j \in FutureIds
      /\ \A y \in Goroutines : mine[y] # 0 => mine[y] \in FutureIds
  BY <1>0 DEF TypeInv, FutureIds
<1>1. TypeInv'
  <2>1. pc' \in [Goroutines -> Labels]
    BY <1>0, <1>a DEF TypeInv, Labels
  <2> QED
    BY <1>0, <1>a, <1>c, <2>1, Zenon DEF TypeInv
<1>2. FutureInv'
  <2>1. ~(k > nfutures)
    BY <1>0, <1>b DEF TypeInv, FutureIds
  <2> QED
    BY <1>0, <1>a, <1>c, <1>d, <1>f, <2>1, Zenon DEF FutureInv
<1>3. CountInv'
  <2>1. Pending' \subseteq Pending
    BY <1>d, <1>e, <1>f DEF Pending
  <2> QED
    BY <1>0, <1>a, <2>1, FewerPending
<1>4. CurrentInv'
  <2> SUFFICES ASSUME NEW j \in 1 .. nfutures, ~futures'[j].completed \/ Succeeded(j)'
               PROVE  first = j
    BY <1>a DEF CurrentInv
  <2>1. CASE j = k
    BY <1>0, <1>b, <1>c, <2>1 DEF CurrentInv, Succeeded
  <2>2. CASE j # k
    BY <1>0, <1>c, <1>g, <2>2, Zenon DEF CurrentInv, Succeeded
  <2> QED
    BY <2>1, <2>2
<1>5. WaitInv'
  <2>1. ASSUME NEW y \in Goroutines, pc[y] = "reset"
        PROVE  mine[y] # 0 /\ futures'[mine[y]].completed /\ futures'[mine[y]].err # Nil
    BY <1>0, <1>c, <1>g, <2>1 DEF WaitInv
  <2> QED
    BY <1>0, <1>a, <1>d, <1>e, <2>1 DEF WaitInv
<1>6. CallerInv'
  <2>1. ASSUME NEW c \in Callers, pc[c] \in {"ensure", "selected"}
        PROVE  mine[c] # 0 /\ Succeeded(mine[c])'
    BY <1>0, <1>a, <1>c, <1>f, <1>g, <2>1 DEF CallerInv, Succeeded
  <2> QED
    BY <1>0, <1>a, <1>d, <1>e, <1>f, <2>1, Zenon DEF CallerInv
<1>7. ReadyInv'
  BY <1>0, <1>a, <1>c, <1>d, <1>e, <1>f, Zenon DEF ReadyInv, Succeeded
<1> QED
  BY <1>1, <1>2, <1>3, <1>4, <1>5, <1>6, <1>7 DEF IInv

\* Every step keeps the invariant.
LEMMA Inductive == IInv /\ [Next]_vars => IInv'
<1> SUFFICES ASSUME IInv, [Next]_vars PROVE IInv'
  OBVIOUS
<1>0. TypeInv /\ FutureInv /\ CountInv /\ CurrentInv /\ WaitInv /\ CallerInv /\ ReadyInv
  BY DEF IInv
<1> USE StartupAssumption, GoroutineAssumption
<1>1. ASSUME NEW c \in Callers, ExecuteCommand(c) PROVE IInv'
  <2> USE <1>0, <1>1 DEF ExecuteCommand, Goto, Return, topology, timing, local, calling, Release, Arm
  <2>1. TypeInv'
    <3>1. pc' \in [Goroutines -> Labels] /\ mine' \in [Goroutines -> 0 .. nfutures]
      BY DEF TypeInv, Labels, Goroutines
    <3>2. calls' \in 0 .. MaxCalls
      BY DEF TypeInv
    <3> QED
      BY <3>1, <3>2 DEF TypeInv
  <2>2. FutureInv'
    BY DEF FutureInv, TypeInv, Goroutines, Updates
  <2>3. CountInv'
    <3>1. CASE disposed
      <4>1. Pending' = Pending
        BY <3>1 DEF Pending, TypeInv, Goroutines
      <4> QED
        BY <3>1, <4>1, CountFacts DEF CountInv
    <3>2. CASE ~disposed
      <4>1. Pending' = Pending \cup {c}
        BY <3>2 DEF Pending, TypeInv, Goroutines
      <4>2. c \notin Pending
        BY DEF Pending
      <4>3. IsFiniteSet(Pending') /\ Cardinality(Pending') = Cardinality(Pending) + 1
        BY <4>1, <4>2, FS_AddElement, CountFacts
      <4> QED
        BY <4>3, CountFacts DEF CountInv
    <3> QED
      BY <3>1, <3>2 DEF TypeInv
  <2>4. CurrentInv'
    BY DEF CurrentInv, Succeeded, TypeInv
  <2>5. WaitInv'
    BY DEF WaitInv, TypeInv, Goroutines, Updates
  <2>6. CallerInv'
    BY DEF CallerInv, Succeeded, TypeInv, Goroutines, Updates
  <2>7. ReadyInv'
    BY DEF ReadyInv, Succeeded, TypeInv, Goroutines, Updates
  <2> QED
    BY <2>1, <2>2, <2>3, <2>4, <2>5, <2>6, <2>7 DEF IInv
<1>2. ASSUME NEW c \in Callers, CheckIsDone(c) PROVE IInv'
  <2> USE <1>0, <1>2 DEF CheckIsDone, Goto, Return, topology, timing, local, calling, Release, Arm, IsDone, IsCompletedExceptionally, isCancelled
  <2>1. TypeInv'
    BY DEF TypeInv, Labels, Goroutines, Updates, FutureIds
  <2>2. FutureInv'
    BY DEF FutureInv, TypeInv, Goroutines, Updates
  <2>3. CountInv'
    <3>1. Pending' \subseteq Pending
      BY DEF Pending, TypeInv, Goroutines
    <3> QED
      BY <3>1, FewerPending
  <2>4. CurrentInv'
    BY DEF CurrentInv, Succeeded, TypeInv
  <2>5. WaitInv'
    BY DEF WaitInv, TypeInv, Goroutines, Updates
  <2>6. CallerInv'
    BY DEF CallerInv, Succeeded, TypeInv, Goroutines, Updates
  <2>7. ReadyInv'
    BY DEF ReadyInv, Succeeded, TypeInv, Goroutines, Updates
  <2> QED
    BY <2>1, <2>2, <2>3, <2>4, <2>5, <2>6, <2>7 DEF IInv
<1>3. ASSUME NEW c \in Callers, UnlikelyExecute(c) PROVE IInv'
  <2> DEFINE n == nfutures + 1
  <2>a. /\ pc[c] = "unlikely" /\ site' = [site EXCEPT ![c] = "inner"] /\ c \in Goroutines
        /\ UNCHANGED <<futures, selector, semaphore, timer, disposed, failed, calls>>
    BY <1>3 DEF UnlikelyExecute, topology, timing, Goroutines
  <2>b. \/ \E l \in {"get", "idle"}, m \in 0 .. nfutures :
             /\ pc' = [pc EXCEPT ![c] = l] /\ mine' = [mine EXCEPT ![c] = m]
             /\ l = "get" => m # 0
             /\ UNCHANGED <<nfutures, first>>
        \/ /\ first = 0 /\ nfutures' = n /\ first' = n
           /\ mine' = [mine EXCEPT ![c] = n]
           /\ pc' = [pc EXCEPT ![c] = "get", ![n] = "start"]
    <3>1. mine \in [Goroutines -> 0 .. nfutures] /\ first \in 0 .. nfutures
      BY <1>0 DEF TypeInv
    <3>2. CASE mine[c] # 0
      <4>1. pc' = [pc EXCEPT ![c] = "get"] /\ UNCHANGED <<nfutures, first, mine>>
        BY <1>3, <3>2, Zenon DEF UnlikelyExecute, Goto
      <4>2. mine' = [mine EXCEPT ![c] = mine[c]] /\ mine[c] \in 0 .. nfutures
        BY <2>a, <3>1, <4>1
      <4> QED
        BY <3>2, <4>1, <4>2, Zenon
    <3>3. CASE mine[c] = 0 /\ first # 0
      BY <1>3, <3>1, <3>3, Zenon DEF UnlikelyExecute, Goto
    <3>4. CASE mine[c] = 0 /\ first = 0 /\ ~lastKnownUrls
      <4>1. pc' = [pc EXCEPT ![c] = "idle"] /\ UNCHANGED <<nfutures, first, mine>>
        BY <1>3, <3>4 DEF UnlikelyExecute, Goto, Return
      <4>2. mine' = [mine EXCEPT ![c] = mine[c]] /\ mine[c] \in 0 .. nfutures
        BY <2>a, <3>1, <4>1
      <4> QED
        BY <4>1, <4>2, Zenon
    <3>5. CASE mine[c] = 0 /\ first = 0 /\ lastKnownUrls
      BY <1>3, <3>5 DEF UnlikelyExecute
    <3> QED
      BY <3>2, <3>3, <3>4, <3>5
  <2>c. /\ IsFiniteSet(Pending \ {c})
        /\ Cardinality(Pending \ {c}) = Cardinality(Pending) - 1
        /\ nfutures + 1 + Cardinality(Pending \ {c}) <= calls + 1
        /\ n \in FutureIds
    <3>1. c \in Pending
      BY <2>a DEF Pending
    <3>2. /\ IsFiniteSet(Pending \ {c}) /\ Cardinality(Pending \ {c}) = Cardinality(Pending) - 1
          /\ Cardinality(Pending \ {c}) \in Nat
      BY <1>0, <3>1, CountFacts, FS_RemoveElement, FS_CardinalityType
    <3> QED
      BY <1>0, <3>2, CountFacts DEF CountInv, FutureIds
  <2>1. ASSUME NEW l \in {"get", "idle"}, NEW m \in 0 .. nfutures,
               pc' = [pc EXCEPT ![c] = l], mine' = [mine EXCEPT ![c] = m],
               l = "get" => m # 0, UNCHANGED <<nfutures, first>>
        PROVE  IInv'
    <3> USE <1>0, <2>a, <2>1
    <3>1. TypeInv'
      BY DEF TypeInv, Labels
    <3>2. Pending' = Pending \ {c}
      BY DEF Pending, TypeInv, Goroutines
    <3>3. CountInv'
      BY <2>c, <3>2, CountFacts DEF CountInv
    <3>4. FutureInv' /\ CurrentInv' /\ ReadyInv'
      BY Zenon DEF FutureInv, CurrentInv, ReadyInv, Succeeded, TypeInv, Goroutines, Updates
    <3>5. WaitInv' /\ CallerInv'
      BY Zenon DEF WaitInv, CallerInv, Succeeded, TypeInv, Goroutines, Updates
    <3> QED
      BY <3>1, <3>3, <3>4, <3>5 DEF IInv
  <2>2. ASSUME first = 0, nfutures' = n, first' = n, mine' = [mine EXCEPT ![c] = n],
               pc' = [pc EXCEPT ![c] = "get", ![n] = "start"]
        PROVE  IInv'
    <3>a. n \in Updates /\ nfutures \in Nat
      BY <1>0, <2>c DEF Updates, TypeInv, FutureIds
    <3>0. n \in Goroutines /\ n # c /\ n \notin Callers /\ nfutures \in Nat
      BY <3>a DEF Goroutines
    <3> USE <1>0, <2>a, <2>2, <3>0
    <3>1. TypeInv'
      <4>1. mine' \in [Goroutines -> 0 .. n]
        BY DEF TypeInv
      <4>2. pc' \in [Goroutines -> Labels]
        BY DEF TypeInv, Labels
      <4> QED
        BY <2>c, <4>1, <4>2 DEF TypeInv
    <3>2. Pending' = Pending \ {c}
      BY DEF Pending, TypeInv, Goroutines
    <3>3. CountInv'
      BY <2>c, <3>2, CountFacts DEF CountInv
    <3>4. FutureInv'
      <4> SUFFICES ASSUME NEW k \in FutureIds PROVE FutureInv!(k)'
        BY Zenon DEF FutureInv
      <4>1. k > n => k > nfutures /\ k # n /\ k # c /\ k \in Goroutines
        BY <2>c DEF FutureIds, Goroutines, Updates
      <4>2. k > n => pc'[k] = pc[k]
        BY <4>1 DEF TypeInv
      <4> QED
        BY <4>1, <4>2 DEF FutureInv
    <3>5. CurrentInv'
      <4>1. \A k \in 1 .. nfutures : k # first
        OBVIOUS
      <4>2. \A k \in 1 .. nfutures : futures[k].completed /\ ~Succeeded(k)
        BY <4>1, Zenon DEF CurrentInv
      <4>3. \A k \in 1 .. n : k # n => k \in 1 .. nfutures
        OBVIOUS
      <4>4. futures' = futures /\ nfutures' = n /\ first' = n
        OBVIOUS
      <4> QED
        BY ONLY <4>2, <4>3, <4>4 DEF CurrentInv, Succeeded
    <3>6. WaitInv' /\ CallerInv'
      <4>1. /\ futures' = futures
            /\ \A y \in Goroutines \ {c, n} : pc'[y] = pc[y] /\ mine'[y] = mine[y]
            /\ pc'[c] = "get" /\ mine'[c] = n /\ n # 0 /\ pc'[n] = "start"
            /\ site'[c] = "inner" /\ \A y \in Callers \ {c} : site'[y] = site[y]
        BY DEF TypeInv
      <4>2. \A y \in Callers : y \in Goroutines /\ y # n
        BY DEF Goroutines
      <4>3. WaitInv'
        <5> HIDE <1>3, <2>a, <2>2
        <5> SUFFICES ASSUME NEW y \in Goroutines PROVE WaitInv!(y)'
          BY Zenon DEF WaitInv
        <5>1. CASE y = c
          BY <4>1, <5>1, Zenon
        <5>2. CASE y = n
          BY <4>1, <5>2, Zenon
        <5>3. CASE y # c /\ y # n
          BY <4>1, <5>3, Zenon DEF WaitInv
        <5> QED
          BY <5>1, <5>2, <5>3, Zenon
      <4>4. CallerInv'
        <5> HIDE <1>3, <2>a, <2>2
        <5> SUFFICES ASSUME NEW y \in Callers PROVE CallerInv!(y)'
          BY Zenon DEF CallerInv
        <5>1. CASE y = c
          BY <4>1, <5>1, Zenon
        <5>2. CASE y # c
          BY <4>1, <4>2, <5>2, Zenon DEF CallerInv, Succeeded
        <5> QED
          BY <5>1, <5>2, Zenon
      <4> QED
        BY <4>3, <4>4
    <3>7. ReadyInv'
      BY <2>c DEF ReadyInv, Succeeded, TypeInv, Goroutines, Updates
    <3> QED
      BY <3>1, <3>3, <3>4, <3>5, <3>6, <3>7 DEF IInv
  <2> QED
    BY <2>b, <2>1, <2>2
<1>4. ASSUME NEW c \in Callers, ResetFirstUpdate(c) PROVE IInv'
  <2> USE <1>0, <1>4 DEF ResetFirstUpdate, Goto, Return, topology, timing, local, calling, Release, Arm
  <2>1. TypeInv'
    BY DEF TypeInv, Labels, Goroutines, Updates, FutureIds
  <2>2. FutureInv'
    BY DEF FutureInv, TypeInv, Goroutines, Updates
  <2>3. CountInv'
    BY Zenon DEF CountInv, Pending, TypeInv, Goroutines, Updates
  <2>4. CurrentInv'
    <3>1. mine[c] # 0 /\ futures[mine[c]].completed /\ ~Succeeded(mine[c])
      BY DEF WaitInv, Succeeded, Goroutines
    <3> QED
      BY <3>1 DEF CurrentInv, Succeeded
  <2>5. WaitInv'
    BY Zenon DEF WaitInv, TypeInv, Goroutines, Updates
  <2>6. CallerInv'
    BY DEF CallerInv, Succeeded, TypeInv, Goroutines, Updates
  <2>7. ReadyInv'
    BY DEF ReadyInv, Succeeded, TypeInv, Goroutines, Updates
  <2> QED
    BY <2>1, <2>2, <2>3, <2>4, <2>5, <2>6, <2>7 DEF IInv
<1>5. ASSUME NEW c \in Callers, ChooseAndExecute(c) PROVE IInv'
  <2> USE <1>0, <1>5 DEF ChooseAndExecute, Goto, Return, topology, timing, local, calling, Release, Arm
  <2>1. TypeInv'
    BY DEF TypeInv, Labels, Goroutines, Updates, FutureIds
  <2>2. FutureInv'
    BY DEF FutureInv, TypeInv, Goroutines, Updates
  <2>3. CountInv'
    BY Zenon DEF CountInv, Pending, TypeInv, Goroutines, Updates
  <2>4. CurrentInv'
    BY DEF CurrentInv, Succeeded, TypeInv
  <2>5. WaitInv'
    BY Zenon DEF WaitInv, TypeInv, Goroutines, Updates
  <2>6. CallerInv'
    BY DEF CallerInv, Succeeded, TypeInv, Goroutines, Updates
  <2>7. ReadyInv'
    <3>1. mine[c] \in FutureIds /\ Succeeded(mine[c])
      BY DEF CallerInv, TypeInv, Goroutines, FutureIds
    <3>2. selector = Nil => disposed
      BY <3>1, Zenon DEF ReadyInv
    <3>3. \A k \in FutureIds : pc'[k] = pc[k]
      BY DEF TypeInv, Goroutines, Updates
    <3> QED
      BY <3>2, <3>3 DEF ReadyInv, Succeeded, TypeInv
  <2> QED
    BY <2>1, <2>2, <2>3, <2>4, <2>5, <2>6, <2>7 DEF IInv
<1>6. ASSUME NEW x \in Goroutines, EnsureNodeSelector(x) PROVE IInv'
  <2> DEFINE f == futures[first]
  <2>a. /\ pc[x] = "ensure"
        /\ UNCHANGED <<futures, nfutures, first, selector, semaphore, timer, disposed, failed, calls>>
    BY <1>6 DEF EnsureNodeSelector, topology, timing, calling
  <2>b. \/ /\ first # 0 /\ (~f.completed \/ f.err # Nil)
           /\ mine' = [mine EXCEPT ![x] = first]
           /\ site' = [site EXCEPT ![x] = "ensure"] /\ pc' = [pc EXCEPT ![x] = "get"]
        \/ pc' = [pc EXCEPT ![x] = "selected"] /\ UNCHANGED <<mine, site>>
    BY <1>6 DEF EnsureNodeSelector, IsDone, IsCompletedExceptionally, Goto
  <2>c. \A y \in Goroutines \ {x} :
          UNCHANGED <<pc[y], mine[y], site[y]>>
    BY <1>0, <2>b DEF TypeInv
  <2>d. \/ pc'[x] = "get" /\ mine'[x] # 0
        \/ pc'[x] = "selected" /\ mine'[x] = mine[x]
    BY <1>0, <1>6, <2>b DEF TypeInv
  \* a command does not wait again
  <2>e. x \in Callers => pc'[x] = "selected" /\ mine'[x] = mine[x]
    <3> SUFFICES ASSUME x \in Callers, first # 0, ~f.completed \/ f.err # Nil PROVE FALSE
      BY <1>0, <1>6, <2>b DEF TypeInv
    <3>1. mine[x] # 0 /\ Succeeded(mine[x])
      BY <1>0, <2>a DEF CallerInv
    <3>2. mine[x] \in 1 .. nfutures
      BY <1>0, <1>6, <3>1 DEF TypeInv
    <3>3. first = mine[x]
      BY <1>0, <3>1, <3>2 DEF CurrentInv
    <3> QED
      BY <3>1, <3>3 DEF Succeeded
  <2>f. Callers \subseteq Goroutines /\ FutureIds \subseteq Goroutines
    BY DEF Goroutines, Updates
  <2>1. TypeInv'
    <3>1. /\ pc' \in [Goroutines -> Labels] /\ mine' \in [Goroutines -> 0 .. nfutures]
          /\ site' \in [Goroutines -> {"inner", "ensure"}]
      BY <1>0, <2>b DEF TypeInv, Labels
    <3> QED
      BY <1>0, <2>a, <3>1 DEF TypeInv
  <2>2. FutureInv'
    <3>1. \A k \in FutureIds : pc[k] = "idle" => pc'[k] = "idle"
      BY <2>a, <2>c, <2>f
    <3> QED
      BY <1>0, <2>a, <3>1 DEF FutureInv
  <2>3. CountInv'
    <3>1. Pending' \subseteq Pending
      BY <2>c, <2>d, <2>f DEF Pending
    <3> QED
      BY <1>0, <2>a, <3>1, FewerPending
  <2>4. CurrentInv'
    BY <1>0, <2>a DEF CurrentInv, Succeeded
  <2>5. WaitInv'
    BY <1>0, <2>a, <2>c, <2>d DEF WaitInv
  <2>6. CallerInv'
    BY <1>0, <2>a, <2>c, <2>e, <2>f DEF CallerInv, Succeeded
  <2>7. ReadyInv'
    <3>1. \A k \in FutureIds : pc'[k] = pc[k] \/ pc'[k] \notin {"succeeded", "complete"}
      BY <2>c, <2>d, <2>f
    <3> QED
      BY <1>0, <2>a, <3>1 DEF ReadyInv, Succeeded
  <2> QED
    BY <2>1, <2>2, <2>3, <2>4, <2>5, <2>6, <2>7 DEF IInv
<1>7. ASSUME NEW x \in Goroutines, Get(x) PROVE IInv'
  <2> DEFINE f == futures[mine[x]]
             l == IF ~f.completed THEN "wait"
                  ELSE IF site[x] = "inner"
                  THEN (IF f.err # Nil THEN "reset" ELSE "ensure")
                  ELSE (IF f.err # Nil THEN "refused" ELSE "selected")
  <2>1. /\ pc[x] = "get" /\ pc' = [pc EXCEPT ![x] = l]
        /\ UNCHANGED <<futures, nfutures, first, selector, semaphore, timer, mine, site,
                       failed, calls, disposed>>
    BY <1>7 DEF Get, AfterGet, Goto, topology, timing, local, calling
  <2>2. futures' \in [FutureIds -> States]
    BY <1>0, <2>1 DEF TypeInv
  <2> QED
    BY <1>7, <2>1, <2>2, LeavesGet, Zenon
<1>8. ASSUME NEW x \in Goroutines, WakeUp(x) PROVE IInv'
  <2> DEFINE m == mine[x]
             f == futures[m]
             l == IF site[x] = "inner"
                  THEN (IF f.err # Nil THEN "reset" ELSE "ensure")
                  ELSE (IF f.err # Nil THEN "refused" ELSE "selected")
  <2>1. /\ pc[x] = "wait" /\ f.signal > 0 /\ pc' = [pc EXCEPT ![x] = l]
        /\ futures' = [futures EXCEPT ![m] = [f EXCEPT !.signal = f.signal - 1]]
        /\ UNCHANGED <<nfutures, first, selector, semaphore, timer, mine, site, failed,
                       calls, disposed>>
    BY <1>8 DEF WakeUp, AfterGet, Goto, CanReceive, Receive, topology, timing, local, calling
  <2>2. m \in FutureIds /\ f \in States
    BY <1>0, <1>8, <2>1 DEF WaitInv, TypeInv, FutureIds
  <2>3. f.completed
    BY <1>0, <2>1, <2>2 DEF FutureInv
  <2>4. /\ futures' \in [FutureIds -> States]
        /\ \A k \in FutureIds : /\ futures'[k].completed = futures[k].completed
                               /\ futures'[k].err = futures[k].err
                               /\ (futures[k].completed \/ futures'[k] = futures[k])
    BY <1>0, <2>1, <2>2, <2>3 DEF TypeInv, States
  <2> HIDE <1>8
  <2> QED
    BY <2>1, <2>3, <2>4, LeavesGet, Zenon
<1>9. ASSUME NEW u \in Updates, StartUpdate(u) PROVE IInv'
  <2>1. /\ pc[u] # "idle" /\ (pc' = [pc EXCEPT ![u] = "succeeded"] \/ pc' = [pc EXCEPT ![u] = "acquire"])
        /\ selector' \in {selector, "urls", "fetched"}
        /\ semaphore' \in {semaphore, u, None} /\ timer' \in {timer, "armed", "fired"}
        /\ UNCHANGED <<futures, nfutures, first, mine, site, calls, disposed>>
    BY <1>9 DEF StartUpdate, Goto, topology, timing, local, calling, Release
  <2>2. failed' \in [Updates -> BOOLEAN] /\ \A k \in FutureIds : k # u => failed'[k] = failed[k]
    BY <1>0, <1>9 DEF StartUpdate, TypeInv, local
  <2>3. pc' = [pc EXCEPT ![u] = "succeeded"] => selector' # Nil \/ disposed'
    BY <1>0, <1>9 DEF StartUpdate, Goto, TypeInv, Goroutines, Updates
  <2>4. {"succeeded", "acquire"} \subseteq Labels \ {"get", "wait", "reset"}
    BY DEF Labels
  <2> QED
    BY <2>1, <2>2, <2>3, <2>4, OneMoves, Zenon
<1>10. ASSUME NEW u \in Updates, AcquireSemaphore(u) PROVE IInv'
  <2>1. /\ pc[u] # "idle" /\ pc' = [pc EXCEPT ![u] = "execute"]
        /\ selector' \in {selector, "urls", "fetched"}
        /\ semaphore' \in {semaphore, u, None} /\ timer' \in {timer, "armed", "fired"}
        /\ UNCHANGED <<futures, nfutures, first, mine, site, calls, disposed>>
    BY <1>10 DEF AcquireSemaphore, Goto, topology, timing, local, calling, Release
  <2>2. failed' \in [Updates -> BOOLEAN] /\ \A k \in FutureIds : k # u => failed'[k] = failed[k]
    BY <1>0, <1>10 DEF AcquireSemaphore, TypeInv, local
  <2>3. "execute" \in Labels \ {"get", "wait", "reset"}
    BY DEF Labels
  <2> QED
    BY <2>1, <2>2, <2>3, OneMoves, Zenon
<1>11. ASSUME NEW u \in Updates, TopologyReceived(u) PROVE IInv'
  <2>1. /\ pc[u] # "idle" /\ pc' = [pc EXCEPT ![u] = "succeeded"]
        /\ selector' \in {selector, "urls", "fetched"}
        /\ semaphore' \in {semaphore, u, None} /\ timer' \in {timer, "armed", "fired"}
        /\ UNCHANGED <<futures, nfutures, first, mine, site, calls, disposed>>
    BY <1>11 DEF TopologyReceived, Goto, topology, timing, local, calling, Release
  <2>2. failed' \in [Updates -> BOOLEAN] /\ \A k \in FutureIds : k # u => failed'[k] = failed[k]
    BY <1>0, <1>11 DEF TopologyReceived, TypeInv, local
  <2>3. pc' = [pc EXCEPT ![u] = "succeeded"] => selector' # Nil \/ disposed'
    BY <1>0, <1>11 DEF TopologyReceived, Goto, TypeInv, Goroutines, Updates
  <2>4. "succeeded" \in Labels \ {"get", "wait", "reset"}
    BY DEF Labels
  <2> QED
    BY <2>1, <2>2, <2>3, <2>4, OneMoves, Zenon
<1>12. ASSUME NEW u \in Updates, ErrorReceived(u) PROVE IInv'
  <2>1. /\ pc[u] # "idle" /\ (pc' = [pc EXCEPT ![u] = "missing"] \/ pc' = [pc EXCEPT ![u] = "failed"])
        /\ selector' \in {selector, "urls", "fetched"}
        /\ semaphore' \in {semaphore, u, None} /\ timer' \in {timer, "armed", "fired"}
        /\ UNCHANGED <<futures, nfutures, first, mine, site, calls, disposed>>
    BY <1>12 DEF ErrorReceived, Goto, topology, timing, local, calling, Release
  <2>2. failed' \in [Updates -> BOOLEAN] /\ \A k \in FutureIds : k # u => failed'[k] = failed[k]
    BY <1>0, <1>12 DEF ErrorReceived, TypeInv, local
  <2>3. {"missing", "failed"} \subseteq Labels \ {"get", "wait", "reset"}
    BY DEF Labels
  <2> QED
    BY <2>1, <2>2, <2>3, OneMoves, Zenon
<1>13. ASSUME NEW u \in Updates, ServerIsDown(u) PROVE IInv'
  <2>1. /\ pc[u] # "idle" /\ (pc' = [pc EXCEPT ![u] = "failed"] \/ pc' = [pc EXCEPT ![u] = "ensure"])
        /\ selector' \in {selector, "urls", "fetched"}
        /\ semaphore' \in {semaphore, u, None} /\ timer' \in {timer, "armed", "fired"}
        /\ UNCHANGED <<futures, nfutures, first, mine, site, calls, disposed>>
    BY <1>13 DEF ServerIsDown, Goto, topology, timing, local, calling, Release
  <2>2. failed' \in [Updates -> BOOLEAN] /\ \A k \in FutureIds : k # u => failed'[k] = failed[k]
    BY <1>0, <1>13 DEF ServerIsDown, TypeInv, local
  <2>3. {"failed", "ensure"} \subseteq Labels \ {"get", "wait", "reset"}
    BY DEF Labels
  <2> QED
    BY <2>1, <2>2, <2>3, OneMoves, Zenon
<1>14. ASSUME NEW u \in Updates, FailOver(u) PROVE IInv'
  <2>1. /\ pc[u] # "idle" /\ (pc' = [pc EXCEPT ![u] = "execute"] \/ pc' = [pc EXCEPT ![u] = "failed"])
        /\ selector' \in {selector, "urls", "fetched"}
        /\ semaphore' \in {semaphore, u, None} /\ timer' \in {timer, "armed", "fired"}
        /\ UNCHANGED <<futures, nfutures, first, mine, site, calls, disposed>>
    BY <1>14 DEF FailOver, Goto, topology, timing, local, calling, Release
  <2>2. failed' \in [Updates -> BOOLEAN] /\ \A k \in FutureIds : k # u => failed'[k] = failed[k]
    BY <1>0, <1>14 DEF FailOver, TypeInv, local
  <2>3. {"execute", "failed"} \subseteq Labels \ {"get", "wait", "reset"}
    BY DEF Labels
  <2> QED
    BY <2>1, <2>2, <2>3, OneMoves, Zenon
<1>15. ASSUME NEW u \in Updates, FailoverRefused(u) PROVE IInv'
  <2>1. /\ pc[u] # "idle" /\ pc' = [pc EXCEPT ![u] = "failed"]
        /\ selector' \in {selector, "urls", "fetched"}
        /\ semaphore' \in {semaphore, u, None} /\ timer' \in {timer, "armed", "fired"}
        /\ UNCHANGED <<futures, nfutures, first, mine, site, calls, disposed>>
    BY <1>15 DEF FailoverRefused, Goto, topology, timing, local, calling, Release
  <2>2. failed' \in [Updates -> BOOLEAN] /\ \A k \in FutureIds : k # u => failed'[k] = failed[k]
    BY <1>0, <1>15 DEF FailoverRefused, TypeInv, local
  <2>3. "failed" \in Labels \ {"get", "wait", "reset"}
    BY DEF Labels
  <2> QED
    BY <2>1, <2>2, <2>3, OneMoves, Zenon
<1>16. ASSUME NEW k \in FutureIds, FirstUpdateSucceeds(k) PROVE IInv'
  <2>1. /\ pc[k] # "idle" /\ pc' = [pc EXCEPT ![k] = "complete"]
        /\ selector' \in {selector, "urls", "fetched"}
        /\ semaphore' \in {semaphore, k, None} /\ timer' \in {timer, "armed", "fired"}
        /\ UNCHANGED <<futures, nfutures, first, mine, site, calls, disposed>>
    BY <1>16 DEF FirstUpdateSucceeds, Goto, topology, timing, local, calling, Arm
  <2>2. failed' \in [Updates -> BOOLEAN] /\ \A j \in FutureIds : j # k => failed'[j] = failed[j]
    BY <1>0, <1>16 DEF FirstUpdateSucceeds, TypeInv, local, Updates
  <2>3. selector' # Nil \/ disposed' \/ failed'[k]
    BY <1>0, <1>16 DEF FirstUpdateSucceeds, ReadyInv, topology
  <2>4. k \in Updates
    BY GoroutineAssumption, Zenon DEF Updates
  <2>5. "complete" \in Labels \ {"get", "wait", "reset"}
    BY DEF Labels
  <2> QED
    BY <2>1, <2>2, <2>3, <2>4, <2>5, OneMoves, Zenon
<1>17. ASSUME NEW k \in FutureIds, DatabaseDoesNotExist(k) PROVE IInv'
  <2>1. /\ pc[k] # "idle" /\ pc' = [pc EXCEPT ![k] = "complete"]
        /\ selector' \in {selector, "urls", "fetched"}
        /\ semaphore' \in {semaphore, k, None} /\ timer' \in {timer, "armed", "fired"}
        /\ UNCHANGED <<futures, nfutures, first, mine, site, calls, disposed>>
    BY <1>17 DEF DatabaseDoesNotExist, Goto, topology, timing, local, calling, Arm
  <2>2. failed' \in [Updates -> BOOLEAN] /\ \A j \in FutureIds : j # k => failed'[j] = failed[j]
    BY <1>0, <1>17 DEF DatabaseDoesNotExist, TypeInv, local, Updates
  <2>3. selector' # Nil \/ disposed' \/ failed'[k]
    BY <1>0, <1>17 DEF DatabaseDoesNotExist, TypeInv, Updates
  <2>4. k \in Updates
    BY GoroutineAssumption, Zenon DEF Updates
  <2>5. "complete" \in Labels \ {"get", "wait", "reset"}
    BY DEF Labels
  <2> QED
    BY <2>1, <2>2, <2>3, <2>4, <2>5, OneMoves, Zenon
<1>18. ASSUME NEW k \in FutureIds, NextUrl(k) PROVE IInv'
  <2>1. /\ pc[k] # "idle" /\ pc' = [pc EXCEPT ![k] = "start"]
        /\ selector' \in {selector, "urls", "fetched"}
        /\ semaphore' \in {semaphore, k, None} /\ timer' \in {timer, "armed", "fired"}
        /\ UNCHANGED <<futures, nfutures, first, mine, site, calls, disposed>>
    BY <1>18 DEF NextUrl, Goto, topology, timing, local, calling, Arm
  <2>2. failed' \in [Updates -> BOOLEAN] /\ \A j \in FutureIds : j # k => failed'[j] = failed[j]
    BY <1>0, <1>18 DEF NextUrl, TypeInv, local, Updates
  <2>3. k \in Updates
    BY GoroutineAssumption, Zenon DEF Updates
  <2>4. "start" \in Labels \ {"get", "wait", "reset"}
    BY DEF Labels
  <2> QED
    BY <2>1, <2>2, <2>3, <2>4, OneMoves, Zenon
<1>19. ASSUME NEW k \in FutureIds, FallBack(k) PROVE IInv'
  <2>1. /\ pc[k] # "idle" /\ pc' = [pc EXCEPT ![k] = "complete"]
        /\ selector' \in {selector, "urls", "fetched"}
        /\ semaphore' \in {semaphore, k, None} /\ timer' \in {timer, "armed", "fired"}
        /\ UNCHANGED <<futures, nfutures, first, mine, site, calls, disposed>>
    BY <1>19 DEF FallBack, Goto, topology, timing, local, calling, Arm
  <2>2. failed' \in [Updates -> BOOLEAN] /\ \A j \in FutureIds : j # k => failed'[j] = failed[j]
    BY <1>0, <1>19 DEF FallBack, TypeInv, local, Updates
  <2>3. selector' # Nil \/ disposed' \/ failed'[k]
    BY <1>0, <1>19 DEF FallBack, TypeInv, Updates
  <2>4. k \in Updates
    BY GoroutineAssumption, Zenon DEF Updates
  <2>5. "complete" \in Labels \ {"get", "wait", "reset"}
    BY DEF Labels
  <2> QED
    BY <2>1, <2>2, <2>3, <2>4, <2>5, OneMoves, Zenon
<1>20. ASSUME NEW k \in FutureIds, CompleteFuture(k) PROVE IInv'
  BY <1>20, CompleteKeeps, Zenon
<1>21. CASE TimerFires
  <2>1. /\ (pc' = [pc EXCEPT ![Timer] = "rearm"] \/ pc' = [pc EXCEPT ![Timer] = "ensure"])
        /\ selector' \in {selector, "urls", "fetched"}
        /\ semaphore' = semaphore /\ timer' \in {timer, "armed", "fired"}
        /\ UNCHANGED <<futures, nfutures, first, mine, site, calls, disposed>>
    BY <1>21 DEF TimerFires, Goto, topology, timing, local, calling
  <2>2. failed' \in [Updates -> BOOLEAN] /\ \A k \in FutureIds : k # Timer => failed'[k] = failed[k]
    BY <1>0, <1>21 DEF TimerFires, TypeInv, local
  <2>3. Timer \in Updates \cup {Timer} /\ Timer \notin FutureIds
    BY GoroutineAssumption, Zenon DEF Updates
  <2>4. {"rearm", "ensure"} \subseteq Labels \ {"get", "wait", "reset"}
    BY DEF Labels
  <2> QED
    BY <2>1, <2>2, <2>3, <2>4, OneMoves, Zenon
<1>22. CASE TimerStartsUpdate
  <2>1. /\ pc' = [pc EXCEPT ![Timer] = "rearm", ![TimerUpdate] = "start"]
        /\ UNCHANGED <<futures, nfutures, first, selector, semaphore, timer, mine, site,
                       failed, calls, disposed>>
    BY <1>22 DEF TimerStartsUpdate, topology, timing, local, calling
  <2>2. /\ Timer \in Goroutines /\ TimerUpdate \in Goroutines
        /\ \A c \in Callers : c \in Goroutines /\ c # Timer /\ c # TimerUpdate
        /\ \A k \in FutureIds : k \in Goroutines /\ k # Timer /\ k # TimerUpdate
    BY GoroutineAssumption, Zenon DEF Goroutines, Updates
  <2>3. /\ pc' \in [Goroutines -> Labels]
        /\ \A y \in Goroutines : pc'[y] = pc[y] \/ pc'[y] \in {"rearm", "start"}
        /\ \A y \in Goroutines : y # Timer /\ y # TimerUpdate => pc'[y] = pc[y]
    BY <1>0, <2>1 DEF TypeInv, Labels
  <2>4. \A y \in Goroutines : pc'[y] = pc[y] \/ pc'[y] \notin {"get", "wait", "reset"}
    BY <2>3
  <2>5. /\ selector \in {Nil, "empty", "urls", "fetched"} /\ semaphore \in Updates \cup {None}
        /\ timer \in {Nil, "armed", "fired"} /\ failed \in [Updates -> BOOLEAN]
        /\ disposed \in BOOLEAN
    BY <1>0, Zenon DEF TypeInv
  <2> QED
    BY <2>1, <2>2, <2>3, <2>4, <2>5, BackgroundKeeps, Zenon
<1>23. CASE TimerRefused
  <2>1. /\ pc[Timer] # "idle" /\ pc' = [pc EXCEPT ![Timer] = "rearm"]
        /\ selector' \in {selector, "urls", "fetched"}
        /\ semaphore' = semaphore /\ timer' \in {timer, "armed", "fired"}
        /\ UNCHANGED <<futures, nfutures, first, mine, site, calls, disposed>>
    BY <1>23 DEF TimerRefused, Goto, topology, timing, local, calling
  <2>2. failed' \in [Updates -> BOOLEAN] /\ \A k \in FutureIds : k # Timer => failed'[k] = failed[k]
    BY <1>0, <1>23 DEF TimerRefused, TypeInv, local
  <2>3. Timer \in Updates \cup {Timer} /\ Timer \notin FutureIds
    BY GoroutineAssumption, Zenon DEF Updates
  <2>4. "rearm" \in Labels \ {"get", "wait", "reset"}
    BY DEF Labels
  <2> QED
    BY <2>1, <2>2, <2>3, <2>4, OneMoves, Zenon
<1>24. CASE TimerRearms
  <2>1. /\ pc[Timer] # "idle" /\ pc' = [pc EXCEPT ![Timer] = "idle"]
        /\ selector' \in {selector, "urls", "fetched"}
        /\ semaphore' = semaphore /\ timer' \in {timer, "armed", "fired"}
        /\ UNCHANGED <<futures, nfutures, first, mine, site, calls, disposed>>
    BY <1>24 DEF TimerRearms, Goto, topology, timing, local, calling
  <2>2. failed' \in [Updates -> BOOLEAN] /\ \A k \in FutureIds : k # Timer => failed'[k] = failed[k]
    BY <1>0, <1>24 DEF TimerRearms, TypeInv, local
  <2>3. Timer \in Updates \cup {Timer} /\ Timer \notin FutureIds
    BY GoroutineAssumption, Zenon DEF Updates
  <2>4. "idle" \in Labels \ {"get", "wait", "reset"}
    BY DEF Labels
  <2> QED
    BY <2>1, <2>2, <2>3, <2>4, OneMoves, Zenon
<1>25. CASE TimerUpdateEnds
  <2>1. /\ pc[TimerUpdate] # "idle" /\ pc' = [pc EXCEPT ![TimerUpdate] = "idle"]
        /\ selector' \in {selector, "urls", "fetched"}
        /\ semaphore' \in {semaphore, TimerUpdate, None} /\ timer' \in {timer, "armed", "fired"}
        /\ UNCHANGED <<futures, nfutures, first, mine, site, calls, disposed>>
    BY <1>25 DEF TimerUpdateEnds, Goto, topology, timing, local, calling
  <2>2. failed' \in [Updates -> BOOLEAN] /\ \A k \in FutureIds : k # TimerUpdate => failed'[k] = failed[k]
    BY <1>0, <1>25 DEF TimerUpdateEnds, TypeInv, local
  <2>3. TimerUpdate \in Updates /\ TimerUpdate \notin FutureIds
    BY GoroutineAssumption, Zenon DEF Updates
  <2>4. "idle" \in Labels \ {"get", "wait", "reset"}
    BY DEF Labels
  <2> QED
    BY <2>1, <2>2, <2>3, <2>4, OneMoves, Zenon
<1>26. CASE Close
  <2>1. /\ disposed' = TRUE /\ timer' = Nil
        /\ UNCHANGED <<futures, nfutures, first, selector, semaphore, pc, mine, site, failed,
                       calls>>
    BY <1>26 DEF Close, topology, local, calling
  <2>2. /\ selector \in {Nil, "empty", "urls", "fetched"} /\ semaphore \in Updates \cup {None}
        /\ failed \in [Updates -> BOOLEAN] /\ pc \in [Goroutines -> Labels]
    BY <1>0, Zenon DEF TypeInv
  <2>3. timer' \in {Nil, "armed", "fired"} /\ disposed' \in BOOLEAN
    BY <2>1, Zenon
  <2> QED
    BY <2>1, <2>2, <2>3, BackgroundKeeps, Zenon
<1>27. CASE UNCHANGED vars
  <2>1. UNCHANGED <<futures, nfutures, first, selector, semaphore, timer, pc, mine, site,
                    failed, calls, disposed>>
    BY <1>27 DEF vars, topology, timing, local, calling
  <2>2. /\ selector \in {Nil, "empty", "urls", "fetched"} /\ semaphore \in Updates \cup {None}
        /\ timer \in {Nil, "armed", "fired"} /\ failed \in [Updates -> BOOLEAN]
        /\ disposed \in BOOLEAN /\ pc \in [Goroutines -> Labels]
    BY <1>0, Zenon DEF TypeInv
  <2> QED
    BY <2>1, <2>2, BackgroundKeeps, Zenon
<1> QED
  BY <1>1, <1>2, <1>3, <1>4, <1>5, <1>6, <1>7, <1>8, <1>9, <1>10, <1>11, <1>12, <1>13, <1>14, <1>15, <1>16, <1>17, <1>18, <1>19, <1>20, <1>21, <1>22, <1>23, <1>24, <1>25, <1>26, <1>27
     DEF Next, CallerStep, SelectorStep, UpdateStep, FirstUpdateStep, TimerStep

-----------------------------------------------------------------------------
(* What is proved.                                                         *)

\* request_executor.go, ExecuteCommand, unlikelyExecute, firstTopologyUpdate:
\* the invariant above holds for any number of callers, calls and URLs.
THEOREM StartupInvariant == Spec => []IInv
<1> QED
  BY Initial, Inductive, PTL DEF Spec

\* unlikelyExecute: the update that is running is the one new commands find;
\* a command whose own update failed late does not drop it.
THEOREM OneUpdateAtATime == Spec => []RunningUpdateIsCurrent
<1>1. IInv => RunningUpdateIsCurrent
  <2> SUFFICES ASSUME IInv PROVE RunningUpdateIsCurrent
    OBVIOUS
  <2>1. TypeInv /\ WaitInv /\ CurrentInv
    BY DEF IInv
  <2>2. \A k \in FutureIds : futures[k].signal \in 0 .. 1
    BY <2>1, OneSignal
  <2>3. TypeOK
    BY <2>1, <2>2, Zenon DEF TypeInv, WaitInv, TypeOK
  <2>4. ASSUME NEW k \in FutureIds, Running(k) PROVE first = k
    <3>1. k \in 1 .. nfutures
      BY ONLY <2>1, <2>4, k \in FutureIds, StartupAssumption DEF Running, TypeInv, FutureIds
    <3> QED
      BY <2>1, <2>4, <3>1, Zenon DEF Running, CurrentInv
  <2> QED
    BY <2>3, <2>4 DEF RunningUpdateIsCurrent
<1> QED
  BY <1>1, StartupInvariant, PTL

\* ensureNodeSelector, chooseNodeForRequest: a command that gets past the first
\* update has nodes to choose from until the store is closed, and is never
\* refused on the error of another update.
THEOREM CommandsHaveSelector == Spec => []SelectorBeforeCommand
<1>1. IInv => SelectorBeforeCommand
  BY DEF IInv, CallerInv, ReadyInv, SelectorBeforeCommand
<1> QED
  BY <1>1, StartupInvariant, PTL

\* unlikelyExecute: a first update that has succeeded is never forgotten and
\* never repeated.
THEOREM FirstSuccessIsFinal == Spec => SuccessIsFinal
<1> DEFINE Kept == first # 0 /\ futures[first].completed /\ futures[first].err = Nil
                   => first' = first
<1>1. IInv /\ [Next]_vars => [Kept]_vars
  <2> SUFFICES ASSUME IInv, Next, first # 0, futures[first].completed,
                      futures[first].err = Nil
               PROVE  first' = first
    BY DEF vars
  <2>1. ASSUME NEW c \in Callers, ResetFirstUpdate(c) PROVE first' = first
    BY <2>1 DEF ResetFirstUpdate, IInv, WaitInv, Goroutines
  <2>2. ASSUME NEW c \in Callers, UnlikelyExecute(c) PROVE first' = first
    BY <2>2, Zenon DEF UnlikelyExecute
  <2>3. ASSUME NEW c \in Callers,
               ExecuteCommand(c) \/ CheckIsDone(c) \/ ChooseAndExecute(c)
        PROVE  first' = first
    BY <2>3, Zenon DEF ExecuteCommand, CheckIsDone, ChooseAndExecute
  <2>4. ASSUME NEW x \in Goroutines, SelectorStep(x) PROVE first' = first
    BY <2>4, Zenon DEF SelectorStep, EnsureNodeSelector, Get, WakeUp
  <2>5. ASSUME NEW u \in Updates, UpdateStep(u) PROVE first' = first
    BY <2>5, Zenon DEF UpdateStep, StartUpdate, AcquireSemaphore, TopologyReceived,
         ErrorReceived, ServerIsDown, FailOver, FailoverRefused
  <2>6. ASSUME NEW k \in FutureIds, FirstUpdateStep(k) PROVE first' = first
    BY <2>6, Zenon DEF FirstUpdateStep, FirstUpdateSucceeds, DatabaseDoesNotExist,
         NextUrl, FallBack, CompleteFuture
  <2>7. CASE TimerFires \/ TimerStep \/ TimerUpdateEnds \/ Close
    BY <2>7, Zenon DEF TimerFires, TimerStep, TimerStartsUpdate, TimerRefused,
         TimerRearms, TimerUpdateEnds, Close
  <2> QED
    BY <2>1, <2>2, <2>3, <2>4, <2>5, <2>6, <2>7 DEF Next, CallerStep
<1> QED
  BY <1>1, StartupInvariant, PTL DEF Spec, SuccessIsFinal

=============================================================================
