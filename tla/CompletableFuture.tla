------------------------ MODULE CompletableFuture ------------------------
(***************************************************************************)
(* Goroutines that complete, cancel and wait for one completableFuture.    *)
(* GetWithTimeout reads the state, waits for the signal or its timeout,    *)
(* and reads the state again: three steps, mu is not held between them.    *)
(***************************************************************************)
EXTENDS Future

CONSTANTS
  Producers,  \* goroutines that complete or cancel the future, once each
  Waiters,    \* goroutines that call Get or GetWithTimeout
  Timed,      \* the waiters with a timeout
  Values,     \* results
  Errors,     \* errors other than the cancellation
  TimedOut,   \* what a waiter gets when its timeout expires
  MaxGets     \* bound: calls per waiter

ASSUME FutureAssumption ==
  /\ Timed \subseteq Waiters
  /\ Nil \notin Errors \cup {Cancellation}
  /\ Cancellation \notin Values
  /\ MaxGets \in Nat

VARIABLES future, done, pc, gets, got

vars == <<future, done, pc, gets, got>>

Outcome(f) == <<f.result, f.err>>

Init ==
  /\ future = newCompletableFuture
  /\ done = {}                          \* producers that have run
  /\ pc = [w \in Waiters |-> "idle"]
  /\ gets = [w \in Waiters |-> 0]
  /\ got = [w \in Waiters |-> {}]       \* history: what the calls returned

Completes(p, f) ==
  /\ p \notin done
  /\ done' = done \cup {p}
  /\ future' = f
  /\ UNCHANGED <<pc, gets, got>>

Produce(p) ==
  \/ \E v \in Values \cup {Nil} : Completes(p, complete(future, v))
  \/ \E e \in Errors : Completes(p, completeWithError(future, e))
  \/ Completes(p, cancel(future))

ReturnFromGet(w, what) ==
  /\ pc' = [pc EXCEPT ![w] = "idle"]
  /\ got' = [got EXCEPT ![w] = @ \cup {what}]

GetWithTimeout(w) ==
  /\ pc[w] = "idle" /\ gets[w] < MaxGets
  /\ gets' = [gets EXCEPT ![w] = @ + 1]
  /\ IF future.completed
     THEN ReturnFromGet(w, Outcome(future))
     ELSE pc' = [pc EXCEPT ![w] = "wait"] /\ UNCHANGED got
  /\ UNCHANGED <<future, done>>

WakeUp(w) ==
  /\ pc[w] = "wait" /\ CanReceive(future)
  /\ future' = Receive(future)
  /\ pc' = [pc EXCEPT ![w] = "read"]
  /\ UNCHANGED <<done, gets, got>>

TimeoutExpires(w) ==
  /\ pc[w] = "wait" /\ w \in Timed
  /\ ReturnFromGet(w, TimedOut)
  /\ UNCHANGED <<future, done, gets>>

ReadState(w) ==
  /\ pc[w] = "read"
  /\ ReturnFromGet(w, Outcome(future))
  /\ UNCHANGED <<future, done, gets>>

Next ==
  \/ \E p \in Producers : Produce(p)
  \/ \E w \in Waiters :
       GetWithTimeout(w) \/ WakeUp(w) \/ TimeoutExpires(w) \/ ReadState(w)

Spec == Init /\ [][Next]_vars

\* goroutines keep running and timers expire; producers owe nothing
FairSpec == Spec /\ \A w \in Waiters : WF_vars(WakeUp(w) \/ TimeoutExpires(w) \/ ReadState(w))

---------------------------------------------------------------------------
(* Properties *)

Outcomes == ((Values \cup {Nil}) \X {Nil}) \cup ({Nil} \X (Errors \cup {Cancellation}))

\* The future, its waiters and what they got keep their types.
TypeOK ==
  /\ future \in [completed : BOOLEAN, result : Values \cup {Nil},
                 err : Errors \cup {Nil, Cancellation}, signal : Nat]
  /\ done \subseteq Producers
  /\ pc \in [Waiters -> {"idle", "wait", "read"}]
  /\ gets \in [Waiters -> Nat]
  /\ got \in [Waiters -> SUBSET (Outcomes \cup {TimedOut})]

\* markCompleted sends on signalCompletion with mu held: the channel (capacity
\* 1) is empty whenever that send can still happen, so complete() never blocks
\* and never leaves mu locked, whatever the waiters did before.
SendNeverBlocks ==
  future.signal <= 1 /\ (~future.completed => future.signal = 0)

\* The future resolves once and every call of Get that returns a value returns
\* that of the completion that won.
Unresolved == <<Nil>>
Abstract == INSTANCE Promise WITH
  Getters <- Waiters,
  outcome <- IF future.completed THEN Outcome(future) ELSE Unresolved
FulfilsPromise == Abstract!Spec

\* A goroutine that is the only one ever to wait returns once the future is
\* completed.
SoleWaiterReturns ==
  \A w \in Waiters :
    [](\A v \in Waiters \ {w} : pc[v] # "wait") =>
      ((pc[w] = "wait" /\ future.completed) ~> pc[w] = "idle")

\* "Get waits for completion and returns resulting value or error"
\* (completable_future.go:117): a waiting call returns once the future is
\* completed.
GetReturns ==
  \A w \in Waiters : (pc[w] = "wait" /\ future.completed) ~> pc[w] = "idle"

\* "isCancelled returns true if future was cancelled by calling cancel()"
\* (completable_future.go:107).
CancelledIsSeen ==
  future.err = Cancellation => isCancelled(future)

==========================================================================
