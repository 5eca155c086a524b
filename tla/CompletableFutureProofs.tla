--------------------- MODULE CompletableFutureProofs ---------------------
(***************************************************************************)
(* For any number of producers and waiters: completing a future never      *)
(* blocks, and the future fulfils its promise.                             *)
(***************************************************************************)
EXTENDS CompletableFuture, TLAPS

\* a completed future holds a value or an error, and a call that was woken
\* finds it completed
WokenInv ==
  /\ future.completed => Outcome(future) \in Outcomes
  /\ \A w \in Waiters : pc[w] = "read" => future.completed

FutureInv == TypeOK /\ SendNeverBlocks /\ WokenInv

LEMMA CompletesStep ==
  ASSUME FutureInv, NEW p \in Producers,
         NEW result \in Values \cup {Nil}, NEW err \in Errors \cup {Nil, Cancellation},
         <<result, err>> \in Outcomes,
         Completes(p, MarkCompleted(future, result, err))
  PROVE  FutureInv'
<1>1. CASE future.completed
  BY <1>1 DEF Completes, MarkCompleted, FutureInv, TypeOK, SendNeverBlocks, WokenInv
<1>2. CASE ~future.completed
  <2>1. future' = [completed |-> TRUE, result |-> result, err |-> err, signal |-> 1]
    <3>1. future.signal = 0 /\ 0 + 1 = 1
      BY <1>2 DEF FutureInv, SendNeverBlocks
    <3>2. future' = [completed |-> TRUE, result |-> result, err |-> err, signal |-> 0 + 1]
      BY <1>2, <3>1, Zenon DEF Completes, MarkCompleted
    <3>3. QED
      BY <3>1, <3>2, Zenon
  <2>2. TypeOK'
    BY <2>1 DEF Completes, FutureInv, TypeOK
  <2>3. SendNeverBlocks' /\ WokenInv'
    BY <2>1 DEF Completes, FutureInv, SendNeverBlocks, WokenInv, Outcome
  <2>4. QED
    BY <2>2, <2>3 DEF FutureInv
<1>3. QED
  BY <1>1, <1>2

LEMMA ProduceStep ==
  ASSUME FutureInv, NEW p \in Producers, Produce(p)
  PROVE  FutureInv'
<1>1. ASSUME NEW v \in Values \cup {Nil}, Completes(p, complete(future, v)) PROVE FutureInv'
  <2>1. <<v, Nil>> \in Outcomes
    BY DEF Outcomes
  <2>2. QED
    BY <1>1, <2>1, CompletesStep DEF complete
<1>2. ASSUME NEW e \in Errors, Completes(p, completeWithError(future, e)) PROVE FutureInv'
  <2>1. <<Nil, e>> \in Outcomes
    BY DEF Outcomes
  <2>2. QED
    BY <1>2, <2>1, CompletesStep DEF completeWithError
<1>3. ASSUME Completes(p, cancel(future)) PROVE FutureInv'
  <2>1. <<Nil, Cancellation>> \in Outcomes
    BY DEF Outcomes
  <2>2. QED
    BY <1>3, <2>1, CompletesStep DEF cancel, completeWithError
<1>4. QED
  BY <1>1, <1>2, <1>3 DEF Produce

LEMMA FutureInvInit == Init => FutureInv
  BY DEF Init, newCompletableFuture, FutureInv, TypeOK, SendNeverBlocks, WokenInv

LEMMA FutureInvStep == FutureInv /\ [Next]_vars => FutureInv'
<1> SUFFICES ASSUME FutureInv, [Next]_vars PROVE FutureInv'
  OBVIOUS
<1> USE DEF FutureInv, TypeOK, SendNeverBlocks, WokenInv, ReturnFromGet
<1>1. ASSUME NEW p \in Producers, Produce(p) PROVE FutureInv'
  BY <1>1, ProduceStep
<1>2. ASSUME NEW w \in Waiters, GetWithTimeout(w) PROVE FutureInv'
  <2>1. CASE future.completed
    BY <1>2, <2>1 DEF GetWithTimeout
  <2>2. CASE ~future.completed
    BY <1>2, <2>2 DEF GetWithTimeout
  <2>3. QED
    BY <2>1, <2>2
<1>3. ASSUME NEW w \in Waiters, WakeUp(w) PROVE FutureInv'
  <2>1. future.completed /\ future.signal = 1
    BY <1>3 DEF WakeUp, CanReceive
  <2>2. future' = [future EXCEPT !.signal = 0]
    BY <1>3, <2>1 DEF WakeUp, Receive
  <2>3. QED
    BY <1>3, <2>1, <2>2 DEF WakeUp, Outcome
<1>4. ASSUME NEW w \in Waiters, TimeoutExpires(w) PROVE FutureInv'
  BY <1>4 DEF TimeoutExpires
<1>5. ASSUME NEW w \in Waiters, ReadState(w) PROVE FutureInv'
  BY <1>5 DEF ReadState
<1>6. CASE UNCHANGED vars
  BY <1>6 DEF vars
<1>7. QED
  BY <1>1, <1>2, <1>3, <1>4, <1>5, <1>6 DEF Next

\* The state of the future and of its waiters keeps its type.
THEOREM FutureTypeCorrect == Spec => []TypeOK
<1>1. FutureInv => TypeOK
  BY DEF FutureInv
<1>2. QED
  BY <1>1, FutureInvInit, FutureInvStep, PTL DEF Spec

\* The send in markCompleted finds room in the channel for every number of
\* goroutines: complete() returns without waiting for a Get().
THEOREM CompleteNeverBlocks == Spec => []SendNeverBlocks
<1>1. FutureInv => SendNeverBlocks
  BY DEF FutureInv
<1>2. QED
  BY <1>1, FutureInvInit, FutureInvStep, PTL DEF Spec

---------------------------------------------------------------------------
(* Refinement *)

resolved == IF future.completed THEN Outcome(future) ELSE Unresolved

LEMMA OutcomeIsNotUnresolved == \A o \in Outcomes : o # Unresolved
  BY DEF Outcomes, Unresolved

LEMMA ProduceRefines ==
  ASSUME FutureInv, NEW p \in Producers, Produce(p)
  PROVE  Abstract!Next \/ UNCHANGED <<resolved, got>>
<1>1. \E result, err :
        /\ <<result, err>> \in Outcomes
        /\ Completes(p, MarkCompleted(future, result, err))
  <2>1. \A v \in Values \cup {Nil} : <<v, Nil>> \in Outcomes
    BY DEF Outcomes
  <2>2. \A e \in Errors \cup {Cancellation} : <<Nil, e>> \in Outcomes
    BY DEF Outcomes
  <2>3. QED
    BY <2>1, <2>2 DEF Produce, complete, completeWithError, cancel
<1>2. PICK result, err :
        <<result, err>> \in Outcomes /\ Completes(p, MarkCompleted(future, result, err))
  BY <1>1
<1>3. got' = got
  BY <1>2 DEF Completes
<1>4. CASE future.completed
  BY <1>2, <1>3, <1>4 DEF Completes, MarkCompleted, resolved, Outcome
<1>5. CASE ~future.completed
  <2>1. future'.completed /\ Outcome(future)' = <<result, err>>
    BY <1>2, <1>5 DEF Completes, MarkCompleted, Outcome
  <2>2. Abstract!Resolve(<<result, err>>)
    BY <1>3, <1>5, <2>1 DEF Abstract!Resolve
  <2>3. QED
    BY <1>2, <2>2 DEF Abstract!Next
<1>6. QED
  BY <1>4, <1>5

LEMMA StepRefines ==
  ASSUME FutureInv, [Next]_vars
  PROVE  Abstract!Next \/ UNCHANGED <<resolved, got>>
<1>1. ASSUME NEW p \in Producers, Produce(p)
      PROVE  Abstract!Next \/ UNCHANGED <<resolved, got>>
  BY <1>1, ProduceRefines
<1>2. ASSUME NEW w \in Waiters, future.completed, future' = future,
             ReturnFromGet(w, Outcome(future))
      PROVE  Abstract!Next
  <2>1. Outcome(future) # Unresolved
    BY <1>2, OutcomeIsNotUnresolved DEF FutureInv, WokenInv
  <2>2. Abstract!Return(w)
    BY <1>2, <2>1 DEF Abstract!Return, ReturnFromGet
  <2>3. QED
    BY <2>2 DEF Abstract!Next
<1>3. ASSUME NEW w \in Waiters, GetWithTimeout(w)
      PROVE  Abstract!Next \/ UNCHANGED <<resolved, got>>
  BY <1>2, <1>3 DEF GetWithTimeout, resolved
<1>4. ASSUME NEW w \in Waiters, WakeUp(w) PROVE UNCHANGED <<resolved, got>>
  BY <1>4 DEF WakeUp, Receive, resolved, Outcome, FutureInv, TypeOK
<1>5. ASSUME NEW w \in Waiters, TimeoutExpires(w) PROVE Abstract!Next
  <2>1. Abstract!GiveUp(w)
    BY <1>5 DEF TimeoutExpires, ReturnFromGet, Abstract!GiveUp
  <2>2. QED
    BY <2>1 DEF Abstract!Next
<1>6. ASSUME NEW w \in Waiters, ReadState(w) PROVE Abstract!Next
  BY <1>2, <1>6 DEF ReadState, FutureInv, WokenInv
<1>7. CASE UNCHANGED vars
  BY <1>7 DEF vars, resolved
<1>8. QED
  BY <1>1, <1>3, <1>4, <1>5, <1>6, <1>7 DEF Next

\* The future implements Promise: it is resolved once, by the completion that
\* came first, and no call of Get returns anything else, for every number of
\* producers and waiters.
THEOREM FutureRefinesPromise == Spec => FulfilsPromise
<1>1. Init => Abstract!Init
  BY DEF Init, newCompletableFuture, Abstract!Init
<1>2. FutureInv /\ [Next]_vars => [Abstract!Next]_<<resolved, got>>
  BY StepRefines
<1>3. QED
  BY <1>1, <1>2, FutureInvInit, FutureInvStep, PTL
  DEF Spec, FulfilsPromise, Abstract!Spec, resolved

==========================================================================
