------------------------------ MODULE Future ------------------------------
(***************************************************************************)
(* The state of one completableFuture (completable_future.go) and what its *)
(* methods do to it.  mu makes each of them one step; signalCompletion is  *)
(* a channel of capacity 1, modelled by the number of values in it.        *)
(***************************************************************************)
EXTENDS Naturals

CONSTANTS Nil, Cancellation    \* nil, and a *CancellationError

newCompletableFuture ==
  [completed |-> FALSE, result |-> Nil, err |-> Nil, signal |-> 0]

\* mutant: a later completion overwrites the earlier one
Overwrite(f, result, err) ==
  [completed |-> TRUE, result |-> result, err |-> err, signal |-> 1]

\* mutant: every completion signals, not only the first
SignalAgain(f, result, err) ==
  IF f.completed THEN [f EXCEPT !.signal = @ + 1]
  ELSE [completed |-> TRUE, result |-> result, err |-> err, signal |-> 1]

\* mutant: the future is marked completed and nobody is signalled
NoSignal(f, result, err) ==
  IF f.completed THEN f
  ELSE [completed |-> TRUE, result |-> result, err |-> err, signal |-> f.signal]

\* markCompleted as complete and completeWithError call it: the first
\* completion wins and puts one value into the channel
MarkCompleted(f, result, err) ==
  IF f.completed THEN f
  ELSE [completed |-> TRUE, result |-> result, err |-> err, signal |-> f.signal + 1]

complete(f, result) == MarkCompleted(f, result, Nil)
completeWithError(f, err) == MarkCompleted(f, Nil, err)
\* mutant: the cancellation is stored as the result
cancelAsResult(f) == complete(f, Cancellation)

cancel(f) == completeWithError(f, Cancellation)

IsDone(f) == f.completed
IsCompletedExceptionally(f) == f.err # Nil
\* the second value of getState, which is the result, is taken for the error
isCancelled(f) == f.result = Cancellation

\* <-signalCompletion
CanReceive(f) == f.signal > 0
Receive(f) == [f EXCEPT !.signal = @ - 1]

==========================================================================
