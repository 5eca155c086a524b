------------------------- MODULE SubscriptionWorker -------------------------
(***************************************************************************)
(* A subscription worker (subscription_worker.go): the goroutine of Run    *)
(* that connects, negotiates, reads batches, calls the program back and    *)
(* acknowledges; a goroutine that cancels or closes it; the server, which  *)
(* is external and may refuse, redirect, fail or drop the connection.      *)
(*                                                                         *)
(* Documents are the numbers 1 .. MaxDocs, a change vector the number of   *)
(* the last document it covers.                                            *)
(***************************************************************************)
EXTENDS Integers, Sequences, Functions

CONSTANTS MaxDocs,   \* documents that match the subscription
          MaxConns,  \* bound: TCP connections made
          Workloads  \* sets of what happens besides: "close", "cancel",
                     \* "refusals", "breaks", "callbackFails",
                     \* "callbackCloses", "ignoreErrors"

ASSUME SubscriptionAssumption == MaxDocs \in Nat /\ MaxConns \in Nat

VARIABLES work,
          pc,        \* where the worker's goroutine is
          ex,        \* the error processSubscription ends with
          err,       \* Err()
          cancelled, disposed,
          user,      \* the program cancelled or closed the worker
          conn,      \* the TCP connection
          parser,    \* the connection the JSON decoder reads, 0 for none
          redirectNode, lastConnectionFailure,
          batch,     \* documents of the batch being read
          closer,    \* where Close is
          handled,   \* ghost: documents that went through the callback
          acked,     \* the server's record of acknowledged documents
          panic

vars == <<work, pc, ex, err, cancelled, disposed, user, conn, parser,
          redirectNode, lastConnectionFailure, batch, closer, handled, acked,
          panic>>

retryState == <<redirectNode, lastConnectionFailure>>
control == <<work, cancelled, disposed, user, closer, err>>
delivery == <<handled, acked>>

NoConn == [id |-> 0, up |-> FALSE, stored |-> FALSE, server |-> "none",
           out |-> <<>>, in |-> <<>>]

Init ==
  /\ work \in Workloads
  /\ pc = "new" /\ ex = "none" /\ err = "none"
  /\ cancelled = FALSE /\ disposed = FALSE /\ user = FALSE
  /\ conn = NoConn /\ parser = 0
  /\ redirectNode = FALSE /\ lastConnectionFailure = FALSE
  /\ batch = <<>> /\ closer = "free"
  /\ handled = {} /\ acked = 0 /\ panic = FALSE

Running == ~panic

\* The goroutine leaves processSubscriptionInner; once connectToServer has
\* returned a socket, that is closed.
FailToConnect(e) == pc' = "failed" /\ ex' = e /\ UNCHANGED conn
Fail(e) == pc' = "failed" /\ ex' = e /\ conn' = [conn EXCEPT !.up = FALSE]
Leave == pc' = "loop" /\ ex' = "none" /\ conn' = [conn EXCEPT !.up = FALSE]
GoTo(p) == pc' = p /\ UNCHANGED <<ex, conn>>

\* mutant: the connection stays open
keepTcpClient == conn' = conn

closeTcpClient ==
  conn' = IF conn.stored THEN [conn EXCEPT !.up = FALSE] ELSE conn

-----------------------------------------------------------------------------
(* Connecting                                                              *)

Run ==
  /\ Running /\ pc = "new"
  /\ GoTo("loop")
  /\ UNCHANGED <<control, delivery, retryState, parser, batch, panic>>

\* The head of runSubscriptionAsync's loop; close(chDone) when it ends.
runSubscriptionAsync ==
  /\ Running /\ pc = "loop"
  /\ pc' = IF cancelled THEN "done" ELSE "connect"
  /\ closeTcpClient
  /\ UNCHANGED <<control, delivery, retryState, ex, parser, batch, panic>>

\* GetTcpInfo, through the redirect node or the topology, and the dial.
connectToServer ==
  /\ Running /\ pc = "connect"
  /\ \/ cancelled /\ FailToConnect("cancelled") /\ UNCHANGED redirectNode
     \/ /\ ~cancelled /\ "refusals" \in work
        /\ FailToConnect("other") /\ redirectNode' \in {FALSE, redirectNode}
     \/ /\ ~cancelled /\ ~redirectNode /\ "refusals" \in work
        /\ FailToConnect("fatal") /\ UNCHANGED redirectNode
     \/ /\ ~cancelled /\ conn.id < MaxConns
        /\ conn' = [NoConn EXCEPT !.id = conn.id + 1, !.up = TRUE]
        /\ pc' = "dialled" /\ UNCHANGED <<ex, redirectNode>>
  /\ UNCHANGED <<control, delivery, lastConnectionFailure, parser, batch,
                 panic>>

StoreTcpClient ==
  /\ Running /\ pc = "dialled"
  /\ conn' = [conn EXCEPT !.stored = TRUE] /\ pc' = "negotiate"
  /\ UNCHANGED <<control, delivery, retryState, ex, parser, batch, panic>>

\* The decoder is made for the first connection and never again.
ensureParser ==
  /\ Running /\ pc = "negotiate"
  /\ parser' = IF parser = 0 THEN conn.id ELSE parser
  /\ GoTo("reply")
  /\ UNCHANGED <<control, delivery, retryState, batch, panic>>

\* negotiateProtocolVersion.  The error of readServerResponseAndGetVersion is
\* dropped: version 0 is out of range.  A newer version is answered by
\* sending ours again, which the server is taken to accept (the loop would
\* not end otherwise).  Then the options are sent.
negotiateProtocolVersion ==
  /\ Running /\ pc = "reply"
  /\ \/ parser # conn.id /\ FailToConnect("stale parser")
     \/ parser = conn.id /\ ~conn.up /\ FailToConnect("other")
     \/ /\ parser = conn.id /\ conn.up /\ "refusals" \in work
        /\ FailToConnect("other")
     \/ /\ parser = conn.id /\ conn.up /\ "refusals" \in work
        /\ conn.server = "none"
        /\ conn' = [conn EXCEPT !.server = "newer"]
        /\ pc' = "negotiate" /\ UNCHANGED ex
     \/ /\ parser = conn.id /\ conn.up
        /\ IF cancelled THEN Fail("cancelled")
           ELSE /\ conn' = [conn EXCEPT !.server = "asked"]
                /\ pc' = "status" /\ UNCHANGED ex
  /\ UNCHANGED <<control, delivery, retryState, parser, batch, panic>>

-----------------------------------------------------------------------------
(* Reading                                                                 *)

\* mutant: cancellation is not looked at
ReadStatusUnchecked ==
  /\ Running /\ pc = "status"
  /\ IF cancelled \/ disposed
     THEN panic' = TRUE /\ UNCHANGED <<pc, ex, conn>>
     ELSE GoTo("decodeStatus") /\ UNCHANGED panic
  /\ UNCHANGED <<control, delivery, retryState, parser, batch>>

\* readNextObject's check, before the connection status is decoded: a nil
\* message without cancellation is dereferenced.
ReadStatus ==
  /\ Running /\ pc = "status"
  /\ IF cancelled THEN Leave /\ UNCHANGED panic
     ELSE IF disposed THEN panic' = TRUE /\ UNCHANGED <<pc, ex, conn>>
     ELSE GoTo("decodeStatus") /\ UNCHANGED panic
  /\ UNCHANGED <<control, delivery, retryState, parser, batch>>

\* A decode gives the next message, or an error once the connection is
\* closed; what is already in the decoder's buffer may come first.
message(type, n) == [type |-> type, n |-> n]
Took == [conn EXCEPT !.out = Tail(@)]

assertConnectionState(status) ==
  CASE status = "Refused" -> "fatal"
    [] status = "Redirect" -> "redirect"
    [] status = "Concurrency" -> "concurrency"
    [] OTHER -> "other"

DecodeStatus ==
  /\ Running /\ pc = "decodeStatus"
  /\ \/ ~conn.up /\ Fail("other") /\ UNCHANGED lastConnectionFailure
     \/ /\ conn.out # <<>>
        /\ \E m \in {Head(conn.out).type} :
             IF cancelled THEN Leave /\ UNCHANGED lastConnectionFailure
             ELSE IF m # "Accepted"
             THEN /\ Fail(assertConnectionState(m))
                  /\ UNCHANGED lastConnectionFailure
             ELSE /\ lastConnectionFailure' = FALSE
                  /\ pc' = "read" /\ conn' = Took /\ UNCHANGED ex
  /\ batch' = <<>>
  /\ UNCHANGED <<control, delivery, redirectNode, parser, panic>>

\* The heads of the loops of processSubscriptionInner and of
\* readSingleSubscriptionBatchFromServer.  A nil message ends the batch early.
ReadNext ==
  /\ Running /\ pc = "read"
  /\ IF cancelled THEN Fail("cancelled") \/ (batch = <<>> /\ Leave)
     ELSE IF disposed THEN GoTo("callback") ELSE GoTo("decode")
  /\ UNCHANGED <<control, delivery, retryState, parser, batch, panic>>

readSingleSubscriptionBatchFromServer ==
  /\ Running /\ pc = "decode"
  /\ \/ ~conn.up /\ Fail("other") /\ UNCHANGED batch
     \/ /\ conn.out # <<>>
        /\ \E m \in {Head(conn.out)} :
             IF cancelled THEN Fail("cancelled") /\ UNCHANGED batch
             ELSE CASE m.type = "Data" ->
                         /\ batch' = Append(batch, m.n)
                         /\ pc' = "read" /\ conn' = Took /\ UNCHANGED ex
                    [] m.type = "EndOfBatch" ->
                         /\ pc' = "callback" /\ conn' = Took
                         /\ UNCHANGED <<ex, batch>>
                    [] m.type = "Confirm" ->
                         /\ batch' = <<>>
                         /\ pc' = "read" /\ conn' = Took /\ UNCHANGED ex
                    [] OTHER ->
                         Fail(assertConnectionState(m.type)) /\ UNCHANGED batch
  /\ UNCHANGED <<control, delivery, retryState, parser, panic>>

\* initialize and the callback, with the documents it was given.
Callback ==
  /\ Running /\ pc = "callback"
  /\ \/ handled' = handled \cup Range(batch) /\ GoTo("ack")
     \/ "callbackFails" \in work /\ Fail("other") /\ UNCHANGED handled
     \/ "callbackCloses" \in work /\ GoTo("closing") /\ UNCHANGED handled
  /\ UNCHANGED <<control, acked, retryState, parser, batch, panic>>

\* Close called by the callback waits for the goroutine it runs on.
CallbackCloses ==
  /\ Running /\ pc = "closing" /\ ~disposed
  /\ disposed' = TRUE /\ cancelled' = TRUE /\ user' = TRUE
  /\ closeTcpClient
  /\ UNCHANGED <<work, closer, err, delivery, retryState, pc, ex, parser,
                 batch, panic>>

\* mutant: the acknowledgement is one too far
ackNext(b) == IF b = <<>> THEN <<>> ELSE <<b[Len(b)] + 1>>

\* lastReceivedChangeVector; the server ignores the empty one.
ackOf(b) == IF b = <<>> THEN <<>> ELSE <<b[Len(b)]>>

\* A write to a connection the server has dropped may still succeed.
sendAck ==
  /\ Running /\ pc = "ack"
  /\ \/ /\ conn.up
        /\ conn' = [conn EXCEPT !.in = @ \o ackOf(batch)]
        /\ pc' = "read" /\ UNCHANGED ex
     \/ /\ ~conn.up
        /\ IF "ignoreErrors" \in work THEN GoTo("read") ELSE Fail("other")
  /\ batch' = <<>>
  /\ UNCHANGED <<control, delivery, retryState, parser, panic>>

-----------------------------------------------------------------------------
(* What an error leads to                                                  *)

End(e) == pc' = "done" /\ err' = e
Retry == pc' = "loop" /\ UNCHANGED err

\* A failure after an earlier one may come too late.
assertLastConnectionFailure(retry) ==
  \/ lastConnectionFailure /\ End("too long") /\ UNCHANGED retryState
  \/ retry /\ lastConnectionFailure' = TRUE

\* mutant: a fatal error ends the worker and is dropped
shouldRetrySilently ==
  /\ ~cancelled
  /\ \/ /\ ex \in {"other", "stale parser", "redirect"}
        /\ assertLastConnectionFailure(Retry /\ UNCHANGED redirectNode)
        /\ UNCHANGED <<cancelled, conn>>
     \/ /\ ex = "concurrency" /\ Retry
        /\ UNCHANGED <<retryState, cancelled, conn>>
     \/ /\ ex = "fatal" /\ End("none")
        /\ cancelled' = TRUE /\ closeTcpClient /\ UNCHANGED retryState

\* A redirect is followed if the topology has the node.
shouldTryToReconnect ==
  /\ ~cancelled
  /\ \/ /\ ex = "redirect"
        /\ \/ assertLastConnectionFailure(Retry /\ redirectNode' = TRUE)
           \/ assertLastConnectionFailure(Retry /\ UNCHANGED redirectNode)
           \/ /\ lastConnectionFailure' = TRUE
              /\ End("no such node") /\ UNCHANGED redirectNode
        /\ UNCHANGED <<cancelled, conn>>
     \/ /\ ex = "concurrency" /\ Retry
        /\ UNCHANGED <<retryState, cancelled, conn>>
     \/ /\ ex = "fatal" /\ End("fatal")
        /\ cancelled' = TRUE /\ closeTcpClient /\ UNCHANGED retryState
     \/ /\ ex \in {"other", "stale parser"}
        /\ assertLastConnectionFailure(Retry /\ UNCHANGED redirectNode)
        /\ UNCHANGED <<cancelled, conn>>

\* processSubscription and the rest of runSubscriptionAsync's loop.
processSubscription ==
  /\ Running /\ pc = "failed"
  /\ \/ /\ ex = "cancelled" /\ disposed /\ Retry
        /\ UNCHANGED <<retryState, cancelled, conn>>
     \/ /\ ~(ex = "cancelled" /\ disposed) /\ cancelled
        /\ End(IF disposed THEN "none" ELSE ex)
        /\ UNCHANGED <<retryState, cancelled, conn>>
     \/ shouldTryToReconnect
  /\ ex' = "none"
  /\ UNCHANGED <<work, disposed, user, closer, delivery, parser, batch, panic>>

-----------------------------------------------------------------------------
(* Cancel and Close from another goroutine                                 *)

Cancel ==
  /\ Running /\ "cancel" \in work /\ ~user
  /\ cancelled' = TRUE /\ user' = TRUE
  /\ closeTcpClient
  /\ UNCHANGED <<work, disposed, closer, err, delivery, retryState, pc, ex,
                 parser, batch, panic>>

\* close: isDisposed and markDisposed, Cancel, then the wait for chDone.
CloseMarks ==
  /\ Running /\ "close" \in work /\ closer = "free" /\ ~disposed
  /\ disposed' = TRUE /\ user' = TRUE /\ closer' = "marked"
  /\ UNCHANGED <<work, cancelled, err, delivery, retryState, pc, ex, conn,
                 parser, batch, panic>>

CloseCancels ==
  /\ Running /\ closer = "marked"
  /\ cancelled' = TRUE /\ closeTcpClient
  /\ closer' = IF pc = "new" THEN "closed" ELSE "waiting"
  /\ UNCHANGED <<work, disposed, user, err, delivery, retryState, pc, ex,
                 parser, batch, panic>>

CloseReturns ==
  /\ Running /\ closer = "waiting" /\ pc = "done"
  /\ closer' = "closed"
  /\ UNCHANGED <<work, cancelled, disposed, user, err, delivery, retryState, pc,
                 ex, conn, parser, batch, panic>>

-----------------------------------------------------------------------------
(* The server and the network                                              *)

ServerStep ==
  /\ Running
  /\ UNCHANGED <<control, retryState, pc, ex, parser, batch, handled, panic>>

ServerStatus ==
  /\ ServerStep /\ conn.up /\ conn.server = "asked"
  /\ \E m \in {"Accepted"} \cup IF "refusals" \in work
                THEN {"Refused", "Redirect", "Concurrency", "Error"} ELSE {} :
       conn' = [conn EXCEPT !.out = Append(@, message(m, 0)),
                  !.server = IF m = "Accepted" THEN "ready" ELSE "none"]
  /\ UNCHANGED acked

\* A batch begins after the last acknowledged document.
ServerBatch ==
  /\ ServerStep /\ conn.up /\ conn.server = "ready"
  /\ \E hi \in acked + 1 .. MaxDocs :
       conn' = [conn EXCEPT !.server = "sent", !.out = @ \o
                  [i \in 1 .. hi - acked |-> message("Data", acked + i)]
                  \o <<message("EndOfBatch", 0)>>]
  /\ UNCHANGED acked

ServerAck ==
  /\ ServerStep /\ conn.up /\ conn.in # <<>>
  /\ acked' = IF Head(conn.in) > acked THEN Head(conn.in) ELSE acked
  /\ conn' = [conn EXCEPT !.in = Tail(@), !.server = "ready",
                          !.out = Append(@, message("Confirm", 0))]

ServerFails ==
  /\ ServerStep /\ conn.up /\ conn.server = "ready" /\ "refusals" \in work
  /\ \E m \in {"Refused", "Error"} :
       conn' = [conn EXCEPT !.server = "none", !.out = Append(@, message(m, 0))]
  /\ UNCHANGED acked

Break ==
  /\ ServerStep /\ conn.up /\ "breaks" \in work
  /\ conn' = [conn EXCEPT !.up = FALSE]
  /\ UNCHANGED acked

-----------------------------------------------------------------------------

WorkerNext ==
  \/ runSubscriptionAsync \/ connectToServer \/ StoreTcpClient \/ ensureParser
  \/ negotiateProtocolVersion \/ ReadStatus \/ DecodeStatus \/ ReadNext
  \/ readSingleSubscriptionBatchFromServer \/ Callback \/ CallbackCloses
  \/ sendAck \/ processSubscription

Next ==
  \/ Run \/ WorkerNext \/ Cancel \/ CloseMarks \/ CloseCancels \/ CloseReturns
  \/ ServerStatus \/ ServerBatch \/ ServerAck \/ ServerFails \/ Break

\* The goroutines run and the callback returns; the server answers a
\* negotiation and a request to open the subscription.
Spec ==
  /\ Init /\ [][Next]_vars
  /\ WF_vars(WorkerNext) /\ WF_vars(CloseCancels) /\ WF_vars(CloseReturns)
  /\ WF_vars(ServerStatus)

-----------------------------------------------------------------------------

\* Type invariant; a connection read from is one that was made, a batch is a
\* run of documents, and the goroutine only ends cancelled or with an error.
TypeOK ==
  /\ ex \in {"none", "cancelled", "other", "fatal", "stale parser", "redirect",
             "concurrency"}
  /\ (pc = "failed") <=> (ex # "none")
  /\ conn.id \in 0 .. MaxConns /\ parser \in 0 .. conn.id
  /\ handled \subseteq 1 .. MaxDocs /\ acked \in 0 .. MaxDocs
  /\ \A i \in DOMAIN batch : batch[i] = batch[1] + i - 1

Delivery == INSTANCE AtLeastOnce

\* subscription_worker.go, processSubscriptionInner with batch.initialize and
\* sendAck: whatever breaks, is cancelled or is retried, documents reach the
\* callback without gaps and only what the callback has handled is ever
\* acknowledged.
DeliversAtLeastOnce == Delivery!Spec

\* subscription_worker.go, runSubscriptionAsync and shouldTryToReconnect: a
\* worker that ends without having been cancelled or closed leaves its error
\* in Err().  Types are kept.
FailureIsReported == TypeOK /\ (pc = "done" /\ ~user => err # "none")

\* subscription_worker.go, close, readNextObject: the worker panics only in
\* the moment between markDisposed and Cancel.
PanicOnlyWhileClosing == panic => disposed /\ ~cancelled

\* subscription_worker.go, Close ("we might be reading from a connection, so
\* break that loop by closing the connection"): Close returns, wherever the
\* worker is, unless the callback itself is closing the worker.
CloseEnds ==
  closer = "marked" ~> (closer = "closed" \/ panic \/ pc = "closing")

-----------------------------------------------------------------------------
(* Statements the code does not keep.                                      *)

\* subscription_worker.go, closeTcpClient, "w._parser = nil // Note: not
\* necessary": a new connection can be negotiated without a new decoder.
DecoderIsCurrent == ex # "stale parser"

\* subscription_worker.go, close: closing a worker does not crash it.
CloseNeverPanics == ~panic

\* subscription_worker.go, Close: closing from the callback returns as well.
CallbackCloseReturns == [](pc = "closing" => <>(pc # "closing"))

=============================================================================
