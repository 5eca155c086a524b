----------------------------- MODULE BulkInsert -----------------------------
(***************************************************************************)
(* A bulk insert: documents written to a pipe that one long request streams *)
(* to the server, and the polling of a server-side operation.               *)
(*                                                                          *)
(* The stream is a sequence of chunks, one for each Write on the pipe: a    *)
(* document behind the opening bracket or a comma, and the closing bracket. *)
(* An operation id is a number; 0 stands for the code's -1 (none yet).      *)
(***************************************************************************)
EXTENDS Naturals, Sequences

CONSTANTS
    Threads,      \* goroutines that share the bulk insert
    Workloads,    \* sets of the things they do
    MaxCalls      \* bound: calls of a thread

ASSUME BulkInsertAssumption == Threads # {} /\ MaxCalls \in Nat

VARIABLES
    workload,
    op,           \* BulkInsertOperation; command is the id the request has
    pipe,         \* io.Pipe: which ends are open
    request,      \* the HTTP request of the command
    task,         \* bulkInsertExecuteTask and the token of its channel
    server,       \* what the server received, stored, and was told
    thread,       \* what each goroutine is doing
    history,      \* a first document not encoded; Close overlapping Store, Close;
                  \* how many Stores returned no error
    job           \* a server-side operation that WaitForCompletion polls

vars == <<workload, op, pipe, request, task, server, thread, history, job>>

Does(x) == x \in workload

Opening == [lead |-> "[", doc |-> TRUE]
Further == [lead |-> ",", doc |-> TRUE]
Closing == [lead |-> "]", doc |-> FALSE]
NoChunk == [lead |-> "", doc |-> FALSE]

Init ==
    /\ workload \in Workloads
    /\ op = [id |-> 0, first |-> TRUE, err |-> FALSE, check |-> FALSE,
             command |-> 0]
    /\ history = [lostFirst |-> FALSE, raced |-> FALSE, twoClose |-> FALSE,
                  accepted |-> 0]
    /\ pipe = [reader |-> TRUE, writer |-> TRUE]
    /\ request = "none"
    /\ task = [state |-> "none", token |-> FALSE]
    /\ server = [ids |-> 0, received |-> <<>>, stored |-> 0, killed |-> {},
                 missing |-> FALSE]
    /\ thread = [t \in Threads |->
                    [pc |-> "idle", call |-> "none", chunk |-> NoChunk,
                     failed |-> FALSE, result |-> "none", calls |-> 0]]
    /\ job = "InProgress"

-----------------------------------------------------------------------------
(* Calls.                                                                   *)

Calls(t, call) ==
    /\ Does(call)
    /\ thread[t].pc = "idle" /\ thread[t].calls < MaxCalls

Enter(t, call, pc) ==
    [thread EXCEPT ![t].pc = pc, ![t].call = call, ![t].calls = @ + 1,
                   ![t].failed = FALSE, ![t].result = "none"]

Return(t, result) ==
    [thread EXCEPT ![t].pc = "idle", ![t].result = result, ![t].chunk = NoChunk]

Refuse(t, call) ==
    [thread EXCEPT ![t].call = call, ![t].calls = @ + 1, ![t].result = "error"]

Inside(call) == \E t \in Threads : thread[t].pc # "idle" /\ thread[t].call = call

\* StoreWithID without the compareAndSet of concurrentCheck.
StoreUnchecked(t) ==
    /\ Calls(t, "store")
    /\ ~op.err
    /\ thread' = Enter(t, "store", "id")
    /\ op' = [op EXCEPT !.check = TRUE]
    /\ UNCHANGED <<workload, pipe, request, task, server, history, job>>

\* StoreWithID: one Store at a time, none after a failure, no invalid id.
StoreWithID(t) ==
    /\ Calls(t, "store")
    /\ \/ /\ op.check \/ op.err \/ Does("badid")
          /\ thread' = Refuse(t, "store")
          /\ UNCHANGED <<op, history>>
       \/ /\ ~op.check /\ ~op.err
          /\ thread' = Enter(t, "store", "id")
          /\ op' = [op EXCEPT !.check = TRUE]
          /\ history' = [history EXCEPT !.raced = @ \/ Inside("close")]
    /\ UNCHANGED <<workload, pipe, request, task, server, job>>

\* WaitForID returns nil, to its caller or to StoreWithID, which goes on.
HasID(t) ==
    IF thread[t].call = "store" THEN [thread EXCEPT ![t].pc = "encode"]
                                ELSE Return(t, "nil")

\* WaitForID, called by StoreWithID or by the user, asks the server for an id
\* unless there is one; a goroutine that found none may find one on return.
WaitForID(t) ==
    \/ /\ Calls(t, "waitid")
       /\ thread' = Enter(t, "waitid", "id")
       /\ UNCHANGED <<op, server>>
    \/ /\ thread[t].pc = "id" /\ op.id # 0
       /\ thread' = HasID(t)
       /\ op' = [op EXCEPT !.err = @ /\ thread[t].call # "store"]
       /\ UNCHANGED server
    \/ /\ thread[t].pc = "id" /\ op.id = 0
       /\ thread' = [thread EXCEPT ![t].pc = "asking"]
       /\ UNCHANGED <<op, server>>
    \/ /\ thread[t].pc = "asking"
       /\ server' = [server EXCEPT !.ids = @ + 1]
       /\ op' = [op EXCEPT !.id = server'.ids, !.err = FALSE]
       /\ thread' = HasID(t)
    \/ /\ thread[t].pc = "asking" /\ Does("failures")
       /\ thread' = Return(t, "error")
       /\ op' = [op EXCEPT !.err = TRUE,
                           !.check = @ /\ thread[t].call # "store"]
       /\ UNCHANGED server

\* ensureCommand starts the request, once.
ensureCommand ==
    IF op.command # 0 THEN UNCHANGED <<request, task>>
    ELSE /\ request' = "reading"
         /\ task' = [task EXCEPT !.state = "running"]

NextChunk == IF op.first THEN Opening ELSE Further

\* The rest of StoreWithID up to the write.  A failed request is reported; a
\* document that cannot be encoded is not written, but op.first is cleared.
EncodeDocument(t) ==
    /\ thread[t].pc = "encode"
    /\ ensureCommand
    /\ \E command \in {IF op.command = 0 THEN op.id ELSE op.command} :
          IF task.state = "failed"
          THEN /\ thread' = Return(t, "aborted")
               /\ op' = [op EXCEPT !.err = FALSE, !.check = FALSE]
               /\ UNCHANGED history
          ELSE \/ /\ thread' = [thread EXCEPT ![t].pc = "write",
                                              ![t].chunk = NextChunk]
                  /\ op' = [op EXCEPT !.err = FALSE, !.first = FALSE,
                                      !.command = command]
                  /\ UNCHANGED history
               \/ /\ Does("unencodable")
                  /\ thread' = Return(t, "error")
                  /\ op' = [op EXCEPT !.err = FALSE, !.first = FALSE,
                                      !.command = command, !.check = FALSE]
                  /\ history' = [history EXCEPT !.lostFirst = @ \/ op.first]
    /\ UNCHANGED <<workload, pipe, server, job>>

\* Close begins by writing the closing bracket, if an id was ever assigned.
Close(t) ==
    /\ Calls(t, "close")
    /\ thread' = IF op.id # 0
                 THEN [Enter(t, "close", "write") EXCEPT ![t].chunk = Closing]
                 ELSE [Enter(t, "close", "idle") EXCEPT ![t].result = "nil"]
    /\ history' = [history EXCEPT
                      !.raced = @ \/ (op.id # 0 /\ Inside("store")),
                      !.twoClose = @ \/ (op.id # 0 /\ Inside("close"))]
    /\ UNCHANGED <<workload, op, pipe, request, task, server, job>>

\* Close goes on: the writer is closed, the request awaited if it was started.
CloseWriter(t) ==
    /\ thread[t].pc = "written" /\ thread[t].call = "close"
    /\ pipe' = [pipe EXCEPT !.writer = FALSE]
    /\ thread' = [thread EXCEPT ![t].pc = IF op.command # 0 THEN "get" ELSE "end"]
    /\ UNCHANGED <<workload, op, request, task, server, history, job>>

\* completableFuture.Get: at once when completed, else by the channel's token.
AwaitTask(t) ==
    /\ \/ /\ thread[t].pc = "get" /\ task.state # "running"
          /\ thread' = [thread EXCEPT ![t].pc = "end"]
          /\ UNCHANGED task
       \/ /\ thread[t].pc = "get" /\ task.state = "running"
          /\ thread' = [thread EXCEPT ![t].pc = "blocked"]
          /\ UNCHANGED task
       \/ /\ thread[t].pc = "blocked" /\ task.token
          /\ thread' = [thread EXCEPT ![t].pc = "end"]
          /\ task' = [task EXCEPT !.token = FALSE]
    /\ UNCHANGED <<workload, op, pipe, request, server, history, job>>

\* mutant: only the error of the write counts
FinishWriteOnly(t) ==
    /\ thread[t].pc = "end"
    /\ thread' = Return(t, IF thread[t].failed THEN "error" ELSE "nil")
    /\ op' = [op EXCEPT !.err = @ \/ thread[t].failed]
    /\ UNCHANGED <<workload, pipe, request, task, server, history, job>>

\* The end of Close: the error of the write, or the request's.
FinishClose(t) ==
    /\ thread[t].pc = "end"
    /\ \E result \in {IF thread[t].failed THEN "error"
                      ELSE IF task.state = "failed" THEN "aborted" ELSE "nil"} :
          /\ thread' = Return(t, result)
          /\ op' = [op EXCEPT !.err = @ \/ result # "nil"]
    /\ UNCHANGED <<workload, pipe, request, task, server, history, job>>

\* Abort kills the server's operation.
Abort(t) ==
    /\ Calls(t, "abort")
    /\ \/ /\ server' = [server EXCEPT !.killed = @ \union ({op.id} \ {0})]
          /\ thread' = [Enter(t, "abort", "idle") EXCEPT ![t].result = "nil"]
       \/ /\ op.id # 0 /\ Does("failures")
          /\ thread' = Refuse(t, "abort")
          /\ UNCHANGED server
    /\ UNCHANGED <<workload, op, pipe, request, task, history, job>>

-----------------------------------------------------------------------------
(* io.Pipe (external): a write returns when the reader has taken it, or     *)
(* when either end is closed.                                               *)

\* StoreWithID after its write, asking the server why it failed; Close after
\* its own.
AfterWrite(t, failed) ==
    IF thread[t].call = "store"
    THEN /\ \E why \in IF failed THEN {"error", "aborted"} ELSE {"nil"} :
                thread' = Return(t, why)
         /\ op' = [op EXCEPT !.err = failed, !.check = FALSE]
         /\ history' = [history EXCEPT !.accepted = IF failed THEN @ ELSE @ + 1]
    ELSE /\ thread' = [thread EXCEPT ![t].pc = "written", ![t].failed = failed]
         /\ UNCHANGED <<op, history>>

ReadChunk(t) ==
    /\ thread[t].pc = "write" /\ pipe.reader /\ pipe.writer
    /\ request = "reading"
    /\ server' = [server EXCEPT !.received = Append(@, thread[t].chunk)]
    /\ AfterWrite(t, FALSE)
    /\ UNCHANGED <<workload, pipe, request, task, job>>

WriteToClosedPipe(t) ==
    /\ thread[t].pc = "write" /\ ~(pipe.reader /\ pipe.writer)
    /\ AfterWrite(t, TRUE)
    /\ UNCHANGED <<workload, pipe, request, task, server, job>>

-----------------------------------------------------------------------------
(* The request (external): the transport reads the pipe to its end, and     *)
(* closes it when the request is over.                                      *)

WellFormed(s) ==
    /\ Len(s) >= 2 /\ s[1] = Opening /\ s[Len(s)] = Closing
    /\ \A i \in 2..Len(s) - 1 : s[i] = Further

ReadEnd ==
    /\ request = "reading" /\ ~pipe.writer /\ pipe.reader
    /\ request' = "waiting"
    /\ UNCHANGED <<workload, op, pipe, task, server, thread, history, job>>

\* mutant: nobody is woken
CompletedSilently(state) ==
    /\ request' = "done"
    /\ pipe' = [pipe EXCEPT !.reader = FALSE]
    /\ task' = [state |-> state, token |-> FALSE]

\* ensureCommand's goroutine completes the task.
Completed(state) ==
    /\ request' = "done"
    /\ pipe' = [pipe EXCEPT !.reader = FALSE]
    /\ task' = [state |-> state, token |-> TRUE]

ExecuteTask(failed) == Completed(IF failed THEN "failed" ELSE "ok")

Killed == op.command \in server.killed

\* The server takes the whole stream, or refuses a killed or malformed one; a
\* 404 answer is no error to RequestExecutor, an answer with a body is one.
ServerAnswers ==
    /\ request = "waiting"
    /\ \/ /\ WellFormed(server.received) /\ ~Killed
          /\ server' = [server EXCEPT !.stored = Len(server.received) - 1]
          /\ \E body \in BOOLEAN : ExecuteTask(body)
       \/ /\ ~WellFormed(server.received) \/ Killed
          /\ ExecuteTask(TRUE)
          /\ UNCHANGED server
       \/ /\ Does("missing")
          /\ server' = [server EXCEPT !.missing = TRUE]
          /\ ExecuteTask(FALSE)
    /\ UNCHANGED <<workload, op, thread, history, job>>

\* The connection fails, or a killed operation is answered early.  The retry
\* on another node finds the pipe closed by the transport.
RequestFails ==
    /\ request \in {"reading", "waiting"}
    /\ Does("failures") \/ Killed
    /\ ExecuteTask(TRUE)
    /\ UNCHANGED <<workload, op, server, thread, history, job>>

-----------------------------------------------------------------------------
(* operation.go: WaitForCompletion polls until the operation has ended.      *)

WaitForCompletion(t) ==
    \/ /\ Calls(t, "poll")
       /\ thread' = Enter(t, "poll", "poll")
       /\ UNCHANGED <<workload, op, pipe, request, task, server, history, job>>
    \/ /\ thread[t].pc = "poll"
       /\ \/ /\ job # "InProgress"
             /\ thread' = Return(t, IF job = "Completed" THEN "nil" ELSE "error")
          \/ /\ job = "InProgress"            \* sleeps, and asks again
             /\ UNCHANGED thread
          \/ /\ Does("missing")               \* a 404 answer has no Status
             /\ thread' = Return(t, "error")
       /\ UNCHANGED <<workload, op, pipe, request, task, server, history, job>>

JobEnds ==
    /\ Does("poll") /\ job = "InProgress"
    /\ job' \in {"Completed", "Cancelled", "Faulted"}
    /\ UNCHANGED <<workload, op, pipe, request, task, server, thread, history>>

-----------------------------------------------------------------------------

WaitsForID(t) == WaitForID(t) /\ UNCHANGED <<workload, pipe, request, task, history, job>>

Step(t) ==
    \/ WaitsForID(t) \/ EncodeDocument(t) \/ CloseWriter(t) \/ AwaitTask(t)
    \/ FinishClose(t) \/ ReadChunk(t) \/ WriteToClosedPipe(t)
    \/ WaitForCompletion(t)

Next ==
    \/ \E t \in Threads : StoreWithID(t) \/ Close(t) \/ Abort(t) \/ Step(t)
    \/ ReadEnd \/ ServerAnswers \/ RequestFails \/ JobEnds

Spec == Init /\ [][Next]_vars

\* Goroutines, the transport and the server go on.
FairSpec ==
    /\ Spec
    /\ \A t \in Threads : WF_vars(thread[t].pc # "idle" /\ Step(t))
    /\ WF_vars(ReadEnd) /\ WF_vars(ServerAnswers) /\ WF_vars(JobEnds)

-----------------------------------------------------------------------------

(* Type invariant; the insert task exists exactly when the command does, and *)
(* a goroutine that writes to the pipe has something to write.              *)
TypeOK ==
    /\ workload \in Workloads
    /\ op \in [id : Nat, first : BOOLEAN, err : BOOLEAN, check : BOOLEAN,
               command : 0..server.ids]
    /\ pipe \in [reader : BOOLEAN, writer : BOOLEAN]
    /\ request \in {"none", "reading", "waiting", "done"}
    /\ task \in [state : {"none", "running", "ok", "failed"}, token : BOOLEAN]
    /\ (task.state = "none") = (op.command = 0)
    /\ \A t \in Threads :
          thread[t].pc = "write" => thread[t].chunk # NoChunk

\* Thread t returns from a call.
Returns(t, call) ==
    thread[t].pc # "idle" /\ thread[t].call = call /\ thread'[t].pc = "idle"

(* When Close returns no error, every document whose Store returned no      *)
(* error is on the server, whatever the other goroutines did, unless the    *)
(* server answered the request with 404, which Execute takes for success.   *)
CloseMeansStored ==
    [][\A t \in Threads :
          (Returns(t, "close") /\ thread'[t].result = "nil") =>
              server.stored = history.accepted \/ server.missing]_vars

(* The server is sent a prefix of one JSON array, through retries of Store, *)
(* refused documents and aborts, unless Close overlaps a Store or another   *)
(* Close, which concurrentCheck does not guard, or the very first document  *)
(* could not be encoded, which loses the opening bracket.  Types are kept.  *)
StreamIsOneArray ==
    /\ TypeOK
    /\ (~history.raced /\ ~history.twoClose /\ ~history.lostFirst) =>
          \A i \in DOMAIN server.received :
              \/ server.received[i] = (IF i = 1 THEN Opening ELSE Further)
              \/ server.received[i] = Closing /\ i = Len(server.received)

(* Every call returns: a Store blocked on the pipe is released by the       *)
(* transport, Close by the end of the request, WaitForCompletion by the end *)
(* of the operation; except Close when no Store has started the request, or *)
(* together with another Close.                                             *)
CallsReturn ==
    \A t \in Threads :
        thread[t].pc # "idle" ~>
            \/ thread[t].pc = "idle"
            \/ /\ thread[t].call = "close"
               /\ op.command = 0 \/ history.twoClose

-----------------------------------------------------------------------------
(* Statements that this code does not satisfy.                             *)

(* Close returns: not when WaitForID, which is exported, was called and no  *)
(* Store: the closing bracket is written to a pipe that nobody reads.       *)
CloseReturns ==
    \A t \in Threads :
        (thread[t].pc # "idle" /\ thread[t].call = "close") ~>
            thread[t].pc = "idle"

(* Close after Abort fails with a BulkInsertAbortedError: not when the      *)
(* write of the closing bracket fails first, whose error is returned as is. *)
AbortIsReported ==
    [][\A t \in Threads :
          (Killed /\ Returns(t, "close") /\ thread'[t].result # "nil") =>
              thread'[t].result = "aborted"]_vars

(* Close reports that nothing was stored: not when the answer is 404.       *)
CloseReportsMissing ==
    [][\A t \in Threads :
          (Returns(t, "close") /\ thread'[t].result = "nil") =>
              server.stored = history.accepted]_vars

(* Abort kills the operation of the request: not when two calls of          *)
(* WaitForID overlapped, the later of which replaced operationID.           *)
AbortKillsTheStream ==
    (op.command # 0 /\ server.killed # {}) => Killed
=============================================================================
