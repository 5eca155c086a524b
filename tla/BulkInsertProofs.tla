------------------------- MODULE BulkInsertProofs -------------------------
(***************************************************************************)
(* Proofs about BulkInsert: what the server is sent is one JSON array, for *)
(* any number of goroutines, documents and calls.                          *)
(***************************************************************************)
EXTENDS BulkInsert, TLAPS

Chunks == {Opening, Further, Closing, NoChunk}

Labels == {"idle", "id", "asking", "encode", "write", "written", "get", "blocked",
           "end", "poll"}

CallNames == {"none", "store", "waitid", "close", "abort", "poll"}

States == [pc : Labels, call : CallNames,
           chunk : Chunks, failed : BOOLEAN,
           result : {"none", "nil", "error", "aborted"}, calls : Nat]

Histories == [lostFirst : BOOLEAN, raced : BOOLEAN, twoClose : BOOLEAN, accepted : Nat]

TypeInv ==
  /\ workload \in Workloads
  /\ op \in [id : Nat, first : BOOLEAN, err : BOOLEAN, check : BOOLEAN, command : Nat]
  /\ pipe \in [reader : BOOLEAN, writer : BOOLEAN]
  /\ request \in {"none", "reading", "waiting", "done"}
  /\ task \in [state : {"none", "running", "ok", "failed"}, token : BOOLEAN]
  /\ server \in [ids : Nat, received : Seq(Chunks), stored : Nat, killed : SUBSET Nat,
                 missing : BOOLEAN]
  /\ thread \in [Threads -> States]
  /\ history \in Histories

\* The first document starts the request, and nothing is sent before.
CommandInv ==
  /\ op.id <= server.ids /\ op.command <= server.ids
  /\ op.first <=> op.command = 0
  /\ task.state = "none" <=> op.command = 0
  /\ request = "none" <=> op.command = 0
  /\ request = "none" => server.received = <<>>

\* What a goroutine is doing fits the call it is in.
CallOK(t) ==
  /\ thread[t].pc \in {"id", "asking"} => thread[t].call \in {"store", "waitid"}
  /\ thread[t].pc = "encode" => thread[t].call = "store" /\ op.id # 0
  /\ thread[t].pc = "write" =>
       \/ thread[t].call = "store" /\ thread[t].chunk \in {Opening, Further}
       \/ thread[t].call = "close" /\ thread[t].chunk = Closing
  /\ thread[t].pc \in {"written", "get", "blocked", "end"} => thread[t].call = "close"
  /\ thread[t].pc = "poll" => thread[t].call = "poll"
  /\ thread[t].pc # "idle" /\ thread[t].call = "close" => op.id # 0
CallInv == \A t \in Threads : CallOK(t)

In(t, call) == thread[t].pc # "idle" /\ thread[t].call = call

\* One Store at a time; what else overlaps was noted.
MutexInv ==
  /\ \A t \in Threads : In(t, "store") => op.check
  /\ \A s, t \in Threads :
       /\ In(s, "store") /\ In(t, "store") => s = t
       /\ In(s, "store") /\ In(t, "close") => history.raced
       /\ In(s, "close") /\ In(t, "close") /\ s # t => history.twoClose

Orderly == ~history.raced /\ ~history.twoClose /\ ~history.lostFirst
Broken == ~(pipe.reader /\ pipe.writer)
Storing(t) == thread[t].pc = "write" /\ thread[t].call = "store"

OneArray(s) ==
  \A i \in 1..Len(s) : \/ s[i] = (IF i = 1 THEN Opening ELSE Further)
                       \/ s[i] = Closing /\ i = Len(s)
Closed(s) == Len(s) > 0 /\ s[Len(s)] = Closing

\* Nothing follows the closing bracket, the document being written fits what
\* was sent, and the opening bracket is on its way unless the pipe is broken.
StreamInv ==
  Orderly =>
    /\ OneArray(server.received)
    /\ Closed(server.received) =>
         ~pipe.writer \/ \E t \in Threads : thread[t].pc = "written"
    /\ ~Broken => \A t \in Threads : Storing(t) =>
         thread[t].chunk = (IF server.received = <<>> THEN Opening ELSE Further)
    /\ ~op.first /\ server.received = <<>> =>
         Broken \/ \E t \in Threads : Storing(t)

IInv == TypeInv /\ CommandInv /\ CallInv /\ MutexInv /\ StreamInv

---------------------------------------------------------------------------
(* How a goroutine moves.                                                  *)

\* Goroutine t is now at pc in a call, with a chunk; the others stay.
Becomes(t, pc, call, chunk) ==
  /\ thread' \in [Threads -> States]
  /\ thread'[t].pc = pc /\ thread'[t].call = call /\ thread'[t].chunk = chunk
  /\ \A s \in Threads \ {t} : thread'[s] = thread[s]

\* A record of the goroutine's state is replaced.
LEMMA Replaced ==
  ASSUME TypeInv, NEW t \in Threads, NEW r \in States, thread' = [thread EXCEPT ![t] = r]
  PROVE  Becomes(t, r.pc, r.call, r.chunk)
BY DEF TypeInv, Becomes

\* A call is entered.
LEMMA Enters ==
  ASSUME TypeInv, NEW t \in Threads, NEW call \in CallNames, NEW pc \in Labels,
         thread' = Enter(t, call, pc)
  PROVE  Becomes(t, pc, call, thread[t].chunk)
<1> DEFINE r == [thread[t] EXCEPT !.pc = pc, !.call = call, !.calls = @ + 1,
                                  !.failed = FALSE, !.result = "none"]
<1>1. thread[t] \in States
  BY DEF TypeInv
<1>a. thread[t].calls + 1 \in Nat /\ FALSE \in BOOLEAN
      /\ "none" \in {"none", "nil", "error", "aborted"}
  BY <1>1 DEF States
<1>2. r \in States /\ r.pc = pc /\ r.call = call /\ r.chunk = thread[t].chunk
  BY ONLY <1>1, <1>a, pc \in Labels, call \in CallNames DEF States
<1>3. thread' = [thread EXCEPT ![t] = r]
  BY <1>1 DEF Enter, TypeInv
<1> QED
  BY <1>2, <1>3, Replaced

\* A call returns.
LEMMA ReturnsFrom ==
  ASSUME TypeInv, NEW t \in Threads, NEW result \in {"nil", "error", "aborted"},
         thread' = Return(t, result)
  PROVE  Becomes(t, "idle", thread[t].call, NoChunk)
<1> DEFINE r == [thread[t] EXCEPT !.pc = "idle", !.result = result, !.chunk = NoChunk]
<1>1. thread[t] \in States
  BY DEF TypeInv
<1>a. /\ "idle" \in Labels /\ NoChunk \in Chunks
      /\ result \in {"none", "nil", "error", "aborted"}
  BY <1>1 DEF States, Labels, Chunks
<1>2. r \in States /\ r.pc = "idle" /\ r.call = thread[t].call /\ r.chunk = NoChunk
  BY ONLY <1>1, <1>a DEF States
<1>3. thread' = [thread EXCEPT ![t] = r]
  BY <1>1 DEF Return, TypeInv
<1> QED
  BY <1>2, <1>3, Replaced

\* A call is refused at once.
LEMMA Refused ==
  ASSUME TypeInv, NEW t \in Threads, NEW call \in CallNames, thread' = Refuse(t, call)
  PROVE  Becomes(t, thread[t].pc, call, thread[t].chunk)
<1> DEFINE r == [thread[t] EXCEPT !.call = call, !.calls = @ + 1, !.result = "error"]
<1>1. thread[t] \in States
  BY DEF TypeInv
<1>a. thread[t].calls + 1 \in Nat /\ "error" \in {"none", "nil", "error", "aborted"}
  BY <1>1 DEF States
<1>2. r \in States /\ r.pc = thread[t].pc /\ r.call = call /\ r.chunk = thread[t].chunk
  BY ONLY <1>1, <1>a, call \in CallNames DEF States
<1>3. thread' = [thread EXCEPT ![t] = r]
  BY <1>1 DEF Refuse, TypeInv
<1> QED
  BY <1>2, <1>3, Replaced

\* A goroutine goes on within its call.
LEMMA GoesOn ==
  ASSUME TypeInv, NEW t \in Threads, NEW pc \in Labels,
         thread' = [thread EXCEPT ![t].pc = pc]
  PROVE  Becomes(t, pc, thread[t].call, thread[t].chunk)
<1> DEFINE r == [thread[t] EXCEPT !.pc = pc]
<1>1. thread[t] \in States
  BY DEF TypeInv
<1>2. r \in States /\ r.pc = pc /\ r.call = thread[t].call /\ r.chunk = thread[t].chunk
  BY <1>1 DEF States
<1>3. thread' = [thread EXCEPT ![t] = r]
  BY <1>1 DEF TypeInv
<1> QED
  BY <1>2, <1>3, Replaced

\* A goroutine has something to write, or has written it.
LEMMA Writes ==
  ASSUME TypeInv, NEW t \in Threads, NEW chunk \in Chunks, NEW failed \in BOOLEAN
  PROVE  /\ thread' = [thread EXCEPT ![t].pc = "write", ![t].chunk = chunk]
              => Becomes(t, "write", thread[t].call, chunk)
         /\ thread' = [thread EXCEPT ![t].pc = "written", ![t].failed = failed]
              => Becomes(t, "written", thread[t].call, thread[t].chunk)
         /\ thread' = [Enter(t, "close", "write") EXCEPT ![t].chunk = Closing]
              => Becomes(t, "write", "close", Closing)
<1> DEFINE r == [thread[t] EXCEPT !.pc = "write", !.chunk = chunk]
           w == [thread[t] EXCEPT !.pc = "written", !.failed = failed]
           c == [thread[t] EXCEPT !.pc = "write", !.call = "close", !.calls = @ + 1,
                   !.failed = FALSE, !.result = "none", !.chunk = Closing]
<1>1. thread[t] \in States
  BY DEF TypeInv
<1>a. /\ "write" \in Labels /\ "written" \in Labels /\ "close" \in CallNames
      /\ Closing \in Chunks /\ thread[t].calls + 1 \in Nat /\ FALSE \in BOOLEAN
      /\ "none" \in {"none", "nil", "error", "aborted"}
  BY <1>1 DEF States, Labels, Chunks, CallNames
<1>2. /\ r \in States /\ r.pc = "write" /\ r.call = thread[t].call /\ r.chunk = chunk
      /\ w \in States /\ w.pc = "written" /\ w.call = thread[t].call
      /\ w.chunk = thread[t].chunk
  BY ONLY <1>1, <1>a, chunk \in Chunks, failed \in BOOLEAN DEF States
<1>3. c \in States /\ c.pc = "write" /\ c.call = "close" /\ c.chunk = Closing
  BY ONLY <1>1, <1>a DEF States
<1>4. [thread EXCEPT ![t].pc = "write", ![t].chunk = chunk] = [thread EXCEPT ![t] = r]
  BY <1>1 DEF TypeInv
<1>5. [thread EXCEPT ![t].pc = "written", ![t].failed = failed] = [thread EXCEPT ![t] = w]
  BY <1>1 DEF TypeInv
<1>6. [Enter(t, "close", "write") EXCEPT ![t].chunk = Closing] = [thread EXCEPT ![t] = c]
  BY <1>1 DEF TypeInv, Enter
<1> HIDE DEF r, w, c
<1> QED
  BY <1>2, <1>3, <1>4, <1>5, <1>6, Replaced

\* A call that is over at once.
LEMMA EntersAndReturns ==
  ASSUME TypeInv, NEW t \in Threads, NEW call \in CallNames,
         thread' = [Enter(t, call, "idle") EXCEPT ![t].result = "nil"]
  PROVE  Becomes(t, "idle", call, thread[t].chunk)
<1> DEFINE r == [thread[t] EXCEPT !.pc = "idle", !.call = call, !.calls = @ + 1,
                   !.failed = FALSE, !.result = "nil"]
<1>1. thread[t] \in States
  BY DEF TypeInv
<1>a. /\ "idle" \in Labels /\ thread[t].calls + 1 \in Nat /\ FALSE \in BOOLEAN
      /\ "nil" \in {"none", "nil", "error", "aborted"}
  BY <1>1 DEF States, Labels
<1>2. r \in States /\ r.pc = "idle" /\ r.call = call /\ r.chunk = thread[t].chunk
  BY ONLY <1>1, <1>a, call \in CallNames DEF States
<1>b. thread \in [Threads -> States]
  BY DEF TypeInv
<1>3. [Enter(t, call, "idle") EXCEPT ![t].result = "nil"] = [thread EXCEPT ![t] = r]
  <2> DEFINE e == [thread[t] EXCEPT !.pc = "idle", !.call = call, !.calls = @ + 1,
                     !.failed = FALSE, !.result = "none"]
  <2>1. Enter(t, call, "idle") = [thread EXCEPT ![t] = e]
    BY <1>b DEF Enter
  <2>2. [e EXCEPT !.result = "nil"] = r
    BY <1>1 DEF States
  <2> HIDE DEF e, r
  <2>3. [[thread EXCEPT ![t] = e] EXCEPT ![t].result = "nil"]
          = [thread EXCEPT ![t] = [e EXCEPT !.result = "nil"]]
    BY <1>b
  <2> QED
    BY <2>1, <2>2, <2>3
<1> HIDE DEF r
<1> QED
  BY <1>2, <1>3, Replaced

\* No goroutine enters Store or Close, and the stream is left alone; the pipe
\* may break.
LEMMA QuietStep ==
  ASSUME IInv, TypeInv', CommandInv', CallInv',
         \A t \in Threads : /\ In(t, "store")' => In(t, "store") /\ op'.check
                            /\ In(t, "close")' => In(t, "close")
                            /\ Storing(t)' => Storing(t) /\ thread'[t].chunk = thread[t].chunk
                            /\ Storing(t) => Storing(t)' \/ Broken'
                            /\ thread[t].pc = "written" =>
                                 thread'[t].pc = "written" \/ ~pipe'.writer,
         Broken => Broken', ~pipe.writer => ~pipe'.writer,
         server'.received = server.received, op'.first = op.first, history' = history
  PROVE  IInv'
<1>1. MutexInv /\ StreamInv
  BY DEF IInv
<1>2. MutexInv'
  BY <1>1 DEF MutexInv
<1>3. StreamInv'
  <2> SUFFICES ASSUME Orderly' PROVE StreamInv!2'
    BY DEF StreamInv
  <2>1. Orderly
    BY DEF Orderly
  <2>2. /\ OneArray(server.received)
        /\ Closed(server.received) =>
             ~pipe.writer \/ \E t \in Threads : thread[t].pc = "written"
        /\ ~Broken => \A t \in Threads : Storing(t) =>
             thread[t].chunk = (IF server.received = <<>> THEN Opening ELSE Further)
        /\ ~op.first /\ server.received = <<>> =>
             Broken \/ \E t \in Threads : Storing(t)
    BY <1>1, <2>1 DEF StreamInv
  <2>3. OneArray(server.received)' /\ (Closed(server.received)' => Closed(server.received))
    BY <2>2 DEF OneArray, Closed
  <2> QED
    BY <2>2, <2>3
<1> QED
  BY <1>2, <1>3 DEF IInv

\* Goroutine t moves, and enters neither Store nor Close.
LEMMA QuietMove ==
  ASSUME IInv, NEW t \in Threads, NEW pc, NEW call, NEW chunk, Becomes(t, pc, call, chunk),
         TypeInv', CommandInv', CallOK(t)', op.id # 0 => op'.id # 0,
         pc # "idle" /\ call = "store" => In(t, "store") /\ op'.check,
         pc # "idle" /\ call = "close" => In(t, "close"),
         op'.check = op.check \/ In(t, "store"),
         pc = "write" => call # "store",
         Storing(t) => Broken',
         thread[t].pc = "written" => ~pipe'.writer,
         Broken => Broken', ~pipe.writer => ~pipe'.writer,
         server'.received = server.received, op'.first = op.first, history' = history
  PROVE  IInv'
<1>0. MutexInv /\ CallInv
  BY DEF IInv
<1>1. /\ thread'[t].pc = pc /\ thread'[t].call = call
      /\ \A s \in Threads \ {t} : thread'[s] = thread[s]
  BY DEF Becomes
<1>2. CallInv'
  BY <1>0, <1>1 DEF CallInv, CallOK
<1>3. ASSUME NEW s \in Threads
      PROVE  /\ In(s, "store")' => In(s, "store") /\ op'.check
             /\ In(s, "close")' => In(s, "close")
             /\ Storing(s)' => Storing(s) /\ thread'[s].chunk = thread[s].chunk
             /\ Storing(s) => Storing(s)' \/ Broken'
             /\ thread[s].pc = "written" => thread'[s].pc = "written" \/ ~pipe'.writer
  <2>1. CASE s = t
    BY <1>1, <2>1 DEF In, Storing
  <2>2. CASE s # t
    <3>1. In(s, "store") => op'.check
      BY <1>0, <2>2 DEF MutexInv
    <3> QED
      BY <1>1, <2>2, <3>1 DEF In, Storing
  <2> QED
    BY <2>1, <2>2
<1> QED
  BY <1>2, <1>3, QuietStep

---------------------------------------------------------------------------
(* The actions.                                                            *)

\* StoreWithID: one Store at a time.
LEMMA StoreKeeps == ASSUME IInv, NEW t \in Threads, StoreWithID(t) PROVE IInv'
<1>0. TypeInv /\ CommandInv /\ CallInv /\ MutexInv /\ StreamInv
  BY DEF IInv
<1>1. thread[t].pc = "idle" /\ UNCHANGED <<workload, pipe, request, task, server>>
  BY DEF StoreWithID, Calls
<1>2. CASE thread' = Refuse(t, "store") /\ UNCHANGED <<op, history>>
  <2>1. Becomes(t, "idle", "store", thread[t].chunk)
    BY <1>0, <1>1, <1>2, Refused DEF CallNames
  <2>2. TypeInv' /\ CommandInv'
    BY <1>0, <1>1, <1>2, <2>1 DEF TypeInv, CommandInv, Becomes
  <2>3. CallOK(t)'
    BY <2>1 DEF CallOK, Becomes
  <2> QED
    BY <1>1, <1>2, <2>1, <2>2, <2>3, QuietMove DEF Storing, Broken
<1>3. CASE /\ ~op.check /\ thread' = Enter(t, "store", "id")
           /\ op' = [op EXCEPT !.check = TRUE]
           /\ history' = [history EXCEPT !.raced = @ \/ Inside("close")]
  <2>1. Becomes(t, "id", "store", thread[t].chunk)
    BY <1>0, <1>3, Enters DEF CallNames, Labels
  <2>2. /\ thread'[t].pc = "id" /\ thread'[t].call = "store"
        /\ \A s \in Threads \ {t} : thread'[s] = thread[s]
    BY <2>1 DEF Becomes
  <2>3. /\ op'.check /\ UNCHANGED <<op.id, op.first, op.command>>
        /\ op' \in [id : Nat, first : BOOLEAN, err : BOOLEAN, check : BOOLEAN, command : Nat]
    BY <1>0, <1>3 DEF TypeInv
  <2>4. /\ history' \in Histories
        /\ UNCHANGED <<history.twoClose, history.lostFirst>>
        /\ history'.raced = (history.raced \/ Inside("close"))
    BY <1>0, <1>3 DEF TypeInv, Histories
  <2>5. TypeInv'
    BY <1>0, <1>1, <2>1, <2>3, <2>4 DEF TypeInv, Becomes
  <2>6. CommandInv'
    BY <1>0, <1>1, <2>3 DEF CommandInv
  <2>7. CallInv'
    BY <1>0, <2>2, <2>3 DEF CallInv, CallOK
  <2>8. MutexInv'
    <3>1. \A s \in Threads : ~In(s, "store")
      BY <1>0, <1>3 DEF MutexInv
    <3>2. \A s \in Threads : In(s, "close") => history'.raced
      BY <2>4 DEF In, Inside
    <3>3. /\ \A s \in Threads : In(s, "store")' => s = t
          /\ \A s \in Threads : In(s, "close")' => In(s, "close")
      BY <2>2, <3>1 DEF In
    <3> QED
      BY <1>0, <2>3, <2>4, <3>1, <3>2, <3>3 DEF MutexInv
  <2>9. StreamInv'
    <3> SUFFICES ASSUME Orderly' PROVE StreamInv!2'
      BY DEF StreamInv
    <3>1. Orderly
      BY <2>4 DEF Orderly
    <3>2. \A s \in Threads : /\ Storing(s)' <=> Storing(s)
                             /\ Storing(s) => thread'[s].chunk = thread[s].chunk
                             /\ thread[s].pc = "written" => thread'[s].pc = "written"
      BY <1>1, <2>2 DEF Storing
    <3>3. Broken' <=> Broken
      BY <1>1 DEF Broken
    <3> QED
      BY <1>0, <1>1, <2>3, <3>1, <3>2, <3>3 DEF StreamInv
  <2> QED
    BY <2>5, <2>6, <2>7, <2>8, <2>9 DEF IInv
<1> QED
  BY <1>2, <1>3 DEF StoreWithID

OpType == [id : Nat, first : BOOLEAN, err : BOOLEAN, check : BOOLEAN, command : Nat]

\* WaitForID: an id, once there, stays; a Store that gets none ends.
LEMMA WaitForIDKeeps == ASSUME IInv, NEW t \in Threads, WaitsForID(t) PROVE IInv'
<1>0. TypeInv /\ CommandInv /\ CallInv /\ MutexInv /\ op \in OpType
  BY DEF IInv, TypeInv, OpType
<1>1. WaitForID(t) /\ UNCHANGED <<workload, pipe, request, task, history>>
  BY DEF WaitsForID
<1>a. /\ server' \in [ids : Nat, received : Seq(Chunks), stored : Nat, killed : SUBSET Nat,
                      missing : BOOLEAN]
      /\ server'.received = server.received
      /\ server'.ids \in {server.ids, server.ids + 1} /\ server.ids \in Nat
  <2>1. server' = server \/ server' = [server EXCEPT !.ids = @ + 1]
    BY <1>1 DEF WaitForID
  <2>2. server \in [ids : Nat, received : Seq(Chunks), stored : Nat, killed : SUBSET Nat,
                    missing : BOOLEAN]
    BY <1>0 DEF TypeInv
  <2> QED
    BY ONLY <2>1, <2>2
<1>b. /\ op' \in OpType /\ UNCHANGED <<op.first, op.command>>
      /\ op'.id = op.id \/ (op'.id = server'.ids /\ server'.ids = server.ids + 1)
      /\ op'.check = op.check \/ In(t, "store")
      /\ op.id # 0 => op'.id # 0
  <2>1. CASE thread[t].pc = "asking" /\ server' = [server EXCEPT !.ids = @ + 1]
             /\ op' = [op EXCEPT !.id = server'.ids, !.err = FALSE]
    <3>1. server'.ids = server.ids + 1 /\ server'.ids \in Nat /\ server'.ids # 0
      BY <1>0, <1>a, <2>1 DEF TypeInv
    <3> QED
      BY <1>0, <2>1, <3>1 DEF OpType
  <2>2. CASE op' = op
    BY <1>0, <2>2
  <2>3. CASE op' = [op EXCEPT !.err = @ /\ thread[t].call # "store"]
    BY <1>0, <2>3 DEF OpType
  <2>4. CASE thread[t].pc = "asking"
             /\ op' = [op EXCEPT !.err = TRUE, !.check = @ /\ thread[t].call # "store"]
    BY <1>0, <2>4 DEF OpType, In
  <2> QED
    BY <1>1, <2>1, <2>2, <2>3, <2>4 DEF WaitForID
<1>2. CommandInv'
  BY <1>0, <1>1, <1>a, <1>b DEF CommandInv, OpType
<1>3. PICK pc \in {"idle", "id", "asking", "encode"}, call \in CallNames, chunk \in Chunks :
        /\ Becomes(t, pc, call, chunk)
        /\ thread[t].pc \in {"idle", "id", "asking"}
        /\ pc \in {"id", "asking"} => call \in {"store", "waitid"}
        /\ call = "close" => pc = "idle"
        /\ pc = "encode" => call = "store" /\ op'.id # 0
        /\ pc # "idle" /\ call = "store" => In(t, "store") /\ op'.check
  <2>0. thread[t] \in States
    BY <1>0 DEF TypeInv
  <2>a. thread[t].chunk \in Chunks /\ thread[t].call \in CallNames /\ NoChunk \in Chunks
    BY <2>0 DEF States, Chunks
  <2>b. thread[t].pc \in {"id", "asking"} => thread[t].call \in {"store", "waitid"}
    BY <1>0 DEF CallInv, CallOK
  <2>c. thread[t].pc # "idle" /\ thread[t].call = "store" => In(t, "store") /\ op.check
    BY <1>0 DEF MutexInv, In
  <2>1. CASE thread[t].pc = "idle" /\ thread' = Enter(t, "waitid", "id")
    <3>1. Becomes(t, "id", "waitid", thread[t].chunk)
      BY <1>0, <2>1, Enters DEF CallNames, Labels
    <3> QED
      BY <2>1, <2>a, <3>1 DEF CallNames
  <2>2. CASE thread[t].pc \in {"id", "asking"} /\ op'.id # 0 /\ op'.check = op.check
             /\ thread' = HasID(t)
    <3>1. CASE thread[t].call = "store"
      <4>1. Becomes(t, "encode", thread[t].call, thread[t].chunk)
        BY <1>0, <2>2, <3>1, GoesOn DEF HasID, Labels
      <4> QED
        BY <2>2, <2>a, <2>c, <3>1, <4>1
    <3>2. CASE thread[t].call # "store"
      <4>1. Becomes(t, "idle", thread[t].call, NoChunk)
        BY <1>0, <2>2, <3>2, ReturnsFrom DEF HasID
      <4> QED
        BY <2>2, <2>a, <4>1
    <3> QED
      BY <3>1, <3>2
  <2>3. CASE thread[t].pc = "id" /\ op' = op /\ thread' = [thread EXCEPT ![t].pc = "asking"]
    <3>1. Becomes(t, "asking", thread[t].call, thread[t].chunk)
      BY <1>0, <2>3, GoesOn DEF Labels
    <3> QED
      BY <2>3, <2>a, <2>b, <2>c, <3>1
  <2>4. CASE thread[t].pc = "asking" /\ thread' = Return(t, "error")
    <3>1. Becomes(t, "idle", thread[t].call, NoChunk)
      BY <1>0, <2>4, ReturnsFrom
    <3> QED
      BY <2>4, <2>a, <3>1
  <2>5. ASSUME thread[t].pc = "id" /\ op.id # 0 /\ thread' = HasID(t)
               /\ op' = [op EXCEPT !.err = @ /\ thread[t].call # "store"]
        PROVE  op'.id # 0 /\ op'.check = op.check
    BY <1>0, <2>5 DEF OpType
  <2>6. ASSUME thread[t].pc = "asking" /\ server' = [server EXCEPT !.ids = @ + 1]
               /\ op' = [op EXCEPT !.id = server'.ids, !.err = FALSE]
        PROVE  op'.id # 0 /\ op'.check = op.check
    BY <1>0, <2>6 DEF OpType, TypeInv
  <2> QED
    BY <1>1, <2>1, <2>2, <2>3, <2>4, <2>5, <2>6 DEF WaitForID, Calls
<1>4. TypeInv'
  BY <1>0, <1>1, <1>a, <1>b, <1>3 DEF TypeInv, OpType, Becomes
<1>5. CallOK(t)'
  BY <1>3 DEF CallOK, Becomes
<1>6. thread[t].pc \notin {"write", "written"}
  BY <1>3
<1> QED
  BY <1>1, <1>2, <1>3, <1>4, <1>5, <1>6, <1>a, <1>b, QuietMove DEF Storing, Broken

\* Close: what it overlaps is noted.
LEMMA CloseKeeps == ASSUME IInv, NEW t \in Threads, Close(t) PROVE IInv'
<1>0. TypeInv /\ CommandInv /\ CallInv /\ MutexInv /\ StreamInv
  BY DEF IInv
<1>1. thread[t].pc = "idle" /\ UNCHANGED <<workload, op, pipe, request, task, server>>
  BY DEF Close, Calls
<1>2. /\ history' \in Histories
      /\ history'.lostFirst = history.lostFirst
      /\ history'.raced = (history.raced \/ (op.id # 0 /\ Inside("store")))
      /\ history'.twoClose = (history.twoClose \/ (op.id # 0 /\ Inside("close")))
      /\ op.id = 0 => history' = history
  <2> DEFINE A == op.id # 0 /\ Inside("store")
             B == op.id # 0 /\ Inside("close")
  <2>1. history' = [history EXCEPT !.raced = @ \/ A, !.twoClose = @ \/ B]
    BY DEF Close
  <2>2. history \in Histories
    BY <1>0 DEF TypeInv
  <2>3. op.id = 0 => ~A /\ ~B
    OBVIOUS
  <2> HIDE DEF A, B
  <2>4. /\ history' = [lostFirst |-> history.lostFirst, raced |-> history.raced \/ A,
                       twoClose |-> history.twoClose \/ B, accepted |-> history.accepted]
    BY <2>1, <2>2 DEF Histories
  <2>5. (history.raced \/ A) \in BOOLEAN /\ (history.twoClose \/ B) \in BOOLEAN
    OBVIOUS
  <2>6. ~A /\ ~B => history' = history
    BY <2>2, <2>4 DEF Histories
  <2> QED
    BY <2>2, <2>3, <2>4, <2>5, <2>6 DEF A, B, Histories
<1>3. CASE op.id = 0
  <2>1. Becomes(t, "idle", "close", thread[t].chunk)
    BY <1>0, <1>3, EntersAndReturns DEF Close, CallNames
  <2>2. TypeInv' /\ CommandInv'
    BY <1>0, <1>1, <1>2, <2>1 DEF TypeInv, CommandInv, Becomes
  <2>3. CallOK(t)'
    BY <2>1 DEF CallOK, Becomes
  <2> QED
    BY <1>1, <1>2, <1>3, <2>1, <2>2, <2>3, QuietMove DEF Storing, Broken
<1>4. CASE op.id # 0
  <2>1. Becomes(t, "write", "close", Closing)
    BY <1>0, <1>4, Writes DEF Close, Chunks
  <2>2. /\ thread'[t].pc = "write" /\ thread'[t].call = "close" /\ thread'[t].chunk = Closing
        /\ \A s \in Threads \ {t} : thread'[s] = thread[s]
    BY <2>1 DEF Becomes
  <2>3. TypeInv' /\ CommandInv'
    BY <1>0, <1>1, <1>2, <2>1 DEF TypeInv, CommandInv, Becomes
  <2>4. CallInv'
    BY <1>0, <1>1, <1>4, <2>2 DEF CallInv, CallOK
  <2>5. MutexInv'
    <3>1. /\ \A s \in Threads : In(s, "store")' => In(s, "store")
          /\ \A s \in Threads : In(s, "close")' => In(s, "close") \/ s = t
      BY <2>2 DEF In
    <3>2. /\ \A s \in Threads : In(s, "store") => history'.raced
          /\ \A s \in Threads : In(s, "close") => history'.twoClose
      BY <1>2, <1>4 DEF In, Inside
    <3> QED
      BY <1>0, <1>1, <3>1, <3>2 DEF MutexInv
  <2>6. StreamInv'
    <3> SUFFICES ASSUME Orderly' PROVE StreamInv!2'
      BY DEF StreamInv
    <3>1. Orderly
      BY <1>2 DEF Orderly
    <3>2. \A s \in Threads : /\ Storing(s)' <=> Storing(s)
                             /\ Storing(s) => thread'[s].chunk = thread[s].chunk
                             /\ thread[s].pc = "written" => thread'[s].pc = "written"
      BY <1>1, <2>2 DEF Storing
    <3>3. Broken' <=> Broken
      BY <1>1 DEF Broken
    <3> QED
      BY <1>0, <1>1, <3>1, <3>2, <3>3 DEF StreamInv
  <2> QED
    BY <2>3, <2>4, <2>5, <2>6 DEF IInv
<1> QED
  BY <1>3, <1>4

\* The rest of Close, Abort and WaitForCompletion only move their goroutine.
LEMMA CallsGoOn ==
  ASSUME IInv, NEW t \in Threads,
         CloseWriter(t) \/ AwaitTask(t) \/ FinishClose(t) \/ Abort(t) \/ WaitForCompletion(t)
  PROVE  IInv'
<1>0. TypeInv /\ CommandInv /\ CallInv /\ MutexInv /\ op \in OpType
  BY DEF IInv, TypeInv, OpType
<1>a. thread[t].chunk \in Chunks /\ thread[t].call \in CallNames /\ NoChunk \in Chunks
  BY <1>0 DEF TypeInv, States, Chunks
<1>1. UNCHANGED <<workload, request, history>>
  BY DEF CloseWriter, AwaitTask, FinishClose, Abort, WaitForCompletion
<1>2. /\ server' = server \/ server' = [server EXCEPT !.killed = @ \union ({op.id} \ {0})]
      /\ pipe' = pipe \/ pipe' = [pipe EXCEPT !.writer = FALSE]
      /\ thread[t].pc = "written" => pipe' = [pipe EXCEPT !.writer = FALSE]
      /\ task' = task \/ task' = [task EXCEPT !.token = FALSE]
      /\ op' = op \/ \E b \in BOOLEAN : op' = [op EXCEPT !.err = @ \/ b]
  BY DEF CloseWriter, AwaitTask, FinishClose, Abort, WaitForCompletion, Calls
<1>3. /\ server' \in [ids : Nat, received : Seq(Chunks), stored : Nat, killed : SUBSET Nat,
                      missing : BOOLEAN]
      /\ UNCHANGED <<server.received, server.ids>>
  BY <1>0, <1>2 DEF TypeInv, OpType
<1>4. /\ pipe' \in [reader : BOOLEAN, writer : BOOLEAN]
      /\ ~pipe.writer => ~pipe'.writer
      /\ Broken => Broken'
      /\ thread[t].pc = "written" => ~pipe'.writer
  <2>1. pipe \in [reader : BOOLEAN, writer : BOOLEAN]
    BY <1>0 DEF TypeInv
  <2>2. CASE pipe' = pipe /\ thread[t].pc # "written"
    BY <2>1, <2>2 DEF Broken
  <2>3. CASE pipe' = [pipe EXCEPT !.writer = FALSE]
    <3>1. pipe' \in [reader : BOOLEAN, writer : BOOLEAN] /\ pipe'.writer = FALSE
      BY ONLY <2>1, <2>3
    <3> QED
      BY <3>1 DEF Broken
  <2> QED
    BY <1>2, <2>2, <2>3
<1>5. /\ task' \in [state : {"none", "running", "ok", "failed"}, token : BOOLEAN]
      /\ task'.state = task.state
  BY <1>0, <1>2 DEF TypeInv
<1>6. op' \in OpType /\ UNCHANGED <<op.id, op.first, op.check, op.command>>
  BY <1>0, <1>2 DEF OpType
<1>7. PICK pc \in Labels, call \in CallNames, chunk \in Chunks :
        /\ Becomes(t, pc, call, chunk)
        /\ \/ pc \in {"idle", "poll"} /\ (pc = "poll" => call = "poll")
           \/ /\ pc \in {"get", "blocked", "end"} /\ call = thread[t].call
              /\ thread[t].pc \in {"written", "get", "blocked"}
        /\ thread[t].pc # "write"
  <2>1. CASE CloseWriter(t) \/ AwaitTask(t)
    <3>1. PICK pc \in {"get", "blocked", "end"} :
            thread' = [thread EXCEPT ![t].pc = pc] /\ thread[t].pc \in {"written", "get", "blocked"}
      BY <2>1 DEF CloseWriter, AwaitTask
    <3>2. pc \in Labels /\ Becomes(t, pc, thread[t].call, thread[t].chunk)
      BY <1>0, <3>1, GoesOn DEF Labels
    <3> QED
      BY <1>a, <3>1, <3>2
  <2>2. CASE FinishClose(t)
    <3>1. PICK result \in {"nil", "error", "aborted"} :
            thread' = Return(t, result) /\ thread[t].pc = "end"
      BY <2>2 DEF FinishClose
    <3>2. "idle" \in Labels /\ Becomes(t, "idle", thread[t].call, NoChunk)
      BY <1>0, <3>1, ReturnsFrom DEF Labels
    <3> QED
      BY <1>a, <3>1, <3>2
  <2>3. CASE Abort(t)
    <3>1. thread[t].pc = "idle" /\ "idle" \in Labels /\ "abort" \in CallNames
      BY <2>3 DEF Abort, Calls, Labels, CallNames
    <3>2. Becomes(t, "idle", "abort", thread[t].chunk)
      BY <1>0, <2>3, <3>1, Refused, EntersAndReturns DEF Abort
    <3> QED
      BY <1>a, <3>1, <3>2
  <2>4. CASE WaitForCompletion(t)
    <3>0. "idle" \in Labels /\ "poll" \in Labels /\ "poll" \in CallNames
      BY DEF Labels, CallNames
    <3>1. CASE thread[t].pc = "idle" /\ thread' = Enter(t, "poll", "poll")
      <4>1. Becomes(t, "poll", "poll", thread[t].chunk)
        BY <1>0, <3>0, <3>1, Enters
      <4> QED
        BY <1>a, <3>0, <3>1, <4>1
    <3>2. CASE thread[t].pc = "poll" /\ \E result \in {"nil", "error"} : thread' = Return(t, result)
      <4>1. Becomes(t, "idle", thread[t].call, NoChunk)
        BY <1>0, <3>2, ReturnsFrom
      <4> QED
        BY <1>a, <3>0, <3>2, <4>1
    <3>3. CASE thread[t].pc = "poll" /\ thread' = thread
      <4>1. Becomes(t, "poll", thread[t].call, thread[t].chunk) /\ thread[t].call = "poll"
        BY <1>0, <3>3 DEF Becomes, TypeInv, CallInv, CallOK
      <4> QED
        BY <1>a, <3>0, <3>3, <4>1
    <3> QED
      BY <2>4, <3>1, <3>2, <3>3 DEF WaitForCompletion, Calls
  <2> QED
    BY <2>1, <2>2, <2>3, <2>4
<1>8. TypeInv' /\ CommandInv'
  BY <1>0, <1>1, <1>3, <1>4, <1>5, <1>6, <1>7 DEF TypeInv, CommandInv, OpType, Becomes
<1>b. thread[t].pc \in {"written", "get", "blocked"} => thread[t].call = "close" /\ op.id # 0
  BY <1>0 DEF CallInv, CallOK
<1>9. CallOK(t)'
  BY <1>6, <1>7, <1>b DEF CallOK, Becomes
<1>10. /\ pc # "idle" /\ call = "store" => In(t, "store") /\ op'.check
       /\ pc # "idle" /\ call = "close" => In(t, "close")
       /\ (pc = "write" => call # "store") /\ ~Storing(t)
  BY <1>7, <1>b DEF In, Storing
<1> QED
  BY <1>1, <1>3, <1>4, <1>6, <1>7, <1>8, <1>9, <1>10, QuietMove

\* StoreWithID up to its write: the first document starts the request and has
\* the opening bracket; one that cannot be encoded takes the bracket with it.
LEMMA EncodeKeeps == ASSUME IInv, NEW t \in Threads, EncodeDocument(t) PROVE IInv'
<1>0. TypeInv /\ CommandInv /\ CallInv /\ MutexInv /\ StreamInv /\ op \in OpType
  BY DEF IInv, TypeInv, OpType
<1>1. thread[t].pc = "encode" /\ UNCHANGED <<workload, pipe, server>>
  BY DEF EncodeDocument
<1>2. thread[t].call = "store" /\ op.id # 0 /\ In(t, "store") /\ op.check
  BY <1>0, <1>1 DEF CallInv, CallOK, MutexInv, In
<1>3. \A s \in Threads : In(s, "store") => s = t
  BY <1>0, <1>2 DEF MutexInv
<1>4. /\ op.command # 0 => UNCHANGED <<request, task>>
      /\ op.command = 0 => request' = "reading" /\ task' = [task EXCEPT !.state = "running"]
  BY DEF EncodeDocument, ensureCommand
<1>5. /\ request' \in {"none", "reading", "waiting", "done"}
      /\ task' \in [state : {"none", "running", "ok", "failed"}, token : BOOLEAN]
      /\ request' # "none" /\ task'.state # "none"
  BY <1>0, <1>4 DEF TypeInv, CommandInv
<1>6. CASE task.state = "failed"
  <2>1. thread' = Return(t, "aborted") /\ op' = [op EXCEPT !.err = FALSE, !.check = FALSE]
        /\ history' = history
    BY <1>6 DEF EncodeDocument
  <2>2. Becomes(t, "idle", "store", NoChunk)
    BY <1>0, <1>2, <2>1, ReturnsFrom
  <2>3. op' \in OpType /\ UNCHANGED <<op.id, op.first, op.command>>
    BY <1>0, <2>1 DEF OpType
  <2>4. op.command # 0 /\ UNCHANGED <<request, task>>
    BY <1>0, <1>4, <1>6 DEF CommandInv
  <2>5. TypeInv' /\ CommandInv'
    BY <1>0, <1>1, <2>1, <2>2, <2>3, <2>4 DEF TypeInv, CommandInv, OpType, Becomes
  <2>6. CallOK(t)'
    BY <2>2 DEF CallOK, Becomes
  <2>7. ~Storing(t) /\ thread[t].pc # "written" /\ (Broken' <=> Broken)
    BY <1>1 DEF Storing, Broken
  <2> QED
    BY <1>1, <1>2, <2>1, <2>2, <2>3, <2>5, <2>6, <2>7, QuietMove
<1>7. CASE task.state # "failed"
  <2>1. PICK command \in {IF op.command = 0 THEN op.id ELSE op.command} :
          \/ /\ thread' = [thread EXCEPT ![t].pc = "write", ![t].chunk = NextChunk]
             /\ op' = [op EXCEPT !.err = FALSE, !.first = FALSE, !.command = command]
             /\ UNCHANGED history
          \/ /\ thread' = Return(t, "error")
             /\ op' = [op EXCEPT !.err = FALSE, !.first = FALSE,
                                 !.command = command, !.check = FALSE]
             /\ history' = [history EXCEPT !.lostFirst = @ \/ op.first]
    BY <1>7 DEF EncodeDocument
  <2>2. command \in Nat /\ command # 0 /\ command <= server.ids
    BY <1>0, <1>2, <2>1 DEF OpType, CommandInv
  <2>3. op' \in OpType /\ op'.id = op.id /\ ~op'.first /\ op'.command = command
    BY <1>0, <2>1, <2>2 DEF OpType
  <2>4. CommandInv'
    BY <1>0, <1>1, <1>5, <2>2, <2>3 DEF CommandInv
  <2>5. NextChunk \in {Opening, Further} /\ NextChunk \in Chunks
    BY DEF NextChunk, Chunks
  <2>6. /\ thread' \in [Threads -> States]
        /\ thread'[t].call = "store"
        /\ \A s \in Threads \ {t} : thread'[s] = thread[s]
        /\ \/ /\ thread'[t].pc = "write" /\ thread'[t].chunk = NextChunk
              /\ op'.check /\ history' = history
           \/ /\ thread'[t].pc = "idle" /\ ~op'.check
              /\ history' = [history EXCEPT !.lostFirst = @ \/ op.first]
    <3>1. CASE thread' = [thread EXCEPT ![t].pc = "write", ![t].chunk = NextChunk]
               /\ op' = [op EXCEPT !.err = FALSE, !.first = FALSE, !.command = command]
               /\ history' = history
      <4>1. Becomes(t, "write", "store", NextChunk)
        BY <1>0, <1>2, <2>5, <3>1, Writes
      <4>2. op'.check
        BY <1>0, <1>2, <3>1 DEF OpType
      <4> QED
        BY <3>1, <4>1, <4>2 DEF Becomes
    <3>2. CASE /\ thread' = Return(t, "error")
               /\ op' = [op EXCEPT !.err = FALSE, !.first = FALSE,
                                   !.command = command, !.check = FALSE]
               /\ history' = [history EXCEPT !.lostFirst = @ \/ op.first]
      <4>1. Becomes(t, "idle", "store", NoChunk)
        BY <1>0, <1>2, <3>2, ReturnsFrom
      <4>2. ~op'.check
        BY <1>0, <3>2 DEF OpType
      <4> QED
        BY <3>2, <4>1, <4>2 DEF Becomes
    <3> QED
      BY <2>1, <3>1, <3>2
  <2>7. /\ history' \in Histories
        /\ UNCHANGED <<history.raced, history.twoClose>>
        /\ history.lostFirst => history'.lostFirst
        /\ thread'[t].pc = "idle" /\ op.first => history'.lostFirst
    BY <1>0, <2>6 DEF TypeInv, Histories
  <2>8. TypeInv'
    BY <1>0, <1>1, <1>5, <2>3, <2>6, <2>7 DEF TypeInv, OpType
  <2>9. CallInv'
    BY <1>0, <2>3, <2>5, <2>6 DEF CallInv, CallOK
  <2>10. \A s \in Threads : /\ In(s, "store")' => s = t /\ op'.check
                            /\ In(s, "close")' => In(s, "close")
    BY <1>3, <2>6 DEF In
  <2>11. MutexInv'
    BY <1>0, <1>2, <2>7, <2>10 DEF MutexInv
  <2>12. StreamInv'
    <3> SUFFICES ASSUME Orderly' PROVE StreamInv!2'
      BY DEF StreamInv
    <3>1. Orderly
      BY <2>7 DEF Orderly
    <3>2. \A s \in Threads : ~Storing(s)
      BY <1>1, <1>3 DEF Storing, In
    <3>3. \A s \in Threads : Storing(s)' => s = t /\ thread'[t].pc = "write"
      BY <1>3, <2>6 DEF Storing, In
    <3>4. op.first => server.received = <<>>
      BY <1>0 DEF CommandInv
    <3>5. ~op.first => Broken \/ server.received # <<>>
      BY <1>0, <3>1, <3>2 DEF StreamInv
    <3>6. Broken' <=> Broken
      BY <1>1 DEF Broken
    <3>7. thread'[t].pc = "write" => Storing(t)'
      BY <2>6 DEF Storing
    <3>8. thread'[t].pc # "write" => ~op.first
      BY <2>6, <2>7 DEF Orderly
    <3>9. ~Broken => NextChunk = IF server.received = <<>> THEN Opening ELSE Further
      BY <3>4, <3>5 DEF NextChunk
    <3>10. OneArray(server.received)
           /\ (Closed(server.received) =>
                 ~pipe.writer \/ \E s \in Threads : thread'[s].pc = "written")
      BY <1>0, <1>1, <2>6, <3>1 DEF StreamInv
    <3>11. thread'[t].pc = "write" => thread'[t].chunk = NextChunk
      BY <2>6
    <3> QED
      BY <1>1, <3>3, <3>4, <3>5, <3>6, <3>7, <3>8, <3>9, <3>10, <3>11
  <2> QED
    BY <2>4, <2>8, <2>9, <2>11, <2>12 DEF IInv
<1> QED
  BY <1>6, <1>7

\* A document or a closing bracket behind an array not yet closed.
LEMMA Appended ==
  ASSUME NEW s \in Seq(Chunks), NEW c \in Chunks, OneArray(s), ~Closed(s),
         c = Closing \/ c = (IF s = <<>> THEN Opening ELSE Further)
  PROVE  /\ Append(s, c) \in Seq(Chunks) /\ Append(s, c) # <<>>
         /\ OneArray(Append(s, c))
         /\ Closed(Append(s, c)) => c = Closing
<1> DEFINE a == Append(s, c)
<1>1. /\ a \in Seq(Chunks) /\ a # <<>> /\ Len(a) = Len(s) + 1 /\ Len(s) \in Nat
      /\ a[Len(s) + 1] = c /\ \A i \in 1..Len(s) : a[i] = s[i]
      /\ s = <<>> <=> Len(s) = 0
  OBVIOUS
<1>2. ASSUME NEW i \in 1..Len(a)
      PROVE  \/ a[i] = (IF i = 1 THEN Opening ELSE Further)
             \/ a[i] = Closing /\ i = Len(a)
  <2>1. CASE i = Len(s) + 1
    BY <1>1, <2>1
  <2>2. CASE i \in 1..Len(s)
    <3>1. \/ s[i] = (IF i = 1 THEN Opening ELSE Further)
          \/ s[i] = Closing /\ i = Len(s)
      BY <2>2 DEF OneArray
    <3>2. ~(s[i] = Closing /\ i = Len(s))
      BY <1>1, <2>2 DEF Closed
    <3> QED
      BY <1>1, <2>2, <3>1, <3>2
  <2> QED
    BY <1>1, <2>1, <2>2
<1>3. OneArray(a)
  BY <1>2 DEF OneArray
<1>4. Closed(a) => c = Closing
  BY <1>1 DEF Closed
<1> QED
  BY <1>1, <1>3, <1>4

\* The transport takes a chunk: a document that continues the array, or the
\* bracket that closes it.
LEMMA ReadChunkKeeps == ASSUME IInv, NEW t \in Threads, ReadChunk(t) PROVE IInv'
<1>0. TypeInv /\ CommandInv /\ CallInv /\ MutexInv /\ StreamInv /\ op \in OpType
      /\ server \in [ids : Nat, received : Seq(Chunks), stored : Nat, killed : SUBSET Nat,
                     missing : BOOLEAN]
  BY DEF IInv, TypeInv, OpType
<1>a. thread[t].chunk \in Chunks /\ thread[t].call \in CallNames /\ FALSE \in BOOLEAN
  BY <1>0 DEF TypeInv, States
<1>1. /\ thread[t].pc = "write" /\ pipe.reader /\ pipe.writer /\ request = "reading"
      /\ server' = [server EXCEPT !.received = Append(@, thread[t].chunk)]
      /\ AfterWrite(t, FALSE) /\ UNCHANGED <<workload, pipe, request, task>>
  BY DEF ReadChunk
<1>b. /\ history' \in Histories
      /\ UNCHANGED <<history.raced, history.twoClose, history.lostFirst>>
  <2>1. history' = history \/ history' = [history EXCEPT !.accepted = @ + 1]
    BY <1>1 DEF AfterWrite
  <2>2. history \in Histories
    BY <1>0 DEF TypeInv
  <2> QED
    BY <2>1, <2>2 DEF Histories
<1>2. /\ server' \in [ids : Nat, received : Seq(Chunks), stored : Nat, killed : SUBSET Nat,
                      missing : BOOLEAN]
      /\ server'.ids = server.ids
      /\ server'.received = Append(server.received, thread[t].chunk)
  <2>1. Append(server.received, thread[t].chunk) \in Seq(Chunks)
    BY <1>0, <1>a
  <2> QED
    BY ONLY <1>0, <1>1, <2>1
<1>3. \/ thread[t].call = "store" /\ thread[t].chunk \in {Opening, Further}
      \/ thread[t].call = "close" /\ thread[t].chunk = Closing /\ op.id # 0
  BY <1>0, <1>1 DEF CallInv, CallOK
<1>4. /\ op' \in OpType /\ UNCHANGED <<op.id, op.first, op.command>>
      /\ op'.check = op.check \/ thread[t].call = "store"
  BY <1>0, <1>1 DEF AfterWrite, OpType
<1>5. /\ thread' \in [Threads -> States]
      /\ thread'[t].call = thread[t].call
      /\ \A s \in Threads \ {t} : thread'[s] = thread[s]
      /\ thread'[t].pc = IF thread[t].call = "store" THEN "idle" ELSE "written"
  <2>1. CASE thread[t].call = "store"
    <3>1. thread' = Return(t, "nil")
      BY <1>1, <2>1 DEF AfterWrite
    <3>2. Becomes(t, "idle", thread[t].call, NoChunk)
      BY <1>0, <3>1, ReturnsFrom
    <3> QED
      BY <2>1, <3>2 DEF Becomes
  <2>2. CASE thread[t].call # "store"
    <3>1. thread' = [thread EXCEPT ![t].pc = "written", ![t].failed = FALSE]
      BY <1>1, <2>2 DEF AfterWrite
    <3>2. Becomes(t, "written", thread[t].call, thread[t].chunk)
      BY <1>0, <1>a, <3>1, Writes
    <3> QED
      BY <2>2, <3>2 DEF Becomes
  <2> QED
    BY <2>1, <2>2
<1>6. TypeInv'
  BY <1>0, <1>1, <1>2, <1>4, <1>5, <1>b DEF TypeInv, OpType
<1>7. CommandInv'
  BY <1>0, <1>1, <1>2, <1>4 DEF CommandInv
<1>8. CallInv'
  <2>1. CallOK(t)'
    BY <1>3, <1>4, <1>5 DEF CallOK
  <2>2. \A s \in Threads \ {t} : CallOK(s)'
    BY <1>0, <1>4, <1>5 DEF CallInv, CallOK
  <2> QED
    BY <2>1, <2>2 DEF CallInv
<1>9. MutexInv'
  <2>1. \A s \in Threads : /\ In(s, "store")' => In(s, "store") /\ s # t
                           /\ In(s, "close")' => In(s, "close")
    BY <1>1, <1>5 DEF In
  <2>2. \A s \in Threads : In(s, "store") /\ s # t => op'.check
    BY <1>0, <1>1, <1>4 DEF MutexInv, In
  <2> QED
    BY <1>0, <1>b, <2>1, <2>2 DEF MutexInv
<1>10. StreamInv'
  <2> SUFFICES ASSUME Orderly' PROVE StreamInv!2'
    BY DEF StreamInv
  <2>1. Orderly /\ ~Broken /\ ~Broken'
    BY <1>1, <1>b DEF Orderly, Broken
  <2>2. ~Closed(server.received)
    <3>1. ASSUME NEW s \in Threads, thread[s].pc = "written" PROVE FALSE
      <4>1. In(s, "close") /\ s # t /\ (In(t, "store") \/ In(t, "close"))
        BY <1>0, <1>1, <1>3, <3>1 DEF In, CallInv, CallOK
      <4> QED
        BY <1>0, <2>1, <4>1 DEF MutexInv, Orderly
    <3> QED
      BY <1>0, <1>1, <2>1, <3>1 DEF StreamInv
  <2>3. \A s \in Threads : ~Storing(s)'
    <3>1. ASSUME NEW s \in Threads, Storing(s)' PROVE FALSE
      <4>1. s # t /\ Storing(s) /\ In(s, "store") /\ (In(t, "store") \/ In(t, "close"))
        BY <1>1, <1>3, <1>5, <3>1 DEF Storing, In
      <4> QED
        BY <1>0, <2>1, <4>1 DEF MutexInv, Orderly
    <3> QED
      BY <3>1
  <2>4. thread[t].chunk = Closing
        \/ thread[t].chunk = (IF server.received = <<>> THEN Opening ELSE Further)
    BY <1>0, <1>1, <1>3, <2>1 DEF StreamInv, Storing
  <2>5. /\ server'.received # <<>> /\ OneArray(server'.received)
        /\ Closed(server'.received) => thread[t].chunk = Closing
    <3>1. server.received \in Seq(Chunks) /\ OneArray(server.received)
      BY <1>0, <2>1 DEF StreamInv
    <3> QED
      BY <1>2, <1>a, <2>2, <2>4, <3>1, Appended
  <2>6. thread[t].chunk = Closing => thread'[t].pc = "written"
    <3>1. Closing.doc = FALSE /\ Opening.doc = TRUE /\ Further.doc = TRUE
      BY DEF Closing, Opening, Further
    <3>2. Closing # Opening /\ Closing # Further
      BY <3>1
    <3> QED
      BY <1>3, <1>5, <3>2
  <2> QED
    BY <2>3, <2>5, <2>6
<1> QED
  BY <1>6, <1>7, <1>8, <1>9, <1>10 DEF IInv

\* A write to a broken pipe fails, and sends nothing.
LEMMA WriteFailsKeeps == ASSUME IInv, NEW t \in Threads, WriteToClosedPipe(t) PROVE IInv'
<1>0. TypeInv /\ CommandInv /\ CallInv /\ op \in OpType
  BY DEF IInv, TypeInv, OpType
<1>1. /\ thread[t].pc = "write" /\ Broken /\ Broken' /\ AfterWrite(t, TRUE)
      /\ UNCHANGED <<workload, pipe, request, task, server>>
  BY DEF WriteToClosedPipe, Broken
<1>a. history' = history
  <2>1. history' = history \/ history' = [history EXCEPT !.accepted = @]
    BY <1>1 DEF AfterWrite
  <2>2. history \in Histories
    BY <1>0 DEF TypeInv
  <2> QED
    BY <2>1, <2>2 DEF Histories
<1>2. /\ op' \in OpType /\ UNCHANGED <<op.id, op.first, op.command>>
      /\ op'.check = op.check \/ In(t, "store")
  BY <1>0, <1>1 DEF AfterWrite, OpType, In
<1>3. CASE thread[t].call = "store"
  <2>1. Becomes(t, "idle", thread[t].call, NoChunk)
    BY <1>0, <1>1, <1>3, ReturnsFrom DEF AfterWrite
  <2>2. TypeInv' /\ CommandInv'
    BY <1>0, <1>1, <1>2, <1>a, <2>1 DEF TypeInv, CommandInv, OpType, Becomes
  <2>3. CallOK(t)'
    BY <2>1 DEF CallOK, Becomes
  <2> QED
    BY <1>1, <1>2, <1>a, <2>1, <2>2, <2>3, QuietMove
<1>4. CASE thread[t].call # "store"
  <2>1. thread[t].call = "close" /\ In(t, "close") /\ op.id # 0 /\ thread[t].chunk \in Chunks
        /\ TRUE \in BOOLEAN
    BY <1>0, <1>1, <1>4 DEF CallInv, CallOK, In, TypeInv, States
  <2>2. Becomes(t, "written", "close", thread[t].chunk)
    BY <1>0, <1>1, <1>4, <2>1, Writes DEF AfterWrite
  <2>3. TypeInv' /\ CommandInv'
    BY <1>0, <1>1, <1>2, <1>a, <2>2 DEF TypeInv, CommandInv, OpType, Becomes
  <2>4. CallOK(t)'
    BY <1>2, <2>1, <2>2 DEF CallOK, Becomes
  <2> QED
    BY <1>1, <1>2, <1>a, <2>1, <2>2, <2>3, <2>4, QuietMove
<1> QED
  BY <1>3, <1>4

\* The transport, the server and the server's operation move no goroutine; when
\* the request is over its end of the pipe is closed.
LEMMA RequestKeeps ==
  ASSUME IInv, ReadEnd \/ ServerAnswers \/ RequestFails \/ JobEnds \/ UNCHANGED vars
  PROVE  IInv'
<1>0. TypeInv /\ CommandInv /\ CallInv /\ MutexInv
  BY DEF IInv
<1>1. UNCHANGED <<workload, op, thread, history>>
  BY DEF ReadEnd, ServerAnswers, RequestFails, JobEnds, vars
<1>2. \/ UNCHANGED <<request, pipe, task>>
      \/ request = "reading" /\ request' = "waiting" /\ UNCHANGED <<pipe, task>>
      \/ /\ request \in {"reading", "waiting"} /\ request' = "done"
         /\ pipe' = [pipe EXCEPT !.reader = FALSE]
         /\ task' \in {[state |-> "failed", token |-> TRUE], [state |-> "ok", token |-> TRUE]}
  BY DEF ReadEnd, ServerAnswers, RequestFails, JobEnds, vars, ExecuteTask, Completed
<1>3. /\ server' \in [ids : Nat, received : Seq(Chunks), stored : Nat, killed : SUBSET Nat,
                      missing : BOOLEAN]
      /\ UNCHANGED <<server.ids, server.received>>
  <2>0. server \in [ids : Nat, received : Seq(Chunks), stored : Nat, killed : SUBSET Nat,
                    missing : BOOLEAN]
    BY <1>0 DEF TypeInv
  <2>1. \/ server' = server
        \/ server' = [server EXCEPT !.missing = TRUE]
        \/ /\ Len(server.received) >= 2
           /\ server' = [server EXCEPT !.stored = Len(server.received) - 1]
    BY DEF ReadEnd, ServerAnswers, RequestFails, JobEnds, vars, WellFormed
  <2>2. Len(server.received) >= 2 => Len(server.received) - 1 \in Nat
    BY <2>0
  <2> QED
    BY <2>0, <2>1, <2>2
<1>4. /\ pipe' \in [reader : BOOLEAN, writer : BOOLEAN]
      /\ pipe'.writer = pipe.writer /\ (pipe'.reader => pipe.reader)
  BY <1>0, <1>2 DEF TypeInv
<1>5. /\ task' \in [state : {"none", "running", "ok", "failed"}, token : BOOLEAN]
      /\ request' \in {"none", "reading", "waiting", "done"}
      /\ request' = "none" <=> op.command = 0
      /\ task'.state = "none" <=> op.command = 0
  <2>1. /\ task \in [state : {"none", "running", "ok", "failed"}, token : BOOLEAN]
        /\ request \in {"none", "reading", "waiting", "done"}
        /\ request = "none" <=> op.command = 0
        /\ task.state = "none" <=> op.command = 0
    BY <1>0 DEF TypeInv, CommandInv
  <2>2. CASE task' = task
    BY <1>2, <2>1, <2>2
  <2>3. CASE /\ request \in {"reading", "waiting"} /\ request' = "done"
             /\ task' \in {[state |-> "failed", token |-> TRUE],
                           [state |-> "ok", token |-> TRUE]}
    <3>1. /\ task' \in [state : {"none", "running", "ok", "failed"}, token : BOOLEAN]
          /\ task'.state # "none"
      <4>1. \A state \in {"failed", "ok"} :
              /\ [state |-> state, token |-> TRUE].state # "none"
              /\ [state |-> state, token |-> TRUE]
                   \in [state : {"none", "running", "ok", "failed"}, token : BOOLEAN]
        OBVIOUS
      <4> QED
        BY ONLY <2>3, <4>1
    <3> QED
      BY <2>1, <2>3, <3>1
  <2> QED
    BY <1>2, <2>2, <2>3
<1>6. TypeInv' /\ CommandInv'
  BY <1>0, <1>1, <1>3, <1>4, <1>5 DEF TypeInv, CommandInv
<1>7. CallInv'
  BY <1>0, <1>1 DEF CallInv, CallOK
<1>8. \A t \in Threads : /\ In(t, "store")' => In(t, "store") /\ op'.check
                         /\ In(t, "close")' => In(t, "close")
                         /\ Storing(t)' => Storing(t) /\ thread'[t].chunk = thread[t].chunk
                         /\ Storing(t) => Storing(t)'
                         /\ thread[t].pc = "written" => thread'[t].pc = "written"
  BY <1>0, <1>1 DEF In, Storing, MutexInv
<1>9. Broken => Broken'
  BY <1>4 DEF Broken
<1> QED
  BY <1>1, <1>3, <1>4, <1>6, <1>7, <1>8, <1>9, QuietStep

---------------------------------------------------------------------------
(* The theorems.                                                           *)

\* Before the first call nothing was sent.
LEMMA Initial == ASSUME Init PROVE IInv
<1>1. /\ workload \in Workloads
      /\ op = [id |-> 0, first |-> TRUE, err |-> FALSE, check |-> FALSE, command |-> 0]
      /\ history = [lostFirst |-> FALSE, raced |-> FALSE, twoClose |-> FALSE, accepted |-> 0]
      /\ pipe = [reader |-> TRUE, writer |-> TRUE]
      /\ request = "none" /\ task = [state |-> "none", token |-> FALSE]
      /\ server = [ids |-> 0, received |-> <<>>, stored |-> 0, killed |-> {},
                   missing |-> FALSE]
  BY DEF Init
<1>2. thread \in [Threads -> States] /\ \A t \in Threads : thread[t].pc = "idle"
  <2> DEFINE r == [pc |-> "idle", call |-> "none", chunk |-> NoChunk, failed |-> FALSE,
                   result |-> "none", calls |-> 0]
  <2>1. thread = [t \in Threads |-> r]
    BY DEF Init
  <2>2. r \in States /\ r.pc = "idle"
    BY DEF States, Labels, CallNames, Chunks
  <2> HIDE DEF r
  <2> QED
    BY <2>1, <2>2
<1>3. server.received = <<>> /\ server.received \in Seq(Chunks) /\ server.ids = 0
  <2>1. server = [ids |-> 0, received |-> <<>>, stored |-> 0, killed |-> {},
                  missing |-> FALSE]
    BY <1>1
  <2>2. server.received = <<>> /\ server.ids = 0
    BY ONLY <2>1
  <2> QED
    BY ONLY <2>2
<1>4. TypeInv
  BY <1>1, <1>2, <1>3 DEF TypeInv, Histories
<1>a. /\ op.id = 0 /\ op.command = 0 /\ op.first = TRUE /\ request = "none"
      /\ task.state = "none" /\ pipe.reader = TRUE /\ pipe.writer = TRUE
  BY <1>1
<1>5. CommandInv
  BY ONLY <1>3, <1>a DEF CommandInv
<1>6. CallInv /\ MutexInv
  BY <1>2 DEF CallInv, CallOK, MutexInv, In
<1>7. StreamInv
  <2>1. Len(server.received) = 0
    BY <1>3
  <2> QED
    BY <1>2, <1>a, <2>1 DEF StreamInv, OneArray, Closed, Storing
<1> QED
  BY <1>4, <1>5, <1>6, <1>7 DEF IInv

\* Every step keeps the invariant.
LEMMA Inductive == ASSUME IInv, [Next]_vars PROVE IInv'
<1>1. ASSUME NEW t \in Threads, StoreWithID(t) \/ Close(t) \/ Abort(t) \/ Step(t)
      PROVE  IInv'
  BY <1>1, StoreKeeps, CloseKeeps, WaitForIDKeeps, EncodeKeeps, CallsGoOn, ReadChunkKeeps,
     WriteFailsKeeps DEF Step
<1> QED
  BY <1>1, RequestKeeps DEF Next

\* The inductive invariant of a bulk insert: one Store at a time, a request
\* that starts with the first document, and a stream that fits both, for any
\* number of goroutines sharing the operation.
THEOREM BulkInsertInvariant == Spec => []IInv
<1>1. Init => IInv
  BY Initial
<1>2. IInv /\ [Next]_vars => IInv'
  BY Inductive
<1> QED
  BY <1>1, <1>2, PTL DEF Spec

\* Whatever goroutines do to a bulk insert, the server is sent a prefix of one
\* JSON array, unless Close overlaps a Store or another Close or the first
\* document could not be encoded.
THEOREM OneArrayIsSent == Spec => []StreamIsOneArray
<1>1. ASSUME IInv PROVE StreamIsOneArray
  <2>0. TypeInv /\ CommandInv /\ CallInv /\ StreamInv
    BY <1>1 DEF IInv
  <2>1. op \in [id : Nat, first : BOOLEAN, err : BOOLEAN, check : BOOLEAN,
                command : 0..server.ids]
    BY <2>0 DEF TypeInv, CommandInv
  <2>2. ASSUME NEW t \in Threads, thread[t].pc = "write" PROVE thread[t].chunk # NoChunk
    <3>1. /\ Closing.lead = "]" /\ Opening.lead = "[" /\ Further.lead = ","
          /\ NoChunk.lead = ""
      BY DEF Closing, Opening, Further, NoChunk
    <3>2. NoChunk \notin {Opening, Further, Closing}
      BY <3>1
    <3> QED
      BY <2>0, <2>2, <3>2 DEF CallInv, CallOK
  <2>3. TypeOK
    BY <2>0, <2>1, <2>2 DEF TypeOK, TypeInv, CommandInv
  <2>4. server.received \in Seq(Chunks)
    BY <2>0 DEF TypeInv
  <2>5. DOMAIN server.received = 1..Len(server.received)
    BY <2>4
  <2> QED
    BY <2>0, <2>3, <2>5 DEF StreamIsOneArray, StreamInv, Orderly, OneArray
<1> QED
  BY <1>1, BulkInsertInvariant, PTL

---------------------------------------------------------------------------
(* What the end of Close says of the documents.                            *)

Ending == {"written", "get", "blocked", "end"}

HasClosing(s) == \E i \in 1..Len(s) : s[i] = Closing
TwoClosings(s) == \E i, j \in 1..Len(s) : i # j /\ s[i] = Closing /\ s[j] = Closing

\* The chunks sent are the documents of the Stores that returned no error, and
\* the closing bracket; a second one makes the stream malformed for good.
CountInv ==
  \/ TwoClosings(server.received)
  \/ Len(server.received) = history.accepted + (IF HasClosing(server.received) THEN 1 ELSE 0)

\* The task has an outcome once it has given its token, and a good one only
\* when the server stored everything or answered 404.
TaskInv ==
  /\ task.token => task.state \in {"ok", "failed"}
  /\ task.state = "ok" =>
       request = "done" /\ (server.stored = history.accepted \/ server.missing)

\* A Close whose bracket was taken has a request, and ends when that has ended.
EndOK(t) ==
  thread[t].pc \in Ending /\ ~thread[t].failed =>
    /\ op.command # 0
    /\ thread[t].pc = "end" => task.state \in {"ok", "failed"}

StoredInv == CountInv /\ TaskInv /\ \A t \in Threads : EndOK(t)

\* Only the goroutine that takes a step moves.
LEMMA OneMoves ==
  ASSUME TypeInv, NEW t \in Threads, NEW s \in Threads, s # t,
         StoreWithID(t) \/ Close(t) \/ Abort(t) \/ Step(t)
  PROVE  thread'[s] = thread[s]
<1>0. thread \in [Threads -> States]
  BY DEF TypeInv
<1>1. CASE StoreWithID(t)
  BY <1>0, <1>1 DEF StoreWithID, Refuse, Enter
<1>2. CASE Close(t)
  BY <1>0, <1>2 DEF Close, Enter
<1>3. CASE Abort(t)
  BY <1>0, <1>3 DEF Abort, Refuse, Enter
<1>4. CASE WaitsForID(t)
  BY <1>0, <1>4 DEF WaitsForID, WaitForID, HasID, Enter, Return
<1>5. CASE EncodeDocument(t)
  BY <1>0, <1>5 DEF EncodeDocument, Return
<1>6. CASE CloseWriter(t) \/ AwaitTask(t) \/ FinishClose(t)
  BY <1>0, <1>6 DEF CloseWriter, AwaitTask, FinishClose, Return
<1>7. CASE ReadChunk(t) \/ WriteToClosedPipe(t)
  BY <1>0, <1>7 DEF ReadChunk, WriteToClosedPipe, AfterWrite, Return
<1>8. CASE WaitForCompletion(t)
  BY <1>0, <1>8 DEF WaitForCompletion, Enter, Return
<1> QED
  BY <1>1, <1>2, <1>3, <1>4, <1>5, <1>6, <1>7, <1>8 DEF Step

\* A step that sends nothing and leaves the outcome of the request alone.
LEMMA QuietStored ==
  ASSUME StoredInv, server'.received = server.received, server'.stored = server.stored,
         server'.missing = server.missing, history'.accepted = history.accepted,
         task'.state = task.state, task'.token => task.token, request' = request,
         op.command # 0 => op'.command # 0,
         \A t \in Threads : thread'[t].pc \in Ending /\ ~thread'[t].failed =>
           /\ thread[t].pc \in Ending /\ ~thread[t].failed
           /\ thread'[t].pc = "end" => thread[t].pc = "end" \/ task.state \in {"ok", "failed"}
  PROVE  StoredInv'
<1>1. CountInv'
  BY DEF StoredInv, CountInv, TwoClosings, HasClosing
<1>2. TaskInv'
  BY DEF StoredInv, TaskInv
<1>3. ASSUME NEW t \in Threads PROVE EndOK(t)'
  BY DEF StoredInv, EndOK
<1> QED
  BY <1>1, <1>2, <1>3 DEF StoredInv

\* The same for one goroutine that moves.
LEMMA QuietMoveStored ==
  ASSUME StoredInv, TypeInv, NEW t \in Threads,
         StoreWithID(t) \/ Close(t) \/ Abort(t) \/ Step(t),
         server'.received = server.received, server'.stored = server.stored,
         server'.missing = server.missing, history'.accepted = history.accepted,
         task'.state = task.state, task'.token => task.token, request' = request,
         op.command # 0 => op'.command # 0,
         thread'[t].pc \in Ending /\ ~thread'[t].failed =>
           /\ thread[t].pc \in Ending /\ ~thread[t].failed
           /\ thread'[t].pc = "end" => thread[t].pc = "end" \/ task.state \in {"ok", "failed"}
  PROVE  StoredInv'
<1>1. \A s \in Threads : s # t => thread'[s] = thread[s]
  BY OneMoves
<1> QED
  BY <1>1, QuietStored

\* Calls begin and return, and goroutines wait, without touching the stream.
LEMMA CallsStored ==
  ASSUME IInv, StoredInv, NEW t \in Threads,
         StoreWithID(t) \/ Close(t) \/ Abort(t) \/ WaitsForID(t) \/ WaitForCompletion(t)
           \/ FinishClose(t)
  PROVE  StoredInv'
<1>0. TypeInv /\ CallInv /\ thread \in [Threads -> States] /\ history \in Histories
      /\ op \in OpType
      /\ server \in [ids : Nat, received : Seq(Chunks), stored : Nat, killed : SUBSET Nat,
                     missing : BOOLEAN]
  BY DEF IInv, TypeInv, OpType
<1>1. UNCHANGED <<request, task>>
  BY DEF StoreWithID, Close, Abort, WaitsForID, WaitForCompletion, FinishClose
<1>2. history'.accepted = history.accepted
  <2>1. CASE StoreWithID(t)
    BY <1>0, <2>1 DEF StoreWithID, Histories
  <2>2. CASE Close(t)
    <3>1. \E a, b \in BOOLEAN :
            history' = [history EXCEPT !.raced = @ \/ a, !.twoClose = @ \/ b]
      BY <2>2 DEF Close
    <3> QED
      BY <1>0, <3>1 DEF Histories
  <2>3. CASE Abort(t) \/ WaitsForID(t) \/ WaitForCompletion(t) \/ FinishClose(t)
    BY <2>3 DEF Abort, WaitsForID, WaitForCompletion, FinishClose
  <2> QED
    BY <2>1, <2>2, <2>3
<1>3. UNCHANGED <<server.received, server.stored, server.missing>>
  <2>1. \/ server' = server \/ server' = [server EXCEPT !.ids = @ + 1]
        \/ server' = [server EXCEPT !.killed = @ \union ({op.id} \ {0})]
    BY DEF StoreWithID, Close, Abort, WaitsForID, WaitForID, WaitForCompletion, FinishClose
  <2> QED
    BY <1>0, <2>1
<1>4. op'.command = op.command
  <2>1. CASE StoreWithID(t)
    BY <1>0, <2>1 DEF StoreWithID, OpType
  <2>2. CASE WaitsForID(t)
    BY <1>0, <2>2 DEF WaitsForID, WaitForID, OpType
  <2>3. CASE FinishClose(t)
    BY <1>0, <2>3 DEF FinishClose, OpType
  <2>4. CASE Close(t) \/ Abort(t) \/ WaitForCompletion(t)
    BY <2>4 DEF Close, Abort, WaitForCompletion
  <2> QED
    BY <2>1, <2>2, <2>3, <2>4
<1>5. thread'[t].pc \in {"idle", "id", "asking", "encode", "write", "poll"}
  <2>1. CASE StoreWithID(t)
    BY <1>0, <2>1 DEF StoreWithID, Refuse, Enter, Calls, States
  <2>2. CASE Close(t)
    BY <1>0, <2>2, Writes, EntersAndReturns DEF Close, Becomes, Chunks, CallNames
  <2>3. CASE Abort(t)
    BY <1>0, <2>3, EntersAndReturns, Refused DEF Abort, Calls, Becomes, CallNames
  <2>4. CASE WaitsForID(t)
    <3>1. \/ thread' = Enter(t, "waitid", "id")
          \/ \E pc \in {"asking", "encode"} : thread' = [thread EXCEPT ![t].pc = pc]
          \/ \E result \in {"nil", "error"} : thread' = Return(t, result)
      BY <2>4 DEF WaitsForID, WaitForID, HasID
    <3>2. CASE thread' = Enter(t, "waitid", "id")
      BY <1>0, <3>2, Enters DEF Becomes, CallNames, Labels
    <3>3. CASE \E pc \in {"asking", "encode"} : thread' = [thread EXCEPT ![t].pc = pc]
      <4>1. PICK pc \in {"asking", "encode"} : thread' = [thread EXCEPT ![t].pc = pc]
        BY <3>3
      <4>2. pc \in Labels
        BY <4>1 DEF Labels
      <4>3. Becomes(t, pc, thread[t].call, thread[t].chunk)
        BY <1>0, <4>1, <4>2, GoesOn
      <4> QED
        BY <4>1, <4>3 DEF Becomes
    <3>4. CASE \E result \in {"nil", "error"} : thread' = Return(t, result)
      BY <1>0, <3>4, ReturnsFrom DEF Becomes
    <3> QED
      BY <3>1, <3>2, <3>3, <3>4
  <2>5. CASE WaitForCompletion(t)
    <3>1. \/ thread' = Enter(t, "poll", "poll")
          \/ thread[t].pc = "poll" /\ thread' = thread
          \/ \E result \in {"nil", "error"} : thread' = Return(t, result)
      BY <2>5 DEF WaitForCompletion
    <3>2. CASE thread' = Enter(t, "poll", "poll")
      BY <1>0, <3>2, Enters DEF Becomes, CallNames, Labels
    <3>3. CASE thread[t].pc = "poll" /\ thread' = thread
      BY <3>3
    <3>4. CASE \E result \in {"nil", "error"} : thread' = Return(t, result)
      BY <1>0, <3>4, ReturnsFrom DEF Becomes
    <3> QED
      BY <3>1, <3>2, <3>3, <3>4
  <2>6. CASE FinishClose(t)
    BY <1>0, <2>6 DEF FinishClose, Return, States
  <2> QED
    BY <2>1, <2>2, <2>3, <2>4, <2>5, <2>6
<1>6. thread'[t].pc \notin Ending
  BY <1>5 DEF Ending
<1> QED
  BY <1>0, <1>1, <1>2, <1>3, <1>4, <1>6, QuietMoveStored DEF Step

\* Close waits for the request; a write to a broken pipe fails.
LEMMA WaitsStored ==
  ASSUME IInv, StoredInv, NEW t \in Threads,
         CloseWriter(t) \/ AwaitTask(t) \/ WriteToClosedPipe(t)
  PROVE  StoredInv'
<1>0. TypeInv /\ CommandInv /\ thread \in [Threads -> States] /\ history \in Histories
      /\ op \in OpType /\ thread[t] \in States
      /\ task \in [state : {"none", "running", "ok", "failed"}, token : BOOLEAN]
  BY DEF IInv, TypeInv, OpType
<1>e. EndOK(t) /\ TaskInv
  BY DEF StoredInv
<1>1. CASE CloseWriter(t)
  <2>1. /\ thread[t].pc = "written" /\ UNCHANGED <<op, request, task, server, history>>
        /\ thread' = [thread EXCEPT ![t].pc = IF op.command # 0 THEN "get" ELSE "end"]
    BY <1>1 DEF CloseWriter
  <2>2. /\ thread'[t].pc = IF op.command # 0 THEN "get" ELSE "end"
        /\ thread'[t].failed = thread[t].failed
    BY <1>0, <2>1 DEF States
  <2>3. thread[t].pc \in Ending /\ (thread'[t].pc = "end" => thread[t].failed)
    BY <1>e, <2>1, <2>2 DEF EndOK, Ending
  <2> QED
    BY <1>0, <1>1, <2>1, <2>2, <2>3, QuietMoveStored DEF Step
<1>2. CASE AwaitTask(t)
  <2>1. /\ UNCHANGED <<op, request, server, history>>
        /\ thread[t].pc \in {"get", "blocked"}
        /\ task' = task \/ task' = [task EXCEPT !.token = FALSE]
    BY <1>2 DEF AwaitTask
  <2>2. PICK pc \in {"blocked", "end"} :
          /\ thread' = [thread EXCEPT ![t].pc = pc]
          /\ pc = "end" => \/ thread[t].pc = "get" /\ task.state # "running"
                           \/ task.token
    BY <1>2 DEF AwaitTask
  <2>3. thread'[t].pc = pc /\ thread'[t].failed = thread[t].failed
    BY <1>0, <2>2 DEF States
  <2>4. task'.state = task.state /\ (task'.token => task.token)
    BY <1>0, <2>1
  <2>5. thread[t].pc \in Ending /\ (~thread[t].failed => op.command # 0)
    BY <1>e, <2>1 DEF EndOK, Ending
  <2>6. ~thread[t].failed => task.state # "none"
    BY <1>0, <2>5 DEF CommandInv
  <2>7. pc = "end" /\ ~thread[t].failed => task.state \in {"ok", "failed"}
    BY <1>0, <1>e, <2>2, <2>6 DEF TaskInv
  <2> QED
    BY <1>0, <1>2, <2>1, <2>3, <2>4, <2>5, <2>7, QuietMoveStored DEF Step
<1>3. CASE WriteToClosedPipe(t)
  <2>1. UNCHANGED <<request, task, server>> /\ AfterWrite(t, TRUE)
    BY <1>3 DEF WriteToClosedPipe
  <2>2. history'.accepted = history.accepted
    BY <1>0, <2>1 DEF AfterWrite, Histories
  <2>3. op'.command = op.command
    BY <1>0, <2>1 DEF AfterWrite, OpType
  <2>4. thread'[t].pc = "idle" \/ thread'[t].failed
    BY <1>0, <2>1 DEF AfterWrite, Return, States
  <2>5. ~(thread'[t].pc \in Ending /\ ~thread'[t].failed)
    BY <2>4 DEF Ending
  <2> QED
    BY <1>0, <1>3, <2>1, <2>2, <2>3, <2>5, QuietMoveStored DEF Step
<1> QED
  BY <1>1, <1>2, <1>3

\* StoreWithID up to its write: a request that it starts has no outcome yet.
LEMMA EncodeStored ==
  ASSUME IInv, StoredInv, NEW t \in Threads, EncodeDocument(t)
  PROVE  StoredInv'
<1>0. TypeInv /\ CommandInv /\ CallInv /\ history \in Histories /\ op \in OpType
      /\ thread \in [Threads -> States]
      /\ task \in [state : {"none", "running", "ok", "failed"}, token : BOOLEAN]
  BY DEF IInv, TypeInv, OpType
<1>e. CountInv /\ TaskInv /\ \A s \in Threads : EndOK(s)
  BY DEF StoredInv
<1>1. thread[t].pc = "encode" /\ server' = server
  BY DEF EncodeDocument
<1>2. history'.accepted = history.accepted
  <2>1. history' = history \/ history' = [history EXCEPT !.lostFirst = @ \/ op.first]
    BY DEF EncodeDocument
  <2> QED
    BY <1>0, <2>1 DEF Histories
<1>3. op.command # 0 => op'.command # 0
  BY <1>0 DEF EncodeDocument, OpType
<1>4. thread'[t].pc \notin Ending
  <2>1. thread'[t].pc \in {"idle", "write"}
    BY <1>0 DEF EncodeDocument, Return, States
  <2> QED
    BY <2>1 DEF Ending
<1>5. CASE op.command # 0
  <2>1. UNCHANGED <<request, task>>
    BY <1>5 DEF EncodeDocument, ensureCommand
  <2> QED
    BY <1>0, <1>1, <1>2, <1>3, <1>4, <2>1, QuietMoveStored DEF Step
<1>6. CASE op.command = 0
  <2>1. task' = [task EXCEPT !.state = "running"]
    BY <1>6 DEF EncodeDocument, ensureCommand
  <2>2. task.state = "none" /\ ~task.token
    BY <1>0, <1>6, <1>e DEF CommandInv, TaskInv
  <2>3. task'.state = "running" /\ ~task'.token
    BY <1>0, <2>1, <2>2
  <2>4. TaskInv'
    BY <2>3 DEF TaskInv
  <2>5. CountInv'
    BY <1>1, <1>2, <1>e DEF CountInv
  <2>6. ASSUME NEW s \in Threads PROVE EndOK(s)'
    <3>1. CASE s = t
      BY <1>4, <3>1 DEF EndOK
    <3>2. CASE s # t
      <4>1. thread'[s] = thread[s]
        BY <1>0, <3>2, OneMoves DEF Step
      <4> QED
        BY <1>6, <1>e, <4>1 DEF EndOK
    <3> QED
      BY <3>1, <3>2
  <2> QED
    BY <2>4, <2>5, <2>6 DEF StoredInv
<1> QED
  BY <1>5, <1>6

\* One more chunk: a document, or a closing bracket.
LEMMA Counted ==
  ASSUME NEW s \in Seq(Chunks), NEW c \in Chunks
  PROVE  /\ Len(Append(s, c)) = Len(s) + 1 /\ Len(s) \in Nat
         /\ TwoClosings(s) => TwoClosings(Append(s, c))
         /\ c # Closing => (HasClosing(Append(s, c)) <=> HasClosing(s))
         /\ c = Closing => HasClosing(Append(s, c))
         /\ c = Closing /\ HasClosing(s) => TwoClosings(Append(s, c))
<1> DEFINE a == Append(s, c)
<1>1. /\ Len(a) = Len(s) + 1 /\ Len(s) \in Nat
      /\ a[Len(s) + 1] = c /\ \A i \in 1..Len(s) : a[i] = s[i]
  OBVIOUS
<1> HIDE DEF a
<1>2. /\ \A i \in 1..Len(s) : i \in 1..Len(a) /\ i # Len(a)
      /\ Len(a) \in 1..Len(a) /\ a[Len(a)] = c
      /\ \A i \in 1..Len(a) : i \in 1..Len(s) \/ i = Len(a)
  BY <1>1
<1>3. TwoClosings(s) => TwoClosings(a)
  BY <1>1, <1>2 DEF TwoClosings
<1>4. c # Closing => (HasClosing(a) <=> HasClosing(s))
  BY <1>1, <1>2 DEF HasClosing
<1>5. c = Closing => HasClosing(a)
  BY <1>2 DEF HasClosing
<1>6. c = Closing /\ HasClosing(s) => TwoClosings(a)
  BY <1>1, <1>2 DEF HasClosing, TwoClosings
<1> QED
  BY <1>1, <1>3, <1>4, <1>5, <1>6 DEF a

\* The brackets differ from the documents.
LEMMA Brackets == Closing \notin {Opening, Further}
<1>1. Closing.doc = FALSE /\ Opening.doc = TRUE /\ Further.doc = TRUE
  BY DEF Closing, Opening, Further
<1> QED
  BY <1>1

\* A stream the server takes has one closing bracket.
LEMMA WellFormedCount ==
  ASSUME NEW s \in Seq(Chunks), WellFormed(s)
  PROVE  HasClosing(s) /\ ~TwoClosings(s)
<1>1. Len(s) \in Nat /\ Len(s) >= 2 /\ s[Len(s)] = Closing
  BY DEF WellFormed
<1>2. ASSUME NEW i \in 1..Len(s), s[i] = Closing PROVE i = Len(s)
  <2>1. i = 1 \/ i \in 2..Len(s) - 1 \/ i = Len(s)
    BY <1>1
  <2> QED
    BY <1>2, <2>1, Brackets DEF WellFormed
<1>3. HasClosing(s)
  <2>1. Len(s) \in 1..Len(s)
    BY <1>1
  <2> QED
    BY <1>1, <2>1 DEF HasClosing
<1> QED
  BY <1>2, <1>3 DEF TwoClosings

\* The transport takes a chunk: one more document accepted, or a bracket.
LEMMA ReadStored ==
  ASSUME IInv, StoredInv, NEW t \in Threads, ReadChunk(t)
  PROVE  StoredInv'
<1>0. /\ TypeInv /\ CommandInv /\ CallInv /\ op \in OpType
      /\ thread \in [Threads -> States] /\ history \in Histories
      /\ server \in [ids : Nat, received : Seq(Chunks), stored : Nat, killed : SUBSET Nat,
                     missing : BOOLEAN]
  BY DEF IInv, TypeInv, OpType
<1>e. CountInv /\ TaskInv /\ \A s \in Threads : EndOK(s)
  BY DEF StoredInv
<1>1. /\ thread[t].pc = "write" /\ request = "reading"
      /\ server' = [server EXCEPT !.received = Append(@, thread[t].chunk)]
      /\ AfterWrite(t, FALSE) /\ UNCHANGED <<request, task>>
  BY DEF ReadChunk
<1>2. server'.received = Append(server.received, thread[t].chunk)
  BY <1>0, <1>1
<1>3. \/ thread[t].call = "store" /\ thread[t].chunk \in {Opening, Further}
      \/ thread[t].call = "close" /\ thread[t].chunk = Closing
  BY <1>0, <1>1 DEF CallInv, CallOK
<1>4. op'.command = op.command /\ op.command # 0
  <2>1. op'.command = op.command
    BY <1>0, <1>1 DEF AfterWrite, OpType
  <2> QED
    BY <1>0, <1>1, <2>1 DEF CommandInv
<1>5. /\ thread[t].call = "store" => history'.accepted = history.accepted + 1
      /\ thread[t].call # "store" => history'.accepted = history.accepted
  <2>1. /\ thread[t].call = "store" => history' = [history EXCEPT !.accepted = @ + 1]
        /\ thread[t].call # "store" => history' = history
    BY <1>1 DEF AfterWrite
  <2> QED
    BY <1>0, <2>1 DEF Histories
<1>6. CountInv'
  <2> DEFINE r == server.received
             c == thread[t].chunk
  <2>1. r \in Seq(Chunks) /\ c \in Chunks /\ history.accepted \in Nat
    BY <1>0, <1>3 DEF Chunks, Histories
  <2>2. /\ Len(Append(r, c)) = Len(r) + 1 /\ Len(r) \in Nat
        /\ TwoClosings(r) => TwoClosings(Append(r, c))
        /\ c # Closing => (HasClosing(Append(r, c)) <=> HasClosing(r))
        /\ c = Closing => HasClosing(Append(r, c))
        /\ c = Closing /\ HasClosing(r) => TwoClosings(Append(r, c))
    BY <2>1, Counted
  <2>3. \/ TwoClosings(r)
        \/ Len(r) = history.accepted + (IF HasClosing(r) THEN 1 ELSE 0)
    BY <1>e DEF CountInv
  <2>4. \/ c # Closing /\ history'.accepted = history.accepted + 1
        \/ c = Closing /\ history'.accepted = history.accepted
    BY <1>3, <1>5, Brackets
  <2> HIDE DEF r, c
  <2>5. \/ TwoClosings(Append(r, c))
        \/ Len(Append(r, c)) = history'.accepted + (IF HasClosing(Append(r, c)) THEN 1 ELSE 0)
    BY <2>1, <2>2, <2>3, <2>4
  <2> QED
    BY <1>2, <2>5 DEF CountInv, r, c
<1>7. TaskInv'
  BY <1>1, <1>e DEF TaskInv
<1>8. ASSUME NEW s \in Threads PROVE EndOK(s)'
  <2>1. CASE s = t
    <3>1. thread'[t].pc \in {"idle", "written"}
      BY <1>0, <1>1 DEF AfterWrite, Return, States
    <3> QED
      BY <1>4, <2>1, <3>1 DEF EndOK
  <2>2. CASE s # t
    <3>1. thread'[s] = thread[s]
      BY <1>0, <2>2, OneMoves DEF Step
    <3> QED
      BY <1>1, <1>4, <1>e, <3>1 DEF EndOK
  <2> QED
    BY <2>1, <2>2
<1> QED
  BY <1>6, <1>7, <1>8 DEF StoredInv

\* The request ends: well when the server stored a well-formed stream, all of
\* it, or answered 404.
LEMMA RequestStored ==
  ASSUME IInv, StoredInv, ReadEnd \/ ServerAnswers \/ RequestFails \/ JobEnds \/ UNCHANGED vars
  PROVE  StoredInv'
<1>0. /\ history \in Histories /\ request \in {"none", "reading", "waiting", "done"}
      /\ server \in [ids : Nat, received : Seq(Chunks), stored : Nat, killed : SUBSET Nat,
                     missing : BOOLEAN]
  BY DEF IInv, TypeInv
<1>e. CountInv /\ TaskInv /\ \A s \in Threads : EndOK(s)
  BY DEF StoredInv
<1>1. UNCHANGED <<op, thread, history>>
  BY DEF ReadEnd, ServerAnswers, RequestFails, JobEnds, vars
<1>2. CASE JobEnds \/ UNCHANGED vars
  <2>1. UNCHANGED <<server, task, request>>
    BY <1>2 DEF JobEnds, vars
  <2> QED
    BY <1>1, <2>1, QuietStored
<1>3. CASE ReadEnd
  <2>1. UNCHANGED <<server, task>> /\ request # "done"
    BY <1>3 DEF ReadEnd
  <2>2. CountInv' /\ TaskInv' /\ \A s \in Threads : EndOK(s)'
    BY <1>1, <1>e, <2>1 DEF CountInv, TaskInv, EndOK
  <2> QED
    BY <2>2 DEF StoredInv
<1>4. CASE ServerAnswers \/ RequestFails
  <2>1. /\ request' = "done"
        /\ \/ task' = [state |-> "failed", token |-> TRUE]
           \/ /\ task' = [state |-> "ok", token |-> TRUE]
              /\ \/ /\ WellFormed(server.received)
                    /\ server' = [server EXCEPT !.stored = Len(server.received) - 1]
                 \/ server' = [server EXCEPT !.missing = TRUE]
        /\ \/ server' = server
           \/ server' = [server EXCEPT !.stored = Len(server.received) - 1]
           \/ server' = [server EXCEPT !.missing = TRUE]
    BY <1>4 DEF ServerAnswers, RequestFails, ExecuteTask, Completed
  <2>2. server'.received = server.received
    BY <1>0, <2>1
  <2>3. task'.state \in {"ok", "failed"}
    BY <2>1
  <2>4. CountInv'
    BY <1>1, <1>e, <2>2 DEF CountInv
  <2>5. ASSUME task'.state = "ok"
        PROVE  server'.stored = history.accepted \/ server'.missing
    <3>1. \/ /\ WellFormed(server.received)
             /\ server' = [server EXCEPT !.stored = Len(server.received) - 1]
          \/ server' = [server EXCEPT !.missing = TRUE]
      BY <2>1, <2>5
    <3>2. CASE /\ WellFormed(server.received)
               /\ server' = [server EXCEPT !.stored = Len(server.received) - 1]
      <4>1. HasClosing(server.received) /\ ~TwoClosings(server.received)
        BY <1>0, <3>2, WellFormedCount
      <4>2. Len(server.received) = history.accepted + 1 /\ history.accepted \in Nat
        BY <1>0, <1>e, <4>1 DEF CountInv, Histories
      <4>3. server'.stored = Len(server.received) - 1
        BY <1>0, <3>2
      <4> QED
        BY <4>2, <4>3
    <3>3. CASE server' = [server EXCEPT !.missing = TRUE]
      BY <1>0, <3>3
    <3> QED
      BY <3>1, <3>2, <3>3
  <2>6. TaskInv'
    BY <1>1, <2>1, <2>3, <2>5 DEF TaskInv
  <2>7. \A s \in Threads : EndOK(s)'
    BY <1>1, <1>e, <2>3 DEF EndOK
  <2> QED
    BY <2>4, <2>6, <2>7 DEF StoredInv
<1> QED
  BY <1>2, <1>3, <1>4

\* Every step keeps the count of the documents.
LEMMA StoredInductive == ASSUME IInv, StoredInv, [Next]_vars PROVE StoredInv'
<1>1. ASSUME NEW t \in Threads, StoreWithID(t) \/ Close(t) \/ Abort(t) \/ Step(t)
      PROVE  StoredInv'
  BY <1>1, CallsStored, WaitsStored, EncodeStored, ReadStored DEF Step
<1> QED
  BY <1>1, RequestStored DEF Next

\* Before the first call nothing was accepted and nothing is awaited.
LEMMA StoredInitially == ASSUME Init PROVE StoredInv
<1>1. /\ server.received = <<>> /\ history.accepted = 0
      /\ task.state = "none" /\ task.token = FALSE
  BY DEF Init
<1>2. \A t \in Threads : thread[t].pc = "idle"
  BY DEF Init
<1>3. CountInv
  <2>1. Len(server.received) = 0
    BY <1>1
  <2> QED
    BY <1>1, <2>1 DEF CountInv, HasClosing
<1>4. TaskInv
  BY <1>1 DEF TaskInv
<1>5. \A t \in Threads : EndOK(t)
  BY <1>2 DEF EndOK, Ending
<1> QED
  BY <1>3, <1>4, <1>5 DEF StoredInv

\* The chunks sent are the documents accepted and the closing bracket, and the
\* request succeeds only when the server stored them all or answered 404.
THEOREM StoredInvariant == Spec => []StoredInv
<1>1. Init => StoredInv
  BY StoredInitially
<1>2. IInv /\ StoredInv /\ [Next]_vars => StoredInv'
  BY StoredInductive
<1> QED
  BY <1>1, <1>2, BulkInsertInvariant, PTL DEF Spec

\* Close returns by its last step and no other.
LEMMA OnlyFinishCloseReturns ==
  ASSUME IInv, NEW t \in Threads, Returns(t, "close"), Next
  PROVE  FinishClose(t)
<1>0. TypeInv /\ CallInv /\ thread \in [Threads -> States]
  BY DEF IInv, TypeInv
<1>1. thread[t].pc # "idle" /\ thread[t].call = "close" /\ thread'[t].pc = "idle"
  BY DEF Returns
<1>2. thread[t].pc \notin {"id", "asking", "encode", "poll"}
  BY <1>0, <1>1 DEF CallInv, CallOK
<1>3. CASE ReadEnd \/ ServerAnswers \/ RequestFails \/ JobEnds
  <2>1. thread' = thread
    BY <1>3 DEF ReadEnd, ServerAnswers, RequestFails, JobEnds
  <2> QED
    BY <1>1, <2>1
<1>4. ASSUME NEW s \in Threads, StoreWithID(s) \/ Close(s) \/ Abort(s) \/ Step(s)
      PROVE  FinishClose(t)
  <2>1. s = t
    BY <1>0, <1>1, <1>4, OneMoves
  <2>2. ~(StoreWithID(t) \/ Close(t) \/ Abort(t))
    BY <1>1 DEF StoreWithID, Close, Abort, Calls
  <2>3. ~(WaitsForID(t) \/ EncodeDocument(t) \/ WaitForCompletion(t))
    BY <1>1, <1>2 DEF WaitsForID, WaitForID, EncodeDocument, WaitForCompletion, Calls
  <2>4. ~(CloseWriter(t) \/ AwaitTask(t))
    BY <1>0, <1>1 DEF CloseWriter, AwaitTask, States
  <2>5. ~(ReadChunk(t) \/ WriteToClosedPipe(t))
    BY <1>0, <1>1 DEF ReadChunk, WriteToClosedPipe, AfterWrite, States
  <2> QED
    BY <1>4, <2>1, <2>2, <2>3, <2>4, <2>5 DEF Step
<1> QED
  BY <1>3, <1>4 DEF Next

\* When Close returns no error, every document whose Store returned no error
\* is on the server, whatever the goroutines that share the bulk insert do and
\* however often the connection fails, unless the server answered 404.
THEOREM CloseReturnsStored == Spec => CloseMeansStored
<1>1. ASSUME IInv, StoredInv, [Next]_vars
      PROVE  [\A t \in Threads :
                (Returns(t, "close") /\ thread'[t].result = "nil") =>
                    server.stored = history.accepted \/ server.missing]_vars
  <2>1. ASSUME Next, NEW t \in Threads, Returns(t, "close"), thread'[t].result = "nil"
        PROVE  server.stored = history.accepted \/ server.missing
    <3>0. thread \in [Threads -> States] /\ EndOK(t) /\ TaskInv
      BY <1>1 DEF IInv, TypeInv, StoredInv
    <3>1. FinishClose(t)
      BY <1>1, <2>1, OnlyFinishCloseReturns
    <3>2. thread[t].pc = "end" /\ ~thread[t].failed /\ task.state # "failed"
      BY <2>1, <3>0, <3>1 DEF FinishClose, Return, States
    <3>3. task.state = "ok"
      BY <3>0, <3>2 DEF EndOK, Ending
    <3> QED
      BY <3>0, <3>3 DEF TaskInv
  <2> QED
    BY <1>1, <2>1
<1> QED
  BY <1>1, BulkInsertInvariant, StoredInvariant, PTL DEF Spec, CloseMeansStored

===========================================================================
