-------------------------- MODULE DatabaseChanges --------------------------
(***************************************************************************)
(* The changes client (database_changes.go): goroutines that subscribe and *)
(* unsubscribe callbacks, the goroutine of doWork that connects, serves    *)
(* and reconnects, the writer and the reader of the connection it has, and *)
(* the web socket with the server behind it.                               *)
(*                                                                         *)
(* A panic ends the program: nothing moves once `panic` is set.            *)
(***************************************************************************)
EXTENDS Integers, Sequences

CONSTANTS Threads,   \* goroutines of the program
          Workloads, \* sets of subscriptions (by name) and of what else happens
          Capacity,  \* room in chCommands (32 in the code)
          MaxCalls,  \* bound: calls made by the program
          MaxBreaks, \* bound: connections that break
          MaxChanges \* bound: changes made on the server

ASSUME ChangesAssumption == Capacity \in Nat \ {0} /\ "worker" \notin Threads

VARIABLES offers,      \* the workload
          subscribers, \* name -> its changeSubscribers, 0 for none
          handlers,    \* changeSubscribers -> goroutines registered in it
          th,          \* goroutine -> where it is
          snd,         \* goroutine -> the command it is sending
          chans,       \* every chCommands there has been, the last is current
          nextCmd, outstanding, signalled,
          worker, visited, due,    \* doWork
          conn,                    \* the connection
          chIsConnected, chWorkCompleted, ctxDone,
          closer,      \* the goroutine that closes the client
          ensured,     \* what the last EnsureConnectedNow returned
          panic, calls, breaks, changes,
          raced,       \* names two goroutines worked on at once
          taken        \* someone has received the error in chWorkCompleted

vars == <<offers, subscribers, handlers, th, snd, chans, nextCmd, outstanding,
          signalled, worker, visited, due, conn, chIsConnected,
          chWorkCompleted, ctxDone, closer, ensured, panic, calls, breaks,
          changes, raced, taken>>

workerState == <<worker, visited, due, chIsConnected, chWorkCompleted>>
program == <<offers, closer, ensured, ctxDone, calls, breaks, changes, taken>>

-----------------------------------------------------------------------------
(* Changes, and what each subscription method does with one: the changes   *)
(* its filter passes to the callback, and those on which it panics.        *)
(* Document a is in collection "c" and under prefix "p", document b not.   *)

DocumentChanges == {"doc a", "doc b"}
IndexChanges == {"index i", "index j"}
OperationChanges == {"operation o"}
Changes == DocumentChanges \cup IndexChanges \cup OperationChanges

ForDocument(c) ==
  [name |-> "docs", hears |-> {c}, panics |-> DocumentChanges \ {c}]

ForAllDocuments ==
  [name |-> "all-docs", hears |-> DocumentChanges, panics |-> {}]

ForDocumentsStartingWith ==
  [name |-> "prefixes", hears |-> {"doc a"}, panics |-> {}]

ForDocumentsInCollection ==
  [name |-> "collections", hears |-> {"doc a"}, panics |-> {}]

ForIndex == [name |-> "indexes", hears |-> {"index i"}, panics |-> {}]

ForAllIndexes == [name |-> "all-indexes", hears |-> IndexChanges, panics |-> {}]

ForOperationID ==
  [name |-> "operations", hears |-> OperationChanges, panics |-> {}]

ForAllOperations ==
  [name |-> "all-operations", hears |-> OperationChanges, panics |-> {}]

Subscriptions == {ForDocument("doc a"), ForAllDocuments, ForIndex,
                  ForDocumentsStartingWith, ForDocumentsInCollection,
                  ForAllIndexes, ForOperationID, ForAllOperations}

Names == {s.name : s \in Subscriptions}
subscription(n) == CHOOSE s \in Subscriptions : s.name = n

-----------------------------------------------------------------------------

NoSend == [id |-> 0, name |-> "", watch |-> FALSE, ch |-> 0]
Free == [pc |-> "free", name |-> "", obj |-> 0]
NoConn == [up |-> FALSE, watched |-> {}, out |-> <<>>,
           writer |-> "none", reader |-> "none", ch |-> 0]

Init ==
  /\ offers \in Workloads
  /\ subscribers = [n \in Names |-> 0]
  /\ handlers = <<>>
  /\ th = [t \in Threads |-> Free]
  /\ snd = [p \in Threads \cup {"worker"} |-> NoSend]
  /\ chans = <<[buf |-> <<>>, closed |-> FALSE]>>
  /\ nextCmd = 1 /\ outstanding = {} /\ signalled = {}
  /\ worker = "start" /\ visited = {} /\ due = {}
  /\ conn = NoConn
  /\ chIsConnected = "open" /\ chWorkCompleted = "empty" /\ ctxDone = FALSE
  /\ closer = "free" /\ ensured = "none"
  /\ panic = "none" /\ calls = 0 /\ breaks = 0 /\ changes = 0
  /\ raced = {} /\ taken = FALSE

Running == panic = "none"
Idle(p) == snd[p] = NoSend

-----------------------------------------------------------------------------
(* send: a command gets its number and the current channel, is put into    *)
(* that channel, and is waited for if it is a watch.                       *)

\* Only commands that are waited for need a number.
send(p, n, w) ==
  /\ snd' = [snd EXCEPT ![p] = [id |-> IF w THEN nextCmd ELSE 0, name |-> n,
                                watch |-> w, ch |-> Len(chans)]]
  /\ nextCmd' = IF w THEN nextCmd + 1 ELSE nextCmd
  /\ outstanding' = IF w THEN outstanding \cup {nextCmd} ELSE outstanding

\* send to a closed channel panics; to a full one it blocks.
PutCommand(p) ==
  /\ Running /\ snd[p].ch # 0
  /\ \/ /\ chans[snd[p].ch].closed
        /\ panic' = "send on closed chCommands"
        /\ UNCHANGED <<chans, snd>>
     \/ /\ ~chans[snd[p].ch].closed
        /\ Len(chans[snd[p].ch].buf) < Capacity
        /\ chans' = [chans EXCEPT ![snd[p].ch].buf = Append(@, [id |-> snd[p].id,
                       name |-> snd[p].name, watch |-> snd[p].watch])]
        /\ snd' = [snd EXCEPT ![p] = IF @.watch THEN [@ EXCEPT !.ch = 0]
                                                ELSE NoSend]
        /\ UNCHANGED panic
  /\ UNCHANGED <<workerState, program, subscribers, handlers, th, nextCmd,
                 outstanding, signalled, conn, raced>>

\* The result is ignored: confirmed, cancelled and timed out are alike.  A
\* command no one waits for any more plays no part, and is forgotten.
waitForConfirmation(p) ==
  /\ Running /\ snd[p].watch /\ snd[p].ch = 0
  /\ snd' = [snd EXCEPT ![p] = NoSend]
  /\ outstanding' = outstanding \ {snd[p].id}
  /\ signalled' = signalled \ {snd[p].id}
  /\ UNCHANGED <<workerState, program, subscribers, handlers, th, chans,
                 nextCmd, conn, panic, raced>>

Confirmed(p) == snd[p].id \in signalled /\ waitForConfirmation(p)
TimedOut(p) == snd[p].id \notin signalled /\ waitForConfirmation(p)

confirm(ids) == signalled' = signalled \cup ids

cancelOutstandingCommands == confirm(outstanding) /\ outstanding' = {}

-----------------------------------------------------------------------------
(* A goroutine subscribing and unsubscribing.                              *)

InCall(t, n) == th[t].name = n /\ th[t].pc \notin {"free", "subscribed"}

\* Two calls for one name at once: from then on the name counts as raced.
noteRace(t, n) ==
  raced' = IF \E u \in Threads \ {t} : InCall(u, n) THEN raced \cup {n}
                                                    ELSE raced

\* In a serial workload one call ends before the next begins.
MayCall(t) ==
  "serial" \in offers =>
    \A u \in Threads : th[u].pc \in {"free", "subscribed"}

ThreadStep(t) ==
  /\ Running
  /\ UNCHANGED <<workerState, offers, closer, ensured, ctxDone, breaks,
                 changes, taken, chans, signalled, conn, panic>>

NoSending == UNCHANGED <<snd, nextCmd, outstanding>>
Same(t) == UNCHANGED <<calls, raced>>

\* ForX: the first half of getOrAddSubscribers, up to the Load.
Subscribe(t) ==
  /\ ThreadStep(t)
  /\ th[t].pc = "free" /\ calls < MaxCalls
  /\ MayCall(t)
  /\ \E n \in offers \cap Names :
       /\ th' = [th EXCEPT ![t] =
            [pc |-> IF subscribers[n] # 0 THEN "register" ELSE "store",
             name |-> n, obj |-> subscribers[n]]]
       /\ noteRace(t, n)
  /\ calls' = calls + 1
  /\ NoSending /\ UNCHANGED <<subscribers, handlers>>

getOrAddSubscribers(t) ==
  /\ ThreadStep(t) /\ th[t].pc = "store"
  /\ handlers' = Append(handlers, {})
  /\ subscribers' = [subscribers EXCEPT ![th[t].name] = Len(handlers) + 1]
  /\ th' = [th EXCEPT ![t].pc = "connect", ![t].obj = Len(handlers) + 1]
  /\ NoSending /\ Same(t)

\* mutant: nothing is queued before the connection serves
connectWhenServing(t) ==
  /\ ThreadStep(t) /\ th[t].pc = "connect"
  /\ th' = [th EXCEPT ![t].pc = "register"]
  /\ IF worker # "serve" THEN NoSending ELSE send(t, th[t].name, TRUE)
  /\ Same(t) /\ UNCHANGED <<subscribers, handlers>>

connectSubscribers(t) ==
  /\ ThreadStep(t) /\ th[t].pc = "connect"
  /\ IF ctxDone
     THEN th' = [th EXCEPT ![t] = Free] /\ NoSending
     ELSE th' = [th EXCEPT ![t].pc = "register"] /\ send(t, th[t].name, TRUE)
  /\ Same(t) /\ UNCHANGED <<subscribers, handlers>>

register(t) ==
  /\ ThreadStep(t) /\ th[t].pc = "register" /\ Idle(t)
  /\ handlers' = [handlers EXCEPT ![th[t].obj] = @ \cup {t}]
  /\ th' = [th EXCEPT ![t].pc = "subscribed"]
  /\ NoSending /\ Same(t) /\ UNCHANGED subscribers

unregister(t) ==
  /\ ThreadStep(t) /\ th[t].pc = "subscribed" /\ MayCall(t)
  /\ "keep" \notin offers
  /\ handlers' = [handlers EXCEPT ![th[t].obj] = @ \ {t}]
  /\ th' = [th EXCEPT ![t].pc = "check"]
  /\ noteRace(t, th[t].name)
  /\ NoSending /\ UNCHANGED <<calls, subscribers>>

\* mutant: a name is unwatched although it has handlers
disconnectAlways(t) ==
  /\ ThreadStep(t) /\ th[t].pc = "check"
  /\ th' = [th EXCEPT ![t].pc = "unwatch"]
  /\ NoSending /\ Same(t) /\ UNCHANGED <<subscribers, handlers>>

maybeDisconnectSubscribers(t) ==
  /\ ThreadStep(t) /\ th[t].pc = "check"
  /\ th' = [th EXCEPT ![t] = IF handlers[th[t].obj] # {} THEN Free
                                          ELSE [@ EXCEPT !.pc = "unwatch"]]
  /\ NoSending /\ Same(t) /\ UNCHANGED <<subscribers, handlers>>

disconnectSubscribers(t) ==
  /\ ThreadStep(t)
  /\ \/ /\ th[t].pc = "unwatch"
        /\ IF ctxDone THEN NoSending ELSE send(t, th[t].name, FALSE)
        /\ th' = [th EXCEPT ![t].pc = "delete"]
        /\ UNCHANGED subscribers
     \/ /\ th[t].pc = "delete" /\ Idle(t)
        /\ subscribers' = [subscribers EXCEPT ![th[t].name] = 0]
        /\ th' = [th EXCEPT ![t] = Free]
        /\ NoSending
  /\ Same(t) /\ UNCHANGED handlers

-----------------------------------------------------------------------------
(* doWork                                                                  *)

present == {n \in Names : subscribers[n] # 0}

WorkerStep ==
  /\ Running
  /\ UNCHANGED <<program, subscribers, handlers, th, raced>>

getPreferredNode ==
  /\ WorkerStep /\ worker = "start"
  /\ \/ worker' = "dial" /\ UNCHANGED chWorkCompleted
     \/ worker' = "done" /\ chWorkCompleted' = "error"
  /\ UNCHANGED <<snd, chans, nextCmd, outstanding, signalled, conn, panic,
                 visited, due, chIsConnected>>

\* GetURL or the dial fails: doWork returns the error.
DialFails ==
  /\ WorkerStep /\ worker = "dial"
  /\ worker' = "done"
  /\ chWorkCompleted' = "error"
  /\ cancelOutstandingCommands
  /\ UNCHANGED <<snd, chans, nextCmd, conn, panic, visited, due,
                 chIsConnected>>

DialSucceeds ==
  /\ WorkerStep /\ worker = "dial" /\ ~ctxDone
  /\ worker' = "connect"
  /\ conn' = [NoConn EXCEPT !.up = TRUE, !.writer = "on", !.reader = "on",
                            !.ch = Len(chans)]
  /\ visited' = {} /\ due' = present
  /\ UNCHANGED <<snd, chans, nextCmd, outstanding, signalled, panic,
                 chIsConnected, chWorkCompleted>>

\* Range(connectFn): every name there at the start, perhaps later ones.
Resubscribe ==
  /\ WorkerStep /\ worker = "connect" /\ Idle("worker")
  /\ \E n \in present \ visited :
       /\ visited' = visited \cup {n}
       /\ IF ctxDone THEN NoSending ELSE send("worker", n, TRUE)
  /\ UNCHANGED <<chans, signalled, conn, panic, worker, due, chIsConnected,
                 chWorkCompleted>>

\* chIsConnected <- nil, then close: the send panics the second time.
Announce ==
  /\ WorkerStep /\ worker = "connect" /\ Idle("worker")
  /\ due \cap present \subseteq visited
  /\ IF chIsConnected = "closed"
     THEN panic' = "send on closed chIsConnected" /\ UNCHANGED worker
     ELSE worker' = "serve" /\ UNCHANGED panic
  /\ chIsConnected' = "closed"
  /\ UNCHANGED <<snd, chans, nextCmd, outstanding, signalled, conn, visited,
                 due, chWorkCompleted>>

\* mutant: the select forgets the cancelled context
LeaveOnFailure ==
  /\ WorkerStep /\ worker = "serve"
  /\ conn.writer = "failed" \/ conn.reader = "ended"
  /\ worker' = "retry"
  /\ chans' = Append(chans, [buf |-> <<>>, closed |-> FALSE])
  /\ UNCHANGED <<snd, nextCmd, outstanding, signalled, conn, panic, visited,
                 due, chIsConnected, chWorkCompleted>>

\* The select of doWorkInner, and the new chCommands.
LeaveConnection ==
  /\ WorkerStep /\ worker = "serve"
  /\ \/ (conn.writer = "failed" \/ conn.reader = "ended") /\ worker' = "retry"
     \/ ctxDone /\ worker' = "stop"
  /\ chans' = Append(chans, [buf |-> <<>>, closed |-> FALSE])
  /\ UNCHANGED <<snd, nextCmd, outstanding, signalled, conn, panic, visited,
                 due, chIsConnected, chWorkCompleted>>

\* close(chCommands), client.Close: what was queued goes nowhere.
CloseConnection ==
  /\ WorkerStep /\ worker \in {"retry", "stop"} /\ conn.ch # 0
  /\ chans' = [chans EXCEPT ![conn.ch] = [buf |-> <<>>, closed |-> TRUE]]
  /\ conn' = NoConn
  /\ UNCHANGED <<snd, nextCmd, outstanding, signalled, panic, workerState>>

doWork ==
  /\ WorkerStep /\ worker \in {"retry", "stop"} /\ conn.ch = 0
  /\ cancelOutstandingCommands
  /\ IF worker = "retry"
     THEN worker' = "dial" /\ UNCHANGED chWorkCompleted
     ELSE worker' = "done" /\ chWorkCompleted' = "nil"
  /\ UNCHANGED <<snd, chans, nextCmd, conn, panic, visited, due,
                 chIsConnected>>

-----------------------------------------------------------------------------
(* The connection: its writer, its reader, the socket and the server.      *)

ConnStep ==
  /\ Running
  /\ UNCHANGED <<workerState, offers, closer, ensured, ctxDone, calls, taken,
                 subscribers, handlers, th, snd, nextCmd, outstanding, raced>>

\* The server obeys what is written to it; its confirmation signals the
\* command if that is still waited for.
startSendWorker ==
  /\ ConnStep /\ conn.writer = "on" /\ chans[conn.ch].buf # <<>>
  /\ chans' = [chans EXCEPT ![conn.ch].buf = Tail(@)]
  /\ \E cmd \in {Head(chans[conn.ch].buf)} :
       IF conn.up
       THEN /\ conn' = [conn EXCEPT !.watched = IF cmd.watch
                                  THEN @ \cup {cmd.name} ELSE @ \ {cmd.name}]
            /\ confirm({cmd.id} \cap outstanding)
       ELSE conn' = [conn EXCEPT !.writer = "failed"] /\ UNCHANGED signalled
  /\ UNCHANGED <<panic, breaks, changes>>

\* A change on the server is reported if something watched covers it.
ServerChange ==
  /\ ConnStep /\ conn.up /\ changes < MaxChanges /\ "change" \in offers
  /\ \E c \in UNION {subscription(n).hears : n \in conn.watched} :
       conn' = [conn EXCEPT !.out = Append(@, c)]
  /\ changes' = changes + 1
  /\ UNCHANGED <<chans, signalled, panic, breaks>>

\* notifySubscribers hands a change to the callbacks of every name.
called == UNION {handlers[subscribers[n]] : n \in present}

notifySubscribers(c) ==
  panic' = IF \E t \in called : c \in subscription(th[t].name).panics
           THEN "change of another document" ELSE panic

startProcessMessagesWorker ==
  /\ ConnStep /\ conn.reader = "on"
  /\ \/ /\ conn.out # <<>>
        /\ conn' = [conn EXCEPT !.out = Tail(@)]
        /\ notifySubscribers(Head(conn.out))
     \/ /\ ~conn.up
        /\ conn' = [conn EXCEPT !.reader = "ended"]
        /\ UNCHANGED panic
  /\ UNCHANGED <<chans, signalled, breaks, changes>>

\* The connection breaks; what the server had sent may still be read.
Break ==
  /\ ConnStep /\ conn.up /\ breaks < MaxBreaks /\ "break" \in offers
  /\ conn' = [conn EXCEPT !.up = FALSE, !.watched = {}]
  /\ breaks' = breaks + 1
  /\ UNCHANGED <<chans, signalled, panic, changes>>

-----------------------------------------------------------------------------
(* Close and EnsureConnectedNow                                            *)

CallerStep ==
  /\ Running
  /\ UNCHANGED <<offers, breaks, changes, subscribers, handlers, th, snd,
                 chans, nextCmd, conn, panic, raced, worker, visited, due,
                 chIsConnected>>

\* Receiving from chWorkCompleted takes the error; later receives give nil.
receiveCompleted ==
  /\ chWorkCompleted' = IF chWorkCompleted = "error" THEN "nil"
                                                     ELSE chWorkCompleted
  /\ taken' = (taken \/ chWorkCompleted = "error")

Close ==
  /\ CallerStep /\ closer = "free" /\ "close" \in offers
  /\ closer' = "waiting" /\ ctxDone' = TRUE
  /\ receiveCompleted /\ cancelOutstandingCommands
  /\ UNCHANGED <<ensured, calls>>

CloseReturns ==
  /\ CallerStep /\ closer = "waiting"
  /\ closer' = "closed"
  /\ receiveCompleted \/ UNCHANGED <<chWorkCompleted, taken>>
  /\ UNCHANGED <<ensured, calls, ctxDone, signalled, outstanding>>

EnsureConnectedNow ==
  /\ CallerStep /\ calls < MaxCalls /\ "ensure" \in offers
  /\ calls' = calls + 1
  /\ \/ ensured' = "error" /\ UNCHANGED <<chWorkCompleted, taken>>
     \/ /\ chWorkCompleted # "empty"
        /\ ensured' = chWorkCompleted /\ receiveCompleted
     \/ /\ chIsConnected = "closed"
        /\ ensured' = "nil" /\ UNCHANGED <<chWorkCompleted, taken>>
  /\ UNCHANGED <<closer, ctxDone, signalled, outstanding>>

-----------------------------------------------------------------------------

WorkerNext == \/ getPreferredNode \/ DialFails \/ DialSucceeds \/ Resubscribe
              \/ Announce \/ LeaveConnection \/ CloseConnection \/ doWork

ConnNext == startSendWorker \/ startProcessMessagesWorker

Next ==
  \/ \E t \in Threads :
       \/ Subscribe(t) \/ getOrAddSubscribers(t) \/ connectSubscribers(t)
       \/ register(t) \/ unregister(t) \/ maybeDisconnectSubscribers(t)
       \/ disconnectSubscribers(t)
  \/ \E p \in Threads \cup {"worker"} :
       PutCommand(p) \/ Confirmed(p) \/ TimedOut(p)
  \/ WorkerNext \/ ConnNext
  \/ ServerChange \/ Break
  \/ Close \/ CloseReturns \/ EnsureConnectedNow

Spec == Init /\ [][Next]_vars

\* Goroutines run, and timers fire; nothing is assumed of the program's own
\* calls, of the server or of the network.
FairSpec ==
  /\ Spec
  /\ WF_vars(WorkerNext) /\ WF_vars(startSendWorker)
  /\ WF_vars(startProcessMessagesWorker)
  /\ WF_vars(PutCommand("worker")) /\ WF_vars(waitForConfirmation("worker"))

-----------------------------------------------------------------------------

\* Type invariant; what is sent was numbered, and a channel never holds more
\* than it has room for.
TypeOK ==
  /\ raced \subseteq offers \cap Names
  /\ subscribers \in [Names -> 0 .. Len(handlers)]
  /\ \A o \in DOMAIN handlers : handlers[o] \subseteq Threads
  /\ \A i \in DOMAIN chans : Len(chans[i].buf) <= Capacity
  /\ \A i \in DOMAIN chans : chans[i].closed <=> i < Len(chans)
                                  /\ (worker \in {"retry", "stop"} =>
                                        i # conn.ch)
  /\ \A p \in DOMAIN snd : snd[p].id < nextCmd
  /\ outstanding \cup signalled \subseteq 1 .. nextCmd - 1
  /\ worker \in {"start", "dial", "connect", "serve", "retry", "stop", "done"}
  /\ (worker = "done") <=> (chWorkCompleted # "empty")

\* database_changes.go, ForX and the cancel function it returns: as long as no
\* two calls for a name were under way at once, a callback whose subscription
\* call has returned and which is not being cancelled is in the
\* changeSubscribers that notifySubscribers walks, whatever was cancelled,
\* reconnected or closed since.  Types are kept.
RegisteredIsReachable ==
  /\ TypeOK
  /\ \A t \in Threads :
       th[t].pc = "subscribed" /\ th[t].name \notin raced =>
         /\ subscribers[th[t].name] # 0
         /\ t \in handlers[subscribers[th[t].name]]

CommandsFor(n) ==
  \/ \E p \in DOMAIN snd : snd[p].name = n
  \/ \E i \in DOMAIN chans[conn.ch].buf : chans[conn.ch].buf[i].name = n

\* database_changes.go, doWorkInner with getOrAddSubscribers: on a connection
\* that has been announced and is not broken, a subscribed name (not raced)
\* for which no command is under way is watched by the server: neither the
\* commands lost with an earlier connection nor those queued before the first
\* one leave a subscriber unwatched.
SubscribedIsWatched ==
  \A t \in Threads :
    ( /\ th[t].pc = "subscribed" /\ th[t].name \notin raced
      /\ worker = "serve" /\ conn.up /\ conn.writer = "on" /\ ~ctxDone
      /\ ~CommandsFor(th[t].name) ) => th[t].name \in conn.watched

\* database_changes.go, doWorkInner and send: a channel is used after its close
\* only when a connection has been lost or Close was called, and a callback
\* meets a change of another document only if ForDocument was used together
\* with a wider subscription.
PanicNeedsCause ==
  /\ panic = "send on closed chCommands" => breaks > 0 \/ ctxDone
  /\ panic = "send on closed chIsConnected" => breaks > 0
  /\ panic = "change of another document" =>
       {"docs", "all-docs"} \subseteq offers

\* database_changes.go, EnsureConnectedNow: before Close, and unless an earlier
\* receiver took the error away, nil means that a connection was made.
EnsuredMeansConnected ==
  ensured = "nil" => chIsConnected = "closed" \/ taken \/ ctxDone

\* The worker waits for room in a channel whose writer is gone.
WorkerStuck ==
  /\ snd["worker"].ch # 0
  /\ conn.writer = "failed" /\ Len(chans[conn.ch].buf) = Capacity

\* database_changes.go, Close and doWork: once Close has cancelled the context
\* the worker ends, from every point of connecting, resubscribing, serving and
\* retrying, unless resubscribing filled the channel of a dead writer.
CloseStopsWorker ==
  ctxDone ~> (worker = "done" \/ panic # "none" \/ WorkerStuck)

-----------------------------------------------------------------------------
(* Statements the code does not keep.                                      *)

\* database_changes.go, "returns true if we should try to reconnect" and
\* "wait before next retry": a lost connection is replaced.
ReconnectSurvives == panic # "send on closed chIsConnected"

\* database_changes.go, "ForDocument registers a callback that will be called
\* for changes on a ocument with a given id": others do not reach it.
OnlyItsDocument == panic # "change of another document"

\* database_changes.go, getOrAddSubscribers: every registered callback is
\* reachable, also when calls for one name overlap.
AlwaysReachable ==
  \A t \in Threads :
    th[t].pc = "subscribed" =>
      /\ subscribers[th[t].name] # 0
      /\ t \in handlers[subscribers[th[t].name]]

\* database_changes.go, chIsConnected, "allows waiting for connection being
\* established": a nil from EnsureConnectedNow means it was.
NilMeansConnected == ensured = "nil" => chIsConnected = "closed"

=============================================================================
