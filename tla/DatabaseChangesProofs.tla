----------------------- MODULE DatabaseChangesProofs -----------------------
(***************************************************************************)
(* Proofs about the changes client (DatabaseChanges): a callback stays     *)
(* reachable, and the server watches every subscribed name, for any number *)
(* of goroutines, any room in chCommands and any number of reconnections.  *)
(*                                                                         *)
(* The invariant has two parts.  Of the calls: which changeSubscribers a   *)
(* goroutine works on, and that a name that is not raced has one call at a *)
(* time.  Of the commands: a name whose watch was sent and whose unwatch   *)
(* was not is watched by the server, or will be once the commands under    *)
(* way have been obeyed.  A third part says what a panic or a nil error    *)
(* can be put down to.                                                     *)
(***************************************************************************)
EXTENDS DatabaseChanges, TLAPS

Labels == Names \cup {""}
Senders == Threads \cup {"worker"}
Commands == [id : Nat, name : Names, watch : BOOLEAN]
Sends == [id : Nat, name : Labels, watch : BOOLEAN, ch : Nat]
Channels == [buf : Seq(Commands), closed : BOOLEAN]
Conns == [up : BOOLEAN, watched : SUBSET Names, out : Seq(Changes),
          writer : {"none", "on", "failed"}, reader : {"none", "on", "ended"},
          ch : Nat]
Calling == {"store", "connect", "register", "check", "unwatch", "delete"}

\* The types of the variables: the goroutines' ...
CallTypes ==
  /\ subscribers \in [Names -> Nat]
  /\ handlers \in Seq(SUBSET Threads)
  /\ th \in [Threads -> [pc : Calling \cup {"free", "subscribed"},
                         name : Labels, obj : Nat]]
  /\ raced \subseteq offers \cap Names

\* ... and those of the commands and the connection.
LinkTypes ==
  /\ snd \in [Senders -> Sends]
  /\ chans \in Seq(Channels)
  /\ nextCmd \in Nat \ {0}
  /\ conn \in Conns
  /\ ctxDone \in BOOLEAN

\* Numbers: what was numbered is below the next number, and the worker has
\* ended exactly when it said so.
Numbered ==
  /\ \A p \in Senders : snd[p].id < nextCmd
  /\ outstanding \subseteq 1 .. nextCmd - 1
  /\ signalled \subseteq 1 .. nextCmd - 1
  /\ worker \in {"start", "dial", "connect", "serve", "retry", "stop", "done"}
  /\ (worker = "done") <=> (chWorkCompleted # "empty")

\* Where a goroutine is, and the changeSubscribers it works on.
Placed(t) ==
  /\ th[t].pc # "free" => th[t].name \in offers \cap Names
  /\ th[t].obj <= Len(handlers)
  /\ th[t].obj = 0 <=> th[t].pc \in {"free", "store"}
  /\ th[t].pc = "subscribed" => t \in handlers[th[t].obj]

\* A changeSubscribers belongs to one name.
OneName ==
  /\ \A m, n \in Names :
       subscribers[m] # 0 /\ subscribers[m] = subscribers[n] => m = n
  /\ \A t \in Threads, n \in Names :
       th[t].obj # 0 /\ th[t].obj = subscribers[n] => th[t].name = n
  /\ \A t, u \in Threads :
       th[t].obj # 0 /\ th[t].obj = th[u].obj => th[t].name = th[u].name

Owned ==
  /\ \A n \in Names : subscribers[n] <= Len(handlers)
  /\ \A t \in Threads : Placed(t)
  /\ OneName

\* Of a name that is not raced: one call at a time ...
Alone ==
  \A t, u \in Threads :
    /\ th[t].pc \in Calling /\ th[u].pc \in Calling
    /\ th[t].name = th[u].name /\ th[t].name \notin raced
    => t = u

\* ... which works on the changeSubscribers that the map holds, or finds that
\* it holds none; nobody is registered in it before the watch is sent, nor
\* once the unwatch is to be.
Held(t) ==
  th[t].pc # "free" /\ th[t].name \notin raced =>
    /\ subscribers[th[t].name] = th[t].obj
    /\ th[t].pc \in {"connect", "unwatch", "delete"} => handlers[th[t].obj] = {}

Serial == Alone /\ \A t \in Threads : Held(t)

\* The channel of the connection, and those closed.
Connected ==
  /\ chans # <<>>
  /\ worker \in {"start", "dial", "done"} => conn.ch = 0
  /\ worker \in {"connect", "serve"} => conn.ch = Len(chans)
  /\ worker \in {"retry", "stop"} => conn.ch = 0 \/ conn.ch = Len(chans) - 1
  /\ conn.writer = "on" => conn.ch # 0
  /\ \A i \in 1 .. Len(chans) :
       /\ Len(chans[i].buf) <= Capacity
       /\ chans[i].closed <=> /\ i < Len(chans)
                              /\ worker \in {"retry", "stop"} => i # conn.ch

\* What a goroutine is sending belongs to the call it is in.
OfItsCall(t) ==
  snd[t] # NoSend =>
    /\ snd[t].name = th[t].name
    /\ \/ snd[t].watch /\ th[t].pc = "register"
       \/ ~snd[t].watch /\ th[t].pc = "delete"

\* A command is for a name; the worker only watches.
Sending ==
  /\ \A p \in Senders : /\ snd[p].ch <= Len(chans)
                        /\ snd[p] # NoSend => snd[p].name \in Names
  /\ \A t \in Threads : OfItsCall(t)
  /\ snd["worker"] # NoSend => snd["worker"].watch

\* Position 0 is the server, which watches the names of w; the others are
\* those of queue b.
WatchedAt(n, w, b, i) ==
  IF i = 0 THEN n \in w ELSE b[i].name = n /\ b[i].watch

\* The server watches the name once it has obeyed the commands of the queue.
WillBeWatched(n, w, b) ==
  \E i \in 0 .. Len(b) :
    /\ WatchedAt(n, w, b, i)
    /\ \A j \in i + 1 .. Len(b) : b[j].name = n => b[j].watch

\* A name in the map whose call has sent its watch and not its unwatch.
Settled(n) ==
  /\ subscribers[n] # 0 /\ n \notin raced
  /\ \A t \in Threads : th[t].name = n => th[t].pc \notin {"connect", "delete"}

Serving ==
  /\ worker \in {"connect", "serve"}
  /\ conn.up /\ conn.writer = "on" /\ ~ctxDone

Covered(n) ==
  \/ WillBeWatched(n, conn.watched, chans[conn.ch].buf)
  \/ \E p \in Senders : snd[p].name = n /\ snd[p].watch /\ snd[p].ch = conn.ch
  \/ worker = "connect" /\ n \in due \ visited

Watching == Serving => \A n \in Names : Settled(n) => Covered(n)

IInv ==
  /\ CallTypes /\ LinkTypes /\ Numbered /\ Owned /\ Serial
  /\ Connected /\ Sending /\ Watching

-----------------------------------------------------------------------------
(* The calls: ForX and the cancel function it returns.                     *)

OneCall == Owned /\ Serial

\* A goroutine that is free is in no call; one in getOrAddSubscribers is.
LEMMA CallingAre == "free" \notin Calling /\ "store" \in Calling
  BY DEF Calling

\* A goroutine that stays in or between its calls keeps its name and its
\* changeSubscribers.
LEMMA MoveKeepsOwned ==
  ASSUME CallTypes, Owned, NEW t \in Threads,
         th[t].obj # 0, th'[t].pc \notin {"free", "store"},
         th'[t].name = th[t].name, th'[t].obj = th[t].obj,
         \A u \in Threads : u # t => th'[u] = th[u],
         offers' = offers, subscribers' = subscribers,
         Len(handlers') = Len(handlers),
         \A u \in Threads : \A i \in 1 .. Len(handlers) :
           u # t /\ u \in handlers[i] => u \in handlers'[i],
         th'[t].pc = "subscribed" => t \in handlers'[th[t].obj]
  PROVE  Owned'
<1>1. \A u \in Threads : th'[u].name = th[u].name /\ th'[u].obj = th[u].obj
  BY Zenon
<1>2. \A u \in Threads : u # t => th'[u].pc = th[u].pc
  BY Zenon
<1>3. th[t].pc \notin {"free", "store"}
  BY DEF Owned, Placed
<1>4. \A n \in Names : subscribers'[n] <= Len(handlers')
  BY Zenon DEF Owned
<1>5. ASSUME NEW u \in Threads
      PROVE  Placed(u)'
  <2>1. Placed(u)
    BY Zenon DEF Owned
  <2>2. th[u].obj # 0 => th[u].obj \in 1 .. Len(handlers)
    BY <2>1 DEF CallTypes, Placed
  <2>3. CASE u = t
    BY ONLY <2>3, <2>1, <1>1, <1>3, offers' = offers, Len(handlers') = Len(handlers),
       th[t].obj # 0, th'[t].pc \notin {"free", "store"},
       th'[t].pc = "subscribed" => t \in handlers'[th[t].obj], Zenon DEF Placed
  <2>4. CASE u # t
    BY <2>4, <2>1, <2>2, <1>1, <1>2, Zenon DEF Placed
  <2>. QED  BY <2>3, <2>4, Zenon
<1>6. OneName'
  <2>1. OneName
    BY DEF Owned
  <2>. QED  BY ONLY <2>1, <1>1, subscribers' = subscribers DEF OneName
<1>. QED  BY <1>4, <1>5, <1>6, Zenon DEF Owned

\* The same move keeps the calls of a name in order, one at a time: nobody is
\* registered when the watch or the unwatch is to be sent.
LEMMA MoveKeepsSerial ==
  ASSUME CallTypes, Owned, Serial, NEW t \in Threads,
         th[t].obj # 0, th'[t].pc \notin {"free", "store"},
         th'[t].name = th[t].name, th'[t].obj = th[t].obj,
         \A u \in Threads : u # t => th'[u] = th[u],
         subscribers' = subscribers, raced \subseteq raced',
         \A i \in 1 .. Len(handlers) : i # th[t].obj => handlers'[i] = handlers[i],
         \/ handlers'[th[t].obj] \subseteq handlers[th[t].obj]
         \/ th[t].pc \in Calling,
         th'[t].pc \in Calling =>
           \/ th[t].pc \in Calling
           \/ \A u \in Threads : u # t /\ InCall(u, th[t].name) => th[t].name \in raced',
         th'[t].pc \in {"connect", "unwatch", "delete"} => handlers'[th[t].obj] = {}
  PROVE  Serial'
<1>1. \A u \in Threads : th'[u].name = th[u].name /\ th'[u].obj = th[u].obj
  BY Zenon
<1>2. \A u \in Threads : u # t => th'[u].pc = th[u].pc
  BY Zenon
<1>3. \A u \in Threads : Placed(u) /\ Held(u)
  BY Zenon DEF Owned, Serial
<1>4. Alone
  BY Zenon DEF Serial
<1>5. th[t].pc \notin {"free", "store"}
  BY <1>3 DEF Placed
<1>6. ASSUME NEW u \in Threads, u # t, th[u].pc \in Calling, th'[t].pc \in Calling,
             th[u].name = th[t].name
      PROVE  th[t].name \in raced'
  <2>1. InCall(u, th[t].name)
    BY ONLY <1>6, Zenon DEF InCall, Calling
  <2>2. th[t].pc \in Calling => th[t].name \in raced
    BY ONLY <1>4, <1>6, t \in Threads, Zenon DEF Alone
  <2>. QED  BY ONLY <2>1, <2>2, <1>6, raced \subseteq raced',
               th'[t].pc \in Calling =>
                 \/ th[t].pc \in Calling
                 \/ \A v \in Threads : v # t /\ InCall(v, th[t].name) => th[t].name \in raced',
               Zenon
<1>7. Alone'
  <2>1. SUFFICES ASSUME NEW u \in Threads, NEW v \in Threads,
                        th'[u].pc \in Calling, th'[v].pc \in Calling,
                        th'[u].name = th'[v].name, th'[u].name \notin raced', u # v
                 PROVE  FALSE
    BY Zenon DEF Alone
  <2>2. CASE u = t
    BY ONLY <2>1, <2>2, <1>1, <1>2, <1>6, Zenon
  <2>3. CASE v = t
    BY ONLY <2>1, <2>3, <1>1, <1>2, <1>6, Zenon
  <2>4. CASE u # t /\ v # t
    BY ONLY <2>1, <2>4, <1>1, <1>2, <1>4, raced \subseteq raced', Zenon DEF Alone
  <2>. QED  BY <2>2, <2>3, <2>4, Zenon
<1>8. ASSUME NEW u \in Threads
      PROVE  Held(u)'
  <2>1. CASE u = t
    BY ONLY <2>1, <1>1, <1>3, <1>5, t \in Threads, raced \subseteq raced',
       subscribers' = subscribers,
       th'[t].pc \in {"connect", "unwatch", "delete"} => handlers'[th[t].obj] = {},
       Zenon DEF Held
  <2>2. CASE u # t
    <3>1. th[u].obj # 0 => th[u].obj \in 1 .. Len(handlers)
      BY <1>3 DEF CallTypes, Placed
    <3>2. th[u].pc \in {"connect", "unwatch", "delete"} => th[u].obj # 0 /\ th[u].pc \in Calling
      BY <1>3, Zenon DEF Placed, Calling
    <3>3. th[u].obj # 0 /\ th[u].obj = th[t].obj => th[u].name = th[t].name
      BY Zenon DEF Owned, OneName
    <3>4. ASSUME th[u].pc \in {"connect", "unwatch", "delete"}, th[u].name \notin raced,
                 th[u].obj = th[t].obj
          PROVE  th[t].pc \notin Calling
      BY ONLY <3>4, <3>2, <3>3, <1>4, <2>2, u \in Threads, t \in Threads, Zenon DEF Alone
    <3>5. ASSUME th[u].pc \in {"connect", "unwatch", "delete"}, th[u].name \notin raced
          PROVE  handlers'[th[u].obj] = {}
      <4>1. handlers[th[u].obj] = {}
        BY <3>5, <1>3, Zenon DEF Held
      <4>2. CASE th[u].obj = th[t].obj
        <5>1. handlers'[th[t].obj] \subseteq handlers[th[t].obj]
          BY <3>4, <3>5, <4>2, Zenon
        <5>. QED  BY ONLY <5>1, <4>1, <4>2, Zenon
      <4>3. CASE th[u].obj # th[t].obj
        BY <4>1, <4>3, <3>1, <3>2, <3>5, Zenon
      <4>. QED  BY <4>2, <4>3, Zenon
    <3>. QED  BY ONLY <3>5, <2>2, <1>1, <1>2, <1>3, raced \subseteq raced', u \in Threads,
                 subscribers' = subscribers, Zenon DEF Held
  <2>. QED  BY <2>1, <2>2, Zenon
<1>. QED  BY <1>7, <1>8, Zenon DEF Serial

\* A call that ends with nothing subscribed.
LEMMA LeaveKeepsCalls ==
  ASSUME CallTypes, OneCall, NEW t \in Threads,
         UNCHANGED <<raced, offers, subscribers, handlers>>,
         th' = [th EXCEPT ![t] = Free]
  PROVE  OneCall'
<1>1. /\ th'[t].pc = "free" /\ th'[t].obj = 0
      /\ \A u \in Threads : u # t => th'[u] = th[u]
  <2>1. Free.pc = "free" /\ Free.obj = 0
    BY Zenon DEF Free
  <2>2. th'[t] = Free /\ \A u \in Threads : u # t => th'[u] = th[u]
    BY DEF CallTypes
  <2>. QED  BY ONLY <2>1, <2>2, Zenon
<1>2. /\ Owned /\ OneName /\ Alone
      /\ \A u \in Threads : Placed(u) /\ Held(u)
  BY Zenon DEF OneCall, Owned, Serial
<1>3. Placed(t)' /\ Held(t)'
  BY <1>1, Len(handlers) >= 0 DEF Placed, Held, CallTypes
<1>4. ASSUME NEW u \in Threads, u # t
      PROVE  Placed(u)' /\ Held(u)'
  <2>1. th'[u] = th[u] /\ Placed(u) /\ Held(u)
    BY <1>1, <1>2, <1>4, Zenon
  <2>. QED  BY ONLY <2>1, UNCHANGED <<raced, offers, subscribers, handlers>>, Zenon
            DEF Placed, Held
<1>5. OneName'
  BY ONLY <1>1, <1>2, subscribers' = subscribers DEF OneName
<1>6. Alone'
  BY ONLY <1>1, <1>2, raced' = raced, CallingAre, Zenon DEF Alone
<1>7. \A n \in Names : subscribers'[n] <= Len(handlers')
  BY <1>2, Zenon DEF Owned
<1>. QED  BY <1>3, <1>4, <1>5, <1>6, <1>7, Zenon DEF OneCall, Owned, Serial

\* ForX, up to the Load in getOrAddSubscribers.
LEMMA SubscribeKeepsCalls ==
  ASSUME CallTypes, OneCall, NEW t \in Threads, Subscribe(t)
  PROVE  OneCall'
<1>1. PICK n \in offers \cap Names :
        /\ th' = [th EXCEPT ![t] =
             [pc |-> IF subscribers[n] # 0 THEN "register" ELSE "store",
              name |-> n, obj |-> subscribers[n]]]
        /\ noteRace(t, n)
  BY Zenon DEF Subscribe
<1>2. /\ th[t].pc = "free" /\ UNCHANGED <<subscribers, handlers, offers>>
      /\ subscribers[n] \in Nat
  BY <1>1 DEF Subscribe, ThreadStep, CallTypes
<1>3. /\ th'[t].pc = IF subscribers[n] # 0 THEN "register" ELSE "store"
      /\ th'[t].name = n /\ th'[t].obj = subscribers[n]
      /\ \A u \in Threads : u # t => th'[u] = th[u]
  BY <1>1 DEF CallTypes
<1>4. /\ raced \subseteq raced'
      /\ \A u \in Threads : u # t /\ InCall(u, n) => n \in raced'
  BY <1>1 DEF noteRace
<1>5. /\ Owned /\ OneName /\ Alone
      /\ \A u \in Threads : Placed(u) /\ Held(u)
  BY Zenon DEF OneCall, Owned, Serial
<1>6. subscribers[n] <= Len(handlers)
  BY <1>5, Zenon DEF Owned
<1>7. Placed(t)'
  BY <1>2, <1>3, <1>6, n \in offers \cap Names DEF Placed
<1>8. Held(t)'
  BY ONLY <1>2, <1>3 DEF Held
<1>9. ASSUME NEW u \in Threads, u # t
      PROVE  Placed(u)' /\ Held(u)'
  <2>1. th'[u] = th[u] /\ Placed(u) /\ Held(u)
    BY <1>3, <1>5, <1>9, Zenon
  <2>. QED  BY ONLY <2>1, <1>2, <1>4, Zenon DEF Placed, Held
<1>10. OneName'
  BY ONLY <1>2, <1>3, <1>5, n \in offers \cap Names DEF OneName
<1>11. Alone'
  <2>1. ASSUME NEW u \in Threads, u # t, th[u].pc \in Calling, th[u].name = n
        PROVE  n \in raced'
    BY ONLY <2>1, <1>4, Zenon DEF InCall, Calling
  <2>. QED  BY ONLY <2>1, <1>3, <1>4, <1>5, Zenon DEF Alone
<1>12. \A m \in Names : subscribers'[m] <= Len(handlers')
  BY <1>2, <1>5, Zenon DEF Owned
<1>. QED  BY <1>7, <1>8, <1>9, <1>10, <1>11, <1>12, Zenon DEF OneCall, Owned, Serial

\* The second half: a changeSubscribers is stored under the name.
LEMMA AddKeepsCalls ==
  ASSUME CallTypes, OneCall, NEW t \in Threads, getOrAddSubscribers(t)
  PROVE  OneCall'
<1> DEFINE o == Len(handlers) + 1
           n == th[t].name
<1>1. /\ th[t].pc = "store" /\ UNCHANGED <<raced, offers>>
      /\ handlers' = Append(handlers, {})
      /\ subscribers' = [subscribers EXCEPT ![n] = o]
      /\ th' = [th EXCEPT ![t].pc = "connect", ![t].obj = o]
  BY DEF getOrAddSubscribers, ThreadStep, Same
<1>2. /\ Owned /\ OneName /\ Alone
      /\ \A u \in Threads : Placed(u) /\ Held(u)
  BY Zenon DEF OneCall, Owned, Serial
<1>3. n \in offers \cap Names
  BY <1>1, <1>2, Zenon DEF Placed
<1>4. /\ th'[t].pc = "connect" /\ th'[t].name = n /\ th'[t].obj = o
      /\ \A u \in Threads : u # t => th'[u] = th[u]
  BY <1>1 DEF CallTypes
<1>5. /\ subscribers'[n] = o
      /\ \A m \in Names : m # n => subscribers'[m] = subscribers[m]
  BY <1>1, <1>3 DEF CallTypes
<1>6. /\ Len(handlers') = o /\ o \in Nat /\ Len(handlers) \in Nat
      /\ handlers'[o] = {}
      /\ \A i \in 1 .. Len(handlers) : handlers'[i] = handlers[i]
  BY <1>1 DEF CallTypes
<1>7. /\ \A u \in Threads : th[u].obj \in Nat /\ th[u].obj <= Len(handlers)
      /\ \A m \in Names : subscribers[m] \in Nat /\ subscribers[m] <= Len(handlers)
  BY <1>2 DEF CallTypes, Owned, Placed
<1>8. /\ o # 0
      /\ \A u \in Threads : th[u].obj # o /\ (th[u].obj # 0 => th[u].obj \in 1 .. Len(handlers))
      /\ \A m \in Names : subscribers[m] # o
  BY ONLY <1>6, <1>7
<1> HIDE DEF o, n
<1>0. th[t].pc = "store" /\ raced' = raced /\ offers' = offers
  BY <1>1
<1>9. Placed(t)' /\ Held(t)'
  <2>1. Placed(t)'
    BY ONLY <1>3, <1>4, <1>6, <1>8, <1>0 DEF Placed
  <2>2. Held(t)'
    BY ONLY <1>4, <1>5, <1>6, Zenon DEF Held
  <2>. QED  BY <2>1, <2>2, Zenon
<1>10. ASSUME NEW u \in Threads, u # t
       PROVE  Placed(u)' /\ Held(u)'
  <2>1. th'[u] = th[u] /\ Placed(u) /\ Held(u) /\ Held(t)
    BY <1>2, <1>4, <1>10, Zenon
  <2>2. th[u].obj # 0 => handlers'[th[u].obj] = handlers[th[u].obj]
    BY ONLY <1>6, <1>8, u \in Threads
  <2>3. Placed(u)'
    <3>1. th[u].obj <= Len(handlers')
      BY ONLY <1>6, <1>7, u \in Threads DEF o
    <3>. QED  BY ONLY <1>0, <2>1, <2>2, <3>1, Zenon DEF Placed
  <2>4. CASE th[u].name = n /\ th[u].name \notin raced /\ th[u].pc # "free"
    <3>1. subscribers[n] = 0 /\ subscribers[n] = th[u].obj
      BY ONLY <1>0, <1>2, <2>1, <2>4, u \in Threads, t \in Threads, Zenon
         DEF Held, Placed, n
    <3>2. th[u].pc = "store"
      BY ONLY <3>1, <2>1, <2>4, Zenon DEF Placed
    <3>. QED  BY ONLY <3>2, <1>0, <1>2, <2>4, <1>10, t \in Threads, CallingAre, Zenon
              DEF Alone, n
  <2>5. CASE th[u].name # n /\ th[u].pc # "free"
    <3>1. th[u].name \in Names
      BY ONLY <2>1, <2>5, Zenon DEF Placed
    <3>2. th[u].pc \in {"connect", "unwatch", "delete"} => th[u].obj # 0
      BY ONLY <2>1, Zenon DEF Placed
    <3>3. Held(u)'
      BY ONLY <3>1, <3>2, <1>0, <1>5, <2>1, <2>2, <2>5, Zenon DEF Held
    <3>. QED  BY <2>3, <3>3, Zenon
  <2>6. CASE th[u].pc = "free" \/ th[u].name \in raced
    BY ONLY <2>3, <2>6, <2>1, <1>0, Zenon DEF Held
  <2>. QED  BY <2>4, <2>5, <2>6, Zenon
<1>11. OneName'
  BY ONLY <1>2, <1>4, <1>5, <1>8 DEF OneName
<1>12. Alone'
  <2>1. \A u \in Threads : th'[u].name = th[u].name
    BY ONLY <1>4, Zenon DEF n
  <2>2. \A u \in Threads : th'[u].pc \in Calling => th[u].pc \in Calling
    BY ONLY <1>0, <1>4, CallingAre, Zenon
  <2>. QED  BY ONLY <2>1, <2>2, <1>0, <1>2, Zenon DEF Alone
<1>13. \A m \in Names : subscribers'[m] <= Len(handlers')
  BY ONLY <1>5, <1>6, <1>7 DEF o
<1>. QED  BY <1>9, <1>10, <1>11, <1>12, <1>13, Zenon DEF OneCall, Owned, Serial

\* A move within a call that leaves map and callbacks alone.
LEMMA PassKeepsCalls ==
  ASSUME CallTypes, OneCall, NEW t \in Threads,
         UNCHANGED <<raced, offers, subscribers, handlers>>,
         th[t].pc \in Calling \ {"store"}, NEW l \in Calling \ {"store"},
         l \in {"connect", "unwatch", "delete"} => handlers[th[t].obj] = {},
         th' = [th EXCEPT ![t].pc = l]
  PROVE  OneCall'
<1>1. /\ th'[t].pc = l /\ th'[t].name = th[t].name /\ th'[t].obj = th[t].obj
      /\ \A u \in Threads : u # t => th'[u] = th[u]
  BY DEF CallTypes
<1>2. Owned /\ Serial /\ Placed(t)
  BY Zenon DEF OneCall, Owned
<1>3. th[t].obj # 0 /\ th'[t].pc \notin {"free", "store"} /\ th'[t].pc # "subscribed"
  BY <1>1, <1>2 DEF Placed, Calling
<1>4. Owned'
  BY <1>1, <1>2, <1>3, MoveKeepsOwned, Zenon
<1>5. Serial'
  BY <1>1, <1>2, <1>3, MoveKeepsSerial, Zenon
<1>. QED  BY <1>4, <1>5, Zenon DEF OneCall

\* connectSubscribers sends the watch, or gives up on a closed client.
LEMMA ConnectKeepsCalls ==
  ASSUME CallTypes, OneCall, NEW t \in Threads, connectSubscribers(t)
  PROVE  OneCall'
<1>1. /\ th[t].pc = "connect" /\ UNCHANGED <<raced, offers, subscribers, handlers>>
      /\ \/ th' = [th EXCEPT ![t] = Free]
         \/ th' = [th EXCEPT ![t].pc = "register"]
  BY Zenon DEF connectSubscribers, ThreadStep, Same
<1>2. /\ th[t].pc \in Calling \ {"store"} /\ "register" \in Calling \ {"store"}
      /\ "register" \notin {"connect", "unwatch", "delete"}
  BY <1>1 DEF Calling
<1>. QED  BY <1>1, <1>2, LeaveKeepsCalls, PassKeepsCalls, Zenon

\* The callback enters the changeSubscribers.
LEMMA RegisterKeepsCalls ==
  ASSUME CallTypes, OneCall, NEW t \in Threads, register(t)
  PROVE  OneCall'
<1> DEFINE o == th[t].obj
<1>1. /\ th[t].pc = "register" /\ UNCHANGED <<raced, offers, subscribers>>
      /\ handlers' = [handlers EXCEPT ![o] = @ \cup {t}]
      /\ th' = [th EXCEPT ![t].pc = "subscribed"]
  BY Zenon DEF register, ThreadStep, Same
<1>2. Owned /\ Serial /\ Placed(t)
  BY Zenon DEF OneCall, Owned
<1>3. /\ th'[t].pc = "subscribed" /\ th'[t].name = th[t].name /\ th'[t].obj = o
      /\ \A u \in Threads : u # t => th'[u] = th[u]
  BY <1>1 DEF CallTypes
<1>4. o # 0 /\ o \in 1 .. Len(handlers)
  BY <1>1, <1>2 DEF CallTypes, Placed
<1>5. /\ Len(handlers') = Len(handlers) /\ handlers'[o] = handlers[o] \cup {t}
      /\ \A i \in 1 .. Len(handlers) : i # o => handlers'[i] = handlers[i]
  BY <1>1, <1>4 DEF CallTypes
<1>6. \A u \in Threads : \A i \in 1 .. Len(handlers) :
        u # t /\ u \in handlers[i] => u \in handlers'[i]
  BY ONLY <1>5, Zenon
<1>7. t \in handlers'[o] /\ th'[t].pc \notin {"free", "store"} /\ th[t].pc \in Calling
      /\ th'[t].pc \notin {"connect", "unwatch", "delete"} /\ th'[t].pc \notin Calling
  BY ONLY <1>1, <1>3, <1>5 DEF Calling
<1>8. Owned'
  BY <1>1, <1>2, <1>3, <1>4, <1>5, <1>6, <1>7, MoveKeepsOwned, Zenon
<1>9. Serial'
  BY <1>1, <1>2, <1>3, <1>4, <1>5, <1>7, MoveKeepsSerial, Zenon
<1>. QED  BY <1>8, <1>9, Zenon DEF OneCall

\* The cancel function takes the callback out of the changeSubscribers.
LEMMA UnregisterKeepsCalls ==
  ASSUME CallTypes, OneCall, NEW t \in Threads, unregister(t)
  PROVE  OneCall'
<1> DEFINE o == th[t].obj
<1>1. /\ th[t].pc = "subscribed" /\ UNCHANGED <<offers, subscribers>>
      /\ handlers' = [handlers EXCEPT ![o] = @ \ {t}]
      /\ th' = [th EXCEPT ![t].pc = "check"]
      /\ noteRace(t, th[t].name)
  BY Zenon DEF unregister, ThreadStep
<1>2. Owned /\ Serial /\ Placed(t)
  BY Zenon DEF OneCall, Owned
<1>3. /\ th'[t].pc = "check" /\ th'[t].name = th[t].name /\ th'[t].obj = o
      /\ \A u \in Threads : u # t => th'[u] = th[u]
  BY <1>1 DEF CallTypes
<1>4. o # 0 /\ o \in 1 .. Len(handlers)
  BY <1>1, <1>2 DEF CallTypes, Placed
<1>5. /\ Len(handlers') = Len(handlers) /\ handlers'[o] = handlers[o] \ {t}
      /\ \A i \in 1 .. Len(handlers) : i # o => handlers'[i] = handlers[i]
  BY <1>1, <1>4 DEF CallTypes
<1>6. \A u \in Threads : \A i \in 1 .. Len(handlers) :
        u # t /\ u \in handlers[i] => u \in handlers'[i]
  BY ONLY <1>5, Zenon
<1>7. handlers'[o] \subseteq handlers[o] /\ th'[t].pc \notin {"free", "store"}
      /\ th'[t].pc \notin {"connect", "unwatch", "delete"} /\ th'[t].pc # "subscribed"
  BY ONLY <1>1, <1>3, <1>5
<1>8. /\ raced \subseteq raced'
      /\ \A u \in Threads : u # t /\ InCall(u, th[t].name) => th[t].name \in raced'
  BY ONLY <1>1 DEF noteRace
<1>9. Owned'
  BY <1>1, <1>2, <1>3, <1>4, <1>5, <1>6, <1>7, MoveKeepsOwned, Zenon
<1>10. Serial'
  BY <1>1, <1>2, <1>3, <1>4, <1>5, <1>7, <1>8, MoveKeepsSerial, Zenon
<1>. QED  BY <1>9, <1>10, Zenon DEF OneCall

\* The cancel function ends, or finds no callback left.
LEMMA CheckKeepsCalls ==
  ASSUME CallTypes, OneCall, NEW t \in Threads, maybeDisconnectSubscribers(t)
  PROVE  OneCall'
<1>1. /\ th[t].pc = "check" /\ UNCHANGED <<raced, offers, subscribers, handlers>>
      /\ \/ th' = [th EXCEPT ![t] = Free]
         \/ /\ handlers[th[t].obj] = {}
            /\ th' = [th EXCEPT ![t] = [@ EXCEPT !.pc = "unwatch"]]
  BY Zenon DEF maybeDisconnectSubscribers, ThreadStep, Same
<1>2. th[t].pc \in Calling \ {"store"} /\ "unwatch" \in Calling \ {"store"}
  BY <1>1 DEF Calling
<1>. QED  BY <1>1, <1>2, LeaveKeepsCalls, PassKeepsCalls, Zenon

\* disconnectSubscribers sends the unwatch, then takes the name out of the
\* map: by then nobody is subscribed to it.
LEMMA DisconnectKeepsCalls ==
  ASSUME CallTypes, OneCall, NEW t \in Threads, disconnectSubscribers(t)
  PROVE  OneCall'
<1>1. UNCHANGED <<raced, offers, handlers>>
  BY Zenon DEF disconnectSubscribers, ThreadStep, Same
<1>2. /\ Owned /\ OneName /\ Alone
      /\ \A u \in Threads : Placed(u) /\ Held(u)
  BY Zenon DEF OneCall, Owned, Serial
<1>3. CASE /\ th[t].pc = "unwatch" /\ UNCHANGED subscribers
           /\ th' = [th EXCEPT ![t].pc = "delete"]
  <2>1. th[t].pc \in Calling \ {"store"} /\ "delete" \in Calling \ {"store"}
    BY <1>3 DEF Calling
  <2>2. CASE th[t].name \notin raced
    <3>1. handlers[th[t].obj] = {}
      BY <1>2, <1>3, <2>2, Zenon DEF Held
    <3>. QED  BY <1>1, <1>3, <2>1, <3>1, PassKeepsCalls, Zenon
  <2>3. CASE th[t].name \in raced
    <3>1. /\ th'[t].pc = "delete" /\ th'[t].name = th[t].name /\ th'[t].obj = th[t].obj
          /\ \A u \in Threads : u # t => th'[u] = th[u]
      BY <1>3 DEF CallTypes
    <3>2. th[t].obj # 0 /\ th'[t].pc \notin {"free", "store"} /\ th'[t].pc # "subscribed"
      BY <1>2, <1>3, <3>1 DEF Placed
    <3>3. Owned'
      BY <1>1, <1>2, <1>3, <3>1, <3>2, MoveKeepsOwned, Zenon
    <3>4. Held(t)'
      BY ONLY <1>1, <2>3, <3>1, Zenon DEF Held
    <3>5. ASSUME NEW u \in Threads, u # t
          PROVE  Held(u)'
      <4>1. th'[u] = th[u] /\ Held(u)
        BY <1>2, <3>1, <3>5, Zenon
      <4>2. subscribers' = subscribers
        BY <1>3
      <4>. QED  BY ONLY <4>1, <4>2, <1>1, Zenon DEF Held
    <3>6. Alone'
      <4>1. \A u \in Threads : th'[u].name = th[u].name
        BY ONLY <3>1, Zenon
      <4>2. \A u \in Threads : th'[u].pc \in Calling => th[u].pc \in Calling
        BY ONLY <2>1, <3>1, Zenon
      <4>. QED  BY ONLY <4>1, <4>2, <1>1, <1>2, Zenon DEF Alone
    <3>. QED  BY <3>3, <3>4, <3>5, <3>6, Zenon DEF OneCall, Serial
  <2>. QED  BY <2>2, <2>3, Zenon
<1>4. CASE /\ th[t].pc = "delete"
           /\ subscribers' = [subscribers EXCEPT ![th[t].name] = 0]
           /\ th' = [th EXCEPT ![t] = Free]
  <2> DEFINE n == th[t].name
  <2>1. n \in Names
    BY <1>2, <1>4, Zenon DEF Placed
  <2>2. Free.pc = "free" /\ Free.obj = 0
    BY Zenon DEF Free
  <2>3. th'[t] = Free /\ \A u \in Threads : u # t => th'[u] = th[u]
    BY <1>4 DEF CallTypes
  <2>4. th'[t].pc = "free" /\ th'[t].obj = 0
    BY ONLY <2>2, <2>3, Zenon
  <2>5. /\ subscribers'[n] = 0
        /\ \A m \in Names : m # n => subscribers'[m] = subscribers[m]
    BY <1>4, <2>1 DEF CallTypes
  <2>6. th[t].pc = "delete" /\ "delete" \in Calling
    BY <1>4 DEF Calling
  <2> HIDE DEF n
  <2>7. ASSUME NEW u \in Threads, u # t, th[u].name = n, n \notin raced
        PROVE  th[u].pc = "free"
    <3>1. th[u].pc \notin Calling
      BY ONLY <2>7, <1>2, <2>6, t \in Threads, Zenon DEF Alone, n
    <3>2. handlers[th[t].obj] = {} /\ subscribers[n] = th[t].obj
      BY ONLY <2>7, <1>2, <2>6, t \in Threads, Zenon DEF Held, n
    <3>3. th[u].pc # "subscribed"
      BY ONLY <3>2, <2>7, <1>2, Zenon DEF Held, Placed
    <3>. QED  BY <3>1, <3>3 DEF CallTypes
  <2>8. Placed(t)' /\ Held(t)'
    <3>1. Len(handlers) \in Nat
      BY DEF CallTypes
    <3>. QED  BY ONLY <1>1, <2>4, <3>1 DEF Placed, Held
  <2>9. ASSUME NEW u \in Threads, u # t
        PROVE  Placed(u)' /\ Held(u)'
    <3>1. th'[u] = th[u] /\ Placed(u) /\ Held(u)
      BY <1>2, <2>3, <2>9, Zenon
    <3>2. Placed(u)'
      BY ONLY <3>1, <1>1, Zenon DEF Placed
    <3>3. CASE th[u].pc = "free" \/ th[u].name \in raced
      BY ONLY <3>1, <3>2, <3>3, <1>1, Zenon DEF Held
    <3>4. CASE th[u].pc # "free" /\ th[u].name \notin raced
      <4>1. th[u].name # n /\ th[u].name \in Names
        BY ONLY <2>7, <2>9, <3>1, <3>4, Zenon DEF Placed
      <4>2. subscribers'[th[u].name] = subscribers[th[u].name]
        BY ONLY <4>1, <2>5, Zenon
      <4>. QED  BY ONLY <3>1, <3>2, <4>2, <1>1, Zenon DEF Held
    <3>. QED  BY <3>2, <3>3, <3>4, Zenon
  <2>10. OneName'
    BY ONLY <1>2, <2>3, <2>4, <2>5 DEF OneName
  <2>11. Alone'
    BY ONLY <1>1, <1>2, <2>3, <2>4, CallingAre, Zenon DEF Alone
  <2>12. \A m \in Names : subscribers'[m] <= Len(handlers')
    <3>1. /\ \A m \in Names : subscribers[m] <= Len(handlers)
          /\ Len(handlers) \in Nat
      BY <1>2 DEF Owned, CallTypes
    <3>. QED  BY ONLY <3>1, <1>1, <2>5
  <2>. QED  BY <2>8, <2>9, <2>10, <2>11, <2>12, Zenon DEF OneCall, Owned, Serial
<1>. QED  BY <1>3, <1>4, Zenon DEF disconnectSubscribers

-----------------------------------------------------------------------------
(* Commands.                                                               *)

\* What the records of the model hold.
LEMMA Records ==
  /\ NoSend \in Sends /\ NoSend.ch = 0 /\ NoSend.watch = FALSE /\ NoSend.id = 0
  /\ Free.pc = "free" /\ Free.obj = 0 /\ Free.name \in Labels
  /\ NoConn.ch = 0 /\ NoConn.writer = "none" /\ NoConn.up = FALSE
  /\ Names \subseteq Labels
  /\ \A t \in Threads : t \in Senders /\ t # "worker"
  /\ "worker" \in Senders
<1>1. "" \in Labels /\ Names \subseteq Labels
  BY Zenon DEF Labels
<1>2. NoSend \in Sends /\ NoSend.ch = 0 /\ NoSend.watch = FALSE /\ NoSend.id = 0
  <2>1. 0 \in Nat
    OBVIOUS
  <2>. QED  BY <1>1, <2>1, Zenon DEF NoSend, Sends
<1>3. Free.pc = "free" /\ Free.obj = 0 /\ Free.name = ""
  BY Zenon DEF Free
<1>4. NoConn.ch = 0 /\ NoConn.writer = "none" /\ NoConn.up = FALSE
  BY DEF NoConn
<1>5. /\ \A t \in Threads : t \in Senders /\ t # "worker"
      /\ "worker" \in Senders
  BY ChangesAssumption, Zenon DEF Senders, ChangesAssumption
<1>. QED  BY <1>1, <1>2, <1>3, <1>4, <1>5, Zenon

\* send: the command is numbered if it is a watch, and goes to the current
\* channel.
LEMMA SendEffect ==
  ASSUME LinkTypes, Numbered,
         NEW p \in Senders, NEW n \in Names, NEW w \in BOOLEAN, send(p, n, w)
  PROVE  /\ snd' \in [Senders -> Sends] /\ nextCmd' \in Nat \ {0}
         /\ snd'[p].name = n /\ snd'[p].watch = w /\ snd'[p].ch = Len(chans)
         /\ \A q \in Senders : q # p => snd'[q] = snd[q]
         /\ \A q \in Senders : snd'[q].id < nextCmd'
         /\ outstanding' \subseteq 1 .. nextCmd' - 1
         /\ signalled \subseteq 1 .. nextCmd' - 1
<1> DEFINE k == IF w THEN nextCmd ELSE 0
           r == [id |-> k, name |-> n, watch |-> w, ch |-> Len(chans)]
<1>1. snd' = [snd EXCEPT ![p] = r]
  BY Zenon DEF send
<1>2. /\ nextCmd \in Nat \ {0} /\ Len(chans) \in Nat /\ k \in Nat
      /\ nextCmd' = IF w THEN nextCmd + 1 ELSE nextCmd
      /\ outstanding' = IF w THEN outstanding \cup {nextCmd} ELSE outstanding
  BY DEF send, LinkTypes
<1>3. /\ outstanding \subseteq 1 .. nextCmd - 1 /\ signalled \subseteq 1 .. nextCmd - 1
      /\ \A q \in Senders : snd[q].id < nextCmd
  BY Zenon DEF Numbered
<1>4. n \in Labels
  BY Records, Zenon
<1>5. r \in Sends /\ r.id = k /\ r.name = n /\ r.watch = w /\ r.ch = Len(chans)
  BY ONLY <1>2, <1>4, w \in BOOLEAN DEF Sends
<1> HIDE DEF r
<1>6. snd \in [Senders -> Sends]
  BY Zenon DEF LinkTypes
<1>7. /\ snd' \in [Senders -> Sends] /\ snd'[p] = r
      /\ \A q \in Senders : q # p => snd'[q] = snd[q]
  BY ONLY <1>1, <1>5, <1>6, p \in Senders
<1>8. /\ nextCmd' \in Nat \ {0} /\ nextCmd <= nextCmd' /\ k < nextCmd'
      /\ outstanding' \subseteq 1 .. nextCmd' - 1
      /\ signalled \subseteq 1 .. nextCmd' - 1
  BY ONLY <1>2, <1>3, w \in BOOLEAN
<1>9. \A q \in Senders : snd[q].id \in Nat
  BY ONLY <1>6 DEF Sends
<1>10. \A q \in Senders : snd'[q].id < nextCmd'
  BY ONLY <1>2, <1>3, <1>5, <1>7, <1>8, <1>9
<1>. QED  BY <1>5, <1>7, <1>8, <1>10, Zenon

\* The part of the invariant about commands and connection.
Linked == LinkTypes /\ Numbered /\ Connected /\ Sending

\* A goroutine that sends nothing.
LEMMA QuietKeepsLink ==
  ASSUME Linked, NEW t \in Threads, snd[t] = NoSend,
         UNCHANGED <<snd, chans, nextCmd, outstanding, signalled, worker, conn,
                     chWorkCompleted, ctxDone>>,
         \A u \in Threads : u # t => th'[u] = th[u]
  PROVE  Linked'
<1>1. LinkTypes'
  BY Zenon DEF Linked, LinkTypes
<1>2. Numbered'
  BY Zenon DEF Linked, Numbered
<1>3. Connected'
  BY Zenon DEF Linked, Connected
<1>4. Sending
  BY Zenon DEF Linked
<1>5. ASSUME NEW u \in Threads
      PROVE  OfItsCall(u)'
  <2>1. OfItsCall(u) /\ snd' = snd
    BY <1>4, Zenon DEF Sending
  <2>2. CASE u = t
    BY <2>1, <2>2, Zenon DEF OfItsCall
  <2>3. CASE u # t
    BY <2>1, <2>3, Zenon DEF OfItsCall
  <2>. QED  BY <2>2, <2>3, Zenon
<1>6. Sending'
  BY <1>4, <1>5, Zenon DEF Sending
<1>. QED  BY <1>1, <1>2, <1>3, <1>6, Zenon DEF Linked

\* A goroutine that sends the command of its call.
LEMMA CommandKeepsLink ==
  ASSUME Linked, NEW t \in Threads, NEW w \in BOOLEAN, th[t].name \in Names,
         send(t, th[t].name, w),
         UNCHANGED <<chans, signalled, worker, conn, chWorkCompleted, ctxDone>>,
         th'[t].name = th[t].name,
         th'[t].pc = IF w THEN "register" ELSE "delete",
         \A u \in Threads : u # t => th'[u] = th[u]
  PROVE  Linked'
<1>1. LinkTypes /\ Numbered /\ Connected /\ Sending /\ t \in Senders
  BY Records, Zenon DEF Linked
<1>2. /\ snd' \in [Senders -> Sends] /\ nextCmd' \in Nat \ {0}
      /\ snd'[t].name = th[t].name /\ snd'[t].watch = w /\ snd'[t].ch = Len(chans)
      /\ \A q \in Senders : q # t => snd'[q] = snd[q]
      /\ \A q \in Senders : snd'[q].id < nextCmd'
      /\ outstanding' \subseteq 1 .. nextCmd' - 1
      /\ signalled \subseteq 1 .. nextCmd' - 1
  BY ONLY <1>1, SendEffect, th[t].name \in Names, w \in BOOLEAN, send(t, th[t].name, w), Zenon
<1>3. LinkTypes'
  BY <1>1, <1>2, Zenon DEF LinkTypes
<1>4. Numbered'
  BY <1>1, <1>2, Zenon DEF Numbered
<1>5. Connected'
  BY <1>1, Zenon DEF Connected
<1>6. Len(chans) \in Nat
  BY <1>1 DEF LinkTypes
<1>7. ASSUME NEW q \in Senders
      PROVE  snd'[q].ch <= Len(chans) /\ (snd'[q] # NoSend => snd'[q].name \in Names)
  <2>1. snd[q].ch <= Len(chans) /\ (snd[q] # NoSend => snd[q].name \in Names)
    BY <1>1, Zenon DEF Sending
  <2>2. CASE q = t
    BY ONLY <1>2, <1>6, <2>2, th[t].name \in Names
  <2>3. CASE q # t
    BY ONLY <1>2, <2>1, <2>3, q \in Senders, Zenon
  <2>. QED  BY <2>2, <2>3, Zenon
<1>8. ASSUME NEW u \in Threads
      PROVE  OfItsCall(u)'
  <2>1. CASE u = t
    BY <1>2, <2>1, w \in BOOLEAN, Zenon DEF OfItsCall
  <2>2. CASE u # t
    <3>1. OfItsCall(u) /\ snd'[u] = snd[u] /\ th'[u] = th[u]
      BY <1>1, <1>2, <2>2, Records, Zenon DEF Sending
    <3>. QED  BY ONLY <3>1, Zenon DEF OfItsCall
  <2>. QED  BY <2>1, <2>2, Zenon
<1>9. snd'["worker"] = snd["worker"]
  BY <1>2, Records, Zenon
<1>10. Sending'
  <2>1. snd["worker"] # NoSend => snd["worker"].watch
    BY <1>1, Zenon DEF Sending
  <2>. QED  BY ONLY <1>7, <1>8, <1>9, <2>1, chans' = chans, Zenon DEF Sending
<1>. QED  BY <1>3, <1>4, <1>5, <1>10, Zenon DEF Linked

\* A step of a goroutine that subscribes and unsubscribes.
ThreadAction(t) ==
  \/ Subscribe(t) \/ getOrAddSubscribers(t) \/ connectSubscribers(t)
  \/ register(t) \/ unregister(t) \/ maybeDisconnectSubscribers(t)
  \/ disconnectSubscribers(t)

\* A goroutine's step keeps the types of the goroutines' part.
LEMMA ThreadKeepsCallTypes ==
  ASSUME CallTypes, OneCall, NEW t \in Threads, ThreadAction(t)
  PROVE  CallTypes'
<1> DEFINE Places == [pc : Calling \cup {"free", "subscribed"}, name : Labels, obj : Nat]
<1>1. /\ Placed(t) /\ subscribers \in [Names -> Nat] /\ handlers \in Seq(SUBSET Threads)
      /\ th \in [Threads -> Places] /\ raced \subseteq offers \cap Names
  BY Zenon DEF CallTypes, OneCall, Owned
<1>2. Free \in Places /\ Names \subseteq Labels
  <2>1. "" \in Labels /\ Names \subseteq Labels
    BY Zenon DEF Labels
  <2>. QED  BY <2>1, Zenon DEF Free
<1>3. \A l \in Calling \cup {"subscribed"} : [th[t] EXCEPT !.pc = l] \in Places
  BY ONLY <1>1, t \in Threads
<1>10. ASSUME NEW r \in Places, th' = [th EXCEPT ![t] = r]
       PROVE  th' \in [Threads -> Places]
  <2> HIDE DEF Places
  <2>. QED  BY ONLY <1>1, <1>10
<1>11. ASSUME NEW l \in Calling \cup {"subscribed"}, th' = [th EXCEPT ![t].pc = l]
       PROVE  th' \in [Threads -> Places]
  <2> HIDE DEF Places
  <2>. QED  BY ONLY <1>1, <1>3, <1>11
<1>4. offers' = offers
  BY Zenon DEF ThreadAction, Subscribe, getOrAddSubscribers, connectSubscribers,
               register, unregister, maybeDisconnectSubscribers,
               disconnectSubscribers, ThreadStep
<1>5. CASE Subscribe(t)
  <2>1. PICK n \in offers \cap Names :
          /\ th' = [th EXCEPT ![t] =
               [pc |-> IF subscribers[n] # 0 THEN "register" ELSE "store",
                name |-> n, obj |-> subscribers[n]]]
          /\ noteRace(t, n)
    BY <1>5, Zenon DEF Subscribe
  <2>2. subscribers' = subscribers /\ handlers' = handlers
    BY <1>5, Zenon DEF Subscribe
  <2>3. raced' \subseteq offers \cap Names
    BY ONLY <1>1, <2>1, n \in offers \cap Names DEF noteRace
  <2>4. [pc |-> IF subscribers[n] # 0 THEN "register" ELSE "store",
         name |-> n, obj |-> subscribers[n]] \in Places
    BY ONLY <1>1, <1>2, n \in offers \cap Names DEF Calling
  <2>5. th' \in [Threads -> Places]
    BY ONLY <1>1, <2>1, <2>4
  <2>. QED  BY ONLY <1>1, <1>4, <2>2, <2>3, <2>5, Zenon DEF CallTypes
<1>6. CASE getOrAddSubscribers(t)
  <2>1. /\ handlers' = Append(handlers, {}) /\ raced' = raced
        /\ subscribers' = [subscribers EXCEPT ![th[t].name] = Len(handlers) + 1]
        /\ th' = [th EXCEPT ![t].pc = "connect", ![t].obj = Len(handlers) + 1]
    BY <1>6, Zenon DEF getOrAddSubscribers, Same
  <2>2. handlers' \in Seq(SUBSET Threads) /\ Len(handlers) + 1 \in Nat
    BY ONLY <1>1, <2>1
  <2>3. subscribers' \in [Names -> Nat]
    BY ONLY <1>1, <2>1, <2>2
  <2>4. th' \in [Threads -> Places]
    BY ONLY <1>1, <2>1, <2>2, t \in Threads DEF Calling
  <2>. QED  BY ONLY <1>1, <1>4, <2>1, <2>2, <2>3, <2>4, Zenon DEF CallTypes
<1>7. CASE register(t) \/ unregister(t)
  <2>1. /\ subscribers' = subscribers
        /\ \/ handlers' = [handlers EXCEPT ![th[t].obj] = @ \cup {t}]
           \/ handlers' = [handlers EXCEPT ![th[t].obj] = @ \ {t}]
        /\ \E l \in Calling \cup {"subscribed"} : th' = [th EXCEPT ![t].pc = l]
        /\ th[t].pc \in {"register", "subscribed"}
    BY <1>7 DEF register, unregister, Calling
  <2>2. raced' \subseteq offers \cap Names
    <3>1. th[t].name \in offers \cap Names
      BY ONLY <1>1, <2>1, Zenon DEF Placed
    <3>2. raced' = raced \/ raced' = raced \cup {th[t].name}
      BY <1>7, Zenon DEF register, unregister, Same, noteRace
    <3>. QED  BY ONLY <1>1, <3>1, <3>2, Zenon
  <2>3. handlers' \in Seq(SUBSET Threads)
    <3>1. th[t].obj \in 1 .. Len(handlers)
      BY ONLY <1>1, <2>1, t \in Threads DEF Placed
    <3>2. handlers[th[t].obj] \in SUBSET Threads
      BY ONLY <1>1, <3>1
    <3>3. /\ handlers[th[t].obj] \cup {t} \in SUBSET Threads
          /\ handlers[th[t].obj] \ {t} \in SUBSET Threads
      BY ONLY <3>2, t \in Threads, Zenon
    <3>4. ASSUME NEW h \in SUBSET Threads, handlers' = [handlers EXCEPT ![th[t].obj] = h]
          PROVE  handlers' \in Seq(SUBSET Threads)
      BY ONLY <1>1, <3>1, <3>4
    <3>. QED  BY ONLY <2>1, <3>3, <3>4, Zenon
  <2>4. th' \in [Threads -> Places]
    BY ONLY <1>11, <2>1, Zenon
  <2>. QED  BY ONLY <1>1, <1>4, <2>1, <2>2, <2>3, <2>4, Zenon DEF CallTypes
<1>8. CASE connectSubscribers(t) \/ maybeDisconnectSubscribers(t)
  <2>1. /\ subscribers' = subscribers /\ handlers' = handlers /\ raced' = raced
        /\ \/ th' = [th EXCEPT ![t] = Free]
           \/ th' = [th EXCEPT ![t] = [@ EXCEPT !.pc = "register"]]
           \/ th' = [th EXCEPT ![t] = [@ EXCEPT !.pc = "unwatch"]]
    BY <1>8 DEF connectSubscribers, maybeDisconnectSubscribers, Same
  <2>2. "register" \in Calling /\ "unwatch" \in Calling
    BY DEF Calling
  <2>3. th' \in [Threads -> Places]
    BY ONLY <1>2, <1>3, <1>10, <1>11, <2>1, <2>2, Zenon
  <2>. QED  BY ONLY <1>1, <1>4, <2>1, <2>3, Zenon DEF CallTypes
<1>9. CASE disconnectSubscribers(t)
  <2>1. /\ handlers' = handlers /\ raced' = raced
        /\ \/ subscribers' = subscribers
           \/ subscribers' = [subscribers EXCEPT ![th[t].name] = 0]
        /\ \/ th' = [th EXCEPT ![t] = Free]
           \/ th' = [th EXCEPT ![t] = [@ EXCEPT !.pc = "delete"]]
    BY <1>9 DEF disconnectSubscribers, Same
  <2>2. "delete" \in Calling
    BY DEF Calling
  <2>3. th' \in [Threads -> Places]
    BY ONLY <1>2, <1>3, <1>10, <1>11, <2>1, <2>2, Zenon
  <2>4. subscribers' \in [Names -> Nat]
    BY ONLY <1>1, <2>1
  <2>. QED  BY ONLY <1>1, <1>4, <2>1, <2>3, <2>4, Zenon DEF CallTypes
<1>. QED  BY <1>5, <1>6, <1>7, <1>8, <1>9, Zenon DEF ThreadAction

\* A goroutine's step keeps its calls.
LEMMA ThreadKeepsCalls ==
  ASSUME CallTypes, OneCall, NEW t \in Threads, ThreadAction(t)
  PROVE  OneCall'
BY SubscribeKeepsCalls, AddKeepsCalls, ConnectKeepsCalls, RegisterKeepsCalls,
   UnregisterKeepsCalls, CheckKeepsCalls, DisconnectKeepsCalls, Zenon
   DEF ThreadAction

\* A goroutine's step keeps the commands and the connection in order.
LEMMA ThreadKeepsLink ==
  ASSUME CallTypes, OneCall, Linked, NEW t \in Threads, ThreadAction(t)
  PROVE  Linked'
<1>1. UNCHANGED <<chans, signalled, worker, conn, chWorkCompleted, ctxDone>>
  BY Zenon DEF ThreadAction, Subscribe, getOrAddSubscribers, connectSubscribers,
               register, unregister, maybeDisconnectSubscribers,
               disconnectSubscribers, ThreadStep, workerState
<1>2. OfItsCall(t) /\ Placed(t) /\ DOMAIN th = Threads
  BY DEF Linked, Sending, OneCall, Owned, CallTypes
<1>3. \A u \in Threads : u # t => th'[u] = th[u]
  <2>1. \/ \E r : th' = [th EXCEPT ![t] = r]
        \/ th' = [th EXCEPT ![t].pc = "connect", ![t].obj = Len(handlers) + 1]
        \/ \E l : th' = [th EXCEPT ![t].pc = l]
    BY Zenon DEF ThreadAction, Subscribe, getOrAddSubscribers, connectSubscribers,
               register, unregister, maybeDisconnectSubscribers,
               disconnectSubscribers
  <2>. QED  BY ONLY <1>2, <2>1
<1>4. CASE /\ UNCHANGED <<snd, nextCmd, outstanding>>
           /\ th[t].pc \in {"free", "store", "connect", "subscribed", "check", "unwatch"}
              \/ snd[t] = NoSend
  <2>1. snd[t] = NoSend
    BY ONLY <1>2, <1>4, Zenon DEF OfItsCall
  <2>. QED  BY <1>1, <1>3, <1>4, <2>1, QuietKeepsLink, Zenon
<1>5. ASSUME NEW w \in BOOLEAN, th[t].pc \in {"connect", "unwatch"},
             send(t, th[t].name, w),
             th' = [th EXCEPT ![t].pc = IF w THEN "register" ELSE "delete"]
      PROVE  Linked'
  <2>1. th'[t].name = th[t].name /\ th'[t].pc = IF w THEN "register" ELSE "delete"
    BY <1>5 DEF CallTypes
  <2>2. th[t].name \in Names
    BY ONLY <1>2, <1>5, Zenon DEF Placed
  <2>. QED  BY <1>1, <1>3, <1>5, <2>1, <2>2, CommandKeepsLink, Zenon
<1>6. \/ /\ NoSending
         /\ \/ th[t].pc \in {"free", "store", "connect", "subscribed", "check", "unwatch"}
            \/ snd[t] = NoSend
      \/ /\ th[t].pc = "connect" /\ send(t, th[t].name, TRUE)
         /\ th' = [th EXCEPT ![t].pc = "register"]
      \/ /\ th[t].pc = "unwatch" /\ send(t, th[t].name, FALSE)
         /\ th' = [th EXCEPT ![t].pc = "delete"]
  BY Zenon DEF ThreadAction, Subscribe, getOrAddSubscribers, connectSubscribers,
               register, unregister, maybeDisconnectSubscribers,
               disconnectSubscribers, Idle
<1>7. CASE NoSending /\ (\/ th[t].pc \in {"free", "store", "connect", "subscribed", "check", "unwatch"}
                         \/ snd[t] = NoSend)
  BY <1>4, <1>7, Zenon DEF NoSending
<1>8. CASE /\ th[t].pc = "connect" /\ send(t, th[t].name, TRUE)
           /\ th' = [th EXCEPT ![t].pc = "register"]
  BY <1>5, <1>8
<1>9. CASE /\ th[t].pc = "unwatch" /\ send(t, th[t].name, FALSE)
           /\ th' = [th EXCEPT ![t].pc = "delete"]
  BY <1>5, <1>9
<1>. QED  BY <1>6, <1>7, <1>8, <1>9, Zenon

-----------------------------------------------------------------------------
(* The channels, the worker and the connection.                            *)

\* A channel gets a new queue.
LEMMA QueueEffect ==
  ASSUME chans \in Seq(Channels), NEW c \in 1 .. Len(chans), NEW b \in Seq(Commands),
         chans' = [chans EXCEPT ![c].buf = b]
  PROVE  /\ chans' \in Seq(Channels) /\ Len(chans') = Len(chans)
         /\ chans'[c].buf = b /\ chans'[c].closed = chans[c].closed
         /\ \A i \in 1 .. Len(chans) : i # c => chans'[i] = chans[i]
<1>1. chans[c] \in Channels
  OBVIOUS
<1>2. /\ [chans[c] EXCEPT !.buf = b] \in Channels
      /\ [chans[c] EXCEPT !.buf = b].buf = b
      /\ [chans[c] EXCEPT !.buf = b].closed = chans[c].closed
  BY ONLY <1>1, b \in Seq(Commands) DEF Channels
<1>3. ASSUME NEW x \in Channels, chans' = [chans EXCEPT ![c] = x]
      PROVE  /\ chans' \in Seq(Channels) /\ Len(chans') = Len(chans) /\ chans'[c] = x
             /\ \A i \in 1 .. Len(chans) : i # c => chans'[i] = chans[i]
  BY ONLY <1>3, chans \in Seq(Channels), c \in 1 .. Len(chans)
<1>. QED  BY <1>2, <1>3, Zenon

\* A channel's queue changes and stays within its room.
LEMMA QueueKeepsConnected ==
  ASSUME Connected, NEW c \in 1 .. Len(chans),
         Len(chans') = Len(chans), chans' # <<>>,
         Len(chans'[c].buf) <= Capacity, chans'[c].closed = chans[c].closed,
         \A i \in 1 .. Len(chans) : i # c => chans'[i] = chans[i],
         worker' = worker, conn'.ch = conn.ch,
         conn'.writer = "on" => conn.writer = "on"
  PROVE  Connected'
<1>1. ASSUME NEW i \in 1 .. Len(chans)
      PROVE  /\ Len(chans'[i].buf) <= Capacity
             /\ chans'[i].closed <=> /\ i < Len(chans')
                                     /\ worker' \in {"retry", "stop"} => i # conn'.ch
  <2>1. /\ Len(chans[i].buf) <= Capacity
        /\ chans[i].closed <=> /\ i < Len(chans)
                               /\ worker \in {"retry", "stop"} => i # conn.ch
    BY Zenon DEF Connected
  <2>2. CASE i = c
    BY ONLY <2>1, <2>2, Len(chans') = Len(chans), worker' = worker, conn'.ch = conn.ch,
       Len(chans'[c].buf) <= Capacity, chans'[c].closed = chans[c].closed, Zenon
  <2>3. CASE i # c
    BY ONLY <2>1, <2>3, Len(chans') = Len(chans), worker' = worker, conn'.ch = conn.ch,
       \A j \in 1 .. Len(chans) : j # c => chans'[j] = chans[j], i \in 1 .. Len(chans), Zenon
  <2>. QED  BY <2>2, <2>3, Zenon
<1>. QED  BY <1>1, Zenon DEF Connected

\* The command enters its channel; a send on a closed one panics.
LEMMA PutKeepsLink ==
  ASSUME Linked, NEW p \in Senders, PutCommand(p)
  PROVE  Linked'
<1>1. LinkTypes /\ Numbered /\ Connected /\ Sending
  BY Zenon DEF Linked
<1>2. /\ snd[p].ch # 0
      /\ UNCHANGED <<th, nextCmd, outstanding, signalled, conn, worker, chWorkCompleted, ctxDone>>
  BY Zenon DEF PutCommand, workerState, program
<1>3. CASE UNCHANGED <<chans, snd>>
  BY <1>1, <1>2, <1>3, Zenon
     DEF Linked, LinkTypes, Numbered, Connected, Sending, OfItsCall
<1>4. CASE /\ ~chans[snd[p].ch].closed /\ Len(chans[snd[p].ch].buf) < Capacity
           /\ chans' = [chans EXCEPT ![snd[p].ch].buf = Append(@, [id |-> snd[p].id,
                          name |-> snd[p].name, watch |-> snd[p].watch])]
           /\ snd' = [snd EXCEPT ![p] = IF @.watch THEN [@ EXCEPT !.ch = 0] ELSE NoSend]
  <2> DEFINE c == snd[p].ch
             m == [id |-> snd[p].id, name |-> snd[p].name, watch |-> snd[p].watch]
             r == IF snd[p].watch THEN [snd[p] EXCEPT !.ch = 0] ELSE NoSend
             b == Append(chans[c].buf, m)
  <2>1. /\ snd \in [Senders -> Sends] /\ snd[p] \in Sends /\ chans \in Seq(Channels)
        /\ snd[p].ch \in Nat /\ snd[p].id \in Nat /\ snd[p].watch \in BOOLEAN
    BY <1>1 DEF LinkTypes, Sends
  <2>2. snd[p].name \in Names /\ c \in 1 .. Len(chans)
    <3>1. snd[p] # NoSend
      BY <1>2, Records, Zenon
    <3>2. snd[p].ch <= Len(chans) /\ snd[p].name \in Names
      BY <1>1, <3>1, Zenon DEF Sending
    <3>. QED  BY ONLY <3>2, <2>1, <1>2
  <2>3. m \in Commands
    BY ONLY <2>1, <2>2 DEF Commands
  <2> HIDE DEF m, c
  <2>4. chans[c].buf \in Seq(Commands)
    <3>1. chans[c] \in Channels
      BY ONLY <2>1, <2>2
    <3>. QED  BY ONLY <3>1 DEF Channels
  <2>5. b \in Seq(Commands) /\ Len(b) = Len(chans[c].buf) + 1 /\ Len(chans[c].buf) \in Nat
    BY ONLY <2>3, <2>4
  <2>6. chans' = [chans EXCEPT ![c].buf = b]
    BY ONLY <1>4, Zenon DEF m, c
  <2> HIDE DEF b
  <2>7. /\ chans' \in Seq(Channels) /\ Len(chans') = Len(chans)
        /\ chans'[c].buf = b /\ chans'[c].closed = chans[c].closed
        /\ \A i \in 1 .. Len(chans) : i # c => chans'[i] = chans[i]
    <3>1. chans \in Seq(Channels) /\ c \in 1 .. Len(chans) /\ b \in Seq(Commands)
      BY ONLY <2>1, <2>2, <2>5
    <3>. QED  BY ONLY <3>1, <2>6, QueueEffect, Zenon
  <2>8. Len(chans'[c].buf) <= Capacity /\ chans' # <<>>
    <3>1. Len(chans'[c].buf) <= Capacity
      BY ONLY <1>4, <2>5, <2>7, ChangesAssumption DEF ChangesAssumption, c
    <3>2. chans' # <<>>
      BY ONLY <2>2, <2>7
    <3>. QED  BY <3>1, <3>2, Zenon
  <2>9. Connected'
    BY ONLY <1>1, <1>2, <2>2, <2>7, <2>8, QueueKeepsConnected, Zenon
  <2>10. /\ r \in Sends /\ r.ch = 0 /\ r.id \in {0, snd[p].id}
         /\ r # NoSend => r.watch = snd[p].watch /\ r.name = snd[p].name /\ snd[p].watch
    BY ONLY <2>1, Records DEF Sends
  <2>11. snd' = [snd EXCEPT ![p] = r]
    BY ONLY <1>4, Zenon
  <2> HIDE DEF r
  <2>12. /\ snd' \in [Senders -> Sends] /\ snd'[p] = r
         /\ \A q \in Senders : q # p => snd'[q] = snd[q]
    BY ONLY <2>1, <2>10, <2>11, p \in Senders
  <2>13. LinkTypes'
    BY ONLY <1>1, <1>2, <2>7, <2>12, Zenon DEF LinkTypes
  <2>14. Numbered'
    <3>1. nextCmd \in Nat \ {0} /\ \A q \in Senders : snd[q].id < nextCmd
      BY ONLY <1>1 DEF LinkTypes, Numbered
    <3>2. \A q \in Senders : snd'[q].id < nextCmd'
      BY ONLY <1>2, <2>10, <2>12, <3>1, p \in Senders
    <3>. QED  BY ONLY <1>1, <1>2, <3>2, Zenon DEF Numbered
  <2>15. ASSUME NEW q \in Senders
         PROVE  snd'[q].ch <= Len(chans') /\ (snd'[q] # NoSend => snd'[q].name \in Names)
    <3>1. /\ snd[q].ch <= Len(chans) /\ (snd[q] # NoSend => snd[q].name \in Names)
          /\ Len(chans) \in Nat
      BY ONLY <1>1, q \in Senders DEF Sending, LinkTypes
    <3>2. CASE q = p
      BY ONLY <3>1, <3>2, <2>2, <2>7, <2>10, <2>12
    <3>3. CASE q # p
      BY ONLY <3>1, <3>3, <2>7, <2>12, q \in Senders, Zenon
    <3>. QED  BY <3>2, <3>3, Zenon
  <2>16. ASSUME NEW u \in Threads
         PROVE  OfItsCall(u)'
    <3>1. OfItsCall(u) /\ u \in Senders /\ th' = th
      BY <1>1, <1>2, Records, Zenon DEF Sending
    <3>2. CASE u = p
      <4>1. snd[p] # NoSend
        BY <1>2, Records, Zenon
      <4>. QED  BY ONLY <3>1, <3>2, <4>1, <2>10, <2>12, Zenon DEF OfItsCall
    <3>3. CASE u # p
      BY ONLY <3>1, <3>3, <2>12, Zenon DEF OfItsCall
    <3>. QED  BY <3>2, <3>3, Zenon
  <2>17. snd'["worker"] # NoSend => snd'["worker"].watch
    <3>1. snd["worker"] # NoSend => snd["worker"].watch
      BY <1>1, Zenon DEF Sending
    <3>. QED  BY ONLY <3>1, <2>10, <2>12, Records, Zenon
  <2>18. Sending'
    BY ONLY <2>15, <2>16, <2>17, Zenon DEF Sending
  <2>. QED  BY <2>9, <2>13, <2>14, <2>18, Zenon DEF Linked
<1>. QED  BY <1>3, <1>4, Zenon DEF PutCommand

\* The sender of a watch no longer waits.
LEMMA WaitKeepsLink ==
  ASSUME Linked, NEW p \in Senders, waitForConfirmation(p)
  PROVE  Linked'
<1>1. LinkTypes /\ Numbered /\ Connected /\ Sending
  BY Zenon DEF Linked
<1>2. /\ UNCHANGED <<th, nextCmd, chans, conn, worker, chWorkCompleted, ctxDone>>
      /\ snd' = [snd EXCEPT ![p] = NoSend]
      /\ outstanding' \subseteq outstanding /\ signalled' \subseteq signalled
  BY Zenon DEF waitForConfirmation, workerState, program
<1>3. /\ snd' \in [Senders -> Sends] /\ snd'[p] = NoSend
      /\ \A q \in Senders : q # p => snd'[q] = snd[q]
  <2>1. snd \in [Senders -> Sends]
    BY <1>1, Zenon DEF LinkTypes
  <2>. QED  BY ONLY <2>1, <1>2, Records, p \in Senders
<1>4. LinkTypes'
  BY ONLY <1>1, <1>2, <1>3, Zenon DEF LinkTypes
<1>5. Numbered'
  <2>1. nextCmd \in Nat \ {0} /\ \A q \in Senders : snd[q].id < nextCmd
    BY ONLY <1>1 DEF LinkTypes, Numbered
  <2>2. \A q \in Senders : snd'[q].id < nextCmd'
    BY ONLY <1>2, <1>3, <2>1, Records
  <2>. QED  BY ONLY <1>1, <1>2, <2>2, Zenon DEF Numbered
<1>6. Connected'
  BY ONLY <1>1, <1>2, Zenon DEF Connected
<1>7. ASSUME NEW q \in Senders
      PROVE  snd'[q].ch <= Len(chans') /\ (snd'[q] # NoSend => snd'[q].name \in Names)
  <2>1. /\ snd[q].ch <= Len(chans) /\ (snd[q] # NoSend => snd[q].name \in Names)
        /\ 0 <= Len(chans)
    BY ONLY <1>1, q \in Senders DEF Sending, LinkTypes
  <2>. QED  BY ONLY <2>1, <1>2, <1>3, Records, q \in Senders, Zenon
<1>8. ASSUME NEW u \in Threads
      PROVE  OfItsCall(u)'
  <2>1. OfItsCall(u) /\ u \in Senders /\ th' = th
    BY <1>1, <1>2, Records, Zenon DEF Sending
  <2>. QED  BY ONLY <2>1, <1>3, Zenon DEF OfItsCall
<1>9. snd'["worker"] # NoSend => snd'["worker"].watch
  <2>1. snd["worker"] # NoSend => snd["worker"].watch
    BY <1>1, Zenon DEF Sending
  <2>. QED  BY ONLY <2>1, <1>3, Records, Zenon
<1>10. Sending'
  BY ONLY <1>7, <1>8, <1>9, Zenon DEF Sending
<1>. QED  BY <1>4, <1>5, <1>6, <1>10, Zenon DEF Linked

\* What a subscription hears is a change.
LEMMA HearsChanges ==
  ASSUME NEW n \in Names
  PROVE  subscription(n).hears \subseteq Changes
<1>1. ASSUME NEW s \in Subscriptions
      PROVE  s.hears \subseteq Changes
  <2>1. ForDocument("doc a").hears \subseteq Changes
    BY DEF ForDocument, Changes, DocumentChanges, IndexChanges, OperationChanges
  <2>2. ForAllDocuments.hears \subseteq Changes
    BY DEF ForAllDocuments, Changes, DocumentChanges, IndexChanges, OperationChanges
  <2>3. ForIndex.hears \subseteq Changes
    BY DEF ForIndex, Changes, DocumentChanges, IndexChanges, OperationChanges
  <2>4. ForDocumentsStartingWith.hears \subseteq Changes
    BY DEF ForDocumentsStartingWith, Changes, DocumentChanges, IndexChanges, OperationChanges
  <2>5. ForDocumentsInCollection.hears \subseteq Changes
    BY DEF ForDocumentsInCollection, Changes, DocumentChanges, IndexChanges, OperationChanges
  <2>6. ForAllIndexes.hears \subseteq Changes
    BY DEF ForAllIndexes, Changes, DocumentChanges, IndexChanges, OperationChanges
  <2>7. ForOperationID.hears \subseteq Changes
    BY DEF ForOperationID, Changes, DocumentChanges, IndexChanges, OperationChanges
  <2>8. ForAllOperations.hears \subseteq Changes
    BY DEF ForAllOperations, Changes, DocumentChanges, IndexChanges, OperationChanges
  <2>. QED  BY ONLY s \in Subscriptions, <2>1, <2>2, <2>3, <2>4, <2>5, <2>6, <2>7, <2>8, Zenon DEF Subscriptions
<1>2. \E s \in Subscriptions : s.name = n
  BY Zenon DEF Names
<1>. QED  BY ONLY <1>1, <1>2, Zenon DEF subscription

\* Steps that change neither a command nor a channel.
LEMMA StillKeepsLink ==
  ASSUME Linked, UNCHANGED <<th, snd, chans, nextCmd, worker>>, conn' \in Conns,
         conn'.ch = conn.ch, conn'.writer = "on" => conn.writer = "on",
         ctxDone' \in BOOLEAN,
         outstanding' \cup signalled' \subseteq outstanding \cup signalled,
         (chWorkCompleted' = "empty") <=> (chWorkCompleted = "empty")
  PROVE  Linked'
<1>1. LinkTypes /\ Numbered /\ Connected /\ Sending
  BY Zenon DEF Linked
<1>2. LinkTypes'
  BY ONLY <1>1, UNCHANGED <<snd, chans, nextCmd>>, conn' \in Conns, ctxDone' \in BOOLEAN,
     Zenon DEF LinkTypes
<1>3. Numbered'
  <2>1. outstanding' \subseteq 1 .. nextCmd - 1 /\ signalled' \subseteq 1 .. nextCmd - 1
    BY <1>1, Zenon DEF Numbered
  <2>. QED  BY ONLY <1>1, <2>1, UNCHANGED <<snd, nextCmd, worker>>,
               (chWorkCompleted' = "empty") <=> (chWorkCompleted = "empty"), Zenon
            DEF Numbered
<1>4. Connected'
  BY ONLY <1>1, UNCHANGED <<chans, worker>>, conn'.ch = conn.ch,
     conn'.writer = "on" => conn.writer = "on", Zenon DEF Connected
<1>5. Sending'
  BY ONLY <1>1, UNCHANGED <<th, snd, chans>>, Zenon DEF Sending, OfItsCall
<1>. QED  BY <1>2, <1>3, <1>4, <1>5, Zenon DEF Linked

\* The writer takes a command from its channel.
LEMMA WriterKeepsLink ==
  ASSUME Linked, startSendWorker
  PROVE  Linked'
<1> DEFINE c == conn.ch
           q == chans[c].buf
           b == Tail(q)
           m == Head(q)
<1>1. LinkTypes /\ Numbered /\ Connected /\ Sending
  BY Zenon DEF Linked
<1>2. /\ conn.writer = "on" /\ q # <<>> /\ chans' = [chans EXCEPT ![c].buf = b]
      /\ UNCHANGED <<th, snd, nextCmd, outstanding, worker, chWorkCompleted, ctxDone>>
      /\ \/ /\ conn.up
            /\ conn' = [conn EXCEPT !.watched = IF m.watch THEN @ \cup {m.name} ELSE @ \ {m.name}]
            /\ signalled' = signalled \cup ({m.id} \cap outstanding)
         \/ conn' = [conn EXCEPT !.writer = "failed"] /\ signalled' = signalled
  BY Zenon DEF startSendWorker, ConnStep, workerState, confirm
<1>3. conn \in Conns /\ chans \in Seq(Channels) /\ c \in Nat
  BY <1>1 DEF LinkTypes, Conns
<1>4. c \in 1 .. Len(chans)
  <2>1. c # 0 /\ chans # <<>>
    BY <1>1, <1>2, Zenon DEF Connected
  <2>2. c = 0 \/ c = Len(chans) \/ c = Len(chans) - 1
    BY <1>1, Zenon DEF Connected, Numbered
  <2>. QED  BY ONLY <1>3, <2>1, <2>2
<1> HIDE DEF c
<1>5. q \in Seq(Commands)
  <2>1. chans[c] \in Channels
    BY ONLY <1>3, <1>4
  <2>. QED  BY ONLY <2>1 DEF Channels
<1>6. b \in Seq(Commands) /\ m \in Commands /\ Len(b) <= Len(q)
  <2> HIDE DEF q
  <2>. QED  BY ONLY <1>2, <1>5
<1> HIDE DEF b
<1>7. /\ chans' \in Seq(Channels) /\ Len(chans') = Len(chans)
      /\ chans'[c].buf = b /\ chans'[c].closed = chans[c].closed
      /\ \A i \in 1 .. Len(chans) : i # c => chans'[i] = chans[i]
  <2>1. chans \in Seq(Channels) /\ c \in 1 .. Len(chans) /\ b \in Seq(Commands)
        /\ chans' = [chans EXCEPT ![c].buf = b]
    BY <1>2, <1>3, <1>4, <1>6, Zenon
  <2>. QED  BY ONLY <2>1, QueueEffect, Zenon
<1>8. m.name \in Names
  BY ONLY <1>6 DEF Commands
<1> HIDE DEF m
<1>9. conn' \in Conns /\ conn'.ch = conn.ch /\ (conn'.writer = "on" => conn.writer = "on")
  <2>1. CASE conn' = [conn EXCEPT !.watched = IF m.watch THEN @ \cup {m.name} ELSE @ \ {m.name}]
    BY ONLY <1>3, <1>8, <2>1 DEF Conns
  <2>2. CASE conn' = [conn EXCEPT !.writer = "failed"]
    BY ONLY <1>3, <2>2 DEF Conns
  <2>. QED  BY <1>2, <2>1, <2>2, Zenon
<1>10. Connected'
  <2>1. Len(chans'[c].buf) <= Capacity
    <3>1. Len(q) <= Capacity
      BY ONLY <1>1, <1>4, Zenon DEF Connected
    <3>2. Len(q) \in Nat /\ Len(b) \in Nat
      BY ONLY <1>5, <1>6
    <3>. QED  BY ONLY <1>6, <1>7, <3>1, <3>2, ChangesAssumption DEF ChangesAssumption
  <2>2. chans' # <<>>
    BY ONLY <1>4, <1>7
  <2>3. worker' = worker
    BY <1>2
  <2>. QED  BY ONLY <1>1, <1>4, <1>7, <1>9, <2>1, <2>2, <2>3, QueueKeepsConnected, Zenon
<1>11. LinkTypes'
  BY ONLY <1>1, <1>2, <1>7, <1>9, Zenon DEF LinkTypes
<1>12. signalled' \subseteq 1 .. nextCmd - 1
  BY ONLY <1>1, <1>2, Zenon DEF Numbered
<1>13. Numbered'
  BY ONLY <1>1, <1>2, <1>12, Zenon DEF Numbered
<1>14. Sending'
  BY ONLY <1>1, <1>2, <1>7, Zenon DEF Sending, OfItsCall
<1>. QED  BY <1>10, <1>11, <1>13, <1>14, Zenon DEF Linked

\* The reader, the server, the network and the callers.
LEMMA OthersKeepLink ==
  ASSUME Linked,
         \/ startProcessMessagesWorker \/ ServerChange \/ Break
         \/ Close \/ CloseReturns \/ EnsureConnectedNow
  PROVE  Linked'
<1>1. conn \in Conns /\ ctxDone \in BOOLEAN
  BY Zenon DEF Linked, LinkTypes
<1>2. CASE startProcessMessagesWorker
  <2>1. /\ UNCHANGED <<th, snd, chans, nextCmd, worker, outstanding, signalled,
                       chWorkCompleted, ctxDone>>
        /\ \/ conn.out # <<>> /\ conn' = [conn EXCEPT !.out = Tail(@)]
           \/ conn' = [conn EXCEPT !.reader = "ended"]
    BY <1>2, Zenon DEF startProcessMessagesWorker, ConnStep, workerState
  <2>2. conn' \in Conns /\ conn'.ch = conn.ch /\ conn'.writer = conn.writer
    BY ONLY <1>1, <2>1 DEF Conns
  <2>. QED  BY <1>1, <2>1, <2>2, StillKeepsLink, Zenon
<1>3. CASE ServerChange
  <2>1. /\ UNCHANGED <<th, snd, chans, nextCmd, worker, outstanding, signalled,
                       chWorkCompleted, ctxDone>>
        /\ \E c \in UNION {subscription(n).hears : n \in conn.watched} :
             conn' = [conn EXCEPT !.out = Append(@, c)]
    BY <1>3, Zenon DEF ServerChange, ConnStep, workerState
  <2>2. PICK c : /\ c \in UNION {subscription(n).hears : n \in conn.watched}
                 /\ conn' = [conn EXCEPT !.out = Append(@, c)]
    BY ONLY <2>1, Zenon
  <2>3. c \in Changes
    <3>1. conn.watched \subseteq Names
      BY ONLY <1>1 DEF Conns
    <3>. QED  BY ONLY <2>2, <3>1, HearsChanges, Zenon
  <2>4. conn' \in Conns /\ conn'.ch = conn.ch /\ conn'.writer = conn.writer
    <3>1. Append(conn.out, c) \in Seq(Changes)
      <4>1. conn.out \in Seq(Changes)
        BY ONLY <1>1 DEF Conns
      <4>. QED  BY ONLY <4>1, <2>3
    <3> DEFINE o == Append(conn.out, c)
    <3>2. conn' = [conn EXCEPT !.out = o]
      BY ONLY <2>2, Zenon
    <3> HIDE DEF o
    <3>3. o \in Seq(Changes)
      BY ONLY <3>1 DEF o
    <3>. QED  BY ONLY <1>1, <3>2, <3>3 DEF Conns
  <2>. QED  BY <1>1, <2>1, <2>4, StillKeepsLink, Zenon
<1>4. CASE Break
  <2>1. /\ UNCHANGED <<th, snd, chans, nextCmd, worker, outstanding, signalled,
                       chWorkCompleted, ctxDone>>
        /\ conn' = [conn EXCEPT !.up = FALSE, !.watched = {}]
    BY <1>4, Zenon DEF Break, ConnStep, workerState
  <2>2. conn' \in Conns /\ conn'.ch = conn.ch /\ conn'.writer = conn.writer
    BY ONLY <1>1, <2>1 DEF Conns
  <2>. QED  BY <1>1, <2>1, <2>2, StillKeepsLink, Zenon
<1>5. CASE Close \/ CloseReturns \/ EnsureConnectedNow
  <2>1. /\ UNCHANGED <<th, snd, chans, nextCmd, worker, conn>>
        /\ ctxDone' = TRUE \/ ctxDone' = ctxDone
        /\ outstanding' \cup signalled' \subseteq outstanding \cup signalled
        /\ \/ chWorkCompleted' = chWorkCompleted
           \/ chWorkCompleted' = IF chWorkCompleted = "error" THEN "nil" ELSE chWorkCompleted
    BY <1>5 DEF Close, CloseReturns, EnsureConnectedNow, CallerStep,
                       receiveCompleted, cancelOutstandingCommands, confirm
  <2>2. (chWorkCompleted' = "empty") <=> (chWorkCompleted = "empty")
    BY ONLY <2>1
  <2>3. ctxDone' \in BOOLEAN /\ conn' \in Conns /\ conn'.ch = conn.ch /\ conn'.writer = conn.writer
    BY ONLY <1>1, <2>1, Zenon
  <2>. QED  BY <2>1, <2>2, <2>3, StillKeepsLink, Zenon
<1>. QED  BY <1>2, <1>3, <1>4, <1>5, Zenon

\* The worker moves on without touching a channel: no channel of a connection
\* it has left is still open.
LEMMA AdvanceKeepsLink ==
  ASSUME Linked, UNCHANGED <<th, snd, chans, nextCmd, ctxDone>>, conn' \in Conns,
         outstanding' \cup signalled' \subseteq outstanding \cup signalled,
         worker \in {"retry", "stop"} => conn.ch = 0,
         worker' \in {"start", "dial", "connect", "serve", "done"},
         worker' \in {"start", "dial", "done"} => conn'.ch = 0,
         worker' \in {"connect", "serve"} => conn'.ch = Len(chans),
         conn'.writer = "on" => conn'.ch # 0,
         (worker' = "done") <=> (chWorkCompleted' # "empty")
  PROVE  Linked'
<1>1. LinkTypes /\ Numbered /\ Connected /\ Sending
  BY Zenon DEF Linked
<1>2. LinkTypes'
  BY ONLY <1>1, UNCHANGED <<snd, chans, nextCmd, ctxDone>>, conn' \in Conns,
     Zenon DEF LinkTypes
<1>3. Numbered'
  <2>1. outstanding' \subseteq 1 .. nextCmd - 1 /\ signalled' \subseteq 1 .. nextCmd - 1
    BY <1>1, Zenon DEF Numbered
  <2>2. worker' \in {"start", "dial", "connect", "serve", "retry", "stop", "done"}
    BY Zenon
  <2>. QED  BY ONLY <1>1, <2>1, <2>2, UNCHANGED <<snd, nextCmd>>,
               (worker' = "done") <=> (chWorkCompleted' # "empty"), Zenon
            DEF Numbered
<1>4. worker' \notin {"retry", "stop"}
  OBVIOUS
<1>5. ASSUME NEW i \in 1 .. Len(chans)
      PROVE  /\ Len(chans'[i].buf) <= Capacity
             /\ chans'[i].closed <=> /\ i < Len(chans')
                                     /\ worker' \in {"retry", "stop"} => i # conn'.ch
  <2>1. /\ Len(chans[i].buf) <= Capacity
        /\ chans[i].closed <=> /\ i < Len(chans)
                               /\ worker \in {"retry", "stop"} => i # conn.ch
    BY ONLY <1>1, i \in 1 .. Len(chans), Zenon DEF Connected
  <2>2. i # 0
    OBVIOUS
  <2>. QED  BY ONLY <1>4, <2>1, <2>2, worker \in {"retry", "stop"} => conn.ch = 0,
               chans' = chans, Zenon
<1>6. Connected'
  BY ONLY <1>1, <1>4, <1>5, chans' = chans,
     worker' \in {"start", "dial", "done"} => conn'.ch = 0,
     worker' \in {"connect", "serve"} => conn'.ch = Len(chans),
     conn'.writer = "on" => conn'.ch # 0, Zenon DEF Connected
<1>7. Sending'
  BY ONLY <1>1, UNCHANGED <<th, snd, chans>>, Zenon DEF Sending, OfItsCall
<1>. QED  BY <1>2, <1>3, <1>6, <1>7, Zenon DEF Linked

\* Resubscribing, the worker sends a watch.
LEMMA ResubscribeKeepsLink ==
  ASSUME Linked, Resubscribe
  PROVE  Linked'
<1>1. LinkTypes /\ Numbered /\ Connected /\ Sending
  BY Zenon DEF Linked
<1>2. UNCHANGED <<th, chans, signalled, conn, worker, chWorkCompleted, ctxDone>>
  BY Zenon DEF Resubscribe, WorkerStep, program
<1>3. CASE UNCHANGED <<snd, nextCmd, outstanding>>
  <2>1. conn \in Conns /\ ctxDone \in BOOLEAN
    BY <1>1, Zenon DEF LinkTypes
  <2>. QED  BY <1>2, <1>3, <2>1, StillKeepsLink, Zenon
<1>4. ASSUME NEW n \in Names, send("worker", n, TRUE)
      PROVE  Linked'
  <2>1. /\ snd' \in [Senders -> Sends] /\ nextCmd' \in Nat \ {0}
        /\ snd'["worker"].name = n /\ snd'["worker"].watch = TRUE
        /\ snd'["worker"].ch = Len(chans)
        /\ \A q \in Senders : q # "worker" => snd'[q] = snd[q]
        /\ \A q \in Senders : snd'[q].id < nextCmd'
        /\ outstanding' \subseteq 1 .. nextCmd' - 1
        /\ signalled \subseteq 1 .. nextCmd' - 1
    <3>1. TRUE \in BOOLEAN /\ "worker" \in Senders
      BY Records, Zenon
    <3>. QED  BY ONLY <1>1, <3>1, SendEffect, n \in Names, send("worker", n, TRUE), Zenon
  <2>2. LinkTypes'
    BY ONLY <1>1, <1>2, <2>1, Zenon DEF LinkTypes
  <2>3. Numbered'
    BY ONLY <1>1, <1>2, <2>1, Zenon DEF Numbered
  <2>4. Connected'
    BY ONLY <1>1, <1>2, Zenon DEF Connected
  <2>5. Len(chans) \in Nat
    BY <1>1 DEF LinkTypes
  <2>6. ASSUME NEW q \in Senders
        PROVE  snd'[q].ch <= Len(chans') /\ (snd'[q] # NoSend => snd'[q].name \in Names)
    <3>1. snd[q].ch <= Len(chans) /\ (snd[q] # NoSend => snd[q].name \in Names)
      BY <1>1, Zenon DEF Sending
    <3>2. CASE q = "worker"
      BY ONLY <1>2, <2>1, <2>5, <3>2, n \in Names
    <3>3. CASE q # "worker"
      BY ONLY <1>2, <2>1, <3>1, <3>3, q \in Senders, Zenon
    <3>. QED  BY <3>2, <3>3, Zenon
  <2>7. ASSUME NEW u \in Threads
        PROVE  OfItsCall(u)'
    <3>1. OfItsCall(u) /\ snd'[u] = snd[u] /\ th' = th
      BY <1>1, <1>2, <2>1, Records, Zenon DEF Sending
    <3>. QED  BY ONLY <3>1, Zenon DEF OfItsCall
  <2>8. Sending'
    BY ONLY <2>1, <2>6, <2>7, Zenon DEF Sending
  <2>. QED  BY ONLY <2>2, <2>3, <2>4, <2>8, Zenon DEF Linked
<1>. QED  BY <1>3, <1>4, Zenon DEF Resubscribe, NoSending, present

\* Leaving a connection, the worker makes the channel of the next one.
LEMMA LeaveKeepsLink ==
  ASSUME Linked, LeaveConnection
  PROVE  Linked'
<1> DEFINE x == [buf |-> <<>>, closed |-> FALSE]
<1>1. LinkTypes /\ Numbered /\ Connected /\ Sending
  BY Zenon DEF Linked
<1>2. /\ worker = "serve" /\ worker' \in {"retry", "stop"} /\ chans' = Append(chans, x)
      /\ UNCHANGED <<th, snd, nextCmd, outstanding, signalled, conn, chWorkCompleted, ctxDone>>
  BY Zenon DEF LeaveConnection, WorkerStep, program
<1>3. x \in Channels /\ x.buf = <<>> /\ x.closed = FALSE
  BY DEF Channels
<1> HIDE DEF x
<1>4. chans \in Seq(Channels)
  BY <1>1, Zenon DEF LinkTypes
<1>5. /\ chans' \in Seq(Channels) /\ Len(chans') = Len(chans) + 1 /\ chans' # <<>>
      /\ chans'[Len(chans) + 1] = x /\ Len(chans) \in Nat
      /\ \A i \in 1 .. Len(chans) : chans'[i] = chans[i]
  BY ONLY <1>2, <1>3, <1>4
<1>6. LinkTypes'
  BY ONLY <1>1, <1>2, <1>5, Zenon DEF LinkTypes
<1>7. Numbered'
  BY ONLY <1>1, <1>2 DEF Numbered
<1>8. ASSUME NEW i \in 1 .. Len(chans')
      PROVE  /\ Len(chans'[i].buf) <= Capacity
             /\ chans'[i].closed <=> /\ i < Len(chans')
                                     /\ worker' \in {"retry", "stop"} => i # conn'.ch
  <2>1. conn'.ch = Len(chans)
    BY <1>1, <1>2, Zenon DEF Connected
  <2>2. CASE i = Len(chans) + 1
    BY ONLY <1>3, <1>5, <2>2, ChangesAssumption DEF ChangesAssumption
  <2>3. CASE i \in 1 .. Len(chans)
    <3>1. /\ Len(chans[i].buf) <= Capacity
          /\ chans[i].closed <=> i < Len(chans)
      BY ONLY <1>1, <1>2, <2>3 DEF Connected
    <3>. QED  BY ONLY <1>2, <1>5, <2>1, <2>3, <3>1
  <2>4. i = Len(chans) + 1 \/ i \in 1 .. Len(chans)
    BY <1>5
  <2>. QED  BY <2>2, <2>3, <2>4, Zenon
<1>9. Connected'
  <2>1. conn'.ch = Len(chans') - 1 /\ worker' \notin {"start", "dial", "done", "connect", "serve"}
    BY ONLY <1>1, <1>2, <1>5 DEF Connected
  <2>2. conn'.writer = "on" => conn'.ch # 0
    BY ONLY <1>1, <1>2, Zenon DEF Connected
  <2>. QED  BY ONLY <1>5, <1>8, <2>1, <2>2, Zenon DEF Connected
<1>10. ASSUME NEW q \in Senders
       PROVE  snd'[q].ch <= Len(chans') /\ (snd'[q] # NoSend => snd'[q].name \in Names)
  <2>1. /\ snd[q].ch <= Len(chans) /\ (snd[q] # NoSend => snd[q].name \in Names)
        /\ snd[q] \in Sends
    BY <1>1, Zenon DEF Sending, LinkTypes
  <2>2. snd[q].ch \in Nat
    BY ONLY <2>1 DEF Sends
  <2>. QED  BY ONLY <1>2, <1>5, <2>1, <2>2
<1>11. Sending'
  BY ONLY <1>1, <1>2, <1>10, Zenon DEF Sending, OfItsCall
<1>. QED  BY ONLY <1>6, <1>7, <1>9, <1>11, Zenon DEF Linked

\* The channel of the connection that was left is closed.
LEMMA CloseKeepsLink ==
  ASSUME Linked, CloseConnection
  PROVE  Linked'
<1> DEFINE c == conn.ch
           x == [buf |-> <<>>, closed |-> TRUE]
<1>1. LinkTypes /\ Numbered /\ Connected /\ Sending
  BY Zenon DEF Linked
<1>2. /\ worker \in {"retry", "stop"} /\ c # 0 /\ chans' = [chans EXCEPT ![c] = x]
      /\ conn' = NoConn
      /\ UNCHANGED <<th, snd, nextCmd, outstanding, signalled, worker, chWorkCompleted, ctxDone>>
  BY Zenon DEF CloseConnection, WorkerStep, program, workerState
<1>3. x \in Channels /\ x.buf = <<>> /\ x.closed = TRUE
  BY DEF Channels
<1> HIDE DEF x
<1>4. chans \in Seq(Channels) /\ c = Len(chans) - 1 /\ c \in Nat
  BY <1>1, <1>2 DEF LinkTypes, Connected, Conns
<1>5. c \in 1 .. Len(chans) /\ c < Len(chans)
  <2>1. c # 0 /\ Len(chans) \in Nat
    BY <1>2, <1>4
  <2> HIDE DEF c
  <2>. QED  BY ONLY <2>1, <1>4
<1> HIDE DEF c
<1>6. /\ chans' \in Seq(Channels) /\ Len(chans') = Len(chans) /\ chans' # <<>>
      /\ chans'[c] = x
      /\ \A i \in 1 .. Len(chans) : i # c => chans'[i] = chans[i]
  BY ONLY <1>2, <1>3, <1>4, <1>5
<1>7. NoConn \in Conns
  BY DEF NoConn, Conns
<1>8. LinkTypes'
  BY ONLY <1>1, <1>2, <1>6, <1>7, Zenon DEF LinkTypes
<1>9. Numbered'
  BY ONLY <1>1, <1>2, Zenon DEF Numbered
<1>10. conn'.ch = 0 /\ conn'.writer # "on"
  BY ONLY <1>2, Records
<1>11. ASSUME NEW i \in 1 .. Len(chans)
       PROVE  /\ Len(chans'[i].buf) <= Capacity
              /\ chans'[i].closed <=> /\ i < Len(chans')
                                      /\ worker' \in {"retry", "stop"} => i # conn'.ch
  <2>1. CASE i = c
    BY ONLY <1>3, <1>5, <1>6, <1>10, <2>1, ChangesAssumption DEF ChangesAssumption
  <2>2. CASE i # c
    <3>1. /\ Len(chans[i].buf) <= Capacity
          /\ chans[i].closed <=> i < Len(chans)
      BY ONLY <1>1, <2>2, i \in 1 .. Len(chans), Zenon DEF Connected, c
    <3>2. i # 0
      OBVIOUS
    <3>. QED  BY ONLY <1>6, <1>10, <2>2, <3>1, <3>2, i \in 1 .. Len(chans), Zenon
  <2>. QED  BY <2>1, <2>2, Zenon
<1>12. Connected'
  BY ONLY <1>2, <1>6, <1>10, <1>11 DEF Connected
<1>13. Sending'
  BY ONLY <1>1, <1>2, <1>6, Zenon DEF Sending, OfItsCall
<1>. QED  BY ONLY <1>8, <1>9, <1>12, <1>13, Zenon DEF Linked

\* A step of doWork keeps the commands and the connection in order.
LEMMA WorkerKeepsLink ==
  ASSUME Linked, WorkerNext
  PROVE  Linked'
<1>1. conn \in Conns /\ Connected
  BY Zenon DEF Linked, LinkTypes
<1>2. (worker = "done") <=> (chWorkCompleted # "empty")
  BY Zenon DEF Linked, Numbered
<1>3. CASE getPreferredNode
  <2>1. /\ UNCHANGED <<th, snd, chans, nextCmd, ctxDone, outstanding, signalled, conn>>
        /\ worker = "start"
        /\ \/ worker' = "dial" /\ chWorkCompleted' = chWorkCompleted
           \/ worker' = "done" /\ chWorkCompleted' = "error"
    BY <1>3, Zenon DEF getPreferredNode, WorkerStep, program
  <2>2. /\ worker \notin {"retry", "stop"} /\ worker' \in {"dial", "done"}
        /\ (worker' = "done") <=> (chWorkCompleted' # "empty")
    BY ONLY <1>2, <2>1
  <2>3. conn'.ch = 0 /\ conn'.writer # "on"
    BY ONLY <1>1, <2>1, Zenon DEF Connected
  <2>. QED  BY <1>1, <2>1, <2>2, <2>3, AdvanceKeepsLink
<1>4. CASE DialFails
  <2>1. /\ UNCHANGED <<th, snd, chans, nextCmd, ctxDone, conn>>
        /\ worker = "dial" /\ worker' = "done" /\ chWorkCompleted' = "error"
        /\ outstanding' = {} /\ signalled' = signalled \cup outstanding
    BY <1>4, Zenon DEF DialFails, WorkerStep, program, cancelOutstandingCommands, confirm
  <2>2. /\ worker \notin {"retry", "stop"}
        /\ (worker' = "done") <=> (chWorkCompleted' # "empty")
    BY ONLY <1>2, <2>1
  <2>3. conn'.ch = 0 /\ conn'.writer # "on"
    BY ONLY <1>1, <2>1, Zenon DEF Connected
  <2>. QED  BY <1>1, <2>1, <2>2, <2>3, AdvanceKeepsLink
<1>5. CASE DialSucceeds
  <2>1. /\ UNCHANGED <<th, snd, chans, nextCmd, ctxDone, outstanding, signalled,
                       chWorkCompleted>>
        /\ worker = "dial" /\ worker' = "connect"
        /\ conn' = [NoConn EXCEPT !.up = TRUE, !.writer = "on", !.reader = "on",
                                  !.ch = Len(chans)]
    BY <1>5, Zenon DEF DialSucceeds, WorkerStep, program
  <2>2. /\ worker \notin {"retry", "stop"}
        /\ (worker' = "done") <=> (chWorkCompleted' # "empty")
    BY ONLY <1>2, <2>1
  <2>3. Len(chans) \in Nat \ {0}
    BY DEF Linked, LinkTypes, Connected
  <2>4. conn' \in Conns /\ conn'.ch = Len(chans)
    <3>1. NoConn \in Conns
      BY DEF NoConn, Conns
    <3>2. ASSUME NEW c \in Conns, NEW k \in Nat
          PROVE  LET d == [c EXCEPT !.up = TRUE, !.writer = "on", !.reader = "on", !.ch = k]
                 IN  d \in Conns /\ d.ch = k
      BY ONLY c \in Conns, k \in Nat DEF Conns
    <3>3. Len(chans) \in Nat
      BY <2>3
    <3>. QED  BY ONLY <2>1, <3>1, <3>2, <3>3, Zenon
  <2>. QED  BY <2>1, <2>2, <2>3, <2>4, AdvanceKeepsLink
<1>6. CASE Announce
  <2>1. /\ UNCHANGED <<th, snd, chans, nextCmd, ctxDone, outstanding, signalled, conn,
                       chWorkCompleted>>
        /\ worker = "connect" /\ worker' \in {"connect", "serve"}
    BY <1>6, Zenon DEF Announce, WorkerStep, program
  <2>2. /\ worker \notin {"retry", "stop"}
        /\ (worker' = "done") <=> (chWorkCompleted' # "empty")
    BY ONLY <1>2, <2>1
  <2>3. conn'.ch = Len(chans) /\ (conn'.writer = "on" => conn'.ch # 0)
    BY ONLY <1>1, <2>1, Zenon DEF Connected
  <2>. QED  BY <1>1, <2>1, <2>2, <2>3, AdvanceKeepsLink
<1>7. CASE doWork
  <2>1. /\ UNCHANGED <<th, snd, chans, nextCmd, ctxDone, conn>>
        /\ worker \in {"retry", "stop"} /\ conn.ch = 0
        /\ outstanding' = {} /\ signalled' = signalled \cup outstanding
        /\ \/ worker' = "dial" /\ chWorkCompleted' = chWorkCompleted
           \/ worker' = "done" /\ chWorkCompleted' = "nil"
    BY <1>7, Zenon DEF doWork, WorkerStep, program, cancelOutstandingCommands, confirm
  <2>2. /\ worker' \in {"dial", "done"}
        /\ (worker' = "done") <=> (chWorkCompleted' # "empty")
    BY ONLY <1>2, <2>1
  <2>3. conn'.ch = 0 /\ conn'.writer # "on"
    BY ONLY <1>1, <2>1, Zenon DEF Connected
  <2>. QED  BY <1>1, <2>1, <2>2, <2>3, AdvanceKeepsLink
<1>. QED  BY <1>3, <1>4, <1>5, <1>6, <1>7, ResubscribeKeepsLink, LeaveKeepsLink,
             CloseKeepsLink, Zenon DEF WorkerNext

-----------------------------------------------------------------------------
(* What the server watches.                                                *)

\* A command is queued last: a watch of the name decides, and a command of
\* another name changes nothing.
LEMMA QueuedIsWatched ==
  ASSUME NEW n, NEW w, NEW b \in Seq(Commands), NEW m \in Commands,
         m.name = n => m.watch,
         WillBeWatched(n, w, b) \/ m.name = n
  PROVE  WillBeWatched(n, w, Append(b, m))
<1> DEFINE d == Append(b, m)
<1>1. /\ Len(b) \in Nat /\ Len(d) = Len(b) + 1 /\ d[Len(b) + 1] = m
      /\ \A i \in 1 .. Len(b) : d[i] = b[i]
  OBVIOUS
<1> HIDE DEF d
<1>2. CASE m.name = n
  <2>1. Len(d) \in 0 .. Len(d) /\ Len(d) # 0 /\ d[Len(d)] = m
    BY ONLY <1>1
  <2>2. \A j \in Len(d) + 1 .. Len(d) : d[j].name = n => d[j].watch
    BY ONLY <1>1
  <2>3. WatchedAt(n, w, d, Len(d))
    BY <1>2, <2>1, Zenon DEF WatchedAt
  <2>. QED  BY ONLY <2>1, <2>2, <2>3, Zenon DEF WillBeWatched, d
<1>3. CASE m.name # n /\ WillBeWatched(n, w, b)
  <2>1. PICK i \in 0 .. Len(b) :
          /\ WatchedAt(n, w, b, i)
          /\ \A j \in i + 1 .. Len(b) : b[j].name = n => b[j].watch
    BY <1>3, Zenon DEF WillBeWatched
  <2>2. i \in 0 .. Len(d) /\ (i # 0 => d[i] = b[i])
    BY ONLY <1>1, i \in 0 .. Len(b)
  <2>3. WatchedAt(n, w, d, i)
    BY ONLY <2>1, <2>2, Zenon DEF WatchedAt
  <2>4. ASSUME NEW j \in i + 1 .. Len(d), d[j].name = n
        PROVE  d[j].watch
    <3>1. (j \in i + 1 .. Len(b) /\ d[j] = b[j]) \/ d[j] = m
      BY ONLY <1>1, i \in 0 .. Len(b), j \in i + 1 .. Len(d)
    <3>. QED  BY ONLY <1>3, <2>1, <2>4, <3>1, Zenon
  <2>. QED  BY ONLY <2>2, <2>3, <2>4, Zenon DEF WillBeWatched, d
<1>. QED  BY <1>2, <1>3, Zenon

\* The server obeys the first command of the queue.
LEMMA ObeyedIsWatched ==
  ASSUME NEW n, NEW w, NEW b \in Seq(Commands), b # <<>>, WillBeWatched(n, w, b)
  PROVE  WillBeWatched(n, IF Head(b).watch THEN w \cup {Head(b).name}
                                           ELSE w \ {Head(b).name}, Tail(b))
<1> DEFINE d == Tail(b)
           v == IF Head(b).watch THEN w \cup {Head(b).name} ELSE w \ {Head(b).name}
<1>1. /\ Len(b) \in Nat \ {0} /\ Len(d) = Len(b) - 1 /\ Head(b) = b[1]
      /\ \A i \in 1 .. Len(b) - 1 : d[i] = b[i + 1]
  OBVIOUS
<1>2. PICK i \in 0 .. Len(b) :
        /\ WatchedAt(n, w, b, i)
        /\ \A j \in i + 1 .. Len(b) : b[j].name = n => b[j].watch
  BY Zenon DEF WillBeWatched
<1>3. (i = 0 => 1 \in i + 1 .. Len(b)) /\ i \in Int
  BY ONLY <1>1, i \in 0 .. Len(b)
<1>4. i \in {0, 1} => n \in v
  <2>1. CASE i = 0
    <3>1. n \in w /\ (b[1].name = n => b[1].watch)
      BY ONLY <1>2, <1>3, <2>1, Zenon DEF WatchedAt
    <3>. QED  BY ONLY <1>1, <3>1
  <2>2. CASE i = 1
    <3>1. b[1].name = n /\ b[1].watch
      BY ONLY <1>2, <2>2 DEF WatchedAt
    <3>. QED  BY ONLY <1>1, <3>1
  <2>. QED  BY <2>1, <2>2
<1> DEFINE k == IF i = 0 THEN 0 ELSE i - 1
<1> HIDE DEF d, v
<1>5. k \in 0 .. Len(d) /\ (k = 0 => i \in {0, 1}) /\ (k # 0 => d[k] = b[i] /\ i # 0)
  BY ONLY <1>1, i \in 0 .. Len(b)
<1>6. WatchedAt(n, v, d, k)
  <2> HIDE DEF k
  <2>. QED  BY ONLY <1>2, <1>4, <1>5, Zenon DEF WatchedAt
<1>7. ASSUME NEW j \in k + 1 .. Len(d), d[j].name = n
      PROVE  d[j].watch
  <2>1. j + 1 \in i + 1 .. Len(b) /\ d[j] = b[j + 1]
    BY ONLY <1>1, i \in 0 .. Len(b), j \in k + 1 .. Len(d)
  <2>. QED  BY ONLY <1>2, <1>7, <2>1, Zenon
<1> HIDE DEF k
<1>. QED  BY ONLY <1>5, <1>6, <1>7, Zenon DEF WillBeWatched, d, v

\* Steps outside the goroutines' calls.
LEMMA CoverKeepsWatching ==
  ASSUME Watching, UNCHANGED <<th, subscribers, raced>>, Serving' => Serving,
         \A n \in Names : Serving' /\ Settled(n) /\ Covered(n) => Covered(n)'
  PROVE  Watching'
<1>1. ASSUME NEW n \in Names, Settled(n)'
      PROVE  Settled(n)
  BY ONLY <1>1, UNCHANGED <<th, subscribers, raced>>, Zenon DEF Settled
<1>. QED  BY <1>1, Zenon DEF Watching

\* A command under way to the connection keeps its name covered.
LEMMA SendsStay ==
  ASSUME NEW n, UNCHANGED <<conn, chans, worker, due, visited>>, Covered(n),
         \A q \in Senders : snd[q].watch /\ snd[q].ch = conn.ch => snd'[q] = snd[q]
  PROVE  Covered(n)'
BY Zenon DEF Covered

\* Subscribing and cancelling: a name in the map whose watch has been sent, and
\* whose unwatch has not, will be watched by the server.
LEMMA ThreadKeepsWatching ==
  ASSUME CallTypes, OneCall, Linked, Watching, NEW t \in Threads, ThreadAction(t)
  PROVE  Watching'
<1>1. LinkTypes /\ Numbered /\ Connected /\ Sending
  BY Zenon DEF Linked
<1>2. UNCHANGED <<chans, worker, due, visited, conn, ctxDone>>
  BY Zenon DEF ThreadAction, Subscribe, getOrAddSubscribers, connectSubscribers,
               register, unregister, maybeDisconnectSubscribers,
               disconnectSubscribers, ThreadStep, workerState
<1>3. OfItsCall(t) /\ Placed(t) /\ DOMAIN th = Threads /\ t \in Senders
  BY Records DEF Linked, Sending, OneCall, Owned, CallTypes
<1>4. \A u \in Threads : u # t => th'[u] = th[u]
  <2>1. \/ \E r : th' = [th EXCEPT ![t] = r]
        \/ th' = [th EXCEPT ![t].pc = "connect", ![t].obj = Len(handlers) + 1]
        \/ \E l : th' = [th EXCEPT ![t].pc = l]
    BY Zenon DEF ThreadAction, Subscribe, getOrAddSubscribers, connectSubscribers,
               register, unregister, maybeDisconnectSubscribers,
               disconnectSubscribers
  <2>. QED  BY ONLY <1>3, <2>1
<1>5. \A q \in Senders : snd[q].watch /\ snd[q].ch = conn.ch => snd'[q] = snd[q]
  <2>1. CASE NoSending
    BY <2>1, Zenon DEF NoSending
  <2>2. CASE /\ th[t].pc \in {"connect", "unwatch"}
             /\ \E r : snd' = [snd EXCEPT ![t] = r]
    <3>1. snd[t] = NoSend
      BY ONLY <1>3, <2>2, Zenon DEF OfItsCall
    <3>2. \A q \in Senders : q # t => snd'[q] = snd[q]
      <4>1. DOMAIN snd = Senders
        BY <1>1 DEF LinkTypes
      <4>. QED  BY ONLY <2>2, <4>1
    <3>. QED  BY ONLY <3>1, <3>2, Records, Zenon
  <2>3. \/ NoSending
        \/ /\ th[t].pc \in {"connect", "unwatch"}
           /\ \E r : snd' = [snd EXCEPT ![t] = r]
    BY Zenon DEF ThreadAction, Subscribe, getOrAddSubscribers, connectSubscribers,
               register, unregister, maybeDisconnectSubscribers,
               disconnectSubscribers, send
  <2>. QED  BY <2>1, <2>2, <2>3, Zenon
<1>6. raced \subseteq raced'
  BY Zenon DEF ThreadAction, Subscribe, getOrAddSubscribers, connectSubscribers,
               register, unregister, maybeDisconnectSubscribers,
               disconnectSubscribers, noteRace, Same
<1>7. SUFFICES ASSUME Serving', NEW n \in Names, Settled(n)'
               PROVE  Covered(n)'
  BY Zenon DEF Watching
<1>8. Serving
  BY <1>2, <1>7, Zenon DEF Serving
<1>9. CASE Settled(n)
  BY <1>2, <1>5, <1>8, <1>9, SendsStay, Zenon DEF Watching
<1>10. CASE subscribers[n] = 0
  <2>1. subscribers' # subscribers
    BY <1>7, <1>10, Zenon DEF Settled
  <2>2. CASE getOrAddSubscribers(t)
    <3>1. /\ subscribers' = [subscribers EXCEPT ![th[t].name] = Len(handlers) + 1]
          /\ th' = [th EXCEPT ![t].pc = "connect", ![t].obj = Len(handlers) + 1]
      BY <2>2, Zenon DEF getOrAddSubscribers
    <3>2. th'[t].pc = "connect" /\ th'[t].name = th[t].name
      BY <3>1 DEF CallTypes
    <3>3. th[t].name = n
      <4>1. subscribers'[n] # subscribers[n] /\ DOMAIN subscribers = Names
        BY <1>7, <1>10 DEF Settled, CallTypes
      <4>. QED  BY ONLY <3>1, <4>1
    <3>. QED  BY <1>7, <3>2, <3>3, Zenon DEF Settled
  <2>3. CASE subscribers' = [subscribers EXCEPT ![th[t].name] = 0]
    <3>1. subscribers'[n] # 0 /\ DOMAIN subscribers = Names
      BY <1>7 DEF Settled, CallTypes
    <3>. QED  BY ONLY <1>10, <2>3, <3>1, n \in Names
  <2>4. \/ getOrAddSubscribers(t) \/ subscribers' = subscribers
        \/ subscribers' = [subscribers EXCEPT ![th[t].name] = 0]
    BY Zenon DEF ThreadAction, Subscribe, connectSubscribers,
               register, unregister, maybeDisconnectSubscribers,
               disconnectSubscribers
  <2>. QED  BY <2>1, <2>2, <2>3, <2>4, Zenon
<1>11. CASE th[t].name = n /\ th[t].pc = "connect"
  <2>1. connectSubscribers(t)
    BY <1>11 DEF ThreadAction, Subscribe, getOrAddSubscribers, connectSubscribers,
               register, unregister, maybeDisconnectSubscribers,
               disconnectSubscribers
  <2>2. ~ctxDone
    BY <1>8, Zenon DEF Serving
  <2>3. send(t, n, TRUE)
    BY <1>11, <2>1, <2>2, Zenon DEF connectSubscribers
  <2>4. snd'[t].name = n /\ snd'[t].watch = TRUE /\ snd'[t].ch = Len(chans)
    <3>1. TRUE \in BOOLEAN
      OBVIOUS
    <3>. QED  BY ONLY <1>1, <1>3, <2>3, <3>1, n \in Names, SendEffect, Zenon
  <2>5. conn'.ch = Len(chans)
    BY ONLY <1>1, <1>2, <1>8, Zenon DEF Connected, Serving
  <2>. QED  BY ONLY <1>3, <2>4, <2>5, Zenon DEF Covered
<1>12. CASE th[t].name = n /\ th[t].pc = "delete"
  <2>1. disconnectSubscribers(t)
    BY <1>12 DEF ThreadAction, Subscribe, getOrAddSubscribers, connectSubscribers,
               register, unregister, maybeDisconnectSubscribers,
               disconnectSubscribers
  <2>2. subscribers' = [subscribers EXCEPT ![n] = 0]
    BY <1>12, <2>1 DEF disconnectSubscribers
  <2>3. subscribers'[n] # 0 /\ DOMAIN subscribers = Names
    BY <1>7 DEF Settled, CallTypes
  <2>. QED  BY ONLY <2>2, <2>3, n \in Names
<1>13. \/ Settled(n) \/ subscribers[n] = 0
       \/ th[t].name = n /\ th[t].pc \in {"connect", "delete"}
  <2>1. n \notin raced
    BY <1>6, <1>7, Zenon DEF Settled
  <2>. QED  BY ONLY <1>4, <1>7, <2>1, Zenon DEF Settled
<1>. QED  BY <1>9, <1>10, <1>11, <1>12, <1>13, Zenon

\* A command enters its channel: an unwatch only of a name whose call is at
\* its end.
LEMMA PutKeepsWatching ==
  ASSUME Linked, Watching, NEW p \in Senders, PutCommand(p)
  PROVE  Watching'
<1> DEFINE c == snd[p].ch
           m == [id |-> snd[p].id, name |-> snd[p].name, watch |-> snd[p].watch]
           b == Append(chans[c].buf, m)
<1>1. LinkTypes /\ Numbered /\ Connected /\ Sending
  BY Zenon DEF Linked
<1>2. /\ c # 0
      /\ UNCHANGED <<th, subscribers, raced, conn, worker, due, visited, ctxDone>>
  BY Zenon DEF PutCommand, workerState, program
<1>3. Serving' => Serving
  BY <1>2, Zenon DEF Serving
<1>4. CASE UNCHANGED <<chans, snd>>
  <2>1. \A n \in Names : Covered(n) => Covered(n)'
    BY <1>2, <1>4, Zenon DEF Covered
  <2>. QED  BY ONLY Watching, <1>2, <1>3, <2>1, CoverKeepsWatching, Zenon
<1>5. CASE /\ chans' = [chans EXCEPT ![c].buf = b]
           /\ snd' = [snd EXCEPT ![p] = IF @.watch THEN [@ EXCEPT !.ch = 0] ELSE NoSend]
  <2>1. snd[p] \in Sends /\ c \in Nat /\ chans \in Seq(Channels) /\ c <= Len(chans)
    BY <1>1, p \in Senders DEF LinkTypes, Sends, Sending
  <2>2. snd[p].name \in Names /\ c \in 1 .. Len(chans)
    <3>1. snd[p] # NoSend
      BY <1>2, Records, Zenon
    <3>2. snd[p].name \in Names
      BY <1>1, <3>1, Zenon DEF Sending
    <3>. QED  BY ONLY <3>2, <2>1, <1>2
  <2>3. /\ m \in Commands /\ m.name = snd[p].name /\ m.watch = snd[p].watch
    BY ONLY <2>1, <2>2 DEF Commands, Sends
  <2> HIDE DEF m
  <2>4. chans[c].buf \in Seq(Commands)
    <3>1. chans[c] \in Channels
      BY ONLY <2>1, <2>2
    <3>. QED  BY ONLY <3>1 DEF Channels
  <2> HIDE DEF c
  <2>5. b \in Seq(Commands)
    BY ONLY <2>3, <2>4
  <2>6. chans' = [chans EXCEPT ![c].buf = b]
    BY ONLY <1>5, Zenon
  <2>7. c = conn.ch => chans'[conn.ch].buf = Append(chans[conn.ch].buf, m)
    <3> HIDE DEF b
    <3>1. chans'[c].buf = b
      BY ONLY <2>1, <2>2, <2>5, <2>6, QueueEffect, Zenon
    <3>. QED  BY ONLY <3>1, Zenon DEF b
  <2>8. Serving /\ c # conn.ch => chans'[conn.ch] = chans[conn.ch]
    <3>1. ASSUME Serving PROVE conn.ch \in 1 .. Len(chans)
      <4>1. conn.ch = Len(chans) /\ chans # <<>>
        BY <1>1, <3>1, Zenon DEF Connected, Serving
      <4>. QED  BY ONLY <2>1, <4>1
    <3>2. \A i \in 1 .. Len(chans) : i # c => chans'[i] = chans[i]
      <4> HIDE DEF b
      <4>. QED  BY ONLY <2>1, <2>2, <2>5, <2>6, QueueEffect, Zenon
    <3>. QED  BY <3>1, <3>2, Zenon
  <2>9. \A q \in Senders : q # p => snd'[q] = snd[q]
    <3>1. DOMAIN snd = Senders
      BY <1>1 DEF LinkTypes
    <3>. QED  BY ONLY <1>5, <3>1
  <2>10. ASSUME NEW n \in Names, Serving, Settled(n), Covered(n)
         PROVE  Covered(n)'
    <3>1. m.name = n => m.watch
      <4>1. CASE p = "worker"
        <5>1. snd[p] # NoSend
          BY <1>2, Records, Zenon DEF c
        <5>. QED  BY ONLY <1>1, <2>3, <4>1, <5>1, Zenon DEF Sending
      <4>2. CASE p \in Threads
        <5>1. snd[p] # NoSend /\ OfItsCall(p)
          BY <1>1, <1>2, <4>2, Records, Zenon DEF c, Sending
        <5>. QED  BY ONLY <2>3, <2>10, <4>2, <5>1, Zenon DEF OfItsCall, Settled
      <4>. QED  BY <4>1, <4>2, p \in Senders, Zenon DEF Senders
    <3>2. CASE WillBeWatched(n, conn.watched, chans[conn.ch].buf) /\ c = conn.ch
      <4>1. WillBeWatched(n, conn.watched, Append(chans[c].buf, m))
        BY ONLY <2>3, <2>4, <3>1, <3>2, QueuedIsWatched, Zenon
      <4>. QED  BY ONLY <1>2, <2>7, <3>2, <4>1, Zenon DEF Covered
    <3>3. CASE WillBeWatched(n, conn.watched, chans[conn.ch].buf) /\ c # conn.ch
      BY ONLY <1>2, <2>8, <2>10, <3>3, Zenon DEF Covered
    <3>4. ASSUME NEW q \in Senders, snd[q].name = n, snd[q].watch, snd[q].ch = conn.ch
          PROVE  Covered(n)'
      <4>1. CASE q = p
        <5>1. c = conn.ch /\ m.name = n
          BY <2>3, <3>4, <4>1, Zenon DEF c
        <5>2. WillBeWatched(n, conn.watched, Append(chans[c].buf, m))
          BY ONLY <2>3, <2>4, <3>1, <5>1, QueuedIsWatched, Zenon
        <5>. QED  BY ONLY <1>2, <2>7, <5>1, <5>2, Zenon DEF Covered
      <4>2. CASE q # p
        BY ONLY <1>2, <2>9, <3>4, <4>2, q \in Senders, Zenon DEF Covered
      <4>. QED  BY <4>1, <4>2, Zenon
    <3>5. CASE worker = "connect" /\ n \in due \ visited
      BY ONLY <1>2, <3>5, Zenon DEF Covered
    <3>. QED  BY <2>10, <3>2, <3>3, <3>4, <3>5, Zenon DEF Covered
  <2>. QED  BY ONLY Watching, <1>2, <1>3, <2>10, CoverKeepsWatching, Zenon
<1>. QED  BY <1>4, <1>5, Zenon DEF PutCommand

\* Only what has left its channel's queue is waited for.
LEMMA WaitKeepsWatching ==
  ASSUME Linked, Watching, NEW p \in Senders, waitForConfirmation(p)
  PROVE  Watching'
<1>1. LinkTypes /\ Connected
  BY Zenon DEF Linked
<1>2. /\ UNCHANGED <<th, subscribers, raced, chans, conn, worker, due, visited, ctxDone>>
      /\ snd[p].ch = 0 /\ snd' = [snd EXCEPT ![p] = NoSend]
  BY Zenon DEF waitForConfirmation, workerState, program
<1>3. \A q \in Senders : q # p => snd'[q] = snd[q]
  <2>1. DOMAIN snd = Senders
    BY <1>1 DEF LinkTypes
  <2>. QED  BY ONLY <1>2, <2>1
<1>4. Serving' => Serving
  BY <1>2, Zenon DEF Serving
<1>5. ASSUME NEW n \in Names, Serving, Covered(n)
      PROVE  Covered(n)'
  <2>1. conn.ch # 0
    BY ONLY <1>1, <1>5, Zenon DEF Connected, Serving
  <2>2. \A q \in Senders : snd[q].watch /\ snd[q].ch = conn.ch => snd'[q] = snd[q]
    BY ONLY <1>2, <1>3, <2>1, Zenon
  <2>. QED  BY ONLY <1>2, <1>5, <2>2, SendsStay, Zenon
<1>. QED  BY ONLY Watching, <1>2, <1>4, <1>5, CoverKeepsWatching, Zenon

\* The writer hands the first command to the server, or the connection is lost.
LEMMA WriterKeepsWatching ==
  ASSUME Linked, Watching, startSendWorker
  PROVE  Watching'
<1> DEFINE c == conn.ch
           q == chans[c].buf
           v == IF Head(q).watch THEN conn.watched \cup {Head(q).name}
                                 ELSE conn.watched \ {Head(q).name}
<1>1. LinkTypes /\ Connected
  BY Zenon DEF Linked
<1>2. /\ conn.writer = "on" /\ q # <<>> /\ chans' = [chans EXCEPT ![c].buf = Tail(q)]
      /\ UNCHANGED <<th, subscribers, raced, snd, worker, due, visited, ctxDone>>
      /\ \/ conn' = [conn EXCEPT !.watched = v]
         \/ conn' = [conn EXCEPT !.writer = "failed"]
  BY Zenon DEF startSendWorker, ConnStep, workerState
<1>3. conn \in Conns /\ chans \in Seq(Channels)
  BY <1>1, Zenon DEF LinkTypes
<1>4. CASE conn' = [conn EXCEPT !.writer = "failed"]
  <2>1. conn'.writer # "on"
    BY ONLY <1>3, <1>4 DEF Conns
  <2>. QED  BY ONLY <2>1, Zenon DEF Watching, Serving
<1>5. CASE conn' = [conn EXCEPT !.watched = v]
  <2>1. conn'.watched = v /\ conn'.ch = c /\ conn'.up = conn.up /\ conn'.writer = conn.writer
    BY ONLY <1>3, <1>5 DEF Conns
  <2> HIDE DEF v
  <2>2. Serving' => Serving
    BY ONLY <1>2, <2>1, Zenon DEF Serving
  <2>3. ASSUME NEW n \in Names, Serving, Covered(n)
        PROVE  Covered(n)'
    <3>1. c \in 1 .. Len(chans)
      <4>1. c = Len(chans) /\ chans # <<>>
        BY <1>1, <2>3, Zenon DEF Connected, Serving
      <4> HIDE DEF c
      <4>. QED  BY ONLY <1>3, <4>1
    <3>2. q \in Seq(Commands)
      <4> HIDE DEF c
      <4>1. chans[c] \in Channels
        BY ONLY <1>3, <3>1
      <4>. QED  BY ONLY <4>1 DEF Channels
    <3>3. chans'[c].buf = Tail(q)
      <4>1. Tail(q) \in Seq(Commands)
        <5> HIDE DEF q
        <5>. QED  BY ONLY <1>2, <3>2
      <4>2. chans' = [chans EXCEPT ![c].buf = Tail(q)]
        BY <1>2
      <4> DEFINE b == Tail(q)
      <4>3. b \in Seq(Commands) /\ chans' = [chans EXCEPT ![c].buf = b]
        BY ONLY <4>1, <4>2, Zenon
      <4> HIDE DEF c, b
      <4>4. chans'[c].buf = b
        BY ONLY <1>3, <3>1, <4>3, QueueEffect, Zenon
      <4>. QED  BY ONLY <4>4, Zenon DEF b
    <3>4. CASE WillBeWatched(n, conn.watched, q)
      <4>1. WillBeWatched(n, v, Tail(q))
        <5> HIDE DEF q
        <5>. QED  BY ONLY <1>2, <3>2, <3>4, ObeyedIsWatched, Zenon DEF v
      <4>. QED  BY ONLY <2>1, <3>3, <4>1, Zenon DEF Covered
    <3>5. CASE \E p \in Senders : snd[p].name = n /\ snd[p].watch /\ snd[p].ch = conn.ch
      BY ONLY <1>2, <2>1, <3>5, Zenon DEF Covered
    <3>6. CASE worker = "connect" /\ n \in due \ visited
      BY ONLY <1>2, <3>6, Zenon DEF Covered
    <3>. QED  BY ONLY <2>3, <3>4, <3>5, <3>6, Zenon DEF Covered
  <2>. QED  BY ONLY Watching, <1>2, <2>2, <2>3, CoverKeepsWatching, Zenon
<1>. QED  BY <1>2, <1>4, <1>5, Zenon

\* The reader, the server, the network and the callers watch nothing.
LEMMA OthersKeepWatching ==
  ASSUME Linked, Watching,
         \/ startProcessMessagesWorker \/ ServerChange \/ Break
         \/ Close \/ CloseReturns \/ EnsureConnectedNow
  PROVE  Watching'
<1>1. conn \in Conns
  BY Zenon DEF Linked, LinkTypes
<1>2. CASE Break
  <2>1. conn' = [conn EXCEPT !.up = FALSE, !.watched = {}]
    BY <1>2, Zenon DEF Break
  <2>2. ~conn'.up
    BY ONLY <1>1, <2>1 DEF Conns
  <2>. QED  BY ONLY <2>2, Zenon DEF Watching, Serving
<1>3. CASE Close
  <2>1. ctxDone'
    BY <1>3, Zenon DEF Close
  <2>. QED  BY ONLY <2>1, Zenon DEF Watching, Serving
<1>4. CASE startProcessMessagesWorker \/ ServerChange \/ CloseReturns \/ EnsureConnectedNow
  <2>1. UNCHANGED <<th, subscribers, raced, snd, chans, worker, due, visited, ctxDone>>
    BY <1>4, Zenon DEF startProcessMessagesWorker, ServerChange, CloseReturns,
       EnsureConnectedNow, ConnStep, CallerStep, workerState
  <2>2. \/ conn' = conn \/ conn' = [conn EXCEPT !.reader = "ended"]
        \/ \E o : conn' = [conn EXCEPT !.out = o]
    BY <1>4, Zenon DEF startProcessMessagesWorker, ServerChange, CloseReturns,
       EnsureConnectedNow, CallerStep
  <2>3. /\ conn'.watched = conn.watched /\ conn'.ch = conn.ch
        /\ conn'.up = conn.up /\ conn'.writer = conn.writer
    BY ONLY <1>1, <2>2 DEF Conns
  <2>4. Serving' => Serving
    BY ONLY <2>1, <2>3, Zenon DEF Serving
  <2>5. \A n \in Names : Covered(n) => Covered(n)'
    BY ONLY <2>1, <2>3, Zenon DEF Covered
  <2>. QED  BY ONLY Watching, <2>1, <2>4, <2>5, CoverKeepsWatching, Zenon
<1>. QED  BY <1>2, <1>3, <1>4, Zenon

\* A new connection is due every name in the map, and is announced once it has
\* been sent them.
LEMMA WorkerKeepsWatching ==
  ASSUME Linked, Watching, WorkerNext
  PROVE  Watching'
<1>1. LinkTypes /\ Numbered /\ Connected /\ Sending
  BY Zenon DEF Linked
<1>2. UNCHANGED <<th, subscribers, raced, ctxDone>>
  BY Zenon DEF WorkerNext, getPreferredNode, DialFails, DialSucceeds, Resubscribe,
     Announce, LeaveConnection, CloseConnection, doWork, WorkerStep, program
<1>3. CASE \/ getPreferredNode \/ DialFails \/ LeaveConnection \/ CloseConnection \/ doWork
  <2>1. worker' \in {"dial", "done", "retry", "stop"}
    BY <1>3, Zenon DEF getPreferredNode, DialFails, LeaveConnection, CloseConnection,
       doWork, workerState
  <2>2. worker' \notin {"connect", "serve"}
    BY ONLY <2>1
  <2>. QED  BY ONLY <2>2, Zenon DEF Watching, Serving
<1>4. CASE DialSucceeds
  <2>1. worker' = "connect" /\ visited' = {} /\ due' = present
    BY <1>4, Zenon DEF DialSucceeds
  <2>2. ASSUME NEW n \in Names, Settled(n)'
        PROVE  Covered(n)'
    <3>1. n \in present
      BY ONLY <1>2, <2>2, n \in Names, Zenon DEF Settled, present
    <3>. QED  BY ONLY <2>1, <3>1, Zenon DEF Covered
  <2>. QED  BY ONLY <2>2, Zenon DEF Watching
<1>5. CASE Resubscribe
  <2>1. /\ UNCHANGED <<chans, conn, worker, due>> /\ snd["worker"] = NoSend
        /\ \E n \in present \ visited :
             /\ visited' = visited \cup {n}
             /\ ctxDone \/ send("worker", n, TRUE)
    BY <1>5, Zenon DEF Resubscribe, Idle
  <2>2. Serving' => Serving
    BY ONLY <1>2, <2>1, Zenon DEF Serving
  <2>3. PICK k \in present : /\ visited' = visited \cup {k}
                             /\ ctxDone \/ send("worker", k, TRUE)
    BY ONLY <2>1, Zenon
  <2>4. ASSUME NEW n \in Names, Serving, Covered(n)
        PROVE  Covered(n)'
    <3>1. /\ snd'["worker"].name = k /\ snd'["worker"].watch = TRUE
          /\ snd'["worker"].ch = Len(chans)
          /\ \A q \in Senders : q # "worker" => snd'[q] = snd[q]
      <4>1. send("worker", k, TRUE)
        BY <2>3, <2>4, Zenon DEF Serving
      <4>2. TRUE \in BOOLEAN /\ "worker" \in Senders /\ k \in Names
        BY Records, Zenon DEF present
      <4>. QED  BY ONLY <1>1, <4>1, <4>2, SendEffect, Zenon
    <3>2. conn.ch = Len(chans)
      BY ONLY <1>1, <2>4, Zenon DEF Connected, Serving
    <3>3. CASE WillBeWatched(n, conn.watched, chans[conn.ch].buf)
      BY ONLY <2>1, <3>3, Zenon DEF Covered
    <3>4. CASE \E p \in Senders : snd[p].name = n /\ snd[p].watch /\ snd[p].ch = conn.ch
      BY ONLY <2>1, <3>1, <3>4, Records, Zenon DEF Covered
    <3>5. CASE worker = "connect" /\ n \in due \ visited
      <4>1. CASE n = k
        BY ONLY <2>1, <3>1, <3>2, <4>1, Records, Zenon DEF Covered
      <4>2. CASE n # k
        BY ONLY <2>1, <2>3, <3>5, <4>2, Zenon DEF Covered
      <4>. QED  BY <4>1, <4>2, Zenon
    <3>. QED  BY ONLY <2>4, <3>3, <3>4, <3>5, Zenon DEF Covered
  <2>. QED  BY ONLY Watching, <1>2, <2>2, <2>4, CoverKeepsWatching, Zenon
<1>6. CASE Announce
  <2>1. /\ UNCHANGED <<snd, chans, conn>> /\ worker = "connect"
        /\ due \cap present \subseteq visited
    BY <1>6, Zenon DEF Announce
  <2>2. Serving' => Serving
    BY ONLY <1>2, <2>1, Zenon DEF Serving
  <2>3. ASSUME NEW n \in Names, Settled(n), Covered(n)
        PROVE  Covered(n)'
    <3>1. n \in present
      BY ONLY <2>3, n \in Names, Zenon DEF Settled, present
    <3>2. n \notin due \ visited
      BY ONLY <2>1, <3>1, Zenon
    <3>. QED  BY ONLY <2>1, <2>3, <3>2, Zenon DEF Covered
  <2>. QED  BY ONLY Watching, <1>2, <2>2, <2>3, CoverKeepsWatching, Zenon
<1>. QED  BY <1>3, <1>4, <1>5, <1>6, Zenon DEF WorkerNext

-----------------------------------------------------------------------------
(* The invariant.                                                          *)

\* The state of the calls.
callState == <<offers, subscribers, handlers, th, raced>>

\* A client that was just made: nobody has called, nothing is connected.
LEMMA InitEstablishes == Init => IInv
<1> SUFFICES ASSUME Init PROVE IInv
  OBVIOUS
<1>1. /\ subscribers = [n \in Names |-> 0] /\ handlers = <<>>
      /\ th = [t \in Threads |-> Free] /\ raced = {}
  BY Zenon DEF Init
<1>2. /\ snd = [p \in Senders |-> NoSend] /\ nextCmd = 1 /\ outstanding = {}
      /\ signalled = {} /\ worker = "start" /\ conn = NoConn
      /\ chWorkCompleted = "empty" /\ ctxDone = FALSE
      /\ chans = <<[buf |-> <<>>, closed |-> FALSE]>>
  BY Zenon DEF Init, Senders
<1>3. \A t \in Threads : th[t] = Free
  BY ONLY <1>1, Zenon
<1>4. \A p \in Senders : snd[p] = NoSend
  BY ONLY <1>2, Zenon
<1>5. CallTypes
  <2> DEFINE Places == [pc : Calling \cup {"free", "subscribed"}, name : Labels, obj : Nat]
  <2>1. Free \in Places
    <3>1. "" \in Labels
      BY Zenon DEF Labels
    <3>2. 0 \in Nat
      OBVIOUS
    <3>. QED  BY <3>1, <3>2, Zenon DEF Free
  <2> HIDE DEF Places
  <2>2. th \in [Threads -> Places]
    BY ONLY <1>1, <2>1
  <2>3. subscribers \in [Names -> Nat] /\ handlers \in Seq(SUBSET Threads) /\ raced = {}
    BY ONLY <1>1
  <2>. QED  BY ONLY <2>2, <2>3, Zenon DEF CallTypes, Places
<1>6. LinkTypes
  <2>1. NoConn \in Conns
    BY DEF NoConn, Conns
  <2>2. chans \in Seq(Channels)
    BY ONLY <1>2 DEF Channels
  <2>3. snd \in [Senders -> Sends]
    BY ONLY <1>2, Records
  <2>4. nextCmd \in Nat \ {0}
    BY ONLY <1>2
  <2>. QED  BY ONLY <1>2, <2>1, <2>2, <2>3, <2>4, Zenon DEF LinkTypes
<1>7. Numbered
  <2>1. \A p \in Senders : snd[p].id < nextCmd
    BY ONLY <1>2, <1>4, Records
  <2>2. worker = "start" /\ chWorkCompleted = "empty" /\ outstanding = {} /\ signalled = {}
    BY <1>2, Zenon
  <2>. QED  BY ONLY <2>1, <2>2 DEF Numbered
<1>8. Owned
  <2>1. \A n \in Names : subscribers[n] = 0
    BY ONLY <1>1
  <2>2. Len(handlers) = 0
    BY ONLY <1>1
  <2>3. \A t \in Threads : th[t].pc = "free" /\ th[t].obj = 0
    BY ONLY <1>3, Records, Zenon
  <2>4. \A t \in Threads : Placed(t)
    <3>1. 0 <= Len(handlers)
      BY ONLY <2>2
    <3>2. "free" # "subscribed"
      OBVIOUS
    <3>. QED  BY ONLY <2>3, <3>1, <3>2, Zenon DEF Placed
  <2>5. OneName
    BY ONLY <2>1, <2>3, Zenon DEF OneName
  <2>6. \A n \in Names : subscribers[n] <= Len(handlers)
    BY ONLY <2>1, <2>2
  <2>. QED  BY ONLY <2>4, <2>5, <2>6, Zenon DEF Owned
<1>9. Serial
  <2>1. \A t \in Threads : th[t].pc = "free"
    BY ONLY <1>3, Records, Zenon
  <2>2. "free" \notin Calling
    BY DEF Calling
  <2>. QED  BY ONLY <2>1, <2>2, Zenon DEF Serial, Alone, Held
<1>10. Connected
  <2>1. conn.ch = 0 /\ conn.writer # "on"
    BY ONLY <1>2, Records
  <2>2. /\ Len(chans) = 1 /\ chans # <<>> /\ Len(chans[1].buf) = 0 /\ chans[1].closed = FALSE
    BY ONLY <1>2
  <2>3. ASSUME NEW i \in 1 .. Len(chans)
        PROVE  /\ Len(chans[i].buf) <= Capacity
               /\ chans[i].closed <=> /\ i < Len(chans)
                                      /\ worker \in {"retry", "stop"} => i # conn.ch
    <3>1. i = 1
      BY ONLY <2>2, i \in 1 .. Len(chans)
    <3>. QED  BY ONLY <2>2, <3>1, ChangesAssumption DEF ChangesAssumption
  <2>4. worker = "start"
    BY <1>2
  <2>. QED  BY ONLY <2>1, <2>2, <2>3, <2>4 DEF Connected
<1>11. Sending
  <2>1. Len(chans) = 1
    BY ONLY <1>2
  <2>2. \A p \in Senders : snd[p].ch <= Len(chans)
    BY ONLY <1>4, <2>1, Records
  <2>. QED  BY ONLY <1>4, <2>2, Records, Zenon DEF Sending, OfItsCall
<1>12. Watching
  <2>1. worker \notin {"connect", "serve"}
    BY ONLY <1>2
  <2>. QED  BY ONLY <2>1, Zenon DEF Watching, Serving
<1>. QED  BY <1>5, <1>6, <1>7, <1>8, <1>9, <1>10, <1>11, <1>12, Zenon DEF IInv

\* Every step of the goroutines, of doWork, of the connection, of the server
\* and of the callers keeps the invariant.
LEMMA NextKeeps == IInv /\ [Next]_vars => IInv'
<1> SUFFICES ASSUME IInv, [Next]_vars PROVE IInv'
  OBVIOUS
<1>1. CallTypes /\ OneCall /\ Linked /\ Watching
  BY Zenon DEF IInv, OneCall, Linked
<1>2. SUFFICES CallTypes' /\ OneCall' /\ Linked' /\ Watching'
  BY Zenon DEF IInv, OneCall, Linked
<1>3. ASSUME UNCHANGED callState
      PROVE  CallTypes' /\ OneCall'
  <2>1. CallTypes'
    BY ONLY <1>1, <1>3, Zenon DEF CallTypes, callState
  <2>2. Owned'
    BY ONLY <1>1, <1>3, Zenon DEF OneCall, Owned, Placed, OneName, callState
  <2>3. Serial'
    BY ONLY <1>1, <1>3, Zenon DEF OneCall, Serial, Alone, Held, callState
  <2>. QED  BY ONLY <2>1, <2>2, <2>3, Zenon DEF OneCall
<1>4. ASSUME NEW t \in Threads, ThreadAction(t)
      PROVE  CallTypes' /\ OneCall' /\ Linked' /\ Watching'
  BY ONLY <1>1, <1>4, ThreadKeepsCallTypes, ThreadKeepsCalls, ThreadKeepsLink,
     ThreadKeepsWatching, Zenon
<1>5. ASSUME NEW p \in Senders, PutCommand(p) \/ waitForConfirmation(p)
      PROVE  CallTypes' /\ OneCall' /\ Linked' /\ Watching'
  <2>1. UNCHANGED callState
    BY <1>5, Zenon DEF PutCommand, waitForConfirmation, program, callState
  <2>. QED  BY ONLY <1>1, <1>3, <1>5, <2>1, PutKeepsLink, WaitKeepsLink,
               PutKeepsWatching, WaitKeepsWatching, Zenon
<1>6. ASSUME WorkerNext
      PROVE  CallTypes' /\ OneCall' /\ Linked' /\ Watching'
  <2>1. UNCHANGED callState
    BY <1>6, Zenon DEF WorkerNext, getPreferredNode, DialFails, DialSucceeds, Resubscribe,
       Announce, LeaveConnection, CloseConnection, doWork, WorkerStep, program, callState
  <2>. QED  BY ONLY <1>1, <1>3, <1>6, <2>1, WorkerKeepsLink, WorkerKeepsWatching, Zenon
<1>7. ASSUME startSendWorker
      PROVE  CallTypes' /\ OneCall' /\ Linked' /\ Watching'
  <2>1. UNCHANGED callState
    BY <1>7, Zenon DEF startSendWorker, ConnStep, callState
  <2>. QED  BY ONLY <1>1, <1>3, <1>7, <2>1, WriterKeepsLink, WriterKeepsWatching, Zenon
<1>8. ASSUME \/ startProcessMessagesWorker \/ ServerChange \/ Break
             \/ Close \/ CloseReturns \/ EnsureConnectedNow
      PROVE  CallTypes' /\ OneCall' /\ Linked' /\ Watching'
  <2>1. UNCHANGED callState
    BY <1>8, Zenon DEF startProcessMessagesWorker, ServerChange, Break, Close,
       CloseReturns, EnsureConnectedNow, ConnStep, CallerStep, callState
  <2>. QED  BY ONLY <1>1, <1>3, <1>8, <2>1, OthersKeepLink, OthersKeepWatching, Zenon
<1>9. CASE UNCHANGED vars
  <2>1. UNCHANGED callState
    BY <1>9, Zenon DEF vars, callState
  <2>2. Linked'
    BY ONLY <1>1, <1>9, Zenon DEF vars, Linked, LinkTypes, Numbered, Connected,
       Sending, OfItsCall
  <2>3. Watching'
    BY ONLY <1>1, <1>9, Zenon DEF vars, Watching, Serving, Settled, Covered
  <2>. QED  BY ONLY <1>3, <2>1, <2>2, <2>3, Zenon
<1>10. CASE Next
  <2>1. \/ \E t \in Threads : ThreadAction(t)
        \/ \E p \in Senders : PutCommand(p) \/ waitForConfirmation(p)
        \/ WorkerNext \/ startSendWorker
        \/ startProcessMessagesWorker \/ ServerChange \/ Break
        \/ Close \/ CloseReturns \/ EnsureConnectedNow
    BY <1>10, Zenon DEF Next, ThreadAction, ConnNext, Confirmed, TimedOut, Senders
  <2>. QED  BY ONLY <2>1, <1>4, <1>5, <1>6, <1>7, <1>8, Zenon
<1>. QED  BY <1>9, <1>10, Zenon

\* database_changes.go, all of it: the invariant holds of every behaviour of the
\* client, with any number of goroutines and any room in chCommands.
THEOREM ClientInvariant == Spec => []IInv
<1>. QED  BY InitEstablishes, NextKeeps, PTL DEF Spec

\* database_changes.go, ForX and the cancel function: a callback whose
\* subscription call has returned and is not being cancelled is in the
\* changeSubscribers that notifySubscribers walks, unless two calls for its
\* name overlapped; types are kept, and a channel is closed exactly when its
\* connection has been given up.
THEOREM CallbacksStayReachable == Spec => []RegisteredIsReachable
<1>1. ASSUME IInv PROVE RegisteredIsReachable
  <2>1. CallTypes /\ LinkTypes /\ Numbered /\ Owned /\ Serial /\ Connected
    BY <1>1, Zenon DEF IInv
  <2>2. subscribers \in [Names -> 0 .. Len(handlers)]
    <3>1. /\ subscribers \in [Names -> Nat] /\ handlers \in Seq(SUBSET Threads)
          /\ \A n \in Names : subscribers[n] <= Len(handlers)
      BY ONLY <2>1, Zenon DEF CallTypes, Owned
    <3>. QED  BY ONLY <3>1
  <2>3. \A o \in DOMAIN handlers : handlers[o] \subseteq Threads
    <3>1. handlers \in Seq(SUBSET Threads)
      BY ONLY <2>1, Zenon DEF CallTypes
    <3>. QED  BY ONLY <3>1
  <2>4. DOMAIN chans = 1 .. Len(chans) /\ DOMAIN snd = Senders
    BY ONLY <2>1 DEF LinkTypes
  <2>5. outstanding \cup signalled \subseteq 1 .. nextCmd - 1
    BY ONLY <2>1, Zenon DEF Numbered
  <2>6. raced \subseteq offers \cap Names
    BY ONLY <2>1, Zenon DEF CallTypes
  <2>7. TypeOK
    BY ONLY <2>1, <2>2, <2>3, <2>4, <2>5, <2>6, Zenon DEF TypeOK, Numbered, Connected
  <2>8. ASSUME NEW t \in Threads, th[t].pc = "subscribed", th[t].name \notin raced
        PROVE  /\ subscribers[th[t].name] # 0
               /\ t \in handlers[subscribers[th[t].name]]
    <3>1. Placed(t) /\ Held(t)
      BY ONLY <2>1, t \in Threads, Zenon DEF Owned, Serial
    <3>2. th[t].pc \notin {"free", "store"}
      BY ONLY <2>8
    <3>3. th[t].obj # 0 /\ t \in handlers[th[t].obj]
      BY ONLY <3>1, <3>2, <2>8, Zenon DEF Placed
    <3>4. subscribers[th[t].name] = th[t].obj
      BY ONLY <3>1, <3>2, <2>8, Zenon DEF Held
    <3>. QED  BY ONLY <3>3, <3>4, Zenon
  <2>. QED  BY ONLY <2>7, <2>8, Zenon DEF RegisteredIsReachable
<1>. QED  BY <1>1, ClientInvariant, PTL

\* database_changes.go, doWorkInner with getOrAddSubscribers: on an announced
\* connection that is not broken the server watches every subscribed name, not
\* raced, for which no command is under way, after any number of reconnections.
THEOREM ServerWatchesSubscribed == Spec => []SubscribedIsWatched
<1>1. ASSUME IInv PROVE SubscribedIsWatched
  <2>1. LinkTypes /\ Owned /\ Serial /\ Connected /\ Watching
    BY <1>1, Zenon DEF IInv
  <2>2. SUFFICES ASSUME NEW t \in Threads, th[t].pc = "subscribed", th[t].name \notin raced,
                        worker = "serve", conn.up, conn.writer = "on", ~ctxDone,
                        ~CommandsFor(th[t].name)
                 PROVE  th[t].name \in conn.watched
    BY Zenon DEF SubscribedIsWatched
  <2> DEFINE n == th[t].name
  <2>3. Placed(t) /\ Held(t)
    BY ONLY <2>1, t \in Threads, Zenon DEF Owned, Serial
  <2>4. th[t].pc \notin {"free", "store"}
    BY ONLY <2>2
  <2>5. th[t].obj # 0 /\ t \in handlers[th[t].obj] /\ n \in Names
    BY ONLY <2>2, <2>3, <2>4, Zenon DEF Placed
  <2>6. subscribers[n] = th[t].obj
    BY ONLY <2>2, <2>3, <2>4, Zenon DEF Held
  <2>7. ASSUME NEW u \in Threads, th[u].name = n, th[u].pc \in {"connect", "delete"}
        PROVE  FALSE
    <3>1. Held(u)
      BY ONLY <2>1, u \in Threads, Zenon DEF Serial
    <3>2. th[u].pc # "free" /\ th[u].pc \in {"connect", "unwatch", "delete"}
      BY ONLY <2>7
    <3>3. th[u].obj = subscribers[n] /\ handlers[th[u].obj] = {}
      BY ONLY <2>2, <2>7, <3>1, <3>2, Zenon DEF Held
    <3>. QED  BY ONLY <2>5, <2>6, <3>3, Zenon
  <2>8. Settled(n)
    BY ONLY <2>2, <2>5, <2>6, <2>7, Zenon DEF Settled
  <2>9. Serving
    BY ONLY <2>2, Zenon DEF Serving
  <2>10. Covered(n)
    BY ONLY <2>1, <2>5, <2>8, <2>9, Zenon DEF Watching
  <2>11. worker # "connect"
    BY ONLY <2>2
  <2>12. /\ \A p \in Senders : snd[p].name # n
         /\ \A i \in DOMAIN chans[conn.ch].buf : chans[conn.ch].buf[i].name # n
    <3>1. DOMAIN snd = Senders
      BY ONLY <2>1 DEF LinkTypes
    <3>. QED  BY ONLY <2>2, <3>1, Zenon DEF CommandsFor
  <2>13. WillBeWatched(n, conn.watched, chans[conn.ch].buf)
    BY ONLY <2>10, <2>11, <2>12, Zenon DEF Covered
  <2>14. chans[conn.ch].buf \in Seq(Commands)
    <3>1. conn.ch = Len(chans) /\ chans # <<>> /\ chans \in Seq(Channels)
      BY ONLY <2>1, <2>2, Zenon DEF Connected, LinkTypes
    <3>2. chans[conn.ch] \in Channels
      BY ONLY <3>1
    <3>. QED  BY ONLY <3>2 DEF Channels
  <2> DEFINE b == chans[conn.ch].buf
  <2>15. PICK i \in 0 .. Len(b) : WatchedAt(n, conn.watched, b, i)
    BY ONLY <2>13, Zenon DEF WillBeWatched
  <2>16. i = 0 \/ i \in DOMAIN b
    <3> HIDE DEF b
    <3>1. b \in Seq(Commands)
      BY <2>14 DEF b
    <3>. QED  BY ONLY <3>1, i \in 0 .. Len(b)
  <2>. QED  BY ONLY <2>12, <2>15, <2>16, Zenon DEF WatchedAt
<1>. QED  BY <1>1, ClientInvariant, PTL

-----------------------------------------------------------------------------
(* Where the client panics, and what a nil error means.                    *)

\* Who is registered in a changeSubscribers is subscribed with it.
Registered ==
  \A o \in 1 .. Len(handlers) : \A t \in handlers[o] :
    th[t].pc = "subscribed" /\ th[t].obj = o

\* Commands, what the server watches and what it reports are of the
\* subscriptions that the program makes.
Asked ==
  /\ \A n \in Names : subscribers[n] # 0 => n \in offers
  /\ \A p \in Senders : snd[p] # NoSend => snd[p].name \in offers
  /\ \A i \in 1 .. Len(chans) : \A j \in 1 .. Len(chans[i].buf) :
       chans[i].buf[j].name \in offers
Reported ==
  /\ conn.watched \subseteq offers
  /\ \A k \in 1 .. Len(conn.out) :
       \E n \in offers \cap Names : conn.out[k] \in subscription(n).hears

\* A connection is given up only because it broke or the client was closed,
\* and a second one is announced only after a break.
Blamed ==
  /\ breaks \in Nat
  /\ Len(chans) > 1 => breaks > 0 \/ ctxDone
  /\ worker = "retry" => breaks > 0
  /\ worker = "stop" => ctxDone
  /\ conn.ch # 0 => conn.up \/ breaks > 0
  /\ conn.writer = "failed" \/ conn.reader = "ended" => breaks > 0
  /\ conn.reader = "on" => conn.ch # 0
  /\ chIsConnected = "closed" => worker \in {"serve", "stop", "done"} \/ breaks > 0

\* The worker ended without an error because of Close, or a receiver took it.
Completed == chWorkCompleted = "nil" => taken \/ ctxDone

\* The steps of Next, as the proofs divide them.
LEMMA NextSteps ==
  ASSUME Next
  PROVE  \/ \E t \in Threads : ThreadAction(t)
         \/ \E p \in Senders : PutCommand(p) \/ waitForConfirmation(p)
         \/ WorkerNext \/ startSendWorker
         \/ startProcessMessagesWorker \/ ServerChange \/ Break
         \/ Close \/ CloseReturns \/ EnsureConnectedNow
  BY Zenon DEF Next, ThreadAction, ConnNext, Confirmed, TimedOut, Senders

\* A goroutine of the program changes nothing of the connection.
LEMMA ThreadChanges ==
  ASSUME NEW t \in Threads, ThreadAction(t)
  PROVE  UNCHANGED <<workerState, offers, closer, ensured, ctxDone, breaks,
                     changes, taken, chans, signalled, conn, panic>>
  BY Zenon DEF ThreadAction, Subscribe, getOrAddSubscribers, connectSubscribers,
     register, unregister, maybeDisconnectSubscribers, disconnectSubscribers, ThreadStep

\* A command that enters a channel leaves the number of channels.
LEMMA PutChanges ==
  ASSUME LinkTypes, LinkTypes', NEW p \in Senders, PutCommand(p)
  PROVE  Len(chans') = Len(chans)
<1>1. DOMAIN chans' = DOMAIN chans
  BY Zenon DEF PutCommand
<1>2. chans \in Seq(Channels) /\ chans' \in Seq(Channels)
  BY Zenon DEF LinkTypes
<1>. QED  BY ONLY <1>1, <1>2

\* What the server watches is one field of the connection.
LEMMA ConnFields ==
  ASSUME NEW c \in Conns, NEW w
  PROVE  LET d == [c EXCEPT !.watched = w]
         IN  /\ d.ch = c.ch /\ d.up = c.up /\ d.reader = c.reader
             /\ d.writer = c.writer /\ d.watched = w /\ d.out = c.out
  BY Zenon DEF Conns

\* doWork and the connection: a connection is blamed on a break or on Close.
LEMMA BlamedKeeps ==
  ASSUME IInv, Blamed, [Next]_vars
  PROVE  Blamed'
<1>1. LinkTypes /\ Numbered /\ Connected
  BY Zenon DEF IInv
<1>2. conn \in Conns /\ chans \in Seq(Channels)
  BY <1>1, Zenon DEF LinkTypes
<1>3. ASSUME UNCHANGED <<worker, chIsConnected, breaks, conn>>, Len(chans') = Len(chans),
             ctxDone => ctxDone'
      PROVE  Blamed'
  BY ONLY <1>3, Blamed, Zenon DEF Blamed
<1>4. CASE UNCHANGED vars
  BY <1>3, <1>4, Zenon DEF vars
<1>5. ASSUME NEW t \in Threads, ThreadAction(t)
      PROVE  Blamed'
  BY <1>3, <1>5, ThreadChanges, Zenon DEF workerState
<1>6. ASSUME NEW p \in Senders, PutCommand(p) \/ waitForConfirmation(p)
      PROVE  Blamed'
  <2>1. UNCHANGED <<worker, chIsConnected, breaks, conn, ctxDone>>
    BY <1>6, Zenon DEF PutCommand, waitForConfirmation, workerState, program
  <2>2. LinkTypes'
    BY NextKeeps, Zenon DEF IInv
  <2>3. Len(chans') = Len(chans)
    BY <1>1, <1>6, <2>2, PutChanges, Zenon DEF waitForConfirmation
  <2>. QED  BY ONLY <1>3, <2>1, <2>3, Zenon
<1>7. CASE getPreferredNode
  <2>1. /\ worker = "start" /\ worker' \in {"dial", "done"}
        /\ UNCHANGED <<chIsConnected, breaks, conn, ctxDone, chans>>
    BY <1>7 DEF getPreferredNode, WorkerStep, program
  <2>. QED  BY ONLY Blamed, <2>1 DEF Blamed
<1>8. CASE DialFails
  <2>1. worker' = "done" /\ UNCHANGED <<chIsConnected, breaks, conn, ctxDone, chans>>
    BY <1>8, Zenon DEF DialFails, WorkerStep, program
  <2>. QED  BY ONLY Blamed, <2>1 DEF Blamed
<1>9. CASE DialSucceeds
  <2>1. /\ worker = "dial" /\ worker' = "connect"
        /\ UNCHANGED <<chIsConnected, breaks, ctxDone, chans>>
        /\ conn' = [NoConn EXCEPT !.up = TRUE, !.writer = "on", !.reader = "on",
                                  !.ch = Len(chans)]
    BY <1>9, Zenon DEF DialSucceeds, WorkerStep, program
  <2>2. /\ conn'.up = TRUE /\ conn'.writer = "on" /\ conn'.reader = "on"
        /\ conn'.ch = Len(chans) /\ Len(chans) # 0
    BY ONLY <1>1, <1>2, <2>1 DEF NoConn, Connected
  <2>. QED  BY ONLY Blamed, <2>1, <2>2 DEF Blamed
<1>10. CASE Resubscribe
  BY <1>3, <1>10, Zenon DEF Resubscribe, WorkerStep, program
<1>11. CASE Announce
  <2>1. /\ worker = "connect" /\ UNCHANGED <<breaks, ctxDone, chans, conn>>
        /\ \/ chIsConnected = "closed" /\ worker' = worker
           \/ worker' = "serve"
    BY <1>11, Zenon DEF Announce, WorkerStep, program
  <2>. QED  BY ONLY Blamed, <2>1 DEF Blamed
<1>12. CASE LeaveConnection
  <2>1. /\ worker = "serve" /\ UNCHANGED <<breaks, ctxDone, conn, chIsConnected>>
        /\ \/ (conn.writer = "failed" \/ conn.reader = "ended") /\ worker' = "retry"
           \/ ctxDone /\ worker' = "stop"
    BY <1>12, Zenon DEF LeaveConnection, WorkerStep, program
  <2>. QED  BY ONLY Blamed, <2>1 DEF Blamed
<1>13. CASE CloseConnection
  <2>1. /\ UNCHANGED <<breaks, ctxDone, chIsConnected, worker>> /\ conn' = NoConn
        /\ chans' = [chans EXCEPT ![conn.ch] = [buf |-> <<>>, closed |-> TRUE]]
    BY <1>13, Zenon DEF CloseConnection, WorkerStep, program, workerState
  <2>2. Len(chans') = Len(chans)
    BY ONLY <1>2, <2>1
  <2>3. conn'.ch = 0 /\ conn'.writer = "none" /\ conn'.reader = "none"
    BY ONLY <2>1 DEF NoConn
  <2>. QED  BY ONLY Blamed, <2>1, <2>2, <2>3 DEF Blamed
<1>14. CASE doWork
  <2>1. /\ UNCHANGED <<breaks, ctxDone, chIsConnected, conn, chans>>
        /\ (worker = "retry" /\ worker' = "dial") \/ worker' = "done"
    BY <1>14, Zenon DEF doWork, WorkerStep, program
  <2>. QED  BY ONLY Blamed, <2>1 DEF Blamed
<1>15. CASE startSendWorker
  <2> DEFINE m == Head(chans[conn.ch].buf)
             w == IF m.watch THEN conn.watched \cup {m.name} ELSE conn.watched \ {m.name}
  <2>1. /\ UNCHANGED <<breaks, ctxDone, chIsConnected, worker>> /\ conn.writer = "on"
        /\ chans' = [chans EXCEPT ![conn.ch].buf = Tail(@)]
        /\ \/ conn' = [conn EXCEPT !.watched = w]
           \/ ~conn.up /\ conn' = [conn EXCEPT !.writer = "failed"]
    BY <1>15, Zenon DEF startSendWorker, ConnStep, workerState
  <2>2. Len(chans') = Len(chans)
    BY ONLY <1>2, <2>1
  <2>3. conn.ch # 0
    BY <1>1, <2>1, Zenon DEF Connected
  <2> HIDE DEF w
  <2>4. /\ conn'.ch = conn.ch /\ conn'.up = conn.up /\ conn'.reader = conn.reader
        /\ conn'.writer = conn.writer \/ (~conn.up /\ conn'.writer = "failed")
    <3>1. CASE conn' = [conn EXCEPT !.watched = w]
      BY ONLY <1>2, <3>1, ConnFields, Zenon
    <3>2. CASE ~conn.up /\ conn' = [conn EXCEPT !.writer = "failed"]
      BY ONLY <1>2, <3>2 DEF Conns
    <3>. QED  BY ONLY <2>1, <3>1, <3>2, Zenon
  <2>. QED  BY ONLY Blamed, <2>1, <2>2, <2>3, <2>4, Zenon DEF Blamed
<1>16. CASE startProcessMessagesWorker
  <2>1. /\ UNCHANGED <<breaks, ctxDone, chIsConnected, worker, chans>>
        /\ \/ conn' = [conn EXCEPT !.out = Tail(@)]
           \/ ~conn.up /\ conn.reader = "on" /\ conn' = [conn EXCEPT !.reader = "ended"]
    BY <1>16, Zenon DEF startProcessMessagesWorker, ConnStep, workerState
  <2>2. /\ conn'.ch = conn.ch /\ conn'.up = conn.up /\ conn'.writer = conn.writer
        /\ \/ conn'.reader = conn.reader
           \/ ~conn.up /\ conn.reader = "on" /\ conn'.reader = "ended"
    BY ONLY <1>2, <2>1 DEF Conns
  <2>3. "ended" # "on" /\ "ended" # "failed"
    OBVIOUS
  <2>. QED  BY ONLY Blamed, <2>1, <2>2, <2>3, Zenon DEF Blamed
<1>17. CASE ServerChange
  <2>1. /\ UNCHANGED <<breaks, ctxDone, chIsConnected, worker, chans>>
        /\ \E s : conn' = [conn EXCEPT !.out = s]
    BY <1>17, Zenon DEF ServerChange, ConnStep, workerState
  <2>2. /\ conn'.ch = conn.ch /\ conn'.up = conn.up /\ conn'.writer = conn.writer
        /\ conn'.reader = conn.reader
    BY ONLY <1>2, <2>1 DEF Conns
  <2>. QED  BY ONLY Blamed, <2>1, <2>2, Zenon DEF Blamed
<1>18. CASE Break
  <2>1. /\ UNCHANGED <<ctxDone, chIsConnected, worker, chans>> /\ breaks' = breaks + 1
        /\ conn' = [conn EXCEPT !.up = FALSE, !.watched = {}]
    BY <1>18, Zenon DEF Break, ConnStep, workerState
  <2>2. /\ breaks' \in Nat /\ breaks' > 0
        /\ conn'.ch = conn.ch /\ conn'.reader = conn.reader
    BY ONLY <1>2, <2>1, Blamed DEF Blamed, Conns
  <2>. QED  BY ONLY Blamed, <2>1, <2>2, Zenon DEF Blamed
<1>19. CASE Close \/ CloseReturns \/ EnsureConnectedNow
  <2>1. UNCHANGED <<worker, chIsConnected, breaks, conn, chans>>
    BY <1>19, Zenon DEF Close, CloseReturns, EnsureConnectedNow, CallerStep
  <2>2. ctxDone' = TRUE \/ ctxDone' = ctxDone
    BY <1>19, Zenon DEF Close, CloseReturns, EnsureConnectedNow
  <2>. QED  BY ONLY <1>3, <2>1, <2>2, Zenon
<1>. QED  BY <1>4, <1>5, <1>6, <1>7, <1>8, <1>9, <1>10, <1>11, <1>12, <1>13, <1>14,
       <1>15, <1>16, <1>17, <1>18, <1>19, NextSteps, Zenon DEF WorkerNext

\* Who works on the maps: registered callbacks are subscribed.
LEMMA RegisteredKeeps ==
  ASSUME IInv, Registered, [Next]_vars
  PROVE  Registered'
<1>1. CallTypes /\ Owned
  BY Zenon DEF IInv
<1>2. /\ handlers \in Seq(SUBSET Threads) /\ DOMAIN th = Threads
      /\ \A t \in Threads : th[t] \in [pc : Calling \cup {"free", "subscribed"},
                                        name : Labels, obj : Nat]
  BY <1>1, Zenon DEF CallTypes
<1>3. CASE UNCHANGED <<handlers, th>>
  BY ONLY <1>3, Registered, Zenon DEF Registered
<1>4. ASSUME NEW t \in Threads, ThreadAction(t)
      PROVE  Registered'
  <2>1. Placed(t) /\ th[t].obj \in Nat /\ Len(handlers) \in Nat
    <3>1. Placed(t)
      BY ONLY <1>1, <1>4, Zenon DEF Owned
    <3>. QED  BY ONLY <1>2, <1>4, <3>1
  <2>2. th[t].pc # "subscribed" => \A o \in 1 .. Len(handlers) : t \notin handlers[o]
    BY ONLY Registered, Zenon DEF Registered
  <2>3. \A o \in 1 .. Len(handlers) : t \in handlers[o] => o = th[t].obj
    BY ONLY Registered, Zenon DEF Registered
  <2>4. ASSUME \A u \in Threads : u # t => th'[u] = th[u], handlers' = handlers,
               th[t].pc # "subscribed"
        PROVE  Registered'
    <3>1. \A o \in 1 .. Len(handlers) : handlers[o] \subseteq Threads
      BY ONLY <1>2
    <3>2. ASSUME NEW o \in 1 .. Len(handlers), NEW u \in handlers[o]
          PROVE  th'[u].pc = "subscribed" /\ th'[u].obj = o
      <4>1. th[u].pc = "subscribed" /\ th[u].obj = o
        BY ONLY Registered, <3>2, Zenon DEF Registered
      <4>2. u \in Threads /\ u # t
        BY ONLY <2>2, <2>4, <3>1, <3>2, Zenon
      <4>3. th'[u] = th[u]
        BY ONLY <2>4, <4>2, Zenon
      <4>. QED  BY ONLY <4>1, <4>3, Zenon
    <3>. QED  BY ONLY <2>4, <3>2, Zenon DEF Registered
  <2>5. CASE Subscribe(t) \/ connectSubscribers(t) \/ maybeDisconnectSubscribers(t)
             \/ disconnectSubscribers(t)
    <3>1. /\ handlers' = handlers
          /\ th[t].pc \in {"free", "connect", "check", "unwatch", "delete"}
          /\ \E r : th' = [th EXCEPT ![t] = r]
      BY <2>5 DEF Subscribe, connectSubscribers, maybeDisconnectSubscribers,
         disconnectSubscribers
    <3>2. \A u \in Threads : u # t => th'[u] = th[u]
      BY ONLY <1>2, <3>1, Zenon
    <3>3. th[t].pc # "subscribed"
      BY ONLY <3>1
    <3>. QED  BY ONLY <2>4, <3>1, <3>2, <3>3, Zenon
  <2>6. CASE getOrAddSubscribers(t)
    <3>1. /\ handlers' = Append(handlers, {}) /\ th[t].pc = "store"
          /\ \A u \in Threads : u # t => th'[u] = th[u]
      BY <1>2, <2>6, Zenon DEF getOrAddSubscribers
    <3>2. /\ Len(handlers') = Len(handlers) + 1 /\ handlers'[Len(handlers) + 1] = {}
          /\ \A o \in 1 .. Len(handlers) : handlers'[o] = handlers[o]
                                            /\ handlers[o] \subseteq Threads
      BY ONLY <1>2, <3>1
    <3>3. th[t].pc # "subscribed"
      BY ONLY <3>1
    <3>4. ASSUME NEW o \in 1 .. Len(handlers'), NEW u \in handlers'[o]
          PROVE  th'[u].pc = "subscribed" /\ th'[u].obj = o
      <4>1. o \in 1 .. Len(handlers) /\ u \in handlers[o] /\ u \in Threads
        BY ONLY <2>1, <3>2, <3>4
      <4>2. u # t
        BY ONLY <2>2, <3>3, <4>1, Zenon
      <4>3. th[u].pc = "subscribed" /\ th[u].obj = o
        BY ONLY Registered, <4>1, Zenon DEF Registered
      <4>4. th'[u] = th[u]
        BY ONLY <3>1, <4>1, <4>2, Zenon
      <4>. QED  BY ONLY <4>3, <4>4, Zenon
    <3>. QED  BY ONLY <3>4, Zenon DEF Registered
  <2>7. ASSUME NEW s, NEW l, handlers' = [handlers EXCEPT ![th[t].obj] = s],
               th' = [th EXCEPT ![t].pc = l],
               s \subseteq handlers[th[t].obj] \cup {t}, t \in s => l = "subscribed",
               th[t].pc \in {"register", "subscribed"}
        PROVE  Registered'
    <3>1. th[t].obj \in 1 .. Len(handlers)
      <4>1. th[t].obj # 0
        BY ONLY <2>1, <2>7 DEF Placed
      <4>. QED  BY ONLY <2>1, <4>1 DEF Placed
    <3>2. /\ Len(handlers') = Len(handlers) /\ handlers'[th[t].obj] = s
          /\ \A o \in 1 .. Len(handlers) : o # th[t].obj => handlers'[o] = handlers[o]
          /\ \A o \in 1 .. Len(handlers) : handlers[o] \subseteq Threads
      BY ONLY <1>2, <2>7, <3>1
    <3>3. /\ \A u \in Threads : u # t => th'[u] = th[u]
          /\ th'[t].pc = l /\ th'[t].obj = th[t].obj
      BY ONLY <1>2, <2>7
    <3>4. ASSUME NEW o \in 1 .. Len(handlers), NEW u \in handlers'[o]
          PROVE  th'[u].pc = "subscribed" /\ th'[u].obj = o
      <4>1. CASE u = t
        <5>1. o = th[t].obj
          BY ONLY <2>3, <3>2, <3>4, <4>1, Zenon
        <5>. QED  BY ONLY <2>7, <3>2, <3>3, <3>4, <4>1, <5>1, Zenon
      <4>2. CASE u # t
        <5>1. u \in handlers[o] /\ u \in Threads
          BY ONLY <2>7, <3>1, <3>2, <3>4, <4>2, Zenon
        <5>2. th[u].pc = "subscribed" /\ th[u].obj = o
          BY ONLY Registered, <3>4, <5>1, Zenon DEF Registered
        <5>3. th'[u] = th[u]
          BY ONLY <3>3, <4>2, <5>1, Zenon
        <5>. QED  BY ONLY <5>2, <5>3, Zenon
      <4>. QED  BY ONLY <4>1, <4>2
    <3>. QED  BY ONLY <3>2, <3>4, Zenon DEF Registered
  <2>8. CASE register(t)
    <3> DEFINE s == handlers[th[t].obj] \cup {t}
    <3>1. /\ th[t].pc = "register" /\ handlers' = [handlers EXCEPT ![th[t].obj] = s]
          /\ th' = [th EXCEPT ![t].pc = "subscribed"]
      BY <2>8, Zenon DEF register
    <3>2. th[t].pc \in {"register", "subscribed"} /\ s \subseteq handlers[th[t].obj] \cup {t}
      BY ONLY <3>1
    <3> HIDE DEF s
    <3>. QED  BY ONLY <2>7, <3>1, <3>2, Zenon
  <2>9. CASE unregister(t)
    <3> DEFINE s == handlers[th[t].obj] \ {t}
    <3>1. /\ th[t].pc = "subscribed" /\ handlers' = [handlers EXCEPT ![th[t].obj] = s]
          /\ th' = [th EXCEPT ![t].pc = "check"]
      BY <2>9, Zenon DEF unregister
    <3>2. /\ th[t].pc \in {"register", "subscribed"} /\ t \notin s
          /\ s \subseteq handlers[th[t].obj] \cup {t}
      BY ONLY <3>1
    <3> HIDE DEF s
    <3>. QED  BY ONLY <2>7, <3>1, <3>2, Zenon
  <2>. QED  BY <1>4, <2>5, <2>6, <2>8, <2>9, Zenon DEF ThreadAction
<1>5. ASSUME NEW p \in Senders, PutCommand(p) \/ waitForConfirmation(p)
      PROVE  UNCHANGED <<handlers, th>>
  BY <1>5, Zenon DEF PutCommand, waitForConfirmation
<1>6. ASSUME WorkerNext
      PROVE  UNCHANGED <<handlers, th>>
  BY <1>6, Zenon DEF WorkerNext, getPreferredNode, DialFails, DialSucceeds, Resubscribe,
     Announce, LeaveConnection, CloseConnection, doWork, WorkerStep
<1>7. ASSUME \/ startSendWorker \/ startProcessMessagesWorker \/ ServerChange \/ Break
             \/ Close \/ CloseReturns \/ EnsureConnectedNow
      PROVE  UNCHANGED <<handlers, th>>
  BY <1>7, Zenon DEF startSendWorker, startProcessMessagesWorker, ServerChange, Break,
     Close, CloseReturns, EnsureConnectedNow, ConnStep, CallerStep
<1>8. CASE UNCHANGED vars
  BY <1>3, <1>8, Zenon DEF vars
<1>. QED  BY <1>3, <1>4, <1>5, <1>6, <1>7, <1>8, NextSteps, Zenon

\* Commands are about the subscriptions of the program.
LEMMA AskedKeeps ==
  ASSUME IInv, Asked, [Next]_vars
  PROVE  Asked'
<1>1. CallTypes /\ LinkTypes /\ Numbered /\ Owned /\ Connected /\ Sending
  BY Zenon DEF IInv
<1>2. /\ chans \in Seq(Channels) /\ snd \in [Senders -> Sends] /\ conn \in Conns
      /\ subscribers \in [Names -> Nat]
  BY <1>1, Zenon DEF LinkTypes, CallTypes
<1>3. ASSUME offers' = offers,
             \A n \in Names : subscribers'[n] # 0 => subscribers[n] # 0 \/ n \in offers,
             \A p \in Senders : snd'[p] = snd[p] \/ snd'[p].name \in offers
                                \/ snd'[p] = NoSend,
             UNCHANGED chans
      PROVE  Asked'
  BY ONLY <1>3, Asked, Zenon DEF Asked
<1>4. CASE UNCHANGED <<offers, subscribers, snd, chans>>
  BY ONLY <1>3, <1>4, Zenon
<1>5. ASSUME NEW p \in Senders, NEW n \in Names \cap offers, NEW w \in BOOLEAN,
             send(p, n, w)
      PROVE  \A q \in Senders : snd'[q] = snd[q] \/ snd'[q].name \in offers
  <2>1. snd'[p].name = n /\ \A q \in Senders : q # p => snd'[q] = snd[q]
    BY <1>1, <1>5, SendEffect, Zenon
  <2>. QED  BY ONLY <1>5, <2>1, Zenon
<1>6. ASSUME NEW t \in Threads, ThreadAction(t)
      PROVE  Asked'
  <2>1. UNCHANGED <<offers, chans>>
    BY <1>6, ThreadChanges, Zenon
  <2>2. Placed(t)
    BY ONLY <1>1, <1>6, Zenon DEF Owned
  <2>3. th[t].pc # "free" => th[t].name \in offers \cap Names
    BY ONLY <2>2, Zenon DEF Placed
  <2>4. t \in Senders
    BY <1>6, Records, Zenon
  <2>5. \A q \in Senders : snd'[q] = snd[q] \/ snd'[q].name \in offers
    <3>1. CASE snd' = snd
      BY ONLY <3>1, Zenon
    <3>2. CASE /\ th[t].pc \in {"connect", "unwatch"}
               /\ \/ send(t, th[t].name, TRUE)
                  \/ send(t, th[t].name, FALSE)
      <4>1. th[t].name \in Names \cap offers
        BY ONLY <2>3, <3>2
      <4>. QED  BY ONLY <1>5, <2>4, <3>2, <4>1
    <3>3. \/ snd' = snd
          \/ th[t].pc = "connect" /\ send(t, th[t].name, TRUE)
          \/ th[t].pc = "unwatch" /\ send(t, th[t].name, FALSE)
      BY <1>6, Zenon DEF ThreadAction, Subscribe, getOrAddSubscribers, connectSubscribers,
         register, unregister, maybeDisconnectSubscribers, disconnectSubscribers, NoSending
    <3>. QED  BY <3>1, <3>2, <3>3, Zenon
  <2>6. ASSUME NEW n \in Names, subscribers'[n] # 0
        PROVE  subscribers[n] # 0 \/ n \in offers
    <3>1. CASE subscribers' = subscribers
      BY ONLY <2>6, <3>1, Zenon
    <3>2. CASE /\ th[t].pc = "store"
               /\ subscribers' = [subscribers EXCEPT ![th[t].name] = Len(handlers) + 1]
      <4>1. th[t].name \in offers
        BY ONLY <2>3, <3>2
      <4>. QED  BY ONLY <1>2, <3>2, <4>1, <2>6, Zenon
    <3>3. CASE subscribers' = [subscribers EXCEPT ![th[t].name] = 0]
      BY ONLY <1>2, <3>3, <2>6, Zenon
    <3>. QED  BY <1>6, <3>1, <3>2, <3>3, Zenon DEF ThreadAction, Subscribe,
         getOrAddSubscribers, connectSubscribers, register, unregister,
         maybeDisconnectSubscribers, disconnectSubscribers
  <2>. QED  BY ONLY <1>3, <2>1, <2>5, <2>6, Zenon
<1>7. ASSUME NEW p \in Senders, waitForConfirmation(p)
      PROVE  Asked'
  <2>1. /\ UNCHANGED <<offers, subscribers, chans>>
        /\ \A q \in Senders : snd'[q] = snd[q] \/ snd'[q] = NoSend
    BY <1>2, <1>7, Zenon DEF waitForConfirmation, program
  <2>. QED  BY ONLY <1>3, <2>1, Zenon
<1>8. ASSUME NEW p \in Senders, PutCommand(p)
      PROVE  Asked'
  <2> DEFINE c == snd[p].ch
             q == chans[c].buf
             m == [id |-> snd[p].id, name |-> snd[p].name, watch |-> snd[p].watch]
  <2>1. CASE UNCHANGED <<chans, snd>>
    BY <1>4, <1>8, <2>1, Zenon DEF PutCommand, program
  <2>2. CASE /\ chans' = [chans EXCEPT ![c].buf = Append(q, m)]
             /\ snd' = [snd EXCEPT ![p] = IF snd[p].watch THEN [snd[p] EXCEPT !.ch = 0]
                                                          ELSE NoSend]
    <3>1. UNCHANGED <<offers, subscribers>> /\ c # 0
      BY <1>8, Zenon DEF PutCommand, program
    <3>2. snd[p] \in Sends /\ c \in Nat /\ c <= Len(chans) /\ c \in 1 .. Len(chans)
      <4>1. c <= Len(chans)
        BY ONLY <1>1, <1>8, Zenon DEF Sending
      <4>. QED  BY ONLY <1>2, <1>8, <3>1, <4>1 DEF Sends
    <3>3. snd[p] # NoSend
      BY ONLY <3>1, Records, Zenon
    <3>4. snd[p].name \in offers /\ snd[p].name \in Names
      BY ONLY Asked, <1>1, <1>8, <3>3, Zenon DEF Asked, Sending
    <3>5. q \in Seq(Commands)
      <4>1. chans[c] \in Channels
        BY ONLY <1>2, <3>2
      <4>. QED  BY ONLY <4>1 DEF Channels
    <3>6. m \in Commands /\ m.name \in offers
      BY ONLY <3>2, <3>4 DEF Commands, Sends
    <3> HIDE DEF m, c, q
    <3>7. /\ Append(q, m) \in Seq(Commands) /\ Len(Append(q, m)) = Len(q) + 1
          /\ Append(q, m)[Len(q) + 1] = m /\ Len(q) \in Nat
          /\ \A j \in 1 .. Len(q) : Append(q, m)[j] = q[j]
      BY ONLY <3>5, <3>6
    <3>8. /\ Len(chans') = Len(chans) /\ chans'[c].buf = Append(q, m)
          /\ \A i \in 1 .. Len(chans) : i # c => chans'[i] = chans[i]
      BY ONLY <1>2, <2>2, <3>2, <3>7, QueueEffect
    <3>9. \A j \in 1 .. Len(q) : q[j].name \in offers
      BY ONLY Asked, <3>2, Zenon DEF Asked, q
    <3>10. \A j \in 1 .. Len(chans'[c].buf) : chans'[c].buf[j].name \in offers
      BY ONLY <3>6, <3>7, <3>8, <3>9
    <3>11. \A i \in 1 .. Len(chans') : \A j \in 1 .. Len(chans'[i].buf) :
             chans'[i].buf[j].name \in offers
      BY ONLY Asked, <3>8, <3>10, Zenon DEF Asked
    <3>12. \A r \in Senders : snd'[r] = snd[r] \/ snd'[r] = NoSend
                              \/ snd'[r].name = snd[p].name
      <4>1. [snd[p] EXCEPT !.ch = 0].name = snd[p].name
        BY ONLY <3>2 DEF Sends
      <4>. QED  BY ONLY <1>2, <1>8, <2>2, <4>1, Zenon
    <3>. QED  BY ONLY Asked, <3>1, <3>4, <3>11, <3>12, Zenon DEF Asked
  <2>. QED  BY <1>8, <2>1, <2>2, Zenon DEF PutCommand
<1>9. CASE WorkerNext
  <2>1. UNCHANGED <<offers, subscribers>>
    BY <1>9, Zenon DEF WorkerNext, getPreferredNode, DialFails, DialSucceeds, Resubscribe,
       Announce, LeaveConnection, CloseConnection, doWork, WorkerStep, program
  <2>2. CASE \/ getPreferredNode \/ DialFails \/ DialSucceeds \/ Announce \/ doWork
    BY <1>4, <2>1, <2>2, Zenon DEF getPreferredNode, DialFails, DialSucceeds, Announce, doWork
  <2>3. CASE Resubscribe
    <3>1. /\ UNCHANGED chans
          /\ \E n \in present : snd' = snd \/ send("worker", n, TRUE)
      BY <2>3, Zenon DEF Resubscribe, NoSending
    <3>2. present \subseteq Names \cap offers
      BY ONLY Asked, Zenon DEF Asked, present
    <3>3. \A q \in Senders : snd'[q] = snd[q] \/ snd'[q].name \in offers
      BY ONLY <1>5, <3>1, <3>2, Records
    <3>. QED  BY ONLY <1>3, <2>1, <3>1, <3>3, Zenon
  <2>4. CASE LeaveConnection
    <3>1. chans' = Append(chans, [buf |-> <<>>, closed |-> FALSE]) /\ snd' = snd
      BY <2>4, Zenon DEF LeaveConnection
    <3>2. /\ Len(chans') = Len(chans) + 1 /\ Len(chans'[Len(chans) + 1].buf) = 0
          /\ \A i \in 1 .. Len(chans) : chans'[i] = chans[i]
      BY ONLY <1>2, <3>1
    <3>3. ASSUME NEW i \in 1 .. Len(chans'), NEW j \in 1 .. Len(chans'[i].buf)
          PROVE  chans'[i].buf[j].name \in offers
      <4>1. i \in 1 .. Len(chans)
        BY ONLY <1>2, <3>2, <3>3
      <4>. QED  BY ONLY Asked, <3>2, <3>3, <4>1, Zenon DEF Asked
    <3>. QED  BY ONLY Asked, <2>1, <3>1, <3>3, Zenon DEF Asked
  <2>5. CASE CloseConnection
    <3>1. /\ chans' = [chans EXCEPT ![conn.ch] = [buf |-> <<>>, closed |-> TRUE]]
          /\ snd' = snd
      BY <2>5, Zenon DEF CloseConnection
    <3>2. /\ Len(chans') = Len(chans)
          /\ \A i \in 1 .. Len(chans) : chans'[i] = chans[i] \/ Len(chans'[i].buf) = 0
      BY ONLY <1>2, <3>1
    <3>3. ASSUME NEW i \in 1 .. Len(chans'), NEW j \in 1 .. Len(chans'[i].buf)
          PROVE  chans'[i].buf[j].name \in offers
      <4>1. chans'[i] = chans[i]
        BY ONLY <3>2, <3>3
      <4>. QED  BY ONLY Asked, <3>2, <3>3, <4>1, Zenon DEF Asked
    <3>. QED  BY ONLY Asked, <2>1, <3>1, <3>3, Zenon DEF Asked
  <2>. QED  BY <1>9, <2>2, <2>3, <2>4, <2>5, Zenon DEF WorkerNext
<1>10. CASE startSendWorker
  <2> DEFINE c == conn.ch
             q == chans[c].buf
  <2>1. /\ UNCHANGED <<offers, subscribers, snd>> /\ conn.writer = "on" /\ q # <<>>
        /\ chans' = [chans EXCEPT ![c].buf = Tail(q)]
    BY <1>10, Zenon DEF startSendWorker, ConnStep
  <2>2. c \in 1 .. Len(chans)
    <3>1. c # 0 /\ (c = 0 \/ c = Len(chans) \/ c = Len(chans) - 1) /\ c \in Nat
      <4>1. c \in Nat
        BY ONLY <1>2 DEF Conns
      <4>. QED  BY ONLY <1>1, <2>1, <4>1, Zenon DEF Connected, Numbered
    <3>. QED  BY ONLY <1>2, <3>1
  <2>3. q \in Seq(Commands)
    <3>1. chans[c] \in Channels
      BY ONLY <1>2, <2>2
    <3>. QED  BY ONLY <3>1 DEF Channels
  <2> HIDE DEF c, q
  <2>4. /\ Tail(q) \in Seq(Commands) /\ Len(Tail(q)) = Len(q) - 1 /\ Len(q) \in Nat
        /\ \A j \in 1 .. Len(q) - 1 : Tail(q)[j] = q[j + 1]
    BY ONLY <2>1, <2>3
  <2>5. /\ Len(chans') = Len(chans) /\ chans'[c].buf = Tail(q)
        /\ \A i \in 1 .. Len(chans) : i # c => chans'[i] = chans[i]
    BY ONLY <1>2, <2>1, <2>2, <2>4, QueueEffect
  <2>6. \A j \in 1 .. Len(q) : q[j].name \in offers
    BY ONLY Asked, <2>2, Zenon DEF Asked, q
  <2>7. \A j \in 1 .. Len(chans'[c].buf) : chans'[c].buf[j].name \in offers
    BY ONLY <2>4, <2>5, <2>6
  <2>8. \A i \in 1 .. Len(chans') : \A j \in 1 .. Len(chans'[i].buf) :
          chans'[i].buf[j].name \in offers
    BY ONLY Asked, <2>5, <2>7, Zenon DEF Asked
  <2>. QED  BY ONLY Asked, <2>1, <2>8, Zenon DEF Asked
<1>11. CASE \/ startProcessMessagesWorker \/ ServerChange \/ Break
            \/ Close \/ CloseReturns \/ EnsureConnectedNow
  BY <1>4, <1>11, Zenon DEF startProcessMessagesWorker, ServerChange, Break, Close,
     CloseReturns, EnsureConnectedNow, ConnStep, CallerStep
<1>12. CASE UNCHANGED vars
  BY <1>4, <1>12, Zenon DEF vars
<1>. QED  BY <1>6, <1>7, <1>8, <1>9, <1>10, <1>11, <1>12, NextSteps, Zenon

\* What the server watches and reports is what the program subscribed to.
LEMMA ReportedKeeps ==
  ASSUME IInv, Asked, Reported, [Next]_vars
  PROVE  Reported'
<1>1. LinkTypes /\ Numbered /\ Connected
  BY Zenon DEF IInv
<1>2. conn \in Conns /\ chans \in Seq(Channels)
  BY <1>1, Zenon DEF LinkTypes
<1>3. conn.watched \subseteq Names /\ conn.out \in Seq(Changes) /\ conn.ch \in Nat
  BY ONLY <1>2 DEF Conns
<1>4. CASE UNCHANGED <<offers, conn>>
  BY ONLY <1>4, Reported, Zenon DEF Reported
<1>5. ASSUME offers' = offers, conn'.watched \subseteq offers, conn'.out = conn.out
      PROVE  Reported'
  BY ONLY <1>5, Reported, Zenon DEF Reported
<1>6. ASSUME offers' = offers, conn'.watched = {}, conn'.out = <<>>
      PROVE  Reported'
  <2>1. 1 .. Len(conn'.out) = {}
    BY ONLY <1>6
  <2>. QED  BY ONLY <1>6, <2>1, Zenon DEF Reported
<1>7. CASE DialSucceeds \/ CloseConnection
  <2>1. /\ offers' = offers
        /\ \/ conn' = NoConn
           \/ conn' = [NoConn EXCEPT !.up = TRUE, !.writer = "on", !.reader = "on",
                                     !.ch = Len(chans)]
    BY <1>7, Zenon DEF DialSucceeds, CloseConnection, WorkerStep, program
  <2>2. CASE conn' = NoConn
    <3>1. conn'.watched = {} /\ conn'.out = <<>>
      BY ONLY <2>2, Zenon DEF NoConn
    <3>. QED  BY ONLY <1>6, <2>1, <3>1, Zenon
  <2>3. CASE conn' = [NoConn EXCEPT !.up = TRUE, !.writer = "on", !.reader = "on",
                                    !.ch = Len(chans)]
    <3>1. conn'.watched = {} /\ conn'.out = <<>>
      BY ONLY <2>3, Zenon DEF NoConn
    <3>. QED  BY ONLY <1>6, <2>1, <3>1, Zenon
  <2>. QED  BY ONLY <2>1, <2>2, <2>3, Zenon
<1>8. CASE startSendWorker
  <2> DEFINE c == conn.ch
             q == chans[c].buf
             m == Head(q)
             w == IF m.watch THEN conn.watched \cup {m.name} ELSE conn.watched \ {m.name}
  <2>1. /\ offers' = offers /\ conn.writer = "on" /\ q # <<>>
        /\ \/ conn' = [conn EXCEPT !.watched = w]
           \/ conn' = [conn EXCEPT !.writer = "failed"]
    BY <1>8, Zenon DEF startSendWorker, ConnStep
  <2>2. c \in 1 .. Len(chans)
    <3>1. c # 0 /\ (c = 0 \/ c = Len(chans) \/ c = Len(chans) - 1)
      BY ONLY <1>1, <2>1, Zenon DEF Connected, Numbered
    <3>. QED  BY ONLY <1>2, <1>3, <3>1
  <2>3. q \in Seq(Commands)
    <3>1. chans[c] \in Channels
      BY ONLY <1>2, <2>2
    <3>. QED  BY ONLY <3>1 DEF Channels
  <2>4. \A j \in 1 .. Len(q) : q[j].name \in offers
    BY ONLY Asked, <2>2, Zenon DEF Asked
  <2>5. m.name \in offers
    <3> HIDE DEF q
    <3>1. 1 \in 1 .. Len(q) /\ m = q[1]
      BY ONLY <2>1, <2>3
    <3>. QED  BY ONLY <2>4, <3>1, Zenon
  <2>6. w \subseteq offers
    BY ONLY Reported, <2>5, Zenon DEF Reported
  <2> HIDE DEF w, m
  <2>7. CASE conn' = [conn EXCEPT !.watched = w]
    <3>1. conn'.watched = w /\ conn'.out = conn.out
      BY ONLY <1>2, <2>7, ConnFields, Zenon
    <3>2. offers' = offers
      BY ONLY <2>1
    <3>. QED  BY ONLY <1>5, <2>6, <3>1, <3>2, Zenon
  <2>8. CASE conn' = [conn EXCEPT !.writer = "failed"]
    <3>1. conn'.watched = conn.watched /\ conn'.out = conn.out
      BY ONLY <1>2, <2>8 DEF Conns
    <3>. QED  BY ONLY Reported, <2>1, <3>1, Zenon DEF Reported
  <2>. QED  BY <2>1, <2>7, <2>8, Zenon
<1>9. CASE startProcessMessagesWorker
  <2>1. /\ offers' = offers
        /\ \/ conn.out # <<>> /\ conn' = [conn EXCEPT !.out = Tail(conn.out)]
           \/ conn' = [conn EXCEPT !.reader = "ended"]
    BY <1>9, Zenon DEF startProcessMessagesWorker, ConnStep
  <2>2. CASE conn.out # <<>> /\ conn' = [conn EXCEPT !.out = Tail(conn.out)]
    <3>1. conn'.watched = conn.watched /\ conn'.out = Tail(conn.out)
      BY ONLY <1>2, <2>2, Zenon DEF Conns
    <3>2. \A k \in 1 .. Len(Tail(conn.out)) :
             k + 1 \in 1 .. Len(conn.out) /\ Tail(conn.out)[k] = conn.out[k + 1]
      BY ONLY <1>3, <2>2
    <3>3. \A k \in 1 .. Len(conn'.out) :
             \E n \in offers \cap Names : conn'.out[k] \in subscription(n).hears
      BY ONLY Reported, <3>1, <3>2, Zenon DEF Reported
    <3>4. offers' = offers /\ conn.watched \subseteq offers
      BY ONLY Reported, <2>1, Zenon DEF Reported
    <3>. QED  BY ONLY <3>1, <3>3, <3>4, Zenon DEF Reported
  <2>3. CASE conn' = [conn EXCEPT !.reader = "ended"]
    <3>1. conn'.watched = conn.watched /\ conn'.out = conn.out
      BY ONLY <1>2, <2>3 DEF Conns
    <3>. QED  BY ONLY Reported, <2>1, <3>1, Zenon DEF Reported
  <2>. QED  BY <2>1, <2>2, <2>3, Zenon
<1>10. CASE ServerChange
  <2>1. offers' = offers
    BY <1>10, Zenon DEF ServerChange, ConnStep
  <2>2. PICK n \in conn.watched : \E c \in subscription(n).hears :
          conn' = [conn EXCEPT !.out = Append(conn.out, c)]
    <3>1. \E c \in UNION {subscription(n).hears : n \in conn.watched} :
            conn' = [conn EXCEPT !.out = Append(conn.out, c)]
      BY ONLY <1>10, Zenon DEF ServerChange
    <3>. QED  BY ONLY <3>1, Zenon
  <2>3. PICK c \in subscription(n).hears :
          conn' = [conn EXCEPT !.out = Append(conn.out, c)]
    BY <2>2, Zenon
  <2>4. n \in offers \cap Names
    BY ONLY Reported, <1>3, <2>2, Zenon DEF Reported
  <2>5. conn'.watched = conn.watched /\ conn'.out = Append(conn.out, c)
    BY ONLY <1>2, <2>3, Zenon DEF Conns
  <2>6. /\ Len(conn'.out) = Len(conn.out) + 1 /\ conn'.out[Len(conn.out) + 1] = c
        /\ \A k \in 1 .. Len(conn.out) : conn'.out[k] = conn.out[k]
    BY ONLY <1>3, <2>5
  <2>7. ASSUME NEW k \in 1 .. Len(conn'.out)
        PROVE  \E l \in offers \cap Names : conn'.out[k] \in subscription(l).hears
    <3>1. CASE k = Len(conn.out) + 1
      BY ONLY <2>3, <2>4, <2>6, <3>1, Zenon
    <3>2. CASE k \in 1 .. Len(conn.out)
      BY ONLY Reported, <2>6, <3>2, Zenon DEF Reported
    <3>3. k = Len(conn.out) + 1 \/ k \in 1 .. Len(conn.out)
      BY ONLY <1>3, <2>6, <2>7
    <3>. QED  BY ONLY <3>1, <3>2, <3>3
  <2>. QED  BY ONLY Reported, <2>1, <2>5, <2>7, Zenon DEF Reported
<1>11. CASE Break
  <2>1. offers' = offers /\ conn' = [conn EXCEPT !.up = FALSE, !.watched = {}]
    BY <1>11, Zenon DEF Break, ConnStep
  <2>2. conn'.watched = {} /\ conn'.out = conn.out
    BY ONLY <1>2, <2>1 DEF Conns
  <2>. QED  BY ONLY <1>5, <2>1, <2>2, Zenon
<1>12. ASSUME NEW t \in Threads, ThreadAction(t)
       PROVE  Reported'
  BY <1>4, <1>12, ThreadChanges, Zenon
<1>13. ASSUME NEW p \in Senders, PutCommand(p) \/ waitForConfirmation(p)
       PROVE  Reported'
  BY <1>4, <1>13, Zenon DEF PutCommand, waitForConfirmation, program
<1>14. CASE \/ getPreferredNode \/ DialFails \/ Resubscribe \/ Announce
            \/ LeaveConnection \/ doWork
  BY <1>4, <1>14, Zenon DEF getPreferredNode, DialFails, Resubscribe, Announce,
     LeaveConnection, doWork, WorkerStep, program
<1>15. CASE Close \/ CloseReturns \/ EnsureConnectedNow
  BY <1>4, <1>15, Zenon DEF Close, CloseReturns, EnsureConnectedNow, CallerStep
<1>16. CASE UNCHANGED vars
  BY <1>4, <1>16, Zenon DEF vars
<1>. QED  BY <1>7, <1>8, <1>9, <1>10, <1>11, <1>12, <1>13, <1>14, <1>15, <1>16,
       NextSteps, Zenon DEF WorkerNext

\* EnsureConnectedNow: what a nil means.
LEMMA CompletedKeeps ==
  ASSUME Blamed, Completed, EnsuredMeansConnected, [Next]_vars
  PROVE  Completed' /\ EnsuredMeansConnected'
<1>1. ASSUME UNCHANGED <<chWorkCompleted, taken, ctxDone, ensured>>,
             chIsConnected' = chIsConnected \/ chIsConnected' = "closed"
      PROVE  Completed' /\ EnsuredMeansConnected'
  BY ONLY <1>1, Completed, EnsuredMeansConnected, Zenon
     DEF Completed, EnsuredMeansConnected
<1>2. ASSUME NEW t \in Threads, ThreadAction(t)
      PROVE  Completed' /\ EnsuredMeansConnected'
  BY <1>1, <1>2, ThreadChanges, Zenon DEF workerState
<1>3. ASSUME NEW p \in Senders, PutCommand(p) \/ waitForConfirmation(p)
      PROVE  Completed' /\ EnsuredMeansConnected'
  BY <1>1, <1>3, Zenon DEF PutCommand, waitForConfirmation, workerState, program
<1>4. CASE \/ startSendWorker \/ startProcessMessagesWorker \/ ServerChange \/ Break
  BY <1>1, <1>4, Zenon DEF startSendWorker, startProcessMessagesWorker, ServerChange,
     Break, ConnStep, workerState
<1>5. CASE DialSucceeds \/ Resubscribe \/ Announce \/ LeaveConnection \/ CloseConnection
  BY <1>1, <1>5, Zenon DEF DialSucceeds, Resubscribe, Announce, LeaveConnection,
     CloseConnection, WorkerStep, workerState, program
<1>6. CASE getPreferredNode \/ DialFails
  <2>1. /\ UNCHANGED <<taken, ctxDone, ensured, chIsConnected>>
        /\ chWorkCompleted' = chWorkCompleted \/ chWorkCompleted' = "error"
    BY <1>6, Zenon DEF getPreferredNode, DialFails, WorkerStep, program
  <2>. QED  BY ONLY <2>1, Completed, EnsuredMeansConnected
            DEF Completed, EnsuredMeansConnected
<1>7. CASE doWork
  <2>1. /\ UNCHANGED <<taken, ctxDone, ensured, chIsConnected>>
        /\ chWorkCompleted' = chWorkCompleted \/ worker = "stop"
    BY <1>7, Zenon DEF doWork, WorkerStep, program
  <2>2. worker = "stop" => ctxDone
    BY Zenon DEF Blamed
  <2>. QED  BY ONLY <2>1, <2>2, Completed, EnsuredMeansConnected, Zenon
            DEF Completed, EnsuredMeansConnected
<1>8. CASE Close
  <2>1. ctxDone' = TRUE
    BY <1>8, Zenon DEF Close
  <2>. QED  BY ONLY <2>1, Zenon DEF Completed, EnsuredMeansConnected
<1>9. ASSUME receiveCompleted \/ UNCHANGED <<chWorkCompleted, taken>>
      PROVE  /\ taken => taken'
             /\ chWorkCompleted' = "nil" => taken' \/ chWorkCompleted = "nil"
  <2>1. CASE receiveCompleted
    <3>1. taken => taken'
      BY ONLY <2>1, Zenon DEF receiveCompleted
    <3>2. chWorkCompleted = "error" => taken'
      BY ONLY <2>1, Zenon DEF receiveCompleted
    <3>3. chWorkCompleted # "error" => chWorkCompleted' = chWorkCompleted
      BY ONLY <2>1, Zenon DEF receiveCompleted
    <3>. QED  BY ONLY <3>1, <3>2, <3>3, Zenon
  <2>2. CASE UNCHANGED <<chWorkCompleted, taken>>
    BY ONLY <2>2, Zenon
  <2>. QED  BY ONLY <1>9, <2>1, <2>2, Zenon
<1>10. CASE CloseReturns \/ EnsureConnectedNow
  <2>1. ctxDone' = ctxDone /\ chIsConnected' = chIsConnected
    BY <1>10, Zenon DEF CloseReturns, EnsureConnectedNow, CallerStep
  <2>2. receiveCompleted \/ UNCHANGED <<chWorkCompleted, taken>>
    BY <1>10, Zenon DEF CloseReturns, EnsureConnectedNow
  <2>3. \/ ensured' = ensured \/ ensured' = "error"
        \/ ensured' = chWorkCompleted \/ chIsConnected = "closed"
    BY <1>10, Zenon DEF CloseReturns, EnsureConnectedNow
  <2>4. /\ taken => taken'
        /\ chWorkCompleted' = "nil" => taken' \/ chWorkCompleted = "nil"
    BY ONLY <1>9, <2>2, Zenon
  <2>5. "error" # "nil"
    OBVIOUS
  <2>6. Completed'
    BY ONLY <2>1, <2>4, Completed, Zenon DEF Completed
  <2>7. EnsuredMeansConnected'
    BY ONLY <2>1, <2>3, <2>4, <2>5, Completed, EnsuredMeansConnected, Zenon
       DEF Completed, EnsuredMeansConnected
  <2>. QED  BY ONLY <2>6, <2>7
<1>11. CASE UNCHANGED vars
  BY <1>1, <1>11, Zenon DEF vars
<1>. QED  BY <1>2, <1>3, <1>4, <1>5, <1>6, <1>7, <1>8, <1>10, <1>11, NextSteps,
       Zenon DEF WorkerNext

\* Only ForDocument's callback panics, on a change that only ForAllDocuments
\* makes the server report.
LEMMA PanickingChange ==
  ASSUME NEW m \in Names, NEW n \in Names, NEW c \in subscription(m).panics,
         c \in subscription(n).hears
  PROVE  m = "docs" /\ n = "all-docs"
<1>1. ASSUME NEW s \in Subscriptions
      PROVE  /\ s.panics # {} => s.name = "docs" /\ s.panics = {"doc b"}
             /\ "doc b" \in s.hears => s.name = "all-docs"
  <2>1. CASE s = ForDocument("doc a")
    BY ONLY <2>1, Zenon DEF ForDocument, DocumentChanges
  <2>2. CASE s = ForAllDocuments
    BY ONLY <2>2, Zenon DEF ForAllDocuments
  <2>3. CASE s = ForIndex
    BY ONLY <2>3, Zenon DEF ForIndex
  <2>4. CASE s = ForDocumentsStartingWith
    BY ONLY <2>4, Zenon DEF ForDocumentsStartingWith
  <2>5. CASE s = ForDocumentsInCollection
    BY ONLY <2>5, Zenon DEF ForDocumentsInCollection
  <2>6. CASE s = ForAllIndexes
    BY ONLY <2>6, Zenon DEF ForAllIndexes, IndexChanges
  <2>7. CASE s = ForOperationID
    BY ONLY <2>7, Zenon DEF ForOperationID, OperationChanges
  <2>8. CASE s = ForAllOperations
    BY ONLY <2>8, Zenon DEF ForAllOperations, OperationChanges
  <2>. QED  BY ONLY <1>1, <2>1, <2>2, <2>3, <2>4, <2>5, <2>6, <2>7, <2>8,
               Zenon DEF Subscriptions
<1>2. ASSUME NEW l \in Names
      PROVE  subscription(l) \in Subscriptions /\ subscription(l).name = l
  <2>1. \E s \in Subscriptions : s.name = l
    BY Zenon DEF Names
  <2>. QED  BY ONLY <2>1, Zenon DEF subscription
<1>3. subscription(m).name = "docs" /\ c = "doc b"
  <2>1. subscription(m).panics # {}
    OBVIOUS
  <2>2. subscription(m) \in Subscriptions
    BY ONLY <1>2, m \in Names
  <2>3. subscription(m).name = "docs" /\ subscription(m).panics = {"doc b"}
    BY ONLY <1>1, <2>1, <2>2, Zenon
  <2>. QED  BY ONLY <2>3, c \in subscription(m).panics, Zenon
<1>4. subscription(n).name = "all-docs"
  BY ONLY <1>1, <1>2, <1>3, n \in Names, c \in subscription(n).hears, Zenon
<1>. QED  BY ONLY <1>2, <1>3, <1>4, m \in Names, n \in Names, Zenon

\* send, doWorkInner and notifySubscribers: where the program panics.
LEMMA PanicKeeps ==
  ASSUME IInv, Registered, Asked, Reported, Blamed, PanicNeedsCause, [Next]_vars
  PROVE  PanicNeedsCause'
<1>1. CallTypes /\ LinkTypes /\ Owned /\ Connected /\ Sending
  BY Zenon DEF IInv
<1>2. /\ chans \in Seq(Channels) /\ conn \in Conns /\ conn.out \in Seq(Changes)
      /\ handlers \in Seq(SUBSET Threads) /\ subscribers \in [Names -> Nat]
  <2>1. /\ chans \in Seq(Channels) /\ conn \in Conns
        /\ handlers \in Seq(SUBSET Threads) /\ subscribers \in [Names -> Nat]
    BY <1>1, Zenon DEF LinkTypes, CallTypes
  <2>. QED  BY ONLY <2>1 DEF Conns
<1>3. ASSUME panic' = "none"
      PROVE  PanicNeedsCause'
  BY ONLY <1>3, Zenon DEF PanicNeedsCause
<1>4. CASE UNCHANGED vars
  BY <1>4, Zenon DEF vars, PanicNeedsCause
<1>5. ASSUME NEW p \in Senders, PutCommand(p)
      PROVE  PanicNeedsCause'
  <2>1. CASE panic' = panic
    BY <1>3, <1>5, <2>1, Zenon DEF PutCommand, Running
  <2>2. CASE chans[snd[p].ch].closed /\ panic' = "send on closed chCommands"
    <3>1. UNCHANGED <<breaks, ctxDone>> /\ snd[p].ch # 0
      BY <1>5, Zenon DEF PutCommand, program
    <3>2. snd[p].ch \in Nat /\ snd[p].ch <= Len(chans)
      <4>1. snd[p] \in Sends /\ snd[p].ch <= Len(chans)
        BY ONLY <1>1, <1>5, Zenon DEF LinkTypes, Sending
      <4>. QED  BY ONLY <4>1 DEF Sends
    <3>3. snd[p].ch \in 1 .. Len(chans)
      BY ONLY <1>2, <3>1, <3>2
    <3>4. snd[p].ch < Len(chans)
      BY ONLY <1>1, <2>2, <3>3, Zenon DEF Connected
    <3>5. Len(chans) > 1
      BY ONLY <1>2, <3>3, <3>4
    <3>6. breaks > 0 \/ ctxDone
      BY ONLY Blamed, <3>5, Zenon DEF Blamed
    <3>. QED  BY ONLY <2>2, <3>1, <3>6, Zenon DEF PanicNeedsCause
  <2>. QED  BY <1>5, <2>1, <2>2, Zenon DEF PutCommand
<1>6. CASE Announce
  <2>1. CASE panic' = panic
    BY <1>3, <1>6, <2>1, Zenon DEF Announce, WorkerStep, Running
  <2>2. CASE chIsConnected = "closed" /\ panic' = "send on closed chIsConnected"
    <3>1. breaks' = breaks /\ worker = "connect"
      BY <1>6, Zenon DEF Announce, WorkerStep, program
    <3>2. breaks > 0
      <4>1. chIsConnected = "closed"
        BY ONLY <2>2, Zenon
      <4>. QED  BY ONLY Blamed, <3>1, <4>1 DEF Blamed
    <3>. QED  BY ONLY <2>2, <3>1, <3>2, Zenon DEF PanicNeedsCause
  <2>. QED  BY <1>6, <2>1, <2>2, Zenon DEF Announce
<1>7. CASE startProcessMessagesWorker
  <2>1. CASE panic' = panic
    BY <1>3, <1>7, <2>1, Zenon DEF startProcessMessagesWorker, ConnStep, Running
  <2>2. CASE panic' # panic
    <3> DEFINE c == Head(conn.out)
    <3>1. /\ offers' = offers /\ conn.out # <<>> /\ panic' = "change of another document"
          /\ \E t \in called : c \in subscription(th[t].name).panics
      BY <1>7, <2>2, Zenon DEF startProcessMessagesWorker, notifySubscribers, ConnStep
    <3>2. PICK t \in called : c \in subscription(th[t].name).panics
      BY <3>1, Zenon
    <3>3. PICK o \in present : t \in handlers[subscribers[o]]
      BY <3>2, Zenon DEF called
    <3>4. subscribers[o] \in 1 .. Len(handlers)
      <4>1. o \in Names /\ subscribers[o] # 0
        BY <3>3, Zenon DEF present
      <4>2. subscribers[o] <= Len(handlers) /\ subscribers[o] \in Nat
        BY ONLY <1>1, <1>2, <4>1, Zenon DEF Owned
      <4>. QED  BY ONLY <1>2, <4>1, <4>2
    <3>5. t \in Threads /\ th[t].pc = "subscribed"
      <4>1. handlers[subscribers[o]] \subseteq Threads
        BY ONLY <1>2, <3>4
      <4>. QED  BY ONLY Registered, <3>3, <3>4, <4>1, Zenon DEF Registered
    <3>6. th[t].name \in offers \cap Names
      <4>1. Placed(t) /\ th[t].pc # "free"
        <5>1. Placed(t)
          BY ONLY <1>1, <3>5, Zenon DEF Owned
        <5>. QED  BY ONLY <3>5, <5>1
      <4>. QED  BY ONLY <4>1, Zenon DEF Placed
    <3>7. PICK n \in offers \cap Names : c \in subscription(n).hears
      <4>1. conn.out \in Seq(Changes) /\ conn.out # <<>>
        BY ONLY <1>2, <3>1, Zenon
      <4>2. 1 \in 1 .. Len(conn.out) /\ c = conn.out[1]
        BY ONLY <4>1
      <4>. QED  BY ONLY Reported, <4>2, Zenon DEF Reported
    <3>8. th[t].name = "docs" /\ n = "all-docs"
      <4> HIDE DEF c
      <4>1. th[t].name \in Names /\ n \in Names
        BY ONLY <3>6, <3>7, Zenon
      <4>. QED  BY ONLY <3>2, <3>7, <4>1, PanickingChange
    <3>9. {"docs", "all-docs"} \subseteq offers'
      BY ONLY <3>1, <3>6, <3>7, <3>8, Zenon
    <3>10. panic' = "change of another document"
      BY ONLY <3>1, Zenon
    <3>. QED  BY ONLY <3>9, <3>10, Zenon DEF PanicNeedsCause
  <2>. QED  BY <2>1, <2>2
<1>8. ASSUME NEW t \in Threads, ThreadAction(t)
      PROVE  PanicNeedsCause'
  BY <1>3, <1>8, Zenon DEF ThreadAction, Subscribe, getOrAddSubscribers,
     connectSubscribers, register, unregister, maybeDisconnectSubscribers,
     disconnectSubscribers, ThreadStep, Running
<1>9. ASSUME NEW p \in Senders, waitForConfirmation(p)
      PROVE  PanicNeedsCause'
  BY <1>3, <1>9, Zenon DEF waitForConfirmation, Running
<1>10. CASE \/ getPreferredNode \/ DialFails \/ DialSucceeds \/ Resubscribe
            \/ LeaveConnection \/ CloseConnection \/ doWork
  BY <1>3, <1>10, Zenon DEF getPreferredNode, DialFails, DialSucceeds, Resubscribe,
     LeaveConnection, CloseConnection, doWork, WorkerStep, Running
<1>11. CASE \/ startSendWorker \/ ServerChange \/ Break
            \/ Close \/ CloseReturns \/ EnsureConnectedNow
  BY <1>3, <1>11, Zenon DEF startSendWorker, ServerChange, Break, Close, CloseReturns,
     EnsureConnectedNow, ConnStep, CallerStep, Running
<1>. QED  BY <1>4, <1>5, <1>6, <1>7, <1>8, <1>9, <1>10, <1>11, NextSteps,
       Zenon DEF WorkerNext

\* What the client may be blamed for holds at the start.
LEMMA CausesAtStart ==
  ASSUME Init
  PROVE  /\ Registered /\ Asked /\ Reported /\ Blamed /\ Completed
         /\ PanicNeedsCause /\ EnsuredMeansConnected
<1>1. /\ subscribers = [n \in Names |-> 0] /\ handlers = <<>>
      /\ snd = [p \in Senders |-> NoSend]
      /\ chans = <<[buf |-> <<>>, closed |-> FALSE]>> /\ worker = "start"
      /\ conn = NoConn /\ chIsConnected = "open" /\ chWorkCompleted = "empty"
      /\ ensured = "none" /\ panic = "none" /\ breaks = 0
  BY Zenon DEF Init, Senders
<1>2. Registered
  BY ONLY <1>1 DEF Registered
<1>3. Asked
  <2>1. /\ \A n \in Names : subscribers[n] = 0
        /\ \A p \in Senders : snd[p] = NoSend
    BY ONLY <1>1, Zenon
  <2>2. Len(chans) = 1 /\ Len(chans[1].buf) = 0
    BY ONLY <1>1
  <2>3. \A i \in 1 .. Len(chans) : 1 .. Len(chans[i].buf) = {}
    BY ONLY <2>2
  <2>. QED  BY ONLY <2>1, <2>3, Zenon DEF Asked
<1>4. /\ conn.watched = {} /\ conn.out = <<>> /\ conn.ch = 0 /\ conn.writer = "none"
      /\ conn.reader = "none"
  BY ONLY <1>1, Zenon DEF NoConn
<1>5. Reported
  BY ONLY <1>4 DEF Reported
<1>6. Blamed
  <2>1. Len(chans) = 1
    BY ONLY <1>1
  <2>. QED  BY ONLY <1>1, <1>4, <2>1 DEF Blamed
<1>7. Completed /\ PanicNeedsCause /\ EnsuredMeansConnected
  <2>1. Completed /\ EnsuredMeansConnected
    BY ONLY <1>1, Zenon DEF Completed, EnsuredMeansConnected
  <2>2. PanicNeedsCause
    BY ONLY <1>1, Zenon DEF PanicNeedsCause
  <2>. QED  BY ONLY <2>1, <2>2
<1>. QED  BY ONLY <1>2, <1>3, <1>5, <1>6, <1>7

\* database_changes.go, send, doWorkInner, ForDocument: the client panics only
\* after a connection was lost or Close was called, or when a callback of
\* ForDocument meets a change that ForAllDocuments asked for.
THEOREM PanicsHaveCauses == Spec => []PanicNeedsCause
<1> DEFINE J == Registered /\ Asked /\ Reported /\ Blamed /\ PanicNeedsCause
<1>1. Init => J
  BY CausesAtStart, Zenon
<1>2. IInv /\ J /\ [Next]_vars => J'
  BY RegisteredKeeps, AskedKeeps, ReportedKeeps, BlamedKeeps, PanicKeeps, Zenon
<1>3. J => PanicNeedsCause
  OBVIOUS
<1> HIDE DEF J
<1>. QED  BY <1>1, <1>2, <1>3, ClientInvariant, PTL DEF Spec

\* database_changes.go, EnsureConnectedNow: a nil error means that a connection
\* was made, that the client was closed, or that an earlier receiver took the
\* error the worker ended with.
THEOREM NilMeansConnectedOnce == Spec => []EnsuredMeansConnected
<1> DEFINE J == Blamed /\ Completed /\ EnsuredMeansConnected
<1>1. Init => J
  BY CausesAtStart, Zenon
<1>2. IInv /\ J /\ [Next]_vars => J'
  BY BlamedKeeps, CompletedKeeps, Zenon
<1>3. J => EnsuredMeansConnected
  OBVIOUS
<1> HIDE DEF J
<1>. QED  BY <1>1, <1>2, <1>3, ClientInvariant, PTL DEF Spec

=============================================================================
