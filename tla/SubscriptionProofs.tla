------------------------- MODULE SubscriptionProofs -------------------------
(***************************************************************************)
(* Proofs about SubscriptionWorker: documents are delivered at least once, *)
(* in order, and acknowledged only when handled; a worker that ends leaves *)
(* its error; it panics only while it is being closed.                     *)
(***************************************************************************)
EXTENDS SubscriptionWorker, SequenceTheorems, TLAPS

Opening == {"status", "decodeStatus"}
Handing == {"callback", "ack", "closing"}
Reading == {"read", "decode"} \cup Handing
Labels == {"new", "loop", "connect", "dialled", "negotiate", "reply", "failed",
           "done"} \cup Opening \cup Reading

Refusals == {"Refused", "Redirect", "Concurrency", "Error"}
Types == {"Accepted", "Data", "EndOfBatch", "Confirm"} \cup Refusals
Messages == [type : Types, n : 0 .. MaxDocs]
Connections ==
  [id : 0 .. MaxConns, up : BOOLEAN, stored : BOOLEAN,
   server : {"none", "newer", "asked", "ready", "sent"},
   out : Seq(Messages), in : Seq(1 .. MaxDocs)]

TypeInv ==
  /\ pc \in Labels
  /\ ex \in {"none", "cancelled", "other", "fatal", "stale parser", "redirect",
             "concurrency"}
  /\ (pc = "failed") <=> (ex # "none")
  /\ cancelled \in BOOLEAN /\ disposed \in BOOLEAN /\ user \in BOOLEAN
  /\ panic \in BOOLEAN
  /\ conn \in Connections /\ parser \in 0 .. conn.id
  /\ batch \in Seq(1 .. MaxDocs)
  /\ handled \in SUBSET (1 .. MaxDocs) /\ acked \in 0 .. MaxDocs

\* What is acknowledged, or about to be, was handled.
AckInv ==
  /\ 1 .. acked \subseteq handled
  /\ \A i \in DOMAIN conn.in : 1 .. conn.in[i] \subseteq handled
  /\ pc = "ack" => \A i \in DOMAIN batch : batch[i] \in handled

\* A batch is a run of documents; the one being read begins after the last
\* acknowledged document, and no acknowledgement can move that on.
BatchInv ==
  /\ \A i \in DOMAIN batch : batch[i] = batch[1] + i - 1
  /\ pc \in Reading /\ batch # <<>> => batch[1] = acked + 1 /\ conn.in = <<>>

\* The worker may still take a message from the connection.
Live == pc \in Opening \/ pc = "decode" \/ (pc \in Reading /\ ~disposed)

Starts(m) == m.type \in {"Accepted", "Confirm"}

\* What is on its way to such a worker.  Documents follow one another, and the
\* first of a batch follows the last acknowledged one.
ChainInv ==
  \A i \in DOMAIN conn.out : i > 1 /\ conn.out[i].type = "Data" =>
     \/ conn.out[i-1].type = "Data" /\ conn.out[i].n = conn.out[i-1].n + 1
     \/ Starts(conn.out[i-1]) /\ conn.out[i].n = acked + 1

\* The next document is the one after the batch read so far.
NextInv ==
  pc \in Reading /\ conn.out # <<>> /\ conn.out[1].type = "Data" =>
    conn.out[1].n = acked + Len(batch) + 1

\* Nothing follows the end of a batch until that is acknowledged.
PauseInv ==
  /\ \A i \in DOMAIN conn.out : conn.out[i].type = "EndOfBatch" =>
       i = Len(conn.out) /\ conn.server = "sent"
  /\ conn.in # <<>> =>
       conn.out = <<>> /\ conn.server = "sent" /\ Len(conn.in) = 1
  /\ pc \in Handing => conn.out = <<>> /\ conn.in = <<>> /\ conn.server = "sent"

\* A server that may send a batch has sent no document of it, and all of the
\* batch before was taken.
ReadyInv ==
  conn.server = "ready" =>
    /\ conn.in = <<>>
    /\ \A i \in DOMAIN conn.out : Starts(conn.out[i])
    /\ pc \in Reading => batch = <<>>

\* Documents come after the status of the connection.
OpenInv ==
  /\ conn.server = "asked" => pc \in Opening /\ conn.out = <<>>
  /\ pc \in Opening =>
       /\ conn.in = <<>>
       /\ conn.server \in {"ready", "sent"} => conn.out # <<>>
       /\ conn.out # <<>> => conn.out[1].type \in {"Accepted"} \cup Refusals

StreamInv == ChainInv /\ NextInv /\ PauseInv /\ ReadyInv /\ OpenInv

\* A connection that was just made carries nothing yet.
FreshInv ==
  pc \in {"dialled", "negotiate", "reply"} =>
    conn.out = <<>> /\ conn.in = <<>> /\ conn.server \in {"none", "newer"}

\* Only the program cancels a worker that has not ended.
EndInv ==
  /\ cancelled /\ ~user => pc = "done"
  /\ pc = "done" /\ ~user => err # "none"
  /\ disposed \/ closer # "free" => user
  /\ panic => disposed /\ ~cancelled

IInv ==
  /\ TypeInv /\ AckInv /\ BatchInv /\ FreshInv /\ EndInv
  /\ Live => StreamInv

-----------------------------------------------------------------------------
(* Sequences and connections.                                              *)

\* What Took leaves: all but the first message.
LEMMA TailFacts ==
  ASSUME NEW S, NEW s \in Seq(S), s # <<>>
  PROVE  /\ Len(s) \in Nat /\ Len(s) > 0 /\ DOMAIN s = 1 .. Len(s)
         /\ Head(s) = s[1] /\ s[1] \in S
         /\ Tail(s) \in Seq(S) /\ Len(Tail(s)) = Len(s) - 1
         /\ DOMAIN Tail(s) = 1 .. Len(s) - 1
         /\ \A i \in 1 .. Len(s) - 1 : Tail(s)[i] = s[i + 1]
         /\ Tail(s) = <<>> <=> Len(s) = 1
<1>1. Tail(s) \in Seq(S) /\ Len(Tail(s)) = Len(s) - 1 /\ Len(s) \in Nat /\ Len(s) > 0
  OBVIOUS
<1>2. Tail(s) = <<>> <=> Len(Tail(s)) = 0
  BY <1>1, EmptySeq
<1>3. Tail(s) = <<>> <=> Len(s) = 1
  BY <1>1, <1>2
<1> QED
  BY <1>1, <1>3

\* What the server's next message adds.
LEMMA AppendFacts ==
  ASSUME NEW S, NEW s \in Seq(S), NEW e \in S
  PROVE  /\ Len(s) \in Nat /\ DOMAIN s = 1 .. Len(s)
         /\ Append(s, e) \in Seq(S) /\ Len(Append(s, e)) = Len(s) + 1
         /\ DOMAIN Append(s, e) = 1 .. Len(s) + 1
         /\ \A i \in 1 .. Len(s) : Append(s, e)[i] = s[i]
         /\ Append(s, e)[Len(s) + 1] = e
         /\ Append(s, e) # <<>>
  OBVIOUS

\* The fields of a connection have their types.
LEMMA ConnFacts ==
  ASSUME TypeInv
  PROVE  /\ conn.out \in Seq(Messages) /\ conn.in \in Seq(1 .. MaxDocs)
         /\ conn.id \in 0 .. MaxConns /\ conn.up \in BOOLEAN
         /\ conn.server \in {"none", "newer", "asked", "ready", "sent"}
  BY Zenon DEF TypeInv, Connections

\* A connection that is closed carries what it carried.
LEMMA ClosedConn ==
  ASSUME NEW c \in Connections
  PROVE  LET d == [c EXCEPT !.up = FALSE]
         IN /\ d \in Connections /\ d.id = c.id /\ d.out = c.out /\ d.in = c.in
            /\ d.server = c.server
  BY Zenon DEF Connections

\* Taking a message changes nothing but the messages.
LEMMA OtherMessages ==
  ASSUME NEW c \in Connections, NEW s \in Seq(Messages)
  PROVE  LET d == [c EXCEPT !.out = s]
         IN /\ d \in Connections /\ d.id = c.id /\ d.out = s /\ d.in = c.in
            /\ d.server = c.server
  BY DEF Connections

LEMMA TookFacts ==
  ASSUME TypeInv, conn.out # <<>>
  PROVE  /\ Took \in Connections /\ Took.id = conn.id /\ Took.out = Tail(conn.out)
         /\ Took.in = conn.in /\ Took.server = conn.server
<1>1. Tail(conn.out) \in Seq(Messages) /\ conn \in Connections
  BY ConnFacts, TailFacts, Zenon DEF TypeInv
<1> QED
  BY <1>1, OtherMessages, Zenon DEF Took

\* The connection of a worker that has none, and a new one (connectToServer).
LEMMA NoConnFacts == NoConn \in Connections /\ NoConn.id = 0
<1>1. <<>> \in Seq(Messages) /\ <<>> \in Seq(1 .. MaxDocs)
  OBVIOUS
<1> QED
  BY <1>1, SubscriptionAssumption DEF NoConn, Connections

LEMMA NewConn ==
  ASSUME NEW k \in 0 .. MaxConns
  PROVE  LET c == [NoConn EXCEPT !.id = k, !.up = TRUE]
         IN c \in Connections /\ c.id = k /\ c.out = <<>> /\ c.in = <<>> /\ c.server = "none"
<1>1. <<>> \in Seq(Messages) /\ <<>> \in Seq(1 .. MaxDocs)
  OBVIOUS
<1> QED
  BY <1>1, SubscriptionAssumption, Zenon DEF NoConn, Connections

\* A worker that moves on with the same connection, or only has it closed,
\* keeps its stream.
LEMMA StreamKept ==
  ASSUME StreamInv, batch' = batch, acked' = acked,
         conn'.out = conn.out, conn'.in = conn.in, conn'.server = conn.server,
         pc' \in Opening <=> pc \in Opening, pc' \in Reading <=> pc \in Reading,
         pc' \in Handing => pc \in Handing
  PROVE  StreamInv'
<1>0. ChainInv /\ NextInv /\ PauseInv /\ ReadyInv /\ OpenInv
  BY DEF StreamInv
<1>1. ChainInv'
  BY <1>0, Zenon DEF ChainInv, Starts
<1>2. NextInv'
  BY <1>0, Zenon DEF NextInv
<1>3. PauseInv'
  BY <1>0, Zenon DEF PauseInv
<1>4. ReadyInv'
  BY <1>0, Zenon DEF ReadyInv, Starts
<1>5. OpenInv'
  BY <1>0, Zenon DEF OpenInv
<1> QED
  BY <1>1, <1>2, <1>3, <1>4, <1>5, Zenon DEF StreamInv

\* So a step that at most closes the connection, and marks the worker, keeps
\* the invariant if it is one of the program's (Cancel, close) or of the
\* network.
LEMMA ConnKept ==
  ASSUME IInv, conn' = conn \/ conn' = [conn EXCEPT !.up = FALSE],
         UNCHANGED <<pc, ex, parser, batch, handled, acked>>,
         cancelled' \in BOOLEAN, disposed' \in BOOLEAN, user' \in BOOLEAN, panic' \in BOOLEAN,
         disposed => disposed', EndInv'
  PROVE  IInv'
<1>0. TypeInv /\ AckInv /\ BatchInv /\ FreshInv /\ (Live => StreamInv)
  BY Zenon DEF IInv
<1>1. /\ conn' \in Connections /\ conn'.id = conn.id /\ conn'.out = conn.out
      /\ conn'.in = conn.in /\ conn'.server = conn.server
  <2>1. conn \in Connections
    BY <1>0, Zenon DEF TypeInv
  <2> QED
    BY <2>1, ClosedConn, Zenon
<1>2. TypeInv'
  BY <1>0, <1>1, Zenon DEF TypeInv
<1>3. AckInv' /\ BatchInv' /\ FreshInv'
  BY <1>0, <1>1, Zenon DEF AckInv, BatchInv, FreshInv
<1>4. Live' => Live
  BY Zenon DEF Live
<1>5. Live' => StreamInv'
  BY <1>0, <1>1, <1>4, StreamKept, Zenon
<1> QED
  BY <1>2, <1>3, <1>5, Zenon DEF IInv

\* Reading a message of the stream leaves a stream (DecodeStatus and
\* readSingleSubscriptionBatchFromServer).
LEMMA TakeMessage ==
  ASSUME TypeInv, StreamInv, conn.out # <<>>, conn' = Took, acked' = acked,
         \/ /\ conn.out[1].type = "Data" /\ pc \in Reading /\ pc' = "read"
            /\ Len(batch') = Len(batch) + 1
         \/ Starts(conn.out[1]) /\ batch' = <<>> /\ pc' = "read"
         \/ conn.out[1].type = "EndOfBatch" /\ pc' = "callback"
  PROVE  StreamInv'
<1> DEFINE out == conn.out
<1>1. /\ conn'.out = Tail(out) /\ conn'.in = conn.in /\ conn'.server = conn.server
  BY TookFacts
<1>2. /\ Len(out) \in Nat /\ Len(out) > 0 /\ DOMAIN out = 1 .. Len(out)
      /\ Len(Tail(out)) = Len(out) - 1 /\ DOMAIN Tail(out) = 1 .. Len(out) - 1
      /\ \A i \in 1 .. Len(out) - 1 : Tail(out)[i] = out[i + 1]
      /\ Tail(out) = <<>> <=> Len(out) = 1
  <2>1. out \in Seq(Messages) /\ out # <<>>
    BY ConnFacts
  <2> HIDE DEF out
  <2> QED
    BY <2>1, TailFacts
<1>3. acked \in Nat /\ Len(batch) \in Nat
  <2>1. acked \in 0 .. MaxDocs /\ batch \in Seq(1 .. MaxDocs)
    BY Zenon DEF TypeInv
  <2> QED
    BY <2>1, LenProperties, SubscriptionAssumption
<1>4. ChainInv /\ NextInv /\ PauseInv /\ ReadyInv /\ OpenInv /\ conn.in = <<>>
  BY DEF StreamInv, PauseInv
<1> HIDE DEF out
<1>5. ChainInv'
  <2> SUFFICES ASSUME NEW i \in 1 .. Len(out) - 1, i > 1, out[i + 1].type = "Data"
               PROVE  \/ out[i].type = "Data" /\ out[i + 1].n = out[i].n + 1
                      \/ Starts(out[i]) /\ out[i + 1].n = acked + 1
    BY <1>1, <1>2 DEF ChainInv, Starts
  <2>1. i + 1 \in DOMAIN out /\ i + 1 > 1 /\ (i + 1) - 1 = i
    BY <1>2
  <2> QED
    BY <2>1, <1>4, Zenon DEF ChainInv, out
<1>6. NextInv'
  <2> SUFFICES ASSUME Len(out) > 1, out[2].type = "Data"
               PROVE  out[2].n = acked + Len(batch') + 1
    BY <1>1, <1>2 DEF NextInv
  <2>1. \/ out[1].type = "Data" /\ out[2].n = out[1].n + 1
        \/ Starts(out[1]) /\ out[2].n = acked + 1
    <3>1. 2 \in DOMAIN out /\ 2 > 1 /\ 2 - 1 = 1
      BY <1>2
    <3> QED
      BY <3>1, <1>4 DEF ChainInv, out
  <2>2. out[1].type # "EndOfBatch"
    BY <1>2, <1>4 DEF PauseInv, out
  <2>3. CASE out[1].type = "Data"
    <3>1. out[1].n = acked + Len(batch) + 1 /\ Len(batch') = Len(batch) + 1
      BY <1>4, <2>3 DEF NextInv, Starts, out
    <3>2. out[2].n = out[1].n + 1
      BY <2>1, <2>3 DEF Starts
    <3> QED
      BY <1>3, <3>1, <3>2
  <2>4. CASE Starts(out[1])
    BY <1>3, <2>1, <2>4 DEF Starts, out
  <2> QED
    BY <2>1, <2>3, <2>4
<1>7. PauseInv'
  <2>1. ASSUME NEW i \in DOMAIN Tail(out), Tail(out)[i].type = "EndOfBatch"
        PROVE  i = Len(Tail(out)) /\ conn.server = "sent"
    <3>1. i + 1 \in DOMAIN out /\ out[i + 1].type = "EndOfBatch"
      BY <1>2, <2>1
    <3>2. i + 1 = Len(out) /\ conn.server = "sent"
      BY <1>4, <3>1 DEF PauseInv, out
    <3> QED
      BY <1>2, <3>2
  <2>2. ASSUME pc' = "callback" PROVE Tail(out) = <<>> /\ conn.server = "sent"
    <3>1. out[1].type = "EndOfBatch" /\ 1 \in DOMAIN out
      BY <1>2, <2>2 DEF out
    <3> QED
      BY <1>2, <1>4, <3>1 DEF PauseInv, out
  <2> QED
    BY <1>1, <1>4, <2>1, <2>2 DEF PauseInv, Handing
<1>8. ReadyInv'
  BY <1>1, <1>2, <1>4 DEF ReadyInv, Starts, out
<1>9. OpenInv'
  BY <1>1, <1>4 DEF OpenInv, Opening, out
<1> QED
  BY <1>5, <1>6, <1>7, <1>8, <1>9 DEF StreamInv

\* A status, or an error, continues the stream (ServerStatus, ServerFails).
LEMMA SendStatus ==
  ASSUME TypeInv, StreamInv, NEW m \in Messages, m.type \in {"Accepted"} \cup Refusals,
         conn'.out = Append(conn.out, m), conn'.in = conn.in,
         UNCHANGED <<acked, batch, pc>>, conn.server \in {"asked", "ready"},
         \/ conn'.server = "none"
         \/ conn.server = "asked" /\ m.type = "Accepted" /\ conn'.server = "ready"
  PROVE  StreamInv'
<1> DEFINE out == conn.out
<1>1. /\ Len(out) \in Nat /\ DOMAIN out = 1 .. Len(out)
      /\ Len(Append(out, m)) = Len(out) + 1
      /\ DOMAIN Append(out, m) = 1 .. Len(out) + 1
      /\ \A i \in 1 .. Len(out) : Append(out, m)[i] = out[i]
      /\ Append(out, m)[Len(out) + 1] = m /\ Append(out, m) # <<>>
  BY ConnFacts, AppendFacts
<1>2. ChainInv /\ NextInv /\ PauseInv /\ ReadyInv /\ OpenInv /\ conn.in = <<>>
  BY DEF StreamInv, PauseInv
<1>3. pc \notin Handing /\ \A i \in 1 .. Len(out) : out[i].type # "EndOfBatch"
  BY <1>1, <1>2 DEF PauseInv, out
<1>4. out = <<>> => Len(out) = 0
  OBVIOUS
<1>5. out # <<>> => Len(out) >= 1
  BY ConnFacts, EmptySeq
<1>6. m.type # "Data" /\ m.type # "EndOfBatch"
  BY DEF Refusals
<1>7. conn.server = "asked" => out = <<>> /\ pc \in Opening
  BY <1>2 DEF OpenInv, out
<1>8. conn'.out = Append(out, m)
  OBVIOUS
<1> HIDE DEF out
<1>9. ChainInv'
  <2> SUFFICES ASSUME NEW i \in 1 .. Len(out) + 1, i > 1, conn'.out[i].type = "Data"
               PROVE  \/ conn'.out[i-1].type = "Data" /\ conn'.out[i].n = conn'.out[i-1].n + 1
                      \/ Starts(conn'.out[i-1]) /\ conn'.out[i].n = acked + 1
    BY <1>1, <1>8 DEF ChainInv, Starts
  <2>1. i \in 1 .. Len(out)
    BY <1>1, <1>6, <1>8
  <2>2. i - 1 \in 1 .. Len(out)
    BY <1>1, <2>1
  <2> QED
    BY <1>1, <1>2, <1>8, <2>1, <2>2 DEF ChainInv, out
<1>10. NextInv'
  <2>1. CASE out = <<>>
    BY <1>1, <1>4, <1>6, <1>8, <2>1 DEF NextInv
  <2>2. CASE out # <<>>
    <3>1. 1 \in 1 .. Len(out)
      BY <1>1, <1>5, <2>2
    <3> QED
      BY <1>1, <1>2, <1>8, <2>2, <3>1 DEF NextInv, out
  <2> QED
    BY <2>1, <2>2
<1>11. PauseInv'
  BY <1>1, <1>2, <1>3, <1>6, <1>8 DEF PauseInv
<1>12. ReadyInv'
  BY <1>1, <1>2, <1>4, <1>7, <1>8 DEF ReadyInv, Starts, Opening, Reading, Handing
<1>13. OpenInv'
  <2>1. conn'.out[1].type \in {"Accepted"} \cup Refusals \/ pc \notin Opening
    <3>1. CASE out = <<>>
      BY <1>1, <1>4, <1>8, <3>1
    <3>2. CASE out # <<>>
      BY <1>1, <1>2, <1>5, <1>8, <3>2 DEF OpenInv, out
    <3> QED
      BY <3>1, <3>2
  <2> QED
    BY <1>1, <1>2, <1>8, <2>1 DEF OpenInv
<1> QED
  BY <1>9, <1>10, <1>11, <1>12, <1>13 DEF StreamInv

\* The messages of a batch after those on their way (ServerBatch).
Sent(out, a, k) ==
  out \o [i \in 1 .. k |-> message("Data", a + i)] \o <<message("EndOfBatch", 0)>>

IsSent(s, out, a, k) ==
  /\ s \in Seq(Messages) /\ Len(s) = Len(out) + k + 1
  /\ \A i \in 1 .. Len(out) : s[i] = out[i]
  /\ \A i \in Len(out) + 1 .. Len(out) + k :
       s[i].type = "Data" /\ s[i].n = a + (i - Len(out))
  /\ s[Len(out) + k + 1].type = "EndOfBatch"

\* They are the documents after the last acknowledged one, in order.
LEMMA BatchFacts ==
  ASSUME NEW out \in Seq(Messages), NEW a \in Nat, NEW k \in Nat, a + k <= MaxDocs
  PROVE  IsSent(Sent(out, a, k), out, a, k)
<1> DEFINE docs == [i \in 1 .. k |-> message("Data", a + i)]
           end == <<message("EndOfBatch", 0)>>
           od == out \o docs
<1>1. \A i \in 1 .. k : message("Data", a + i) \in Messages
  BY SubscriptionAssumption DEF message, Messages, Types
<1>2. docs \in Seq(Messages) /\ Len(docs) = k /\ Len(out) \in Nat
  BY <1>1
<1>3. message("EndOfBatch", 0) \in Messages
  BY SubscriptionAssumption DEF message, Messages, Types
<1>4. end \in Seq(Messages) /\ Len(end) = 1 /\ end[1] = message("EndOfBatch", 0)
  BY <1>3
<1>5. \A i \in 1 .. k : docs[i].type = "Data" /\ docs[i].n = a + i
  BY DEF message
<1>6. end[1].type = "EndOfBatch"
  BY <1>4 DEF message
<1> HIDE DEF docs, end
<1>7. /\ od \in Seq(Messages) /\ Len(od) = Len(out) + k
      /\ \A i \in 1 .. Len(out) + k : od[i] = IF i <= Len(out) THEN out[i] ELSE docs[i - Len(out)]
  BY <1>2, ConcatProperties, Zenon
<1> HIDE DEF od
<1>8. /\ od \o end \in Seq(Messages) /\ Len(od \o end) = Len(out) + k + 1
      /\ \A i \in 1 .. Len(out) + k + 1 : (od \o end)[i] =
           IF i <= Len(out) + k THEN od[i] ELSE end[i - (Len(out) + k)]
  <2>1. /\ od \o end \in Seq(Messages) /\ Len(od \o end) = Len(od) + Len(end)
        /\ \A i \in 1 .. Len(od) + Len(end) : (od \o end)[i] =
             IF i <= Len(od) THEN od[i] ELSE end[i - Len(od)]
    <3>1. od \in Seq(Messages) /\ end \in Seq(Messages)
      BY <1>4, <1>7
    <3> QED
      BY ONLY <3>1, ConcatProperties
  <2> QED
    BY <1>4, <1>7, <2>1
<1> DEFINE s == od \o end
<1> HIDE DEF s
<1>9. /\ s \in Seq(Messages) /\ Len(s) = Len(out) + k + 1
      /\ \A i \in 1 .. Len(out) + k + 1 : s[i] =
           IF i <= Len(out) + k THEN od[i] ELSE end[i - (Len(out) + k)]
  BY <1>8 DEF s
<1>10. ASSUME NEW i \in 1 .. Len(out) PROVE s[i] = out[i]
  BY <1>2, <1>7, <1>9
<1>11. ASSUME NEW i \in Len(out) + 1 .. Len(out) + k
       PROVE  s[i].type = "Data" /\ s[i].n = a + (i - Len(out))
  <2>1. i \in 1 .. Len(out) + k /\ i - Len(out) \in 1 .. k /\ ~(i <= Len(out))
    BY <1>2
  <2>2. i \in 1 .. Len(out) + k + 1 /\ i <= Len(out) + k
    BY <1>2, <2>1
  <2>3. s[i] = docs[i - Len(out)]
    BY <1>7, <1>9, <2>1, <2>2
  <2> QED
    BY <1>5, <2>1, <2>3
<1>12. s[Len(out) + k + 1].type = "EndOfBatch"
  <2> DEFINE l == Len(out) + k + 1
  <2>1. l \in 1 .. Len(out) + k + 1 /\ ~(l <= Len(out) + k) /\ l - (Len(out) + k) = 1
    BY <1>2
  <2>2. s[l] = end[1]
    BY <1>9, <2>1
  <2> QED
    BY <1>6, <2>2
<1> QED
  BY <1>9, <1>10, <1>11, <1>12, Zenon DEF s, od, docs, end, Sent, IsSent

\* A batch continues the stream, too.
LEMMA SendBatch ==
  ASSUME TypeInv, StreamInv, conn.server = "ready",
         NEW s, NEW k \in Nat, k >= 1, IsSent(s, conn.out, acked, k),
         conn'.out = s, conn'.in = conn.in, conn'.server = "sent",
         UNCHANGED <<acked, batch, pc>>
  PROVE  StreamInv'
<1> DEFINE l == Len(conn.out)
<1>0. /\ s \in Seq(Messages) /\ Len(s) = l + k + 1
      /\ \A i \in 1 .. l : s[i] = conn.out[i]
      /\ \A i \in l + 1 .. l + k : s[i].type = "Data" /\ s[i].n = acked + (i - l)
      /\ s[l + k + 1].type = "EndOfBatch"
  BY DEF IsSent
<1>1. conn.out \in Seq(Messages) /\ l \in Nat /\ DOMAIN conn.out = 1 .. l /\ acked \in Nat
      /\ DOMAIN s = 1 .. l + k + 1
  <2>1. conn.out \in Seq(Messages) /\ acked \in Nat
    <3>1. acked \in 0 .. MaxDocs
      BY Zenon DEF TypeInv
    <3> QED
      BY <3>1, ConnFacts, SubscriptionAssumption
  <2> QED
    BY <1>0, <2>1, LenProperties
<1>2. /\ conn.in = <<>> /\ pc \notin Handing /\ (pc \in Reading => batch = <<>>)
      /\ \A i \in 1 .. l : Starts(conn.out[i])
      /\ pc \in Opening => conn.out # <<>> /\ conn.out[1].type \in {"Accepted"} \cup Refusals
  BY <1>1 DEF StreamInv, PauseInv, ReadyInv, OpenInv
<1>3. /\ \A i \in 1 .. l : Starts(s[i])
      /\ \A i \in l + 1 .. l + k : s[i].type = "Data" /\ s[i].n = acked + (i - l)
      /\ s[l + k + 1].type = "EndOfBatch"
  BY <1>0, <1>2, Zenon DEF Starts
<1>4. conn.out # <<>> => l >= 1
  BY <1>1, EmptySeq
<1>5. s # <<>>
  <2>1. Len(s) # 0
    BY <1>0, <1>1
  <2> QED
    BY <1>0, <2>1, EmptySeq
<1> HIDE DEF l
<1>6. \A i \in 1 .. l + k + 1 : i \in 1 .. l \/ i \in l + 1 .. l + k \/ i = l + k + 1
  BY <1>1
<1>7. ChainInv'
  <2> SUFFICES ASSUME NEW i \in 1 .. l + k + 1, i > 1, s[i].type = "Data"
               PROVE  \/ s[i-1].type = "Data" /\ s[i].n = s[i-1].n + 1
                      \/ Starts(s[i-1]) /\ s[i].n = acked + 1
    BY <1>1 DEF ChainInv, Starts
  <2>1. i \in l + 1 .. l + k
    BY <1>3, <1>6 DEF Starts
  <2>2. CASE i = l + 1
    <3>1. i - 1 \in 1 .. l /\ i - l = 1
      BY <1>1, <2>2
    <3> QED
      BY <1>3, <2>1, <3>1
  <2>3. CASE i # l + 1
    <3>1. i - 1 \in l + 1 .. l + k
      BY <1>1, <2>1, <2>3
    <3>2. s[i].n = acked + (i - l) /\ s[i-1].type = "Data" /\ s[i-1].n = acked + ((i - 1) - l)
      BY <1>3, <2>1, <3>1
    <3>3. ASSUME NEW a \in Nat, NEW j \in Int, NEW m \in Nat
          PROVE  a + (j - m) = a + ((j - 1) - m) + 1
      OBVIOUS
    <3> QED
      BY <1>1, <3>2, <3>3
  <2> QED
    BY <2>2, <2>3
<1>8. NextInv'
  <2> SUFFICES ASSUME pc \in Reading, s[1].type = "Data" PROVE s[1].n = acked + Len(batch) + 1
    BY DEF NextInv
  <2>1. Len(batch) = 0
    BY <1>2
  <2>2. 1 \in 1 .. l + k + 1
    BY <1>1
  <2>3. 1 \in l + 1 .. l + k
    BY <1>3, <1>6, <2>2 DEF Starts
  <2>4. 1 - l = 1
    BY <1>1, <2>3
  <2>5. s[1].n = acked + 1
    BY <1>3, <2>3, <2>4
  <2>6. acked + 1 = acked + 0 + 1
    BY <1>1
  <2> QED
    BY <2>1, <2>5, <2>6
<1>9. PauseInv'
  <2>1. \A i \in DOMAIN s : s[i].type = "EndOfBatch" => i = Len(s)
    BY <1>0, <1>1, <1>3, <1>6, Zenon DEF Starts
  <2> QED
    BY <1>2, <2>1 DEF PauseInv
<1>10. ReadyInv' /\ OpenInv'
  <2>1. ASSUME pc \in Opening PROVE s[1] = conn.out[1]
    <3>1. 1 \in 1 .. l
      BY <1>1, <1>2, <1>4, <2>1
    <3> QED
      BY <1>0, <3>1
  <2> QED
    BY <1>2, <1>5, <2>1 DEF ReadyInv, OpenInv
<1> QED
  BY <1>7, <1>8, <1>9, <1>10 DEF StreamInv

\* An acknowledgement covers documents that were handled (sendAck).
LEMMA AckFacts ==
  ASSUME TypeInv, AckInv, BatchInv, pc = "ack"
  PROVE  LET a == conn.in \o ackOf(batch)
         IN /\ a \in Seq(1 .. MaxDocs)
            /\ \A i \in DOMAIN a : 1 .. a[i] \subseteq handled
            /\ a = conn.in \/ (Len(a) = 1 /\ a # <<>>)
<1>1. /\ conn.in \in Seq(1 .. MaxDocs) /\ batch \in Seq(1 .. MaxDocs)
      /\ acked \in 0 .. MaxDocs
  BY ConnFacts DEF TypeInv
<1>2. CASE batch = <<>>
  <2>1. conn.in \o ackOf(batch) = conn.in
    BY <1>1, <1>2, ConcatEmptySeq DEF ackOf
  <2> QED
    BY <1>1, <2>1 DEF AckInv
<1>3. CASE batch # <<>>
  <2> DEFINE l == Len(batch)
             n == batch[l]
  <2>1. l \in Nat /\ l > 0 /\ DOMAIN batch = 1 .. l
    BY <1>1, <1>3, TailFacts
  <2>2. batch[1] = acked + 1 /\ conn.in = <<>>
    BY <1>3 DEF BatchInv, Reading, Handing
  <2>3. \A i \in 1 .. l : batch[i] = batch[1] + i - 1 /\ batch[i] \in handled
    BY <2>1 DEF BatchInv, AckInv
  <2>4. n \in 1 .. MaxDocs
    <3>1. l \in 1 .. Len(batch)
      BY <2>1
    <3> HIDE DEF l
    <3> QED
      BY <1>1, <3>1, ElementOfSeq, Zenon
  <2>5. ackOf(batch) = <<n>>
    BY <1>3 DEF ackOf
  <2> HIDE DEF l, n
  <2>6. <<>> \o <<n>> = <<n>>
    OBVIOUS
  <2>7. 1 .. n \subseteq handled
    <3>1. n = acked + l
      BY <1>1, <2>1, <2>2, <2>3 DEF n
    <3> SUFFICES ASSUME NEW m \in 1 .. n PROVE m \in handled
      OBVIOUS
    <3>2. CASE m <= acked
      BY <1>1, <3>2 DEF AckInv
    <3>3. CASE m > acked
      <4>1. m - acked \in 1 .. l /\ acked + 1 + (m - acked) - 1 = m
        BY <1>1, <2>1, <3>1, <3>3
      <4> QED
        BY <2>2, <2>3, <4>1
    <3> QED
      BY <1>1, <3>2, <3>3
  <2>8. /\ <<n>> \in Seq(1 .. MaxDocs) /\ Len(<<n>>) = 1 /\ <<n>> # <<>>
        /\ \A i \in DOMAIN <<n>> : <<n>>[i] = n
    BY <2>4
  <2> QED
    BY <2>2, <2>5, <2>6, <2>7, <2>8
<1> QED
  BY <1>2, <1>3

-----------------------------------------------------------------------------
\* The invariant holds at the start (NewSubscriptionWorker).
LEMMA Initial == Init => IInv
<1> SUFFICES ASSUME Init PROVE IInv
  OBVIOUS
<1>1. TypeInv
  <2>1. <<>> \in Seq(1 .. MaxDocs)
    OBVIOUS
  <2> QED
    <3>1. conn \in Connections /\ parser \in 0 .. conn.id
      BY NoConnFacts DEF Init
    <3>2. pc \in Labels /\ pc # "failed" /\ ex = "none"
      BY DEF Init, Labels
    <3>3. /\ cancelled \in BOOLEAN /\ disposed \in BOOLEAN /\ user \in BOOLEAN
          /\ panic \in BOOLEAN /\ batch \in Seq(1 .. MaxDocs)
      BY <2>1, Zenon DEF Init
    <3>4. handled \in SUBSET (1 .. MaxDocs) /\ acked \in 0 .. MaxDocs
      BY SubscriptionAssumption DEF Init
    <3> QED
      BY <3>1, <3>2, <3>3, <3>4 DEF TypeInv
<1>2. AckInv /\ BatchInv
  BY SubscriptionAssumption DEF Init, NoConn, AckInv, BatchInv
<1>3. FreshInv /\ EndInv /\ ~Live
  BY DEF Init, FreshInv, EndInv, Live, Opening, Reading, Handing
<1> QED
  BY <1>1, <1>2, <1>3 DEF IInv

\* Every step of the worker, of Cancel and Close, and of the server keeps the
\* invariant.
LEMMA Inductive == IInv /\ [Next]_vars => IInv'
<1> SUFFICES ASSUME IInv, [Next]_vars PROVE IInv'
  OBVIOUS
<1>0. TypeInv /\ AckInv /\ BatchInv /\ FreshInv /\ EndInv /\ (Live => StreamInv)
  BY DEF IInv
<1> USE SubscriptionAssumption
<1>1. CASE Run
  <2> USE <1>0, <1>1 DEF Run, Running, control, delivery, retryState, GoTo, Fail, FailToConnect, Leave, closeTcpClient
  <2>1. TypeInv'
    BY DEF TypeInv, Labels, Opening, Handing, Reading, Connections
  <2>2. AckInv'
    BY DEF AckInv, TypeInv, Labels, Opening, Handing, Reading, Connections
  <2>3. BatchInv'
    BY DEF BatchInv, TypeInv, Labels, Opening, Handing, Reading, Connections
  <2>4. FreshInv'
    BY DEF FreshInv, TypeInv, Labels, Opening, Handing, Reading, Connections
  <2>5. EndInv'
    BY DEF EndInv, TypeInv, Labels, Opening, Handing, Reading
  <2>6. Live' => StreamInv'
    BY DEF StreamInv, ChainInv, NextInv, PauseInv, ReadyInv, OpenInv, Live, Starts, FreshInv, BatchInv, TypeInv, Labels, Opening, Handing, Reading, Connections
  <2> QED
    BY <2>1, <2>2, <2>3, <2>4, <2>5, <2>6 DEF IInv
<1>2. CASE runSubscriptionAsync
  <2> USE <1>0, <1>2 DEF runSubscriptionAsync, Running, control, delivery, retryState, GoTo, Fail, FailToConnect, Leave, closeTcpClient
  <2>1. TypeInv'
    BY Zenon DEF TypeInv, Labels, Opening, Handing, Reading, Connections
  <2>2. AckInv'
    BY DEF AckInv, TypeInv, Labels, Opening, Handing, Reading, Connections
  <2>3. BatchInv'
    BY DEF BatchInv, TypeInv, Labels, Opening, Handing, Reading, Connections
  <2>4. FreshInv'
    BY DEF FreshInv, TypeInv, Labels, Opening, Handing, Reading, Connections
  <2>5. EndInv'
    BY DEF EndInv, TypeInv, Labels, Opening, Handing, Reading
  <2>6. Live' => StreamInv'
    BY DEF StreamInv, ChainInv, NextInv, PauseInv, ReadyInv, OpenInv, Live, Starts, FreshInv, BatchInv, TypeInv, Labels, Opening, Handing, Reading, Connections
  <2> QED
    BY <2>1, <2>2, <2>3, <2>4, <2>5, <2>6 DEF IInv
<1>3. CASE connectToServer
  <2> USE <1>0, <1>3 DEF connectToServer, Running, control, delivery, retryState, GoTo, Fail, FailToConnect, Leave, closeTcpClient
  <2> DEFINE made == [NoConn EXCEPT !.id = conn.id + 1, !.up = TRUE]
  <2>a. conn.id < MaxConns => /\ made \in Connections /\ made.id = conn.id + 1
                             /\ made.in = <<>> /\ made.out = <<>> /\ made.server = "none"
    <3>1. conn.id \in 0 .. MaxConns
      BY ConnFacts
    <3>2. ASSUME conn.id < MaxConns PROVE conn.id + 1 \in 0 .. MaxConns
      BY <3>1, <3>2
    <3>3. ASSUME conn.id < MaxConns
          PROVE  /\ made \in Connections /\ made.id = conn.id + 1
                 /\ made.in = <<>> /\ made.out = <<>> /\ made.server = "none"
      BY ONLY <3>2, <3>3, NewConn, Zenon DEF made
    <3> QED
      BY <3>3
  <2>b. \/ conn' = conn /\ pc' = "failed" /\ ex' \in {"cancelled", "other", "fatal"}
        \/ conn.id < MaxConns /\ conn' = made /\ pc' = "dialled" /\ ex' = ex
    BY Zenon
  <2>c. UNCHANGED <<cancelled, disposed, user, parser, batch, handled, acked, panic>> /\ pc = "connect"
    OBVIOUS
  <2> HIDE DEF made
  <2>1. TypeInv'
    <3> HIDE <1>3
    <3>1. conn' \in Connections /\ parser' \in 0 .. conn'.id
      BY <2>a, <2>b, <2>c, ConnFacts DEF TypeInv
    <3> QED
      BY <2>b, <2>c, <3>1, Zenon DEF TypeInv, Labels, Opening, Handing, Reading
  <2>2. AckInv'
    BY <2>a, <2>b, <2>c DEF AckInv
  <2>3. BatchInv'
    BY <2>b, <2>c DEF BatchInv, Reading, Handing
  <2>4. FreshInv'
    BY <2>a, <2>b, <2>c DEF FreshInv
  <2>5. EndInv'
    BY Zenon DEF EndInv, TypeInv, Labels, Opening, Handing, Reading
  <2>6. Live' => StreamInv'
    BY <2>b DEF Live, Opening, Reading, Handing
  <2> QED
    BY <2>1, <2>2, <2>3, <2>4, <2>5, <2>6 DEF IInv
<1>4. CASE StoreTcpClient
  <2> USE <1>0, <1>4 DEF StoreTcpClient, Running, control, delivery, retryState, GoTo, Fail, FailToConnect, Leave, closeTcpClient
  <2>1. TypeInv'
    BY Zenon DEF TypeInv, Labels, Opening, Handing, Reading, Connections
  <2>2. AckInv'
    BY DEF AckInv, TypeInv, Labels, Opening, Handing, Reading, Connections
  <2>3. BatchInv'
    BY DEF BatchInv, TypeInv, Labels, Opening, Handing, Reading, Connections
  <2>4. FreshInv'
    BY DEF FreshInv, TypeInv, Labels, Opening, Handing, Reading, Connections
  <2>5. EndInv'
    BY DEF EndInv, TypeInv, Labels, Opening, Handing, Reading
  <2>6. Live' => StreamInv'
    BY DEF StreamInv, ChainInv, NextInv, PauseInv, ReadyInv, OpenInv, Live, Starts, FreshInv, BatchInv, TypeInv, Labels, Opening, Handing, Reading, Connections
  <2> QED
    BY <2>1, <2>2, <2>3, <2>4, <2>5, <2>6 DEF IInv
<1>5. CASE ensureParser
  <2> USE <1>0, <1>5 DEF ensureParser, Running, control, delivery, retryState, GoTo, Fail, FailToConnect, Leave, closeTcpClient
  <2>1. TypeInv'
    BY DEF TypeInv, Labels, Opening, Handing, Reading, Connections
  <2>2. AckInv'
    BY DEF AckInv, TypeInv, Labels, Opening, Handing, Reading, Connections
  <2>3. BatchInv'
    BY DEF BatchInv, TypeInv, Labels, Opening, Handing, Reading, Connections
  <2>4. FreshInv'
    BY DEF FreshInv, TypeInv, Labels, Opening, Handing, Reading, Connections
  <2>5. EndInv'
    BY DEF EndInv, TypeInv, Labels, Opening, Handing, Reading
  <2>6. Live' => StreamInv'
    BY DEF StreamInv, ChainInv, NextInv, PauseInv, ReadyInv, OpenInv, Live, Starts, FreshInv, BatchInv, TypeInv, Labels, Opening, Handing, Reading, Connections
  <2> QED
    BY <2>1, <2>2, <2>3, <2>4, <2>5, <2>6 DEF IInv
<1>6. CASE negotiateProtocolVersion
  <2> USE <1>0, <1>6 DEF negotiateProtocolVersion, Running, control, delivery, retryState, GoTo, Fail, FailToConnect, Leave, closeTcpClient
  <2>1. TypeInv'
    BY Zenon DEF TypeInv, Labels, Opening, Handing, Reading, Connections
  <2>2. AckInv'
    BY Zenon DEF AckInv, TypeInv, Labels, Opening, Handing, Reading, Connections
  <2>3. BatchInv'
    BY Zenon DEF BatchInv, TypeInv, Labels, Opening, Handing, Reading, Connections
  <2>4. FreshInv'
    BY Zenon DEF FreshInv, TypeInv, Labels, Opening, Handing, Reading, Connections
  <2>5. EndInv'
    BY Zenon DEF EndInv, TypeInv, Labels, Opening, Handing, Reading
  <2>6. Live' => StreamInv'
    <3> SUFFICES ASSUME Live' PROVE StreamInv'
      BY Zenon
    <3>1. pc' = "status" /\ conn'.out = <<>> /\ conn'.in = <<>> /\ conn'.server = "asked"
      BY Zenon DEF Live, FreshInv, TypeInv, Connections, Opening, Reading, Handing
    <3> QED
      BY <3>1 DEF StreamInv, ChainInv, NextInv, PauseInv, ReadyInv, OpenInv, Live, Starts, Opening, Reading, Handing
  <2> QED
    BY <2>1, <2>2, <2>3, <2>4, <2>5, <2>6, Zenon DEF IInv
<1>7. CASE ReadStatus
  <2> USE <1>0, <1>7 DEF ReadStatus, Running, control, delivery, retryState, GoTo, Fail, FailToConnect, Leave, closeTcpClient
  <2>1. TypeInv'
    BY Zenon DEF TypeInv, Labels, Opening, Handing, Reading, Connections
  <2>2. AckInv'
    BY Zenon DEF AckInv, TypeInv, Labels, Opening, Handing, Reading, Connections
  <2>3. BatchInv'
    BY Zenon DEF BatchInv, TypeInv, Labels, Opening, Handing, Reading, Connections
  <2>4. FreshInv'
    BY DEF FreshInv, TypeInv, Labels, Opening, Handing, Reading, Connections
  <2>5. EndInv'
    BY DEF EndInv, TypeInv, Labels, Opening, Handing, Reading
  <2>6. Live' => StreamInv'
    <3> HIDE <1>7
    <3>1. ASSUME Live'
          PROVE  /\ conn' = conn /\ batch' = batch /\ acked' = acked
                 /\ pc \in Opening /\ pc' \in Opening
      BY <1>7, <3>1, Zenon DEF ReadStatus, Leave, GoTo, Live, Opening, Reading, Handing
    <3>2. ASSUME Live' PROVE Live
      BY <3>1, <3>2, Zenon DEF Live, Opening, Reading, Handing
    <3>3. ASSUME Live'
          PROVE  /\ (pc' \in Opening <=> pc \in Opening) /\ (pc' \in Reading <=> pc \in Reading)
                 /\ pc' \in Handing => pc \in Handing
      BY <3>1, <3>3, Zenon DEF Live, Opening, Reading, Handing
    <3> QED
      BY <1>0, <3>1, <3>2, <3>3, StreamKept, Zenon
  <2> QED
    BY <2>1, <2>2, <2>3, <2>4, <2>5, <2>6 DEF IInv
<1>8. CASE DecodeStatus
  <2> DEFINE closed == [conn EXCEPT !.up = FALSE]
  <2>a. /\ pc = "decodeStatus" /\ batch' = <<>>
        /\ UNCHANGED <<cancelled, disposed, user, closer, err, handled, acked, parser, panic>>
    BY <1>8 DEF DecodeStatus, control, delivery
  <2>b. \/ /\ conn' = closed /\ pc' = "failed"
           /\ ex' \in {"other", "fatal", "redirect", "concurrency"}
        \/ conn' = closed /\ pc' = "loop" /\ ex' = "none"
        \/ /\ conn.out # <<>> /\ Head(conn.out).type = "Accepted"
           /\ conn' = Took /\ pc' = "read" /\ ex' = ex
    BY <1>8 DEF DecodeStatus, Fail, Leave, assertConnectionState
  <2>c. /\ closed \in Connections /\ closed.id = conn.id /\ closed.in = conn.in
    BY <1>0, ClosedConn, Zenon DEF TypeInv
  <2>d. conn' \in Connections /\ conn'.id = conn.id /\ conn'.in = conn.in
    BY <1>0, <2>b, <2>c, TookFacts, Zenon
  <2> HIDE DEF closed
  <2>1. TypeInv'
    <3>1. <<>> \in Seq(1 .. MaxDocs)
      OBVIOUS
    <3> QED
      BY <1>0, <2>a, <2>b, <2>d, <3>1, Zenon DEF TypeInv, Labels, Opening, Handing, Reading
  <2>2. AckInv'
    BY <1>0, <2>a, <2>b, <2>d DEF AckInv
  <2>3. BatchInv'
    BY <2>a DEF BatchInv
  <2>4. FreshInv'
    BY <2>b DEF FreshInv
  <2>5. EndInv'
    BY <1>0, <2>a, <2>b DEF EndInv
  <2>6. Live' => StreamInv'
    <3> SUFFICES ASSUME Live' PROVE StreamInv'
      OBVIOUS
    <3>1. conn.out # <<>> /\ Head(conn.out).type = "Accepted" /\ conn' = Took /\ pc' = "read"
      BY <2>b DEF Live, Opening, Reading, Handing
    <3>2. Starts(conn.out[1])
      BY <1>0, <3>1, ConnFacts, TailFacts DEF Starts
    <3>3. StreamInv
      BY <1>0, <2>a DEF Live, Opening
    <3> QED
      BY <1>0, <2>a, <3>1, <3>2, <3>3, TakeMessage
  <2> QED
    BY <2>1, <2>2, <2>3, <2>4, <2>5, <2>6 DEF IInv
<1>9. CASE ReadNext
  <2> USE <1>0, <1>9 DEF ReadNext, Running, control, delivery, retryState, GoTo, Fail, FailToConnect, Leave, closeTcpClient
  <2>1. TypeInv'
    BY Zenon DEF TypeInv, Labels, Opening, Handing, Reading, Connections
  <2>2. AckInv'
    BY Zenon DEF AckInv, TypeInv, Labels, Opening, Handing, Reading, Connections
  <2>3. BatchInv'
    BY Zenon DEF BatchInv, TypeInv, Labels, Opening, Handing, Reading, Connections
  <2>4. FreshInv'
    BY DEF FreshInv, TypeInv, Labels, Opening, Handing, Reading, Connections
  <2>5. EndInv'
    BY DEF EndInv, TypeInv, Labels, Opening, Handing, Reading
  <2>6. Live' => StreamInv'
    <3> HIDE <1>9
    <3>1. ASSUME Live'
          PROVE  /\ conn' = conn /\ batch' = batch /\ acked' = acked
                 /\ pc = "read" /\ pc' = "decode" /\ ~disposed
      BY <1>9, <3>1, Zenon DEF ReadNext, Fail, Leave, GoTo, control, Live, Opening, Reading, Handing
    <3>2. ASSUME Live' PROVE Live
      BY <3>1, <3>2, Zenon DEF Live, Opening, Reading, Handing
    <3>3. ASSUME Live'
          PROVE  /\ (pc' \in Opening <=> pc \in Opening) /\ (pc' \in Reading <=> pc \in Reading)
                 /\ pc' \in Handing => pc \in Handing
      BY <3>1, <3>3, Zenon DEF Live, Opening, Reading, Handing
    <3> QED
      BY <1>0, <3>1, <3>2, <3>3, StreamKept, Zenon
  <2> QED
    BY <2>1, <2>2, <2>3, <2>4, <2>5, <2>6 DEF IInv
<1>10. CASE readSingleSubscriptionBatchFromServer
  <2> DEFINE closed == [conn EXCEPT !.up = FALSE]
  <2>a. /\ pc = "decode"
        /\ UNCHANGED <<cancelled, disposed, user, closer, err, handled, acked, parser, panic>>
    BY <1>10 DEF readSingleSubscriptionBatchFromServer, control, delivery
  <2>b. \/ /\ conn' = closed /\ pc' = "failed" /\ batch' = batch
           /\ ex' \in {"cancelled", "other", "fatal", "redirect", "concurrency"}
        \/ /\ conn.out # <<>> /\ conn' = Took /\ ex' = ex
           /\ \/ /\ Head(conn.out).type = "Data" /\ pc' = "read"
                 /\ batch' = Append(batch, Head(conn.out).n)
              \/ Head(conn.out).type = "EndOfBatch" /\ pc' = "callback" /\ batch' = batch
              \/ Head(conn.out).type = "Confirm" /\ pc' = "read" /\ batch' = <<>>
    BY <1>10 DEF readSingleSubscriptionBatchFromServer, Fail, assertConnectionState
  <2>c. /\ closed \in Connections /\ closed.id = conn.id /\ closed.in = conn.in
    BY <1>0, ClosedConn, Zenon DEF TypeInv
  <2>d. conn' \in Connections /\ conn'.id = conn.id /\ conn'.in = conn.in
    BY <1>0, <2>b, <2>c, TookFacts, Zenon
  <2>e. StreamInv
    BY <1>0, <2>a DEF Live
  <2>f. conn.out # <<>> => Head(conn.out) = conn.out[1] /\ conn.out[1] \in Messages /\ conn.in = <<>>
    BY <1>0, <2>e, ConnFacts, TailFacts DEF StreamInv, PauseInv
  <2>g. acked \in 0 .. MaxDocs /\ batch \in Seq(1 .. MaxDocs) /\ Len(batch) \in Nat
        /\ DOMAIN batch = 1 .. Len(batch)
    <3>1. acked \in 0 .. MaxDocs /\ batch \in Seq(1 .. MaxDocs)
      BY <1>0, Zenon DEF TypeInv
    <3> QED
      BY <3>1, LenProperties
  \* the next document follows the batch
  <2>h. ASSUME conn.out # <<>>, Head(conn.out).type = "Data"
        PROVE  Head(conn.out).n = acked + Len(batch) + 1 /\ Head(conn.out).n \in 1 .. MaxDocs
    <3>1. Head(conn.out).n = acked + Len(batch) + 1
      BY <2>a, <2>e, <2>f, <2>h DEF StreamInv, NextInv, Reading
    <3>2. Head(conn.out).n \in 0 .. MaxDocs
      BY <2>f, <2>h DEF Messages
    <3> QED
      BY <2>g, <3>1, <3>2
  <2> HIDE DEF closed
  <2>1. TypeInv'
    <3>1. batch' \in Seq(1 .. MaxDocs)
      <4>1. ASSUME conn.out # <<>>, Head(conn.out).type = "Data"
            PROVE  Append(batch, Head(conn.out).n) \in Seq(1 .. MaxDocs)
        BY <2>g, <2>h, <4>1, AppendFacts
      <4>2. <<>> \in Seq(1 .. MaxDocs)
        OBVIOUS
      <4> QED
        BY <2>b, <2>g, <4>1, <4>2, Zenon
    <3> QED
      BY <1>0, <2>a, <2>b, <2>d, <3>1, Zenon DEF TypeInv, Labels, Opening, Handing, Reading
  <2>2. AckInv'
    BY <1>0, <2>a, <2>b, <2>d DEF AckInv
  <2>3. BatchInv'
    <3>1. CASE batch' = batch
      BY <1>0, <2>a, <2>b, <2>d, <3>1 DEF BatchInv, Reading, Handing
    <3>2. CASE batch' = <<>>
      BY <3>2 DEF BatchInv
    <3>3. CASE /\ conn.out # <<>> /\ Head(conn.out).type = "Data"
               /\ batch' = Append(batch, Head(conn.out).n)
      <4>1. /\ DOMAIN batch' = 1 .. Len(batch) + 1
            /\ \A i \in 1 .. Len(batch) : batch'[i] = batch[i]
            /\ batch'[Len(batch) + 1] = acked + Len(batch) + 1
        BY <2>g, <2>h, <3>3, AppendFacts
      <4>2. \A i \in 1 .. Len(batch) : batch[i] = acked + i
        <5>1. batch # <<>> => batch[1] = acked + 1
          BY <1>0, <2>a DEF BatchInv, Reading
        <5>2. ASSUME NEW i \in 1 .. Len(batch) PROVE batch[i] = batch[1] + i - 1 /\ batch # <<>>
          <6>1. batch[i] = batch[1] + i - 1
            BY <1>0, <2>g, Zenon DEF BatchInv
          <6>2. Len(batch) # 0
            BY <2>g
          <6> QED
            BY <2>g, <6>1, <6>2, EmptySeq
        <5> QED
          BY <5>1, <5>2, <2>g
      <4>3. \A i \in 1 .. Len(batch) + 1 : batch'[i] = acked + i
        BY <2>g, <4>1, <4>2
      <4>4. batch'[1] = acked + 1
        BY <2>g, <4>3
      <4> HIDE <3>3
      <4>5. \A i \in DOMAIN batch' : batch'[i] = batch'[1] + i - 1
        BY <2>g, <4>1, <4>3, <4>4
      <4> QED
        BY <2>a, <2>d, <2>f, <3>3, <4>4, <4>5 DEF BatchInv
    <3> QED
      BY <2>b, <3>1, <3>2, <3>3
  <2>4. FreshInv'
    BY <2>b DEF FreshInv
  <2>5. EndInv'
    BY <1>0, <2>a, <2>b DEF EndInv
  <2>6. Live' => StreamInv'
    <3> SUFFICES ASSUME Live' PROVE StreamInv'
      OBVIOUS
    <3>1. conn.out # <<>> /\ conn' = Took
      BY <2>b DEF Live, Opening, Reading, Handing
    <3>2. \/ conn.out[1].type = "Data" /\ pc' = "read" /\ Len(batch') = Len(batch) + 1
          \/ Starts(conn.out[1]) /\ batch' = <<>> /\ pc' = "read"
          \/ conn.out[1].type = "EndOfBatch" /\ pc' = "callback"
      <4>1. pc' # "failed"
        BY DEF Live, Opening, Reading, Handing
      <4>2. ASSUME Head(conn.out).type = "Data", batch' = Append(batch, Head(conn.out).n)
            PROVE  Len(batch') = Len(batch) + 1
        BY <2>g, <2>h, <3>1, <4>2, AppendFacts
      <4> QED
        BY <2>b, <2>f, <4>1, <4>2 DEF Starts
    <3>3. pc \in Reading
      BY <2>a DEF Reading
    <3> QED
      BY <1>0, <2>a, <2>e, <3>1, <3>2, <3>3, TakeMessage
  <2> QED
    BY <2>1, <2>2, <2>3, <2>4, <2>5, <2>6 DEF IInv
<1>11. CASE Callback
  <2> USE <1>0, <1>11 DEF Callback, Running, control, delivery, retryState, GoTo, Fail, FailToConnect, Leave, closeTcpClient, Range
  <2>1. TypeInv'
    <3>1. Range(batch) \in SUBSET (1 .. MaxDocs)
      BY DEF TypeInv, Range
    <3>2. handled' \in SUBSET (1 .. MaxDocs)
      BY <3>1 DEF TypeInv
    <3> QED
      BY <3>2, Zenon DEF TypeInv, Labels, Opening, Handing, Reading, Connections
  <2>2. AckInv'
    BY Zenon DEF AckInv, TypeInv, Labels, Opening, Handing, Reading, Connections
  <2>3. BatchInv'
    BY Zenon DEF BatchInv, TypeInv, Labels, Opening, Handing, Reading, Connections
  <2>4. FreshInv'
    BY DEF FreshInv, TypeInv, Labels, Opening, Handing, Reading, Connections
  <2>5. EndInv'
    BY DEF EndInv, TypeInv, Labels, Opening, Handing, Reading
  <2>6. Live' => StreamInv'
    <3> HIDE <1>11
    <3>1. ASSUME Live'
          PROVE  /\ conn' = conn /\ batch' = batch /\ acked' = acked
                 /\ pc \in Handing /\ pc' \in Handing /\ disposed' = disposed
      BY <1>11, <3>1, Zenon DEF Callback, Fail, GoTo, control, Live, Opening, Reading, Handing
    <3>2. ASSUME Live' PROVE Live
      BY <3>1, <3>2, Zenon DEF Live, Opening, Reading, Handing
    <3>3. ASSUME Live'
          PROVE  /\ (pc' \in Opening <=> pc \in Opening) /\ (pc' \in Reading <=> pc \in Reading)
                 /\ pc' \in Handing => pc \in Handing
      BY <3>1, <3>3, Zenon DEF Live, Opening, Reading, Handing
    <3> QED
      BY <1>0, <3>1, <3>2, <3>3, StreamKept, Zenon
  <2> QED
    BY <2>1, <2>2, <2>3, <2>4, <2>5, <2>6 DEF IInv
<1>12. CASE CallbackCloses
  <2> USE <1>0, <1>12 DEF CallbackCloses, Running, control, delivery, retryState, GoTo, Fail, FailToConnect, Leave, closeTcpClient
  <2>1. TypeInv'
    BY Zenon DEF TypeInv, Labels, Opening, Handing, Reading, Connections
  <2>2. AckInv'
    BY DEF AckInv, TypeInv, Labels, Opening, Handing, Reading, Connections
  <2>3. BatchInv'
    BY DEF BatchInv, TypeInv, Labels, Opening, Handing, Reading, Connections
  <2>4. FreshInv'
    BY DEF FreshInv, TypeInv, Labels, Opening, Handing, Reading, Connections
  <2>5. EndInv'
    BY DEF EndInv, TypeInv, Labels, Opening, Handing, Reading
  <2>6. Live' => StreamInv'
    BY DEF StreamInv, ChainInv, NextInv, PauseInv, ReadyInv, OpenInv, Live, Starts, FreshInv, BatchInv, TypeInv, Labels, Opening, Handing, Reading, Connections
  <2> QED
    BY <2>1, <2>2, <2>3, <2>4, <2>5, <2>6 DEF IInv
<1>13. CASE sendAck
  <2> DEFINE a == conn.in \o ackOf(batch)
             closed == [conn EXCEPT !.up = FALSE]
  <2>a. /\ pc = "ack" /\ batch' = <<>>
        /\ UNCHANGED <<cancelled, disposed, user, closer, err, handled, acked, parser, panic>>
    BY <1>13 DEF sendAck, control, delivery
  <2>b. \/ conn' = [conn EXCEPT !.in = a] /\ pc' = "read" /\ ex' = ex
        \/ conn' = conn /\ pc' = "read" /\ ex' = ex
        \/ conn' = closed /\ pc' = "failed" /\ ex' = "other"
    BY <1>13 DEF sendAck, GoTo, Fail
  <2>f. /\ a \in Seq(1 .. MaxDocs) /\ \A i \in DOMAIN a : 1 .. a[i] \subseteq handled
        /\ a = conn.in \/ (Len(a) = 1 /\ a # <<>>)
    BY <1>0, <2>a, AckFacts
  <2>c. /\ closed \in Connections /\ closed.id = conn.id /\ closed.in = conn.in
        /\ closed.out = conn.out
    BY <1>0, ClosedConn, Zenon DEF TypeInv
  <2> HIDE DEF a, closed
  <2>d. /\ conn' \in Connections /\ conn'.id = conn.id /\ conn'.out = conn.out
        /\ conn'.in \in {a, conn.in}
        /\ pc' = "read" => conn'.server = conn.server
    <3>1. conn \in Connections /\ conn.out \in Seq(Messages)
      BY <1>0, ConnFacts, Zenon DEF TypeInv
    <3>2. a \in Seq(1 .. MaxDocs)
      BY <2>f
    <3>3. LET g == [conn EXCEPT !.in = a]
          IN g \in Connections /\ g.id = conn.id /\ g.out = conn.out /\ g.in = a
             /\ g.server = conn.server
      BY ONLY <3>1, <3>2 DEF Connections
    <3> QED
      BY <2>b, <2>c, <3>1, <3>3, Zenon
  <2>1. TypeInv'
    <3>1. <<>> \in Seq(1 .. MaxDocs)
      OBVIOUS
    <3>2. (pc' = "read" /\ ex' = ex) \/ (pc' = "failed" /\ ex' = "other")
      BY <2>b
    <3> QED
      BY <1>0, <2>a, <2>d, <3>1, <3>2, Zenon DEF TypeInv, Labels, Opening, Handing, Reading
  <2>2. AckInv'
    BY <1>0, <2>a, <2>b, <2>d, <2>f DEF AckInv
  <2>3. BatchInv'
    BY <2>a DEF BatchInv
  <2>4. FreshInv'
    BY <2>b DEF FreshInv
  <2>5. EndInv'
    BY <1>0, <2>a, <2>b DEF EndInv
  <2>6. Live' => StreamInv'
    <3> SUFFICES ASSUME Live' PROVE StreamInv'
      OBVIOUS
    <3>1. pc' = "read"
      BY <2>b DEF Live, Opening, Reading, Handing
    <3>2. StreamInv
      BY <1>0, <2>a, <3>1 DEF Live, Opening, Reading, Handing
    <3>3. conn.out = <<>> /\ conn.in = <<>> /\ conn.server = "sent"
      BY <2>a, <3>2 DEF StreamInv, PauseInv, Handing
    <3>4. conn'.out = <<>> /\ conn'.server = "sent" /\ (conn'.in # <<>> => Len(conn'.in) = 1)
      BY <2>d, <2>f, <3>1, <3>3
    <3> QED
      BY <3>1, <3>4 DEF StreamInv, ChainInv, NextInv, PauseInv, ReadyInv, OpenInv, Opening, Handing
  <2> QED
    BY <2>1, <2>2, <2>3, <2>4, <2>5, <2>6 DEF IInv
<1>14. CASE processSubscription
  <2> USE <1>0, <1>14 DEF processSubscription, Running, control, delivery, retryState, GoTo, Fail, FailToConnect, Leave, closeTcpClient, End, Retry, assertLastConnectionFailure, shouldTryToReconnect
  <2>1. TypeInv'
    BY Zenon DEF TypeInv, Labels, Opening, Handing, Reading, Connections
  <2>2. AckInv'
    BY Zenon DEF AckInv, TypeInv, Labels, Opening, Handing, Reading, Connections
  <2>3. BatchInv'
    BY Zenon DEF BatchInv, TypeInv, Labels, Opening, Handing, Reading, Connections
  <2>4. FreshInv'
    BY Zenon DEF FreshInv, TypeInv, Labels, Opening, Handing, Reading, Connections
  <2>5. EndInv'
    <3>1. ~panic /\ panic' = panic /\ UNCHANGED <<user, disposed, closer>> /\ pc = "failed"
      BY Zenon
    <3>2. \/ cancelled' = cancelled /\ pc' = "loop" /\ err' = err
          \/ cancelled' = cancelled /\ cancelled /\ pc' = "done"
          \/ pc' = "done" /\ err' # "none"
      BY Zenon
    <3> HIDE <1>14
    <3> QED
      BY <3>1, <3>2 DEF EndInv
  <2>6. Live' => StreamInv'
    BY Zenon DEF StreamInv, ChainInv, NextInv, PauseInv, ReadyInv, OpenInv, Live, Starts, FreshInv, BatchInv, TypeInv, Labels, Opening, Handing, Reading, Connections
  <2> QED
    BY <2>1, <2>2, <2>3, <2>4, <2>5, <2>6, Zenon DEF IInv
<1>15. CASE Cancel
  <2>1. /\ conn' = conn \/ conn' = [conn EXCEPT !.up = FALSE]
        /\ UNCHANGED <<pc, ex, parser, batch, handled, acked, panic>>
        /\ disposed => disposed'
        /\ disposed' \in {disposed, TRUE} /\ cancelled' \in {cancelled, TRUE}
        /\ user' \in {user, TRUE}
    BY <1>15, Zenon DEF Cancel, Running, delivery, closeTcpClient
  <2>2. /\ cancelled' \in BOOLEAN /\ disposed' \in BOOLEAN /\ user' \in BOOLEAN
        /\ panic' \in BOOLEAN
    BY <1>0, <2>1, Zenon DEF TypeInv
  <2>3. EndInv'
    BY <1>0, <1>15, Zenon DEF EndInv, Cancel, Running, delivery, closeTcpClient
  <2> QED
    BY <2>1, <2>2, <2>3, ConnKept, Zenon
<1>16. CASE CloseMarks
  <2>1. /\ conn' = conn \/ conn' = [conn EXCEPT !.up = FALSE]
        /\ UNCHANGED <<pc, ex, parser, batch, handled, acked, panic>>
        /\ disposed => disposed'
        /\ disposed' \in {disposed, TRUE} /\ cancelled' \in {cancelled, TRUE}
        /\ user' \in {user, TRUE}
    BY <1>16, Zenon DEF CloseMarks, Running, delivery
  <2>2. /\ cancelled' \in BOOLEAN /\ disposed' \in BOOLEAN /\ user' \in BOOLEAN
        /\ panic' \in BOOLEAN
    BY <1>0, <2>1, Zenon DEF TypeInv
  <2>3. EndInv'
    BY <1>0, <1>16, Zenon DEF EndInv, CloseMarks, Running, delivery
  <2> QED
    BY <2>1, <2>2, <2>3, ConnKept, Zenon
<1>17. CASE CloseCancels
  <2>1. /\ conn' = conn \/ conn' = [conn EXCEPT !.up = FALSE]
        /\ UNCHANGED <<pc, ex, parser, batch, handled, acked, panic>>
        /\ disposed => disposed'
        /\ disposed' \in {disposed, TRUE} /\ cancelled' \in {cancelled, TRUE}
        /\ user' \in {user, TRUE}
    BY <1>17, Zenon DEF CloseCancels, Running, delivery, closeTcpClient
  <2>2. /\ cancelled' \in BOOLEAN /\ disposed' \in BOOLEAN /\ user' \in BOOLEAN
        /\ panic' \in BOOLEAN
    BY <1>0, <2>1, Zenon DEF TypeInv
  <2>3. EndInv'
    BY <1>0, <1>17, Zenon DEF EndInv, CloseCancels, Running, delivery, closeTcpClient
  <2> QED
    BY <2>1, <2>2, <2>3, ConnKept, Zenon
<1>18. CASE CloseReturns
  <2>1. /\ conn' = conn \/ conn' = [conn EXCEPT !.up = FALSE]
        /\ UNCHANGED <<pc, ex, parser, batch, handled, acked, panic>>
        /\ disposed => disposed'
        /\ disposed' \in {disposed, TRUE} /\ cancelled' \in {cancelled, TRUE}
        /\ user' \in {user, TRUE}
    BY <1>18, Zenon DEF CloseReturns, Running, delivery
  <2>2. /\ cancelled' \in BOOLEAN /\ disposed' \in BOOLEAN /\ user' \in BOOLEAN
        /\ panic' \in BOOLEAN
    BY <1>0, <2>1, Zenon DEF TypeInv
  <2>3. EndInv'
    BY <1>0, <1>18, Zenon DEF EndInv, CloseReturns, Running, delivery
  <2> QED
    BY <2>1, <2>2, <2>3, ConnKept, Zenon
<1>19. CASE ServerStatus
  <2>a. conn.server = "asked" /\ acked' = acked
        /\ UNCHANGED <<pc, ex, cancelled, disposed, user, closer, err, parser, batch, handled, panic>>
    BY <1>19 DEF ServerStatus, ServerStep, control
  <2>p. PICK t \in {"Accepted"} \cup Refusals :
          conn' = [conn EXCEPT !.out = Append(conn.out, message(t, 0)), !.server = IF t = "Accepted" THEN "ready" ELSE "none"]
    BY <1>19, Zenon DEF ServerStatus, Refusals
  <2> DEFINE m == message(t, 0)
             s == Append(conn.out, m)
             server == IF t = "Accepted" THEN "ready" ELSE "none"
  <2>m. m \in Messages /\ m.type = t
    BY DEF message, Messages, Types, Refusals
  <2>s. s \in Seq(Messages)
    BY <1>0, <2>m, ConnFacts, AppendFacts
  <2>b. server \in {"none", "ready"}
    OBVIOUS
  <2>c. conn' = [conn EXCEPT !.out = s, !.server = server]
    BY <2>p
  <2> HIDE DEF m, s, server
  <2>d. /\ conn' \in Connections /\ conn'.id = conn.id /\ conn'.in = conn.in
        /\ conn'.out = s /\ conn'.server = server
    <3>1. conn \in Connections
      BY <1>0, Zenon DEF TypeInv
    <3>2. conn.in \in Seq(1 .. MaxDocs)
      BY <1>0, ConnFacts
    <3> QED
      BY ONLY <2>b, <2>c, <2>s, <3>1, <3>2, Zenon DEF Connections
  <2>1. TypeInv'
    BY <1>0, <2>a, <2>d, Zenon DEF TypeInv, Labels, Opening, Handing, Reading
  <2>2. AckInv'
    BY <1>0, <2>a, <2>d DEF AckInv
  <2>3. BatchInv'
    BY <1>0, <2>a, <2>d DEF BatchInv
  <2>4. FreshInv'
    BY <1>0, <2>a DEF FreshInv
  <2>5. EndInv'
    BY <1>0, <2>a DEF EndInv
  <2>6. Live' => StreamInv'
    <3> SUFFICES ASSUME Live' PROVE StreamInv'
      OBVIOUS
    <3>1. StreamInv
      BY <1>0, <2>a DEF Live
    <3>2. \/ server = "none"
          \/ conn.server = "asked" /\ m.type = "Accepted" /\ server = "ready"
      BY <2>a, <2>m DEF server
    <3> QED
      BY <1>0, <2>a, <2>m, <2>d, <3>1, <3>2, SendStatus DEF s
  <2> QED
    BY <2>1, <2>2, <2>3, <2>4, <2>5, <2>6 DEF IInv
<1>20. CASE ServerBatch
  <2>a. conn.server = "ready" /\ acked' = acked
        /\ UNCHANGED <<pc, ex, cancelled, disposed, user, closer, err, parser, batch, handled, panic>>
    BY <1>20 DEF ServerBatch, ServerStep, control
  <2>p. PICK hi \in acked + 1 .. MaxDocs :
          conn' = [conn EXCEPT !.server = "sent", !.out = conn.out \o
                     [i \in 1 .. hi - acked |-> message("Data", acked + i)]
                     \o <<message("EndOfBatch", 0)>>]
    BY <1>20, Zenon DEF ServerBatch
  <2> DEFINE k == hi - acked
             s == Sent(conn.out, acked, k)
  <2>k. acked \in Nat /\ k \in Nat /\ k >= 1 /\ acked + k <= MaxDocs
    <3>1. acked \in 0 .. MaxDocs
      BY <1>0, Zenon DEF TypeInv
    <3> QED
      BY <3>1
  <2>c. conn' = [conn EXCEPT !.server = "sent", !.out = s]
    BY <2>p DEF Sent
  <2> HIDE DEF k
  <2>s. IsSent(s, conn.out, acked, k) /\ s \in Seq(Messages)
    <3>1. conn.out \in Seq(Messages)
      BY <1>0, ConnFacts
    <3>2. IsSent(s, conn.out, acked, k)
      BY ONLY <2>k, <3>1, BatchFacts DEF s
    <3> QED
      BY <3>2 DEF IsSent
  <2> HIDE DEF s
  <2>d. /\ conn' \in Connections /\ conn'.id = conn.id /\ conn'.in = conn.in
        /\ conn'.out = s /\ conn'.server = "sent"
    <3>1. conn \in Connections
      BY <1>0, Zenon DEF TypeInv
    <3>2. conn.in \in Seq(1 .. MaxDocs)
      BY <1>0, ConnFacts
    <3>3. s \in Seq(Messages)
      BY <2>s
    <3> QED
      BY ONLY <2>c, <3>1, <3>2, <3>3, Zenon DEF Connections
  <2>1. TypeInv'
    BY <1>0, <2>a, <2>d, Zenon DEF TypeInv, Labels, Opening, Handing, Reading
  <2>2. AckInv'
    BY <1>0, <2>a, <2>d DEF AckInv
  <2>3. BatchInv'
    BY <1>0, <2>a, <2>d DEF BatchInv
  <2>4. FreshInv'
    BY <1>0, <2>a DEF FreshInv
  <2>5. EndInv'
    BY <1>0, <2>a DEF EndInv
  <2>6. Live' => StreamInv'
    <3> SUFFICES ASSUME Live' PROVE StreamInv'
      OBVIOUS
    <3>1. StreamInv
      BY <1>0, <2>a DEF Live
    <3> QED
      BY ONLY <1>0, <2>a, <2>k, <2>s, <2>d, <3>1, SendBatch
  <2> QED
    BY <2>1, <2>2, <2>3, <2>4, <2>5, <2>6 DEF IInv
<1>21. CASE ServerAck
  <2>a. conn.in # <<>>
        /\ UNCHANGED <<pc, ex, cancelled, disposed, user, closer, err, parser, batch, handled, panic>>
    BY <1>21 DEF ServerAck, ServerStep, control
  <2> DEFINE m == message("Confirm", 0)
             s == Append(conn.out, m)
             t == Tail(conn.in)
  <2>c. /\ acked' = IF Head(conn.in) > acked THEN Head(conn.in) ELSE acked
        /\ conn' = [conn EXCEPT !.in = t, !.server = "ready", !.out = s]
    BY <1>21 DEF ServerAck
  <2>m. m \in Messages /\ m.type = "Confirm"
    BY DEF message, Messages, Types
  <2>s. s \in Seq(Messages)
    BY <1>0, <2>m, ConnFacts, AppendFacts
  <2>t. /\ t \in Seq(1 .. MaxDocs) /\ Len(conn.in) \in Nat /\ Len(conn.in) > 0
        /\ DOMAIN conn.in = 1 .. Len(conn.in)
        /\ Head(conn.in) = conn.in[1] /\ conn.in[1] \in 1 .. MaxDocs
        /\ DOMAIN t = 1 .. Len(conn.in) - 1
        /\ \A i \in 1 .. Len(conn.in) - 1 : t[i] = conn.in[i + 1]
        /\ t = <<>> <=> Len(conn.in) = 1
    <3>1. conn.in \in Seq(1 .. MaxDocs)
      BY <1>0, ConnFacts
    <3> QED
      BY ONLY <2>a, <3>1, TailFacts, Zenon
  <2> HIDE DEF m, s, t
  <2>d. /\ conn' \in Connections /\ conn'.id = conn.id /\ conn'.in = t
        /\ conn'.out = s /\ conn'.server = "ready"
    <3>1. conn \in Connections
      BY <1>0, Zenon DEF TypeInv
    <3>2. t \in Seq(1 .. MaxDocs)
      BY <2>t
    <3> QED
      BY ONLY <2>c, <2>s, <3>1, <3>2, Zenon DEF Connections
  <2>e. acked' \in 0 .. MaxDocs
    <3>1. acked \in 0 .. MaxDocs
      BY <1>0, Zenon DEF TypeInv
    <3> QED
      BY <2>c, <2>t, <3>1
  <2>1. TypeInv'
    BY <1>0, <2>a, <2>d, <2>e, Zenon DEF TypeInv, Labels, Opening, Handing, Reading
  <2>2. AckInv'
    <3>1. 1 .. acked' \subseteq handled
      <4>1. 1 .. acked \subseteq handled
        BY <1>0 DEF AckInv
      <4>2. 1 .. conn.in[1] \subseteq handled
        <5>1. 1 \in DOMAIN conn.in
          BY <2>t
        <5> QED
          BY <1>0, <5>1 DEF AckInv
      <4> QED
        BY <2>c, <2>t, <4>1, <4>2
    <3>2. ASSUME NEW i \in DOMAIN t PROVE 1 .. t[i] \subseteq handled
      <4>1. i \in 1 .. Len(conn.in) - 1
        BY <2>t
      <4>2. i + 1 \in 1 .. Len(conn.in)
        BY <2>t, <4>1
      <4>3. i + 1 \in DOMAIN conn.in /\ t[i] = conn.in[i + 1]
        BY <2>t, <4>1, <4>2
      <4> QED
        BY <1>0, <4>3 DEF AckInv
    <3> QED
      BY <1>0, <2>a, <2>d, <3>1, <3>2, Zenon DEF AckInv
  <2>3. BatchInv'
    BY <1>0, <2>a DEF BatchInv
  <2>4. FreshInv'
    BY <1>0, <2>a DEF FreshInv
  <2>5. EndInv'
    BY <1>0, <2>a DEF EndInv
  <2>6. Live' => StreamInv'
    <3> SUFFICES ASSUME Live' PROVE StreamInv'
      OBVIOUS
    <3>1. StreamInv
      BY <1>0, <2>a DEF Live
    <3>2. conn.out = <<>> /\ Len(conn.in) = 1 /\ pc \notin Handing /\ pc \notin Opening
      BY <2>a, <3>1 DEF StreamInv, PauseInv, OpenInv
    <3>3. conn'.in = <<>> /\ (pc \in Reading => batch = <<>>)
      BY <1>0, <2>a, <2>d, <2>t, <3>2 DEF BatchInv
    <3>4. s # <<>> /\ DOMAIN s = 1 .. 1 /\ s[1].type = "Confirm"
      <4>1. s = <<m>>
        BY <3>2 DEF s
      <4> QED
        BY <2>m, <4>1
    <3> HIDE <2>c
    <3> QED
      BY <2>a, <2>d, <3>2, <3>3, <3>4 DEF StreamInv, ChainInv, NextInv, PauseInv, ReadyInv, OpenInv, Starts
  <2> QED
    BY <2>1, <2>2, <2>3, <2>4, <2>5, <2>6 DEF IInv
<1>22. CASE ServerFails
  <2>a. conn.server = "ready" /\ acked' = acked
        /\ UNCHANGED <<pc, ex, cancelled, disposed, user, closer, err, parser, batch, handled, panic>>
    BY <1>22 DEF ServerFails, ServerStep, control
  <2>p. PICK t \in Refusals :
          conn' = [conn EXCEPT !.server = "none", !.out = Append(conn.out, message(t, 0))]
    BY <1>22, Zenon DEF ServerFails, Refusals
  <2> DEFINE m == message(t, 0)
             s == Append(conn.out, m)
             server == "none"
  <2>m. m \in Messages /\ m.type = t
    BY DEF message, Messages, Types, Refusals
  <2>s. s \in Seq(Messages)
    BY <1>0, <2>m, ConnFacts, AppendFacts
  <2>b. server \in {"none", "ready"}
    OBVIOUS
  <2>c. conn' = [conn EXCEPT !.server = server, !.out = s]
    BY <2>p
  <2> HIDE DEF m, s, server
  <2>d. /\ conn' \in Connections /\ conn'.id = conn.id /\ conn'.in = conn.in
        /\ conn'.out = s /\ conn'.server = server
    <3>1. conn \in Connections
      BY <1>0, Zenon DEF TypeInv
    <3>2. conn.in \in Seq(1 .. MaxDocs)
      BY <1>0, ConnFacts
    <3> QED
      BY ONLY <2>b, <2>c, <2>s, <3>1, <3>2, Zenon DEF Connections
  <2>1. TypeInv'
    BY <1>0, <2>a, <2>d, Zenon DEF TypeInv, Labels, Opening, Handing, Reading
  <2>2. AckInv'
    BY <1>0, <2>a, <2>d DEF AckInv
  <2>3. BatchInv'
    BY <1>0, <2>a, <2>d DEF BatchInv
  <2>4. FreshInv'
    BY <1>0, <2>a DEF FreshInv
  <2>5. EndInv'
    BY <1>0, <2>a DEF EndInv
  <2>6. Live' => StreamInv'
    <3> SUFFICES ASSUME Live' PROVE StreamInv'
      OBVIOUS
    <3>1. StreamInv
      BY <1>0, <2>a DEF Live
    <3>2. \/ server = "none"
          \/ conn.server = "asked" /\ m.type = "Accepted" /\ server = "ready"
      BY <2>a, <2>m DEF server
    <3> QED
      BY <1>0, <2>a, <2>m, <2>d, <3>1, <3>2, SendStatus DEF s
  <2> QED
    BY <2>1, <2>2, <2>3, <2>4, <2>5, <2>6 DEF IInv
<1>23. CASE Break
  <2>1. /\ conn' = conn \/ conn' = [conn EXCEPT !.up = FALSE]
        /\ UNCHANGED <<pc, ex, parser, batch, handled, acked, panic>>
        /\ disposed => disposed'
        /\ disposed' \in {disposed, TRUE} /\ cancelled' \in {cancelled, TRUE}
        /\ user' \in {user, TRUE}
    BY <1>23, Zenon DEF Break, ServerStep, Running, control
  <2>2. /\ cancelled' \in BOOLEAN /\ disposed' \in BOOLEAN /\ user' \in BOOLEAN
        /\ panic' \in BOOLEAN
    BY <1>0, <2>1, Zenon DEF TypeInv
  <2>3. EndInv'
    BY <1>0, <1>23, Zenon DEF EndInv, Break, ServerStep, Running, control
  <2> QED
    BY <2>1, <2>2, <2>3, ConnKept, Zenon
<1>24. CASE UNCHANGED vars
  <2>1. /\ conn' = conn \/ conn' = [conn EXCEPT !.up = FALSE]
        /\ UNCHANGED <<pc, ex, parser, batch, handled, acked, panic>>
        /\ disposed => disposed'
        /\ disposed' \in {disposed, TRUE} /\ cancelled' \in {cancelled, TRUE}
        /\ user' \in {user, TRUE}
    BY <1>24, Zenon DEF vars
  <2>2. /\ cancelled' \in BOOLEAN /\ disposed' \in BOOLEAN /\ user' \in BOOLEAN
        /\ panic' \in BOOLEAN
    BY <1>0, <2>1, Zenon DEF TypeInv
  <2>3. EndInv'
    BY <1>0, <1>24, Zenon DEF EndInv, vars
  <2> QED
    BY <2>1, <2>2, <2>3, ConnKept, Zenon
<1> QED
  BY <1>1, <1>2, <1>3, <1>4, <1>5, <1>6, <1>7, <1>8, <1>9, <1>10, <1>11, <1>12, <1>13, <1>14, <1>15, <1>16, <1>17, <1>18, <1>19, <1>20, <1>21, <1>22, <1>23, <1>24 DEF Next, WorkerNext

-----------------------------------------------------------------------------
(* What is proved.                                                         *)

\* subscription_worker.go: the invariant above holds of every worker, for any
\* number of documents and connections and any workload.
THEOREM StreamIsInOrder == Spec => []IInv
<1> QED
  BY Initial, Inductive, PTL DEF Spec

\* runSubscriptionAsync, shouldTryToReconnect: a worker that ends without
\* having been cancelled or closed leaves its error in Err().
THEOREM FailureReported == Spec => []FailureIsReported
<1>1. IInv => FailureIsReported
  <2> SUFFICES ASSUME IInv PROVE FailureIsReported
    OBVIOUS
  <2>1. TypeInv /\ BatchInv /\ EndInv
    BY DEF IInv
  <2>2. conn.id \in 0 .. MaxConns
    BY <2>1, ConnFacts
  <2>3. TypeOK
    BY <2>1, <2>2, Zenon DEF TypeInv, BatchInv, TypeOK
  <2> QED
    BY <2>1, <2>3 DEF EndInv, FailureIsReported
<1> QED
  BY <1>1, StreamIsInOrder, PTL

\* close, readNextObject: the worker panics only between markDisposed and
\* Cancel.
THEOREM PanicsOnlyWhileClosing == Spec => []PanicOnlyWhileClosing
<1>1. IInv => PanicOnlyWhileClosing
  BY DEF IInv, EndInv, PanicOnlyWhileClosing
<1> QED
  BY <1>1, StreamIsInOrder, PTL

\* processSubscriptionInner with batch.initialize and sendAck: documents reach
\* the callback in runs that begin after the last acknowledged one, and only
\* what the callback has handled is acknowledged.
THEOREM WorkerRefinesAtLeastOnce == Spec => DeliversAtLeastOnce
<1>1. Init => Delivery!Init
  BY DEF Init, Delivery!Init
<1>2. IInv /\ [Next]_vars => [Delivery!Next]_(Delivery!vars)
  <2> SUFFICES ASSUME IInv, [Next]_vars
               PROVE  Delivery!Next \/ UNCHANGED <<handled, acked>>
    BY DEF Delivery!vars
  <2>0. TypeInv /\ AckInv /\ BatchInv
    BY DEF IInv
  <2>1. CASE Callback
    <3>1. CASE handled' = handled
      BY <2>1, <3>1 DEF Callback
    <3>2. CASE handled' = handled \cup Range(batch)
      <4>1. CASE batch = <<>>
        BY <2>1, <3>2, <4>1 DEF Callback, Range
      <4>2. CASE batch # <<>>
        <5> DEFINE l == Len(batch)
                   hi == acked + l
        <5>1. batch \in Seq(1 .. MaxDocs) /\ acked \in 0 .. MaxDocs
          BY <2>0, Zenon DEF TypeInv
        <5>2. l \in Nat /\ l > 0 /\ DOMAIN batch = 1 .. l
          BY <4>2, <5>1, TailFacts
        <5>3. batch[1] = acked + 1
          BY <2>0, <2>1, <4>2 DEF BatchInv, Callback, Reading, Handing
        <5>4. ASSUME NEW i \in 1 .. l PROVE batch[i] = acked + i
          <6>1. batch[i] = batch[1] + i - 1
            BY <2>0, <5>2, Zenon DEF BatchInv
          <6>2. acked \in Nat /\ i \in Nat
            BY <5>1, <5>2
          <6> QED
            BY ONLY <5>3, <6>1, <6>2
        <5>5. batch[l] \in 1 .. MaxDocs
          <6>1. l \in 1 .. Len(batch)
            BY <5>2
          <6> HIDE DEF l
          <6> QED
            BY <5>1, <6>1, ElementOfSeq, Zenon
        <5>6. hi \in acked + 1 .. MaxDocs
          BY <5>1, <5>2, <5>4, <5>5
        <5> HIDE DEF l
        <5>7. Range(batch) = acked + 1 .. hi
          <6>1. ASSUME NEW d \in acked + 1 .. hi PROVE d \in Range(batch)
            <7>1. d - acked \in 1 .. l /\ acked + (d - acked) = d
              BY <5>1, <5>2
            <7> QED
              BY <5>2, <5>4, <7>1 DEF Range
          <6>2. ASSUME NEW i \in 1 .. l PROVE batch[i] \in acked + 1 .. hi
            BY <5>1, <5>2, <5>4
          <6> QED
            BY <5>2, <6>1, <6>2 DEF Range
        <5>8. acked' = acked
          BY <2>1 DEF Callback, delivery
        <5> HIDE DEF hi
        <5> QED
          BY <3>2, <5>6, <5>7, <5>8 DEF Delivery!Next, Delivery!Handle
      <4> QED
        BY <4>1, <4>2
    <3> QED
      BY <2>1, <3>1, <3>2 DEF Callback, Fail
  <2>2. CASE ServerAck
    <3> DEFINE n == Head(conn.in)
    <3>1. /\ conn.in # <<>> /\ handled' = handled
          /\ acked' = IF n > acked THEN n ELSE acked
      BY <2>2 DEF ServerAck, ServerStep
    <3>2. conn.in \in Seq(1 .. MaxDocs) /\ acked \in 0 .. MaxDocs
      BY <2>0, ConnFacts, Zenon DEF TypeInv
    <3>3. n = conn.in[1] /\ n \in 1 .. MaxDocs /\ 1 \in DOMAIN conn.in
      <4>1. /\ Len(conn.in) \in Nat /\ Len(conn.in) > 0 /\ DOMAIN conn.in = 1 .. Len(conn.in)
            /\ Head(conn.in) = conn.in[1] /\ conn.in[1] \in 1 .. MaxDocs
        BY ONLY <3>1, <3>2, TailFacts, Zenon
      <4> QED
        BY <4>1
    <3>4. 1 .. n \subseteq handled
      BY <2>0, <3>3 DEF AckInv
    <3> HIDE DEF n
    <3>5. n > acked => n \in acked + 1 .. MaxDocs
      BY <3>2, <3>3
    <3> QED
      BY <3>1, <3>4, <3>5 DEF Delivery!Next, Delivery!Acknowledge
  <2>3. CASE UNCHANGED vars
    BY <2>3 DEF vars
  <2>4. CASE ~(Callback \/ ServerAck \/ UNCHANGED vars)
    BY <2>4, Zenon DEF Next, WorkerNext, Run, runSubscriptionAsync, connectToServer,
         StoreTcpClient, ensureParser, negotiateProtocolVersion, ReadStatus,
         DecodeStatus, ReadNext, readSingleSubscriptionBatchFromServer,
         CallbackCloses, sendAck, processSubscription, Cancel, CloseMarks,
         CloseCancels, CloseReturns, ServerStatus, ServerBatch, ServerFails,
         Break, ServerStep, delivery
  <2> QED
    BY <2>1, <2>2, <2>3, <2>4
<1> QED
  BY <1>1, <1>2, StreamIsInOrder, PTL DEF Spec, DeliversAtLeastOnce, Delivery!Spec

=============================================================================
