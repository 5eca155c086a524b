---------------------------- MODULE HiLoProofs ----------------------------
(***************************************************************************)
(* What HiLoIdGenerator guarantees for every number of goroutines, every   *)
(* batch size and every set of nodes: types, ids inside granted ranges,    *)
(* one fetch at a time, uniqueness of the numbers of the atomic add, and,  *)
(* with one server node, that what this client issued is never granted to  *)
(* another client, ReturnUnusedRange included.                             *)
(*                                                                         *)
(* First the inductive invariant RangeInv, part by part, and the           *)
(* preservation of the parts about types, the lock and the cells; then     *)
(* fresh ranges and fast numbers, with the theorems; then the grants of    *)
(* the one server.                                                         *)
(***************************************************************************)
EXTENDS HiLoIdGenerator, TLAPS

Critical == {"check"} \cup InGetNextRange

\* generatorLock is held in the critical section, and beyond it only by the
\* goroutine that loops back after installing a range
LockInv ==
  /\ \A g \in Goroutines : pc[g] \in Critical => lock = g
  /\ \A g \in Goroutines : lock = g => pc[g] \in Critical \cup {"load", "add", "lock"}

\* cells up to range are in use: no goroutine points past it
PointerInv ==
  \A g \in Goroutines : rangev[g] <= range

\* Current never falls below Min - 1, and cell 0 is the empty range of the
\* constructor
CellInv ==
  /\ \A r \in RangeIds : r <= range => min[r] - 1 <= current[r] /\ 1 <= min[r]
  /\ \A r \in RangeIds : 0 < r /\ r <= range => node[r] \in Nodes
  /\ max[0] = 0

\* a granted range waits to be installed untouched
ReplyInv ==
  \A g \in Goroutines : pc[g] \in {"tag", "install"} =>
    /\ reply[g].node \in Nodes
    /\ 1 <= reply[g].low
    /\ range < MaxRanges

\* who queues at the lock found its range exhausted; who fetches found the
\* current one exhausted
ExhaustedInv ==
  /\ \A g \in Goroutines : pc[g] \in Critical \cup {"lock"} =>
       current[rangev[g]] > max[rangev[g]]
  /\ \A g \in Goroutines : pc[g] \in InGetNextRange =>
       current[range] > max[range]

\* a granted range from which nothing was drawn is guarded by the lock of the
\* goroutine that installed it and is about to draw from it
FreshInv ==
  range > 0 /\ current[range] < min[range] =>
    \E g \in Goroutines :
      lock = g /\ (pc[g] = "load" \/ (pc[g] = "add" /\ rangev[g] = range))

\* ids returned and ids about to be formatted lie in their range, at or below
\* its Current
DrawnInv ==
  /\ \A g \in Goroutines : pc[g] = "format" =>
       /\ InRange(rangev[g], id[g])
       /\ id[g] <= current[rangev[g]]
  /\ \A i \in issued :
       /\ i.range <= range
       /\ InRange(i.range, i.num)
       /\ i.num <= current[i.range]

RangeInv ==
  /\ TypeOK /\ LockInv /\ PointerInv /\ CellInv /\ ReplyInv
  /\ ExhaustedInv /\ FreshInv /\ DrawnInv

---------------------------------------------------------------------------
(* What the actions leave alone *)

\* no number is drawn or returned, and no range installed
Idle ==
  /\ UNCHANGED <<cells, range, id, slow, issued>>
  /\ \A h \in Goroutines : pc'[h] = "format" => pc[h] = "format" /\ rangev'[h] = rangev[h]

\* no range is granted to this client, and none installed
NoReply ==
  /\ UNCHANGED <<range, reply>>
  /\ \A h \in Goroutines : pc'[h] \in {"tag", "install"} => pc[h] \in {"tag", "install"}

\* Which actions change what.
LEMMA StepKinds ==
  ASSUME pc \in [Goroutines -> PCs], [Next]_vars
  PROVE  /\ (\E g \in Goroutines : AddCurrent(g) \/ InstallRange(g)) \/ UNCHANGED <<cells, range>>
         /\ \/ \E g \in Goroutines : LoadRange(g) \/ CheckRange(g) \/ InstallRange(g)
            \/ UNCHANGED <<range, rangev>>
         /\ \/ \E g \in Goroutines :
                 AddCurrent(g) \/ CheckRange(g) \/ FormatID(g) \/ InstallRange(g)
            \/ Idle
         /\ \/ \E g \in Goroutines : InstallRange(g) \/ \E n \in Nodes : RequestRange(g, n)
            \/ NoReply
         /\ (\E g \in Goroutines : FormatID(g)) \/ issued' = issued
         /\ \/ \E g \in Goroutines, n \in Nodes : RequestRange(g, n)
            \/ \E n \in Nodes : OtherClient(n) \/ ReturnUnusedRange(n)
            \/ UNCHANGED <<serverMax, foreign, returned>>
<1>1. ASSUME NEW g \in Goroutines, Call(g)
      PROVE  /\ UNCHANGED <<cells, range, rangev, issued, serverMax, foreign, returned>>
             /\ Idle /\ NoReply
  BY <1>1, Zenon DEF Call, Idle, NoReply, Goto, cells, locals, server
<1>2. ASSUME NEW g \in Goroutines, AcquireLock(g)
      PROVE  /\ UNCHANGED <<cells, range, rangev, issued, serverMax, foreign, returned>>
             /\ Idle /\ NoReply
  BY <1>2, Zenon DEF AcquireLock, Idle, NoReply, Goto, cells, locals, server
<1>3. ASSUME NEW g \in Goroutines, RequestFails(g)
      PROVE  /\ UNCHANGED <<cells, range, rangev, issued, serverMax, foreign, returned>>
             /\ Idle /\ NoReply
  BY <1>3, Zenon DEF RequestFails, Idle, NoReply, Goto, cells, locals, server
<1>4. ASSUME NEW g \in Goroutines, SetServerTag(g)
      PROVE  /\ UNCHANGED <<cells, range, rangev, issued, serverMax, foreign, returned>>
             /\ Idle /\ NoReply
  BY <1>4, Zenon DEF SetServerTag, Idle, NoReply, Goto, cells, locals, server
<1>5. ASSUME NEW g \in Goroutines, LoadRange(g)
      PROVE  /\ UNCHANGED <<cells, range, issued, serverMax, foreign, returned>>
             /\ Idle /\ NoReply
  <2>1. /\ UNCHANGED <<cells, range, id, slow, reply, issued, serverMax, foreign, returned>>
        /\ \A h \in Goroutines : pc'[h] # pc[h] => h = g /\ pc'[h] = "add"
        /\ \A h \in Goroutines : rangev'[h] # rangev[h] => h = g /\ pc'[h] = "add"
    BY <1>5 DEF LoadRange, Goto, cells, server
  <2>2. QED
    BY <2>1, Zenon DEF Idle, NoReply
<1>6. ASSUME NEW g \in Goroutines, AddCurrent(g)
      PROVE  UNCHANGED <<range, rangev, issued, serverMax, foreign, returned>> /\ NoReply
  BY <1>6, Zenon DEF AddCurrent, NoReply, Goto, server
<1>7. ASSUME NEW g \in Goroutines, CheckRange(g)
      PROVE  UNCHANGED <<cells, range, issued, serverMax, foreign, returned>> /\ NoReply
  BY <1>7, Zenon DEF CheckRange, NoReply, Goto, cells, server
<1>8. ASSUME NEW g \in Goroutines, FormatID(g)
      PROVE  UNCHANGED <<cells, range, rangev, serverMax, foreign, returned>> /\ NoReply
  BY <1>8, Zenon DEF FormatID, NoReply, Goto, cells, locals, server
<1>9. ASSUME NEW g \in Goroutines, NEW n \in Nodes, RequestRange(g, n)
      PROVE  UNCHANGED <<cells, range, rangev, issued>> /\ Idle
  BY <1>9, Zenon DEF RequestRange, Idle, Goto, cells, locals
<1>10. ASSUME NEW g \in Goroutines, InstallRange(g)
       PROVE  UNCHANGED <<issued, serverMax, foreign, returned>>
  BY <1>10, Zenon DEF InstallRange, server
<1>11. ASSUME NEW n \in Nodes, OtherClient(n) \/ ReturnUnusedRange(n)
       PROVE  UNCHANGED <<cells, range, rangev, issued>> /\ Idle /\ NoReply
  BY <1>11, Zenon DEF OtherClient, ReturnUnusedRange, Idle, NoReply, cells, locals
<1>12. CASE UNCHANGED vars
  <2>1. /\ UNCHANGED <<cells, range, rangev, issued, serverMax, foreign, returned>>
        /\ Idle /\ NoReply
    BY <1>12, Zenon DEF vars, Idle, NoReply, cells, locals, server
  <2>2. QED
    BY <2>1, Zenon
<1>13. \/ UNCHANGED vars
       \/ \E g \in Goroutines :
            \/ Call(g) \/ AcquireLock(g) \/ RequestFails(g) \/ SetServerTag(g) \/ LoadRange(g)
            \/ AddCurrent(g) \/ CheckRange(g) \/ FormatID(g) \/ InstallRange(g)
            \/ \E n \in Nodes : RequestRange(g, n)
       \/ \E n \in Nodes : OtherClient(n) \/ ReturnUnusedRange(n)
  BY Zenon DEF Next, NextID
<1>14. QED
  BY <1>1, <1>2, <1>3, <1>4, <1>5, <1>6, <1>7, <1>8, <1>9, <1>10, <1>11, <1>12, <1>13, Zenon

---------------------------------------------------------------------------
(* Type correctness *)

LEMMA TypeInit == Init => TypeOK
<1> SUFFICES ASSUME Init PROVE TypeOK
  BY Zenon
<1>1. 0 \in RangeIds
  BY HiLoAssumption DEF HiLoAssumption, RangeIds
<1>2. QED
  BY <1>1, Zenon DEF Init, TypeOK, PCs, Replies

LEMMA TypeStep == TypeOK /\ ReplyInv /\ [Next]_vars => TypeOK'
<1> SUFFICES ASSUME TypeOK, ReplyInv, [Next]_vars PROVE TypeOK'
  BY Zenon
<1>0. ASSUME NEW g \in Goroutines, InstallRange(g)
      PROVE  range + 1 \in RangeIds /\ reply[g].low - 1 \in Nat /\ reply[g] \in Replies
  <2>1. range < MaxRanges /\ 1 <= reply[g].low
    BY <1>0, Zenon DEF InstallRange, ReplyInv
  <2>2. range \in RangeIds /\ reply[g] \in Replies /\ reply[g].low \in Nat
    BY Zenon DEF TypeOK, Replies
  <2>3. QED
    BY <2>1, <2>2, HiLoAssumption DEF HiLoAssumption, RangeIds
<1> USE HiLoAssumption DEF HiLoAssumption, TypeOK, Goto, ReleaseOnReturn,
                           cells, locals, server
<1>1. ASSUME NEW g \in Goroutines, Call(g) PROVE TypeOK'
  BY <1>1 DEF Call, PCs
<1>2. ASSUME NEW g \in Goroutines, LoadRange(g) PROVE TypeOK'
  BY <1>2, Zenon DEF LoadRange, PCs
<1>3. ASSUME NEW g \in Goroutines, AddCurrent(g) PROVE TypeOK'
  <2>1. slow' \in [Goroutines -> BOOLEAN] /\ returned' \in BOOLEAN
    BY <1>3, Zenon DEF AddCurrent
  <2>2. pc' \in [Goroutines -> PCs] /\ lock' \in Goroutines \cup {None}
    BY <1>3, Zenon DEF AddCurrent, PCs
  <2>3. current[rangev[g]] + 1 \in Nat
    OBVIOUS
  <2>4. current' \in [RangeIds -> Nat] /\ id' \in [Goroutines -> Nat]
    BY <1>3, <2>3, Zenon DEF AddCurrent
  <2>5. UNCHANGED <<min, max, node, range, serverTag, rangev, reply, calls, server, issued>>
    BY <1>3, Zenon DEF AddCurrent
  <2>6. QED
    BY <2>1, <2>2, <2>4, <2>5, Zenon
<1>4. ASSUME NEW g \in Goroutines, AcquireLock(g) PROVE TypeOK'
  BY <1>4, Zenon DEF AcquireLock, PCs
<1>5. ASSUME NEW g \in Goroutines, CheckRange(g) PROVE TypeOK'
  <2>1. slow' \in [Goroutines -> BOOLEAN] /\ returned' \in BOOLEAN
    BY <1>5, Zenon DEF CheckRange
  <2>2. pc' \in [Goroutines -> PCs]
    BY <1>5 DEF CheckRange, PCs
  <2>3. rangev' = rangev \/ rangev' = [rangev EXCEPT ![g] = range]
    BY <1>5, Zenon DEF CheckRange
  <2>4. rangev' \in [Goroutines -> RangeIds]
    BY <2>3, Zenon
  <2>5. lock' \in Goroutines \cup {None} /\ id' \in [Goroutines -> Nat]
    BY <1>5, Zenon DEF CheckRange
  <2>6. UNCHANGED <<cells, range, serverTag, reply, calls, server, issued>>
    BY <1>5, Zenon DEF CheckRange
  <2>7. QED
    BY <2>1, <2>2, <2>4, <2>5, <2>6, Zenon
<1>6. ASSUME NEW g \in Goroutines, FormatID(g) PROVE TypeOK'
  BY <1>6 DEF FormatID, PCs, Issues
<1>7. ASSUME NEW g \in Goroutines, NEW n \in Nodes, RequestRange(g, n) PROVE TypeOK'
  BY <1>7 DEF RequestRange, ServerGrant, PCs, Replies
<1>8. ASSUME NEW g \in Goroutines, RequestFails(g) PROVE TypeOK'
  BY <1>8, Zenon DEF RequestFails, PCs
<1>9. ASSUME NEW g \in Goroutines, SetServerTag(g) PROVE TypeOK'
  BY <1>9, Zenon DEF SetServerTag, PCs, Replies
<1>10. ASSUME NEW g \in Goroutines, InstallRange(g) PROVE TypeOK'
  BY <1>0, <1>10, Zenon DEF InstallRange, NewRangeValue, PCs, Replies
<1>11. ASSUME NEW n \in Nodes, OtherClient(n) PROVE TypeOK'
  BY <1>11 DEF OtherClient, ServerGrant
<1>12. ASSUME NEW n \in Nodes, ReturnUnusedRange(n) PROVE TypeOK'
  BY <1>12, Zenon DEF ReturnUnusedRange
<1>13. CASE UNCHANGED vars
  BY <1>13, Zenon DEF vars
<1> HIDE DEF TypeOK
<1>14. QED
  BY <1>1, <1>2, <1>3, <1>4, <1>5, <1>6, <1>7, <1>8, <1>9, <1>10, <1>11, <1>12, <1>13, Zenon
  DEF Next, NextID

---------------------------------------------------------------------------
(* Lock discipline *)

LEMMA LockStep == TypeOK /\ LockInv /\ [Next]_vars => LockInv'
<1> SUFFICES ASSUME TypeOK, LockInv, [Next]_vars PROVE LockInv'
  BY Zenon
<1> USE HiLoAssumption DEF HiLoAssumption, TypeOK, LockInv, Critical, InGetNextRange,
                           Goto, ReleaseOnReturn, cells, locals
<1>1. ASSUME NEW g \in Goroutines, Call(g) PROVE LockInv'
  BY <1>1, Zenon DEF Call
<1>2. ASSUME NEW g \in Goroutines, LoadRange(g) PROVE LockInv'
  BY <1>2, Zenon DEF LoadRange
<1>3. ASSUME NEW g \in Goroutines, AddCurrent(g) PROVE LockInv'
  <2>1. /\ pc[g] = "add" /\ pc'[g] \in {"format", "lock"}
        /\ \A h \in Goroutines : h # g => pc'[h] = pc[h]
        /\ pc'[g] = "lock" => lock' = lock
        /\ pc'[g] = "format" => lock' = IF lock = g THEN None ELSE lock
    BY <1>3, Zenon DEF AddCurrent
  <2>2. QED
    BY <2>1, Zenon
<1>4. ASSUME NEW g \in Goroutines, AcquireLock(g) PROVE LockInv'
  BY <1>4, Zenon DEF AcquireLock
<1>5. ASSUME NEW g \in Goroutines, CheckRange(g) PROVE LockInv'
  <2>1. /\ pc[g] = "check" /\ pc'[g] \in {"format", "fetch"}
        /\ \A h \in Goroutines : h # g => pc'[h] = pc[h]
        /\ pc'[g] = "fetch" => lock' = lock
        /\ pc'[g] = "format" => lock' = IF lock = g THEN None ELSE lock
    BY <1>5, Zenon DEF CheckRange
  <2>2. QED
    BY <2>1, Zenon
<1>6. ASSUME NEW g \in Goroutines, FormatID(g) PROVE LockInv'
  BY <1>6, Zenon DEF FormatID
<1>7. ASSUME NEW g \in Goroutines, NEW n \in Nodes, RequestRange(g, n) PROVE LockInv'
  BY <1>7, Zenon DEF RequestRange
<1>8. ASSUME NEW g \in Goroutines, RequestFails(g) PROVE LockInv'
  BY <1>8, Zenon DEF RequestFails
<1>9. ASSUME NEW g \in Goroutines, SetServerTag(g) PROVE LockInv'
  BY <1>9, Zenon DEF SetServerTag
<1>10. ASSUME NEW g \in Goroutines, InstallRange(g) PROVE LockInv'
  BY <1>10, Zenon DEF InstallRange
<1>11. ASSUME NEW n \in Nodes, OtherClient(n) PROVE LockInv'
  BY <1>11, Zenon DEF OtherClient
<1>12. ASSUME NEW n \in Nodes, ReturnUnusedRange(n) PROVE LockInv'
  BY <1>12, Zenon DEF ReturnUnusedRange
<1>13. CASE UNCHANGED vars
  BY <1>13, Zenon DEF vars
<1> HIDE DEF LockInv
<1>14. QED
  BY <1>1, <1>2, <1>3, <1>4, <1>5, <1>6, <1>7, <1>8, <1>9, <1>10, <1>11, <1>12, <1>13, Zenon
  DEF Next, NextID

---------------------------------------------------------------------------
(* What a step does to the cells *)

SameCell(r) ==
  min'[r] = min[r] /\ max'[r] = max[r] /\ current'[r] = current[r] /\ node'[r] = node[r]

LEMMA CellTypes ==
  ASSUME TypeOK
  PROVE  /\ \A r \in RangeIds : min[r] \in Nat /\ max[r] \in Nat /\ current[r] \in Nat
         /\ \A g \in Goroutines : reply[g].low \in Nat /\ reply[g].high \in Nat
  BY Zenon DEF TypeOK, Replies

LEMMA AddEffect ==
  ASSUME TypeOK, NEW g \in Goroutines, AddCurrent(g)
  PROVE  /\ current'[rangev[g]] = current[rangev[g]] + 1
         /\ \A r \in RangeIds : r # rangev[g] => current'[r] = current[r]
         /\ min' = min /\ max' = max /\ node' = node
  BY Zenon DEF TypeOK, AddCurrent

LEMMA InstallEffect ==
  ASSUME TypeOK, ReplyInv, NEW g \in Goroutines, InstallRange(g)
  PROVE  /\ range + 1 \in RangeIds /\ range' = range + 1
         /\ min'[range + 1] = reply[g].low /\ max'[range + 1] = reply[g].high
         /\ current'[range + 1] = reply[g].low - 1 /\ node'[range + 1] = reply[g].node
         /\ \A r \in RangeIds : r # range + 1 => SameCell(r)
<1>1. range < MaxRanges /\ range' = range + 1 /\ NewRangeValue(range + 1, reply[g])
  BY Zenon DEF ReplyInv, InstallRange
<1>2. range + 1 \in RangeIds
  BY <1>1, HiLoAssumption DEF HiLoAssumption, TypeOK, RangeIds
<1>3. QED
  BY <1>1, <1>2, Zenon DEF TypeOK, NewRangeValue, SameCell

---------------------------------------------------------------------------
(* The cells keep their shape *)

LEMMA PointerStep ==
  ASSUME TypeOK, ReplyInv, PointerInv, [Next]_vars
  PROVE  PointerInv'
<1>0. /\ range \in RangeIds /\ RangeIds = 0..MaxRanges /\ MaxRanges \in Nat
      /\ rangev \in [Goroutines -> RangeIds] /\ pc \in [Goroutines -> PCs]
      /\ \A r \in RangeIds : min[r] \in Nat /\ max[r] \in Nat /\ current[r] \in Nat
  BY CellTypes, HiLoAssumption, Zenon DEF HiLoAssumption, TypeOK, RangeIds
<1> USE <1>0 DEF PointerInv, Goto, cells, locals
<1>1. ASSUME NEW g \in Goroutines, LoadRange(g) PROVE PointerInv'
  BY <1>1 DEF LoadRange
<1>2. ASSUME NEW g \in Goroutines, CheckRange(g) PROVE PointerInv'
  <2>1. range' = range /\ (rangev' = rangev \/ rangev' = [rangev EXCEPT ![g] = range])
    BY <1>2, Zenon DEF CheckRange
  <2>2. \A h \in Goroutines : rangev'[h] = rangev[h] \/ rangev'[h] = range
    BY <2>1, Zenon
  <2>3. QED
    BY <2>1, <2>2
<1>3. ASSUME NEW g \in Goroutines, InstallRange(g) PROVE PointerInv'
  BY <1>3, InstallEffect DEF InstallRange
<1>4. CASE UNCHANGED <<range, rangev>>
  BY <1>4, Zenon
<1> HIDE DEF PointerInv
<1>5. QED
  BY <1>1, <1>2, <1>3, <1>4, StepKinds, Zenon

LEMMA CellStep ==
  ASSUME TypeOK, ReplyInv, CellInv, [Next]_vars
  PROVE  CellInv'
<1>0. /\ range \in RangeIds /\ RangeIds = 0..MaxRanges /\ MaxRanges \in Nat
      /\ rangev \in [Goroutines -> RangeIds] /\ pc \in [Goroutines -> PCs]
      /\ \A r \in RangeIds : min[r] \in Nat /\ max[r] \in Nat /\ current[r] \in Nat
  BY CellTypes, HiLoAssumption, Zenon DEF HiLoAssumption, TypeOK, RangeIds
<1> USE <1>0 DEF CellInv, cells, locals
<1>1. ASSUME NEW g \in Goroutines, AddCurrent(g) PROVE CellInv'
  <2>1. range' = range
    BY <1>1, Zenon DEF AddCurrent
  <2>2. \A r \in RangeIds :
          current'[r] = current[r] \/ current'[r] = current[r] + 1
    BY <1>1, AddEffect, Zenon
  <2>3. \A r \in RangeIds :
          min'[r] = min[r] /\ max'[r] = max[r] /\ node'[r] = node[r]
    BY <1>1, AddEffect, Zenon
  <2>4. 0 \in RangeIds
    OBVIOUS
  <2>5. ASSUME NEW r \in RangeIds, r <= range'
        PROVE  min'[r] - 1 <= current'[r] /\ 1 <= min'[r]
    <3>1. /\ min[r] - 1 <= current[r] /\ 1 <= min[r]
          /\ min[r] \in Nat /\ current[r] \in Nat
      BY <2>1, <2>5, Zenon
    <3>2. min'[r] = min[r]
      BY <2>3, Zenon
    <3>3. current'[r] = current[r] \/ current'[r] = current[r] + 1
      BY <2>2, Zenon
    <3>4. QED
      BY <3>1, <3>2, <3>3
  <2>6. QED
    BY <2>1, <2>3, <2>4, <2>5, Zenon
<1>2. ASSUME NEW g \in Goroutines, InstallRange(g) PROVE CellInv'
  <2>1. pc[g] = "install"
    BY <1>2, Zenon DEF InstallRange
  <2>2. /\ reply[g].node \in Nodes /\ reply[g].low \in Nat
        /\ 1 <= reply[g].low
    BY <2>1, CellTypes, Zenon DEF ReplyInv
  <2>3. \A r \in RangeIds : r <= range' => r <= range \/ r = range + 1
    <3>1. range' = range + 1 /\ range \in Int /\ \A r \in RangeIds : r \in Int
      BY <1>2, InstallEffect, CellTypes
    <3> QED
      BY ONLY <3>1
  <2>4. 0 \in RangeIds /\ 0 # range + 1
    OBVIOUS
  <2>5. /\ min'[range + 1] = reply[g].low /\ current'[range + 1] = reply[g].low - 1
        /\ node'[range + 1] = reply[g].node
        /\ \A r \in RangeIds : r # range + 1 =>
             min'[r] = min[r] /\ max'[r] = max[r] /\ current'[r] = current[r] /\ node'[r] = node[r]
    BY <1>2, InstallEffect, Zenon DEF SameCell
  <2>6. ASSUME NEW r \in RangeIds, r <= range'
        PROVE  min'[r] - 1 <= current'[r] /\ 1 <= min'[r]
    <3>1. CASE r = range + 1
      BY <2>2, <2>5, <3>1
    <3>2. CASE r # range + 1
      BY <2>3, <2>5, <2>6, <3>2, Zenon
    <3>3. QED
      BY <3>1, <3>2, Zenon
  <2>7. ASSUME NEW r \in RangeIds, 0 < r, r <= range'
        PROVE  node'[r] \in Nodes
    BY <2>2, <2>3, <2>5, <2>7, Zenon
  <2>8. QED
    BY <2>4, <2>5, <2>6, <2>7, Zenon
<1>3. CASE UNCHANGED <<cells, range>>
  BY <1>3, Zenon
<1> HIDE DEF CellInv, cells
<1>4. QED
  BY <1>1, <1>2, <1>3, StepKinds, Zenon

LEMMA ReplyStep ==
  ASSUME TypeOK, LockInv, ReplyInv, [Next]_vars
  PROVE  ReplyInv'
<1>0. /\ range \in RangeIds /\ RangeIds = 0..MaxRanges /\ MaxRanges \in Nat
      /\ rangev \in [Goroutines -> RangeIds] /\ pc \in [Goroutines -> PCs]
      /\ \A r \in RangeIds : min[r] \in Nat /\ max[r] \in Nat /\ current[r] \in Nat
  BY CellTypes, HiLoAssumption, Zenon DEF HiLoAssumption, TypeOK, RangeIds
<1> USE <1>0 DEF ReplyInv, Goto, cells, locals
<1>1. ASSUME NEW g \in Goroutines, NEW n \in Nodes, RequestRange(g, n) PROVE ReplyInv'
  <2>1. /\ range' = range /\ range < MaxRanges /\ pc' = [pc EXCEPT ![g] = "tag"]
    BY <1>1, Zenon DEF RequestRange
  <2>2. reply'[g].node = n /\ reply'[g].low = serverMax[n] + 1
    BY <1>1, Zenon DEF TypeOK, RequestRange
  <2>3. serverMax[n] \in Nat
    BY Zenon DEF TypeOK
  <2>4. \A h \in Goroutines : h # g => reply'[h] = reply[h]
    BY <1>1, Zenon DEF TypeOK, RequestRange
  <2>5. ASSUME NEW h \in Goroutines, pc'[h] \in {"tag", "install"}, h # g
        PROVE  pc[h] \in {"tag", "install"}
    BY <2>1, <2>5, Zenon
  <2>6. 1 <= reply'[g].low
    BY <2>2, <2>3
  <2>7. QED
    BY <2>1, <2>2, <2>4, <2>5, <2>6, Zenon
<1>2. ASSUME NEW g \in Goroutines, InstallRange(g) PROVE ReplyInv'
  <2>1. lock = g /\ pc' = [pc EXCEPT ![g] = "load"] /\ reply' = reply
    BY <1>2, Zenon DEF InstallRange, LockInv, Critical, InGetNextRange
  <2>2. \A h \in Goroutines : pc'[h] \notin {"tag", "install"}
    BY <2>1, Zenon DEF LockInv, Critical, InGetNextRange
  <2>3. QED
    BY <2>2, Zenon
<1>3. CASE NoReply
  BY <1>3, Zenon DEF NoReply
<1> HIDE DEF ReplyInv
<1>4. QED
  BY <1>1, <1>2, <1>3, StepKinds, Zenon

---------------------------------------------------------------------------
(* What every step does to the cells in use *)

LEMMA CellsGrow ==
  ASSUME TypeOK, ReplyInv, [Next]_vars
  PROVE  \A r \in RangeIds : r <= range =>
           /\ min'[r] = min[r]
           /\ max'[r] = max[r]
           /\ node'[r] = node[r]
           /\ current'[r] \in Nat /\ current'[r] >= current[r]
<1>0. /\ range \in RangeIds /\ RangeIds = 0..MaxRanges /\ MaxRanges \in Nat
      /\ rangev \in [Goroutines -> RangeIds] /\ pc \in [Goroutines -> PCs]
      /\ \A r \in RangeIds : min[r] \in Nat /\ max[r] \in Nat /\ current[r] \in Nat
  BY CellTypes, HiLoAssumption, Zenon DEF HiLoAssumption, TypeOK, RangeIds
<1>1. ASSUME NEW g \in Goroutines, AddCurrent(g), NEW r \in RangeIds
      PROVE  /\ min'[r] = min[r]
             /\ max'[r] = max[r]
             /\ node'[r] = node[r]
             /\ current'[r] \in Nat /\ current'[r] >= current[r]
  <2>1. current'[r] = current[r] \/ current'[r] = current[r] + 1
    BY <1>0, <1>1, AddEffect, Zenon
  <2>2. QED
    BY <1>0, <1>1, <2>1, AddEffect
<1>2. ASSUME NEW g \in Goroutines, InstallRange(g), NEW r \in RangeIds, r <= range
      PROVE  SameCell(r)
  BY <1>0, <1>2, InstallEffect
<1>3. CASE UNCHANGED <<cells, range>>
  BY <1>0, <1>3 DEF cells
<1>4. CASE \E g \in Goroutines : AddCurrent(g)
  BY <1>1, <1>4, Zenon
<1>5. CASE \E g \in Goroutines : InstallRange(g)
  BY <1>0, <1>2, <1>5 DEF SameCell
<1>6. QED
  BY <1>0, <1>3, <1>4, <1>5, StepKinds, Zenon

---------------------------------------------------------------------------
(* Exhausted ranges stay exhausted *)

LEMMA ExhaustedStep ==
  ASSUME TypeOK, LockInv, PointerInv, ReplyInv, ExhaustedInv, [Next]_vars
  PROVE  ExhaustedInv'
<1>0. /\ range \in RangeIds /\ RangeIds = 0..MaxRanges /\ MaxRanges \in Nat
      /\ rangev \in [Goroutines -> RangeIds] /\ pc \in [Goroutines -> PCs]
      /\ \A r \in RangeIds : min[r] \in Nat /\ max[r] \in Nat /\ current[r] \in Nat
  BY CellTypes, HiLoAssumption, Zenon DEF HiLoAssumption, TypeOK, RangeIds
<1>a. \A r \in RangeIds : r <= range /\ current[r] > max[r] => current'[r] > max'[r]
  <2>1. SUFFICES ASSUME NEW r \in RangeIds, r <= range, current[r] > max[r]
                 PROVE  current'[r] > max'[r]
    BY Zenon
  <2>2. max'[r] = max[r] /\ current'[r] \in Nat /\ current'[r] >= current[r]
    BY <2>1, CellsGrow, Zenon
  <2>3. QED
    BY <1>0, <2>1, <2>2
<1> USE <1>0 DEF ExhaustedInv, Critical, InGetNextRange, Goto, cells, locals
<1>1. ASSUME NEW g \in Goroutines, LoadRange(g) PROVE ExhaustedInv'
  BY <1>1, Zenon DEF LoadRange
<1>2. ASSUME NEW g \in Goroutines, AddCurrent(g) PROVE ExhaustedInv'
  <2>1. /\ range' = range /\ rangev' = rangev
        /\ \A h \in Goroutines : h # g => pc'[h] = pc[h]
        /\ pc'[g] \in {"format", "lock"}
    BY <1>2, Zenon DEF AddCurrent
  <2>2. pc'[g] = "lock" => current'[rangev[g]] > max'[rangev[g]]
    <3>1. pc'[g] = "lock" => ~(current[rangev[g]] + 1 <= max[rangev[g]])
      BY <1>2, Zenon DEF AddCurrent
    <3>2. QED
      BY <1>2, <3>1, AddEffect
  <2>3. \A h \in Goroutines : rangev[h] \in RangeIds /\ rangev[h] <= range
    BY Zenon DEF PointerInv
  <2>4. ASSUME NEW h \in Goroutines, pc'[h] \in Critical \cup {"lock"}
        PROVE  current'[rangev'[h]] > max'[rangev'[h]]
    <3>1. CASE h = g
      BY <2>1, <2>2, <2>4, <3>1, Zenon
    <3>2. CASE h # g
      <4>1. current[rangev[h]] > max[rangev[h]]
        BY <2>1, <2>4, <3>2, Zenon
      <4>2. QED
        BY <1>a, <2>1, <2>3, <4>1, Zenon
    <3>3. QED
      BY <3>1, <3>2, Zenon
  <2>5. ASSUME NEW h \in Goroutines, pc'[h] \in InGetNextRange
        PROVE  current'[range'] > max'[range']
    <3>1. current[range] > max[range]
      BY <2>1, <2>5, Zenon
    <3>2. QED
      BY <1>a, <2>1, <3>1
  <2>6. QED
    BY <2>4, <2>5, Zenon
<1>3. ASSUME NEW g \in Goroutines, CheckRange(g) PROVE ExhaustedInv'
  <2>1. current' = current /\ max' = max /\ range' = range
    BY <1>3, Zenon DEF CheckRange, cells
  <2>2. CASE current[range] <= max[range]
    <3>1. pc' = [pc EXCEPT ![g] = "format"] /\ rangev' = [rangev EXCEPT ![g] = range]
      BY <1>3, <2>2, Zenon DEF CheckRange
    <3>2. QED
      BY <2>1, <3>1, Zenon
  <2>3. CASE ~(current[range] <= max[range])
    <3>1. pc' = [pc EXCEPT ![g] = "fetch"] /\ rangev' = rangev /\ pc[g] = "check"
      BY <1>3, <2>3, Zenon DEF CheckRange
    <3>2. QED
      BY <2>1, <2>3, <3>1
  <2>4. QED
    BY <2>2, <2>3, Zenon
<1>4. ASSUME NEW g \in Goroutines, InstallRange(g) PROVE ExhaustedInv'
  <2>1. lock = g /\ pc' = [pc EXCEPT ![g] = "load"] /\ rangev' = rangev
    BY <1>4, Zenon DEF InstallRange, LockInv
  <2>2. \A h \in Goroutines : pc'[h] \notin Critical
    BY <2>1, Zenon DEF LockInv
  <2>3. \A h \in Goroutines : SameCell(rangev[h])
    BY <1>4, InstallEffect DEF PointerInv
  <2>4. QED
    BY <2>1, <2>2, <2>3, Zenon DEF SameCell
<1>5. CASE /\ UNCHANGED <<cells, range, rangev>>
          /\ \A h \in Goroutines :
               /\ pc'[h] \in Critical \cup {"lock"} => pc[h] \in Critical \cup {"lock"}
               /\ pc'[h] \in InGetNextRange => pc[h] \in InGetNextRange
  BY <1>5, Zenon
<1>6. ASSUME NEW g \in Goroutines, Call(g) \/ AcquireLock(g) \/ FormatID(g) PROVE ExhaustedInv'
  BY <1>5, <1>6, Zenon DEF Call, AcquireLock, FormatID
<1>7. ASSUME NEW g \in Goroutines, RequestFails(g) \/ SetServerTag(g) PROVE ExhaustedInv'
  BY <1>5, <1>7, Zenon DEF RequestFails, SetServerTag
<1>8. ASSUME NEW g \in Goroutines, NEW n \in Nodes, RequestRange(g, n) PROVE ExhaustedInv'
  BY <1>5, <1>8, Zenon DEF RequestRange
<1>9. CASE (\E n \in Nodes : OtherClient(n) \/ ReturnUnusedRange(n)) \/ UNCHANGED vars
  BY <1>5, <1>9, Zenon DEF OtherClient, ReturnUnusedRange, vars
<1> HIDE DEF ExhaustedInv
<1>10. QED
  BY <1>1, <1>2, <1>3, <1>4, <1>6, <1>7, <1>8, <1>9, Zenon DEF Next, NextID

---------------------------------------------------------------------------
(* Fresh ranges and fast numbers *)

\* numbers of the atomic add are drawn once: among the ids about to be
\* formatted, among those returned, and across
FastInv ==
  /\ \A g, h \in Goroutines :
       /\ pc[g] = "format" /\ ~slow[g] /\ pc[h] = "format" /\ ~slow[h]
       /\ rangev[g] = rangev[h] /\ id[g] = id[h]
       => g = h
  /\ \A g \in Goroutines, i \in issued :
       pc[g] = "format" /\ ~slow[g] /\ ~i.slow /\ rangev[g] = i.range => id[g] # i.num
  /\ FastNumbersUnique

---------------------------------------------------------------------------
(* A range nobody drew from is guarded *)

LEMMA FreshStep ==
  ASSUME TypeOK, LockInv, PointerInv, ReplyInv, CellInv, FreshInv, [Next]_vars
  PROVE  FreshInv'
<1>0. /\ range \in RangeIds /\ RangeIds = 0..MaxRanges /\ MaxRanges \in Nat
      /\ rangev \in [Goroutines -> RangeIds] /\ pc \in [Goroutines -> PCs]
      /\ \A r \in RangeIds : min[r] \in Nat /\ max[r] \in Nat /\ current[r] \in Nat
  BY CellTypes, HiLoAssumption, Zenon DEF HiLoAssumption, TypeOK, RangeIds
<1> USE <1>0 DEF FreshInv, Goto, cells, locals
<1>1. ASSUME NEW g \in Goroutines, Call(g) PROVE FreshInv'
  BY <1>1, Zenon DEF Call
<1>2. ASSUME NEW g \in Goroutines, LoadRange(g) PROVE FreshInv'
  <2>1. UNCHANGED <<cells, range, lock>> /\ pc' = [pc EXCEPT ![g] = "add"]
        /\ rangev' = [rangev EXCEPT ![g] = range]
    BY <1>2, Zenon DEF LoadRange
  <2>2. QED
    BY <2>1, Zenon
<1>3. ASSUME NEW g \in Goroutines, AddCurrent(g) PROVE FreshInv'
  <2>1. range' = range /\ rangev' = rangev /\ pc[g] = "add"
        /\ \A h \in Goroutines : h # g => pc'[h] = pc[h]
    BY <1>3, Zenon DEF AddCurrent
  <2>2. ASSUME range > 0, current'[range] < min'[range]
        PROVE  range # rangev[g]
    <3>1. SUFFICES ASSUME range = rangev[g] PROVE FALSE
      BY Zenon
    <3>2. min[range] - 1 <= current[range] /\ min[range] \in Nat
      BY DEF CellInv
    <3>3. current'[range] = current[range] + 1 /\ min'[range] = min[range]
      BY <1>3, <3>1, AddEffect, Zenon
    <3>4. QED
      BY <2>2, <3>2, <3>3
  <2>3. ASSUME range > 0, current'[range] < min'[range]
        PROVE  current[range] < min[range]
    BY <1>3, <2>2, <2>3, AddEffect, Zenon
  <2>4. ASSUME range > 0, current'[range] < min'[range]
        PROVE  \E h \in Goroutines :
                 h # g /\ lock = h /\ (pc[h] = "load" \/ (pc[h] = "add" /\ rangev[h] = range))
    BY <2>1, <2>2, <2>3, <2>4, Zenon
  <2>5. lock # g => lock' = lock
    BY <1>3, Zenon DEF AddCurrent, ReleaseOnReturn
  <2>6. QED
    BY <2>1, <2>4, <2>5, Zenon
<1>4. ASSUME NEW g \in Goroutines, AcquireLock(g) PROVE FreshInv'
  BY <1>4, HiLoAssumption, Zenon DEF AcquireLock, HiLoAssumption
<1>5. ASSUME NEW g \in Goroutines, CheckRange(g) PROVE FreshInv'
  <2>1. lock = g /\ UNCHANGED <<cells, range>> /\ pc[g] = "check"
    BY <1>5, Zenon DEF CheckRange, LockInv, Critical
  <2>2. QED
    BY <2>1, Zenon
<1>6. ASSUME NEW g \in Goroutines, FormatID(g) PROVE FreshInv'
  BY <1>6, Zenon DEF FormatID
<1>7. ASSUME NEW g \in Goroutines, NEW n \in Nodes, RequestRange(g, n) PROVE FreshInv'
  BY <1>7, Zenon DEF RequestRange
<1>8. ASSUME NEW g \in Goroutines, RequestFails(g) PROVE FreshInv'
  <2>1. lock = g /\ UNCHANGED <<cells, range>> /\ pc[g] \in {"fetch", "tag"}
    BY <1>8, Zenon DEF RequestFails, LockInv, Critical, InGetNextRange
  <2>2. QED
    BY <2>1, Zenon
<1>9. ASSUME NEW g \in Goroutines, SetServerTag(g) PROVE FreshInv'
  BY <1>9, Zenon DEF SetServerTag
<1>10. ASSUME NEW g \in Goroutines, InstallRange(g) PROVE FreshInv'
  <2>1. lock = g /\ lock' = g /\ pc' = [pc EXCEPT ![g] = "load"]
    BY <1>10, Zenon DEF InstallRange, LockInv, Critical, InGetNextRange
  <2>2. QED
    BY <2>1, Zenon
<1>11. ASSUME NEW n \in Nodes, OtherClient(n) PROVE FreshInv'
  BY <1>11, Zenon DEF OtherClient
<1>12. ASSUME NEW n \in Nodes, ReturnUnusedRange(n) PROVE FreshInv'
  BY <1>12, Zenon DEF ReturnUnusedRange
<1>13. CASE UNCHANGED vars
  BY <1>13, Zenon DEF vars
<1> HIDE DEF FreshInv
<1>14. QED
  BY <1>1, <1>2, <1>3, <1>4, <1>5, <1>6, <1>7, <1>8, <1>9, <1>10, <1>11, <1>12, <1>13, Zenon
  DEF Next, NextID

---------------------------------------------------------------------------
(* Ids lie in their range *)

LEMMA DrawnStep ==
  ASSUME RangeInv, [Next]_vars
  PROVE  DrawnInv'
<1>0. /\ range \in RangeIds /\ RangeIds = 0..MaxRanges /\ MaxRanges \in Nat
      /\ rangev \in [Goroutines -> RangeIds] /\ pc \in [Goroutines -> PCs]
      /\ \A r \in RangeIds : min[r] \in Nat /\ max[r] \in Nat /\ current[r] \in Nat
  BY CellTypes, HiLoAssumption, Zenon DEF RangeInv, HiLoAssumption, TypeOK, RangeIds
<1> USE <1>0 DEF DrawnInv, InRange, Goto, cells, locals
<1>1. ASSUME NEW g \in Goroutines, AddCurrent(g) PROVE DrawnInv'
  <2>1. /\ range' = range /\ rangev' = rangev /\ issued' = issued
        /\ \A h \in Goroutines : h # g => pc'[h] = pc[h] /\ id'[h] = id[h]
    BY <1>1, Zenon DEF AddCurrent, RangeInv, TypeOK
  <2>2. pc'[g] = "format" =>
          /\ current[rangev[g]] + 1 <= max[rangev[g]]
          /\ id'[g] = current[rangev[g]] + 1
    BY <1>1, Zenon DEF AddCurrent, RangeInv, TypeOK
  <2>3. /\ rangev[g] \in RangeIds /\ rangev[g] <= range
        /\ min[rangev[g]] - 1 <= current[rangev[g]]
    BY Zenon DEF RangeInv, PointerInv, CellInv
  <2>4. pc'[g] = "format" =>
          /\ min'[rangev[g]] <= id'[g] /\ id'[g] <= max'[rangev[g]]
          /\ id'[g] <= current'[rangev[g]]
    <3>1. /\ min' = min /\ max' = max
          /\ current'[rangev[g]] = current[rangev[g]] + 1
      BY ONLY <1>1, RangeInv, AddEffect, Zenon DEF RangeInv
    <3>2. min[rangev[g]] \in Nat /\ max[rangev[g]] \in Nat /\ current[rangev[g]] \in Nat
      BY ONLY <1>0, <2>3, Zenon
    <3>3. QED
      <4>1. min'[rangev[g]] = min[rangev[g]] /\ max'[rangev[g]] = max[rangev[g]]
        BY ONLY <3>1, Zenon
      <4>2. ASSUME pc'[g] = "format"
            PROVE  /\ min'[rangev[g]] <= id'[g] /\ id'[g] <= max'[rangev[g]]
                   /\ id'[g] <= current'[rangev[g]]
        <5>1. /\ id'[g] = current[rangev[g]] + 1 /\ current[rangev[g]] + 1 <= max[rangev[g]]
              /\ min[rangev[g]] - 1 <= current[rangev[g]]
              /\ current'[rangev[g]] = current[rangev[g]] + 1
          BY ONLY <2>2, <2>3, <3>1, <4>2, Zenon
        <5>2. QED
          BY ONLY <3>2, <4>1, <5>1
      <4>3. QED
        BY ONLY <4>2, Zenon
  <2>5. ASSUME NEW r \in RangeIds, r <= range, NEW n \in Nat,
               min[r] <= n, n <= max[r], n <= current[r]
        PROVE  min'[r] <= n /\ n <= max'[r] /\ n <= current'[r]
    <3>1. TypeOK /\ ReplyInv
      BY ONLY RangeInv, Zenon DEF RangeInv
    <3>2. /\ min'[r] = min[r] /\ max'[r] = max[r]
          /\ current'[r] \in Nat /\ current'[r] >= current[r]
      BY ONLY <2>5, <3>1, [Next]_vars, CellsGrow, Zenon
    <3>3. current[r] \in Nat
      BY ONLY <1>0, <2>5, Zenon
    <3>4. QED
      BY ONLY <2>5, <3>2, <3>3
  <2>6. \A h \in Goroutines : rangev[h] \in RangeIds /\ rangev[h] <= range /\ id[h] \in Nat
    BY Zenon DEF RangeInv, PointerInv, TypeOK
  <2>7. \A i \in issued : i.range \in RangeIds /\ i.num \in Nat
    BY Zenon DEF RangeInv, TypeOK, Issues
  <2>8. ASSUME NEW h \in Goroutines, pc'[h] = "format"
        PROVE  /\ min'[rangev[h]] <= id'[h] /\ id'[h] <= max'[rangev[h]]
               /\ id'[h] <= current'[rangev[h]]
    <3>1. CASE h = g
      BY <2>4, <2>8, <3>1, Zenon
    <3>2. CASE h # g
      <4>1. /\ pc[h] = "format" /\ id'[h] = id[h] /\ id[h] \in Nat
            /\ rangev[h] \in RangeIds /\ rangev[h] <= range
        BY <2>1, <2>6, <2>8, <3>2, Zenon
      <4>2. min[rangev[h]] <= id[h] /\ id[h] <= max[rangev[h]] /\ id[h] <= current[rangev[h]]
        BY <4>1, Zenon DEF RangeInv
      <4>3. QED
        BY <2>5, <4>1, <4>2, Zenon
    <3>3. QED
      BY <3>1, <3>2, Zenon
  <2>9. ASSUME NEW i \in issued
        PROVE  /\ min'[i.range] <= i.num /\ i.num <= max'[i.range]
               /\ i.num <= current'[i.range]
    <3>1. /\ i.range <= range /\ min[i.range] <= i.num /\ i.num <= max[i.range]
          /\ i.num <= current[i.range]
      BY Zenon DEF RangeInv
    <3>2. QED
      BY <2>5, <2>7, <3>1, Zenon
  <2>10. QED
    BY <2>1, <2>8, <2>9, Zenon DEF RangeInv
<1>2. ASSUME NEW g \in Goroutines, CheckRange(g) PROVE DrawnInv'
  <2>1. UNCHANGED <<cells, range, issued>> /\ pc[g] = "check" /\ lock = g
    BY <1>2, Zenon DEF CheckRange, RangeInv, LockInv, Critical
  <2>2. CASE current[range] <= max[range]
    <3>1. /\ pc' = [pc EXCEPT ![g] = "format"] /\ rangev' = [rangev EXCEPT ![g] = range]
          /\ id' = [id EXCEPT ![g] = current[range]]
      BY <1>2, <2>2, Zenon DEF CheckRange
    <3>2. range > 0
      <4>1. current[rangev[g]] > max[rangev[g]]
        BY <2>1, Zenon DEF RangeInv, ExhaustedInv, Critical
      <4>2. rangev[g] # range
        BY <2>2, <4>1
      <4>3. QED
        BY <4>2 DEF RangeInv, PointerInv
    <3>3. min[range] <= current[range]
      BY <2>1, <3>2 DEF RangeInv, FreshInv
    <3>4. rangev'[g] = range /\ id'[g] = current[range]
      BY <3>1, Zenon DEF RangeInv, TypeOK
    <3>5. \A h \in Goroutines : h # g => pc'[h] = pc[h] /\ rangev'[h] = rangev[h] /\ id'[h] = id[h]
      BY <3>1, Zenon DEF RangeInv, TypeOK
    <3>6. QED
      <4>1. UNCHANGED <<min, max, current, range, issued>> /\ DrawnInv
        BY ONLY <2>1, RangeInv, Zenon DEF RangeInv, cells
      <4>2. current[range] \in Nat
        BY ONLY <1>0, Zenon
      <4>3. ASSUME NEW h \in Goroutines, pc'[h] = "format"
            PROVE  InRange(rangev[h], id[h])' /\ id'[h] <= current'[rangev'[h]]
        <5>1. CASE h = g
          BY ONLY <5>1, <4>1, <4>2, <2>2, <3>3, <3>4 DEF InRange
        <5>2. CASE h # g
          BY ONLY <5>2, <4>1, <4>3, <3>5, Zenon DEF DrawnInv, InRange
        <5>3. QED
          BY ONLY <5>1, <5>2, Zenon
      <4>4. QED
        BY ONLY <4>1, <4>3, Zenon DEF DrawnInv, InRange
  <2>3. CASE ~(current[range] <= max[range])
    BY <1>2, <2>1, <2>3, Zenon DEF CheckRange, RangeInv, TypeOK
  <2>4. QED
    BY <2>2, <2>3, Zenon
<1>3. ASSUME NEW g \in Goroutines, FormatID(g) PROVE DrawnInv'
  <2>1. UNCHANGED <<cells, range, rangev, id>> /\ pc' = [pc EXCEPT ![g] = "idle"] /\ pc[g] = "format"
    BY <1>3, Zenon DEF FormatID
  <2>2. \A i \in issued' : i \in issued \/ (i.range = rangev[g] /\ i.num = id[g])
    BY <1>3 DEF FormatID
  <2>3. QED
    BY <2>1, <2>2, Zenon DEF RangeInv, PointerInv
<1>4. ASSUME NEW g \in Goroutines, InstallRange(g) PROVE DrawnInv'
  <2>1. /\ rangev' = rangev /\ id' = id /\ issued' = issued /\ range' = range + 1
        /\ \A h \in Goroutines : pc'[h] = "format" => pc[h] = "format"
    BY <1>4, Zenon DEF InstallRange
  <2>2. \A r \in RangeIds : r <= range => SameCell(r)
    <3>1. TypeOK /\ ReplyInv
      BY ONLY RangeInv, Zenon DEF RangeInv
    <3>2. \A r \in RangeIds : r # range + 1 => SameCell(r)
      BY ONLY <1>4, <3>1, InstallEffect, Zenon
    <3>3. \A r \in RangeIds : r <= range => r # range + 1
      BY ONLY <1>0
    <3>4. QED
      BY ONLY <3>2, <3>3, Zenon
  <2>3. \A h \in Goroutines : rangev[h] \in RangeIds /\ rangev[h] <= range
    BY Zenon DEF RangeInv, PointerInv
  <2>4. \A i \in issued : i.range \in RangeIds /\ i.range <= range
    BY Zenon DEF RangeInv, TypeOK, Issues
  <2>5. \A h \in Goroutines : pc'[h] = "format" =>
          InRange(rangev[h], id[h])' /\ id[h] <= current'[rangev[h]]
    BY <2>1, <2>2, <2>3, Zenon DEF RangeInv, SameCell
  <2>6. \A i \in issued : InRange(i.range, i.num)' /\ i.num <= current'[i.range]
    BY <2>2, <2>4, Zenon DEF RangeInv, SameCell
  <2>7. \A i \in issued : i.range <= range'
    BY <2>1, <2>4
  <2>8. QED
    BY <2>1, <2>5, <2>6, <2>7, Zenon
<1>5. CASE Idle
  BY <1>5, Zenon DEF Idle, RangeInv
<1> HIDE DEF DrawnInv
<1>6. QED
  BY <1>0, <1>1, <1>2, <1>3, <1>4, <1>5, StepKinds, Zenon

---------------------------------------------------------------------------
(* The theorems about ranges *)

LEMMA RangeInvInit == Init => RangeInv
<1> SUFFICES ASSUME Init PROVE RangeInv
  BY Zenon
<1>1. TypeOK
  BY TypeInit, Zenon
<1>2. 0 \in RangeIds
  BY HiLoAssumption DEF HiLoAssumption, RangeIds
<1>3. \A r \in RangeIds : min[r] = 1 /\ max[r] = 0 /\ current[r] = 0
  BY Zenon DEF Init
<1>4. LockInv /\ PointerInv /\ ReplyInv /\ ExhaustedInv /\ FreshInv /\ DrawnInv
  BY HiLoAssumption DEF HiLoAssumption, Init, LockInv, PointerInv, ReplyInv, ExhaustedInv,
     FreshInv, DrawnInv, Critical, InGetNextRange
<1>5. CellInv
  BY <1>2, <1>3 DEF Init, CellInv, RangeIds
<1>6. QED
  BY <1>1, <1>4, <1>5, Zenon DEF RangeInv

LEMMA RangeInvStep == RangeInv /\ [Next]_vars => RangeInv'
  BY TypeStep, LockStep, PointerStep, CellStep, ReplyStep, ExhaustedStep, FreshStep, DrawnStep, Zenon
  DEF RangeInv

\* The generator's state keeps its type in every reachable state.
THEOREM TypeCorrect == Spec => []TypeOK
<1>1. RangeInv => TypeOK
  BY Zenon DEF RangeInv
<1>2. QED
  BY <1>1, RangeInvInit, RangeInvStep, PTL DEF Spec

\* Every number NextID hands out lies inside the server's range it was drawn
\* from, on the atomic-add path and on the double-check path.
THEOREM NumbersAreGranted == Spec => []IssuedInRange
<1>1. RangeInv => IssuedInRange
  BY Zenon DEF RangeInv, DrawnInv, IssuedInRange
<1>2. QED
  BY <1>1, RangeInvInit, RangeInvStep, PTL DEF Spec

\* GetNextRange runs in one goroutine at a time, and only while the current
\* range is exhausted.
THEOREM RangesFetchedOnce == Spec => []OneRangeAtATime
<1>1. RangeInv => OneRangeAtATime
  BY Zenon DEF RangeInv, ExhaustedInv, LockInv, Critical, OneRangeAtATime
<1>2. QED
  BY <1>1, RangeInvInit, RangeInvStep, PTL DEF Spec

---------------------------------------------------------------------------
(* Numbers of the atomic add are drawn once *)

LEMMA FastStep ==
  ASSUME RangeInv, FastInv, [Next]_vars
  PROVE  FastInv'
<1>0. /\ pc \in [Goroutines -> PCs] /\ rangev \in [Goroutines -> RangeIds]
      /\ slow \in [Goroutines -> BOOLEAN] /\ id \in [Goroutines -> Nat]
  BY Zenon DEF RangeInv, TypeOK
<1>1. ASSUME NEW g \in Goroutines, AddCurrent(g) PROVE FastInv'
  <2> DEFINE r == rangev[g]
             n == current[r] + 1
  <2>1. /\ rangev' = rangev /\ issued' = issued /\ id'[g] = n
        /\ \A h \in Goroutines : h # g => pc'[h] = pc[h] /\ id'[h] = id[h] /\ slow'[h] = slow[h]
    BY <1>0, <1>1, Zenon DEF AddCurrent, Goto
  <2>2. r \in RangeIds /\ current[r] \in Nat /\ n \in Nat
    BY <1>0, CellTypes DEF RangeInv
  <2>3. \A h \in Goroutines : pc[h] = "format" /\ rangev[h] = r => id[h] # n
    <3>1. \A h \in Goroutines : pc[h] = "format" /\ rangev[h] = r => id[h] <= current[r]
      BY Zenon DEF RangeInv, DrawnInv
    <3>2. QED
      BY <1>0, <2>2, <3>1
  <2>4. \A i \in issued : i.range = r => i.num # n
    <3>1. \A i \in issued : i.range = r => i.num <= current[r]
      BY Zenon DEF RangeInv, DrawnInv
    <3>2. \A i \in issued : i.num \in Nat
      BY Zenon DEF RangeInv, TypeOK, Issues
    <3>3. QED
      BY <2>2, <3>1, <3>2
  <2>5. rangev[g] = r
    BY Zenon
  <2> HIDE DEF r, n
  <2>6. ASSUME NEW h \in Goroutines, NEW k \in Goroutines,
               pc'[h] = "format", ~slow'[h], pc'[k] = "format", ~slow'[k],
               rangev'[h] = rangev'[k], id'[h] = id'[k]
        PROVE  h = k
    <3>1. CASE h # g /\ k # g
      BY <2>1, <2>6, <3>1 DEF FastInv
    <3>2. CASE h = g \/ k = g
      BY <2>1, <2>3, <2>5, <2>6, <3>2, Zenon
    <3>3. QED
      BY <3>1, <3>2, Zenon
  <2>7. ASSUME NEW h \in Goroutines, NEW i \in issued,
               pc'[h] = "format", ~slow'[h], ~i.slow, rangev'[h] = i.range
        PROVE  id'[h] # i.num
    <3>1. CASE h # g
      BY <2>1, <2>7, <3>1 DEF FastInv
    <3>2. CASE h = g
      BY <2>1, <2>4, <2>5, <2>7, <3>2, Zenon
    <3>3. QED
      BY <3>1, <3>2, Zenon
  <2>8. FastNumbersUnique'
    BY <2>1, Zenon DEF FastInv, FastNumbersUnique
  <2>9. QED
    BY <2>1, <2>6, <2>7, <2>8, Zenon DEF FastInv
<1>2. ASSUME NEW g \in Goroutines, CheckRange(g) PROVE FastInv'
  <2>1. \A h \in Goroutines : pc'[h] = "format" /\ ~slow'[h] =>
          pc[h] = "format" /\ ~slow[h] /\ rangev'[h] = rangev[h] /\ id'[h] = id[h]
    BY <1>0, <1>2, Zenon DEF CheckRange, Goto
  <2>2. issued' = issued
    BY <1>2, Zenon DEF CheckRange
  <2>3. QED
    BY <2>1, <2>2 DEF FastInv, FastNumbersUnique
<1>3. ASSUME NEW g \in Goroutines, FormatID(g) PROVE FastInv'
  <2>1. /\ rangev' = rangev /\ id' = id /\ slow' = slow /\ pc[g] = "format" /\ pc'[g] = "idle"
        /\ \A h \in Goroutines : h # g => pc'[h] = pc[h]
    BY <1>0, <1>3, Zenon DEF FormatID, Goto, locals
  <2> DEFINE x == [by |-> g, call |-> calls[g], range |-> rangev[g],
                   num |-> id[g], slow |-> slow[g], tag |-> serverTag]
  <2>2. issued' = issued \cup {x} /\ x.range = rangev[g] /\ x.num = id[g] /\ x.slow = slow[g]
    BY <1>3, Zenon DEF FormatID
  <2> HIDE DEF x
  <2>3. \A i \in issued : ~i.slow /\ ~x.slow /\ i.range = x.range => i.num # x.num
    BY <2>1, <2>2, Zenon DEF FastInv
  <2>4. FastNumbersUnique'
    BY <2>2, <2>3 DEF FastInv, FastNumbersUnique
  <2>5. \A h \in Goroutines : pc'[h] = "format" => h # g /\ pc[h] = "format"
    BY <2>1, Zenon
  <2>6. ASSUME NEW h \in Goroutines, NEW i \in issued',
               pc'[h] = "format", ~slow'[h], ~i.slow, rangev'[h] = i.range
        PROVE  id'[h] # i.num
    <3>1. CASE i \in issued
      BY <2>1, <2>5, <2>6, <3>1, Zenon DEF FastInv
    <3>2. CASE i = x
      BY <2>1, <2>2, <2>5, <2>6, <3>2, Zenon DEF FastInv
    <3>3. QED
      BY <2>2, <3>1, <3>2, Zenon
  <2>7. ASSUME NEW h \in Goroutines, NEW k \in Goroutines,
               pc'[h] = "format", ~slow'[h], pc'[k] = "format", ~slow'[k],
               rangev'[h] = rangev'[k], id'[h] = id'[k]
        PROVE  h = k
    BY <2>1, <2>5, <2>7, Zenon DEF FastInv
  <2>8. QED
    BY <2>4, <2>6, <2>7, Zenon DEF FastInv
<1>4. CASE Idle
  BY <1>4 DEF Idle, FastInv, FastNumbersUnique
<1>5. ASSUME NEW g \in Goroutines, InstallRange(g) PROVE FastInv'
  <2>1. /\ UNCHANGED <<rangev, id, slow, issued>>
        /\ \A h \in Goroutines : pc'[h] = "format" => pc[h] = "format"
    BY <1>0, <1>5, Zenon DEF InstallRange, Goto, locals
  <2>2. QED
    BY <2>1, Zenon DEF FastInv, FastNumbersUnique
<1>6. QED
  BY <1>0, <1>1, <1>2, <1>3, <1>4, <1>5, StepKinds, Zenon

\* The atomic add never gives one number of a range to two calls, for any
\* number of goroutines.
THEOREM FastPathUnique == Spec => []FastNumbersUnique
<1>1. Init => FastInv
  BY Zenon DEF Init, FastInv, FastNumbersUnique
<1>2. RangeInv /\ FastInv /\ [Next]_vars => FastInv'
  BY FastStep, Zenon
<1>3. FastInv => FastNumbersUnique
  BY Zenon DEF FastInv
<1>4. QED
  BY <1>1, <1>2, <1>3, RangeInvInit, RangeInvStep, PTL DEF Spec

---------------------------------------------------------------------------
(* The grants of one server *)

\* Node n is the only server.  What it granted to others lies at or below its
\* Max, and so does what this client issued, apart from each other.
IssuedGrant(n) ==
  /\ \A x \in foreign[n] : x <= serverMax[n]
  /\ \A i \in issued : i.num <= serverMax[n] /\ i.num \notin foreign[n]

\* Until the store is closed, installed ranges are below n's Max, apart from
\* what others got, and in the order they were granted.
CellGrant(n) ==
  ~returned => \A r \in RangeIds : 0 < r /\ r <= range =>
    /\ max[r] <= serverMax[n]
    /\ \A x \in foreign[n] : ~InRange(r, x)
    /\ r < range => max[r] < min[range]

\* The same for a range that was granted and waits to be installed.
ReplyGrant(n) ==
  ~returned => \A g \in Goroutines : pc[g] \in {"tag", "install"} =>
    /\ reply[g].high <= serverMax[n]
    /\ \A x \in foreign[n] : ~(reply[g].low <= x /\ x <= reply[g].high)
    /\ \A r \in RangeIds : 0 < r /\ r <= range => max[r] < reply[g].low

ClosedInv == returned => \A g \in Goroutines : pc[g] = "idle"

Grants(n) == IssuedGrant(n) /\ CellGrant(n) /\ ReplyGrant(n) /\ ClosedInv

---------------------------------------------------------------------------
LEMMA ClosedStep ==
  ASSUME ClosedInv, [Next]_vars
  PROVE  ClosedInv'
<1> USE DEF ClosedInv, Goto, cells, locals
<1>1. ASSUME NEW g \in Goroutines, Call(g) PROVE ClosedInv'
  BY <1>1, Zenon DEF Call
<1>2. ASSUME NEW g \in Goroutines, LoadRange(g) PROVE ClosedInv'
  BY <1>2, Zenon DEF LoadRange
<1>3. ASSUME NEW g \in Goroutines, AddCurrent(g) PROVE ClosedInv'
  BY <1>3, Zenon DEF AddCurrent
<1>4. ASSUME NEW g \in Goroutines, AcquireLock(g) PROVE ClosedInv'
  BY <1>4, Zenon DEF AcquireLock
<1>5. ASSUME NEW g \in Goroutines, CheckRange(g) PROVE ClosedInv'
  BY <1>5, Zenon DEF CheckRange
<1>6. ASSUME NEW g \in Goroutines, FormatID(g) PROVE ClosedInv'
  BY <1>6, Zenon DEF FormatID
<1>7. ASSUME NEW g \in Goroutines, NEW n \in Nodes, RequestRange(g, n) PROVE ClosedInv'
  BY <1>7, Zenon DEF RequestRange
<1>8. ASSUME NEW g \in Goroutines, RequestFails(g) PROVE ClosedInv'
  BY <1>8, Zenon DEF RequestFails
<1>9. ASSUME NEW g \in Goroutines, SetServerTag(g) PROVE ClosedInv'
  BY <1>9, Zenon DEF SetServerTag
<1>10. ASSUME NEW g \in Goroutines, InstallRange(g) PROVE ClosedInv'
  BY <1>10, Zenon DEF InstallRange
<1>11. ASSUME NEW n \in Nodes, OtherClient(n) PROVE ClosedInv'
  BY <1>11, Zenon DEF OtherClient
<1>12. ASSUME NEW n \in Nodes, ReturnUnusedRange(n) PROVE ClosedInv'
  BY <1>12, Zenon DEF ReturnUnusedRange
<1>13. CASE UNCHANGED vars
  BY <1>13, Zenon DEF vars
<1> HIDE DEF ClosedInv
<1>14. QED
  BY <1>1, <1>2, <1>3, <1>4, <1>5, <1>6, <1>7, <1>8, <1>9, <1>10, <1>11, <1>12, <1>13, Zenon
  DEF Next, NextID

LEMMA CellGrantStep ==
  ASSUME RangeInv, NEW n \in Nodes, \A m \in Nodes : m = n, Grants(n), [Next]_vars
  PROVE  CellGrant(n)'
<1>0. /\ range \in RangeIds /\ RangeIds = 0..MaxRanges /\ MaxRanges \in Nat
      /\ serverMax \in [Nodes -> Nat] /\ foreign \in [Nodes -> SUBSET Nat] /\ BatchSize \in Nat \ {0}
      /\ pc \in [Goroutines -> PCs] /\ reply \in [Goroutines -> Replies]
      /\ \A r \in RangeIds : min[r] \in Nat /\ max[r] \in Nat /\ current[r] \in Nat
  BY CellTypes, HiLoAssumption, Zenon DEF RangeInv, HiLoAssumption, TypeOK, RangeIds
<1> USE <1>0 DEF Grants, CellGrant, InRange, cells, locals
<1>1. ASSUME NEW g \in Goroutines, AddCurrent(g) PROVE CellGrant(n)'
  <2>1. UNCHANGED <<range, returned, serverMax, foreign>>
    BY <1>1, Zenon DEF AddCurrent, server
  <2>2. \A r \in RangeIds : min'[r] = min[r] /\ max'[r] = max[r]
    BY <1>1, AddEffect, Zenon DEF RangeInv
  <2>3. ASSUME ~returned, NEW r \in RangeIds, 0 < r, r <= range
        PROVE  /\ max'[r] <= serverMax'[n]
               /\ \A x \in foreign'[n] : ~(min'[r] <= x /\ x <= max'[r])
               /\ r < range => max'[r] < min'[range]
    BY <2>1, <2>2, <2>3, Zenon
  <2>4. QED
    BY <2>1, <2>3, Zenon
<1>2. ASSUME NEW g \in Goroutines, RequestRange(g, n) PROVE CellGrant(n)'
  BY <1>2 DEF RequestRange, ServerGrant
<1>3. ASSUME NEW g \in Goroutines, InstallRange(g) PROVE CellGrant(n)'
  <2>1. /\ min'[range + 1] = reply[g].low /\ max'[range + 1] = reply[g].high
        /\ range' = range + 1 /\ pc[g] = "install"
        /\ \A r \in RangeIds : r <= range => min'[r] = min[r] /\ max'[r] = max[r]
        /\ returned' = returned /\ serverMax' = serverMax /\ foreign' = foreign
    <3>1. \A r \in RangeIds : r <= range => r # range + 1
      OBVIOUS
    <3>2. QED
      BY <1>3, <3>1, InstallEffect, Zenon DEF RangeInv, InstallRange, server, SameCell
  <2>2. ~returned => /\ reply[g].high <= serverMax[n]
                     /\ \A x \in foreign[n] : ~(reply[g].low <= x /\ x <= reply[g].high)
                     /\ \A r \in RangeIds : 0 < r /\ r <= range => max[r] < reply[g].low
    BY <2>1, Zenon DEF ReplyGrant
  <2>3. QED
    BY <2>1, <2>2
<1>4. ASSUME OtherClient(n) PROVE CellGrant(n)'
  <2>1. UNCHANGED <<cells, range, returned>> /\ serverMax'[n] = serverMax[n] + BatchSize
    BY <1>4, Zenon DEF OtherClient, ServerGrant
  <2>2. \A x \in foreign'[n] : x \in Nat /\ (x \in foreign[n] \/ x > serverMax[n])
    BY <1>4 DEF OtherClient
  <2>3. QED
    <3>1. /\ min' = min /\ max' = max /\ range' = range /\ returned' = returned
          /\ CellGrant(n)
      BY ONLY <2>1, Grants(n), Zenon DEF Grants, cells
    <3>2. /\ serverMax[n] \in Nat /\ BatchSize \in Nat
          /\ \A r \in RangeIds : max[r] \in Nat /\ min[r] \in Nat
      BY ONLY <1>0, Zenon
    <3>3. ASSUME ~returned, NEW r \in RangeIds, 0 < r, r <= range
          PROVE  /\ max[r] <= serverMax'[n]
                 /\ \A x \in foreign'[n] : ~(min[r] <= x /\ x <= max[r])
                 /\ r < range => max[r] < min[range]
      <4>1. /\ max[r] <= serverMax[n]
            /\ \A x \in foreign[n] : ~(min[r] <= x /\ x <= max[r])
            /\ r < range => max[r] < min[range]
        BY ONLY <3>1, <3>3, Zenon DEF CellGrant, InRange
      <4>2. QED
        BY ONLY <2>1, <2>2, <3>2, <4>1
    <3>4. QED
      BY ONLY <3>1, <3>3, Zenon DEF CellGrant, InRange
<1>5. ASSUME ReturnUnusedRange(n) PROVE CellGrant(n)'
  BY <1>5, Zenon DEF ReturnUnusedRange
<1>6. CASE UNCHANGED <<cells, range, returned, serverMax, foreign>>
  BY <1>6, Zenon
<1> HIDE DEF CellGrant, cells
<1>7. QED
  BY <1>0, <1>1, <1>2, <1>3, <1>4, <1>5, <1>6, StepKinds, Zenon

LEMMA ReplyGrantStep ==
  ASSUME RangeInv, NEW n \in Nodes, \A m \in Nodes : m = n, Grants(n), [Next]_vars
  PROVE  ReplyGrant(n)'
<1>0. /\ range \in RangeIds /\ RangeIds = 0..MaxRanges /\ MaxRanges \in Nat
      /\ serverMax \in [Nodes -> Nat] /\ foreign \in [Nodes -> SUBSET Nat] /\ BatchSize \in Nat \ {0}
      /\ pc \in [Goroutines -> PCs] /\ reply \in [Goroutines -> Replies]
      /\ \A r \in RangeIds : min[r] \in Nat /\ max[r] \in Nat /\ current[r] \in Nat
  BY CellTypes, HiLoAssumption, Zenon DEF RangeInv, HiLoAssumption, TypeOK, RangeIds
<1> USE <1>0 DEF Grants, ReplyGrant, Goto, cells, locals
<1>1. ASSUME NEW g \in Goroutines, AddCurrent(g) PROVE ReplyGrant(n)'
  <2>1. /\ UNCHANGED <<range, reply, serverMax, foreign, returned>>
        /\ \A h \in Goroutines : pc'[h] \in {"tag", "install"} => pc[h] \in {"tag", "install"}
    BY <1>1, Zenon DEF AddCurrent, server
  <2>2. \A r \in RangeIds : max'[r] = max[r]
    BY <1>1, AddEffect, Zenon DEF RangeInv
  <2>3. QED
    BY <2>1, <2>2, Zenon
<1>2. ASSUME NEW g \in Goroutines, RequestRange(g, n) PROVE ReplyGrant(n)'
  <2>1. /\ serverMax' = [serverMax EXCEPT ![n] = @ + BatchSize] /\ UNCHANGED <<cells, range, foreign, returned>>
        /\ pc' = [pc EXCEPT ![g] = "tag"] /\ pc[g] = "fetch"
    BY <1>2, Zenon DEF RequestRange, ServerGrant
  <2>2. reply'[g].low = serverMax[n] + 1 /\ reply'[g].high = serverMax[n] + BatchSize
    BY <1>2, Zenon DEF RequestRange
  <2>3. \A h \in Goroutines : pc'[h] \in {"tag", "install"} => h = g
    BY <2>1, Zenon DEF RangeInv, LockInv, Critical, InGetNextRange
  <2>4. \A x \in foreign[n] : x \in Nat /\ x <= serverMax[n]
    BY Zenon DEF IssuedGrant
  <2>5. ~returned => \A r \in RangeIds : 0 < r /\ r <= range => max[r] <= serverMax[n]
    BY Zenon DEF CellGrant
  <2>6. /\ serverMax'[n] = serverMax[n] + BatchSize /\ serverMax[n] \in Nat
        /\ \A r \in RangeIds : max[r] \in Nat
    BY <2>1, Zenon
  <2>7. \A x \in foreign[n] : ~(reply'[g].low <= x /\ x <= reply'[g].high)
    <3>1. reply'[g].low = serverMax[n] + 1 /\ serverMax[n] \in Nat
      BY ONLY <2>2, <2>6, Zenon
    <3>2. QED
      BY ONLY <3>1, <2>4
  <2>8. ~returned => \A r \in RangeIds : 0 < r /\ r <= range => max[r] < reply'[g].low
    <3>1. reply'[g].low = serverMax[n] + 1
      BY ONLY <2>2, Zenon
    <3>2. QED
      BY ONLY <3>1, <2>5, <2>6
  <2>9. reply'[g].high <= serverMax'[n]
    BY ONLY <1>0, <2>2, <2>6
  <2>10. QED
    BY <2>1, <2>3, <2>7, <2>8, <2>9, Zenon
<1>3. ASSUME NEW g \in Goroutines, InstallRange(g) PROVE ReplyGrant(n)'
  <2>1. \A h \in Goroutines : pc'[h] \notin {"tag", "install"}
    BY <1>3, Zenon DEF InstallRange, RangeInv, LockInv, Critical, InGetNextRange
  <2>2. QED
    BY <2>1, Zenon
<1>4. ASSUME OtherClient(n) PROVE ReplyGrant(n)'
  <2>1. UNCHANGED <<cells, range, pc, reply, returned>> /\ serverMax'[n] = serverMax[n] + BatchSize
    BY <1>4, Zenon DEF OtherClient, ServerGrant
  <2>2. \A x \in foreign'[n] : x \in foreign[n] \/ x > serverMax[n]
    BY <1>4 DEF OtherClient
  <2>3. \A g \in Goroutines : reply[g].high \in Nat /\ reply[g].low \in Nat
    BY Zenon DEF Replies
  <2>4. \A x \in foreign[n] : x \in Nat
    BY Zenon
  <2>5. \A x \in foreign'[n] : x \in Nat
    BY <1>4 DEF OtherClient
  <2>6. QED
    <3>1. /\ max' = max /\ range' = range /\ returned' = returned
          /\ pc' = pc /\ reply' = reply /\ ReplyGrant(n)
      BY ONLY <2>1, Grants(n), Zenon DEF Grants, cells
    <3>2. serverMax[n] \in Nat /\ BatchSize \in Nat
      BY ONLY <1>0, Zenon
    <3>3. ASSUME ~returned, NEW g \in Goroutines, pc[g] \in {"tag", "install"}
          PROVE  /\ reply[g].high <= serverMax'[n]
                 /\ \A x \in foreign'[n] : ~(reply[g].low <= x /\ x <= reply[g].high)
                 /\ \A r \in RangeIds : 0 < r /\ r <= range => max[r] < reply[g].low
      <4>1. /\ reply[g].high <= serverMax[n]
            /\ \A x \in foreign[n] : ~(reply[g].low <= x /\ x <= reply[g].high)
            /\ \A r \in RangeIds : 0 < r /\ r <= range => max[r] < reply[g].low
        BY ONLY <3>1, <3>3, Zenon DEF ReplyGrant
      <4>2. reply[g].high \in Nat /\ reply[g].low \in Nat
        BY ONLY <2>3, <3>3, Zenon
      <4>3. reply[g].high <= serverMax'[n]
        BY ONLY <2>1, <3>2, <4>1, <4>2
      <4>4. \A x \in foreign'[n] : ~(reply[g].low <= x /\ x <= reply[g].high)
        BY ONLY <2>2, <2>5, <3>2, <4>1, <4>2
      <4>5. QED
        BY ONLY <4>1, <4>3, <4>4, Zenon
    <3>4. QED
      BY ONLY <3>1, <3>3, Zenon DEF ReplyGrant
<1>5. ASSUME ReturnUnusedRange(n) PROVE ReplyGrant(n)'
  BY <1>5, Zenon DEF ReturnUnusedRange
<1>6. CASE UNCHANGED <<cells, range>> /\ NoReply /\ UNCHANGED <<serverMax, foreign, returned>>
  BY <1>6, Zenon DEF NoReply
<1> HIDE DEF ReplyGrant, cells
<1>7. QED
  BY <1>0, <1>1, <1>2, <1>3, <1>4, <1>5, <1>6, StepKinds, Zenon

LEMMA IssuedGrantStep ==
  ASSUME RangeInv, NEW n \in Nodes, \A m \in Nodes : m = n, Grants(n), [Next]_vars
  PROVE  IssuedGrant(n)'
<1>0. /\ range \in RangeIds /\ RangeIds = 0..MaxRanges /\ MaxRanges \in Nat
      /\ serverMax \in [Nodes -> Nat] /\ foreign \in [Nodes -> SUBSET Nat] /\ BatchSize \in Nat \ {0}
      /\ pc \in [Goroutines -> PCs] /\ reply \in [Goroutines -> Replies]
      /\ \A r \in RangeIds : min[r] \in Nat /\ max[r] \in Nat /\ current[r] \in Nat
  BY CellTypes, HiLoAssumption, Zenon DEF RangeInv, HiLoAssumption, TypeOK, RangeIds
<1>1. ASSUME NEW g \in Goroutines, FormatID(g) PROVE IssuedGrant(n)'
  <2>1. UNCHANGED <<serverMax, foreign>> /\ pc[g] = "format" /\ ~returned
    BY <1>1, Zenon DEF FormatID, server, ClosedInv, Grants
  <2>2. \A i \in issued' : i \in issued \/ i.num = id[g]
    BY ONLY <1>1 DEF FormatID
  <2>3. id[g] <= serverMax[n] /\ id[g] \notin foreign[n]
    <3>1. /\ rangev[g] \in RangeIds /\ rangev[g] <= range /\ id[g] \in Nat
          /\ InRange(rangev[g], id[g])
      BY <2>1, Zenon DEF RangeInv, TypeOK, PointerInv, DrawnInv
    <3>2. max[0] = 0 /\ \A r \in RangeIds : r <= range => 1 <= min[r]
      BY Zenon DEF RangeInv, CellInv
    <3>3. 0 < rangev[g]
      BY <1>0, <3>1, <3>2 DEF InRange
    <3>4. max[rangev[g]] <= serverMax[n] /\ \A x \in foreign[n] : ~InRange(rangev[g], x)
      BY <2>1, <3>1, <3>3, Zenon DEF CellGrant, Grants
    <3>5. QED
      <4>1. id[g] <= max[rangev[g]] /\ max[rangev[g]] \in Nat /\ serverMax[n] \in Nat
        BY <1>0, <3>1, Zenon DEF InRange
      <4>2. id[g] \notin foreign[n]
        BY ONLY <3>1, <3>4, Zenon
      <4>3. QED
        BY ONLY <3>1, <3>4, <4>1, <4>2
  <2>4. QED
    BY <2>1, <2>2, <2>3, Zenon DEF Grants, IssuedGrant
<1> USE <1>0 DEF Grants, IssuedGrant, cells, locals
<1>2. ASSUME NEW g \in Goroutines, RequestRange(g, n) PROVE IssuedGrant(n)'
  <2>1. UNCHANGED <<foreign, issued>> /\ serverMax'[n] = serverMax[n] + BatchSize
    BY <1>2, Zenon DEF RequestRange, ServerGrant
  <2>2. \A i \in issued : i.num \in Nat
    BY Zenon DEF RangeInv, TypeOK, Issues
  <2>3. QED
    BY <2>1, <2>2
<1>3. ASSUME OtherClient(n) PROVE IssuedGrant(n)'
  <2>1. UNCHANGED issued /\ serverMax'[n] = serverMax[n] + BatchSize
        /\ foreign'[n] = foreign[n] \cup (serverMax[n] + 1)..(serverMax[n] + BatchSize)
    BY <1>3, Zenon DEF OtherClient, ServerGrant
  <2>2. \A i \in issued : i.num \in Nat
    BY Zenon DEF RangeInv, TypeOK, Issues
  <2>3. QED
    <3>1. IssuedGrant(n) /\ issued' = issued
      BY ONLY <2>1, Grants(n), Zenon DEF Grants
    <3>2. serverMax[n] \in Nat /\ BatchSize \in Nat
      BY ONLY <1>0, Zenon
    <3>3. \A x \in foreign'[n] : x <= serverMax'[n]
      <4>1. ASSUME NEW x \in foreign[n] PROVE x <= serverMax'[n]
        <5>1. x \in Nat /\ x <= serverMax[n]
          BY ONLY <1>0, <3>1, <4>1, n \in Nodes, Zenon DEF IssuedGrant
        <5>2. QED
          BY ONLY <2>1, <3>2, <5>1
      <4>2. QED
        BY ONLY <2>1, <3>2, <4>1
    <3>4. ASSUME NEW i \in issued
          PROVE  i.num <= serverMax'[n] /\ i.num \notin foreign'[n]
      <4>1. i.num \in Nat /\ i.num <= serverMax[n] /\ i.num \notin foreign[n]
        BY ONLY <2>2, <3>1, <3>4, Zenon DEF IssuedGrant
      <4>2. QED
        BY ONLY <2>1, <3>2, <4>1
    <3>5. QED
      BY ONLY <3>1, <3>3, <3>4, Zenon DEF IssuedGrant
<1>4. ASSUME ReturnUnusedRange(n) PROVE IssuedGrant(n)'
  <2>1. UNCHANGED <<foreign, issued>> /\ ~returned
    BY <1>4, Zenon DEF ReturnUnusedRange
  <2>2. CASE serverMax' = serverMax
    BY <2>1, <2>2, Zenon
  <2>3. CASE serverMax' # serverMax
    <3> DEFINE last == current[range]
    <3>1. /\ serverMax[n] = max[range] /\ last <= max[range] /\ serverMax'[n] = last
      BY <1>4, <2>3, Zenon DEF ReturnUnusedRange
    <3>2. min[range] - 1 <= last /\ (range = 0 => max[range] = 0)
      BY DEF RangeInv, CellInv
    <3>3. range # 0
      <4>1. serverMax'[n] # serverMax[n]
        BY <1>4, <2>3, Zenon DEF ReturnUnusedRange
      <4>2. QED
        BY <3>1, <3>2, <4>1
    <3>4. \A x \in foreign[n] : x <= last
      BY <2>1, <3>1, <3>2, <3>3 DEF CellGrant, InRange
    <3>5. ASSUME NEW i \in issued PROVE i.num <= last
      <4>1. /\ i.range \in RangeIds /\ i.num \in Nat /\ i.range <= range
            /\ InRange(i.range, i.num) /\ i.num <= current[i.range]
        BY Zenon DEF RangeInv, TypeOK, Issues, DrawnInv
      <4>2. 0 < i.range
        BY <4>1 DEF RangeInv, CellInv, InRange
      <4>3. CASE i.range = range
        BY <4>1, <4>3, Zenon
      <4>4. CASE i.range # range
        <5>1. max[i.range] < min[range]
          BY <2>1, <4>1, <4>2, <4>4 DEF CellGrant
        <5>2. QED
          <6>1. i.num <= max[i.range] /\ min[range] - 1 <= last
            BY <3>2, <4>1, Zenon DEF InRange
          <6>2. max[i.range] \in Nat /\ min[range] \in Nat /\ last \in Nat
            BY <4>1, Zenon
          <6> HIDE DEF last
          <6>3. QED
            BY ONLY <4>1, <5>1, <6>1, <6>2
      <4>5. QED
        BY <4>3, <4>4, Zenon
    <3>6. QED
      BY <2>1, <3>1, <3>4, <3>5, Zenon
  <2>4. QED
    BY <2>2, <2>3, Zenon
<1>5. CASE UNCHANGED <<issued, serverMax, foreign>>
  BY <1>5, Zenon
<1> HIDE DEF IssuedGrant
<1>6. QED
  BY <1>0, <1>1, <1>2, <1>3, <1>4, <1>5, StepKinds, Zenon

LEMMA GrantsInit == Init => ClosedInv /\ \A n \in Nodes : Grants(n)
<1> SUFFICES ASSUME Init PROVE ClosedInv /\ \A n \in Nodes : Grants(n)
  BY Zenon
<1>1. range = 0 /\ serverMax = [n \in Nodes |-> 0] /\ foreign = [n \in Nodes |-> {}] /\ issued = {}
      /\ pc = [g \in Goroutines |-> "idle"]
  BY Zenon DEF Init
<1>2. \A r \in RangeIds : ~(0 < r /\ r <= range)
  BY <1>1, HiLoAssumption DEF RangeIds, HiLoAssumption
<1>3. QED
  BY <1>1, <1>2, Zenon DEF ClosedInv, Grants, IssuedGrant, CellGrant, ReplyGrant

SingleNode == \A m, n \in Nodes : m = n

\* With one server node, no number this client issued is ever granted to
\* another client, even after Close gave the rest of the range back.
THEOREM IssuedNotGrantedElsewhere == Spec => []ClientsDisjoint
<1> DEFINE GInv == ClosedInv /\ (SingleNode => \A n \in Nodes : Grants(n))
<1>1. Init => GInv
  BY GrantsInit, Zenon
<1>2. RangeInv /\ GInv /\ [Next]_vars => GInv'
  <2> SUFFICES ASSUME RangeInv, GInv, [Next]_vars PROVE GInv'
    BY Zenon
  <2>1. ClosedInv'
    BY ClosedStep, Zenon
  <2>2. ASSUME SingleNode, NEW n \in Nodes PROVE Grants(n)'
    <3>1. (\A m \in Nodes : m = n) /\ Grants(n)
      BY <2>2, Zenon DEF SingleNode
    <3>2. IssuedGrant(n)' /\ CellGrant(n)' /\ ReplyGrant(n)'
      BY <3>1, IssuedGrantStep, CellGrantStep, ReplyGrantStep, Zenon
    <3>3. QED
      BY <2>1, <3>2, Zenon DEF Grants
  <2>3. QED
    BY <2>1, <2>2, Zenon DEF SingleNode
<1>3. RangeInv /\ GInv => ClientsDisjoint
  <2> SUFFICES ASSUME RangeInv, SingleNode, \A n \in Nodes : Grants(n), NEW i \in issued
               PROVE  i.num \notin foreign[node[i.range]]
    BY Zenon DEF ClientsDisjoint, SingleNode
  <2>1. /\ i.range \in RangeIds /\ i.num \in Nat /\ i.range <= range /\ InRange(i.range, i.num)
        /\ RangeIds = 0..MaxRanges
    BY Zenon DEF RangeInv, TypeOK, Issues, DrawnInv, RangeIds
  <2>2. 0 < i.range
    <3>1. TypeOK /\ CellInv
      BY ONLY RangeInv, Zenon DEF RangeInv
    <3>2. max[0] = 0 /\ 1 <= min[i.range] /\ min[i.range] \in Nat
      BY ONLY <2>1, <3>1, CellTypes, Zenon DEF CellInv
    <3>3. i.range = 0 => FALSE
      BY ONLY <2>1, <3>2 DEF InRange
    <3>4. MaxRanges \in Nat
      BY HiLoAssumption, Zenon DEF HiLoAssumption
    <3>5. QED
      BY ONLY <2>1, <3>3, <3>4
  <2>3. node[i.range] \in Nodes
    BY <2>1, <2>2, Zenon DEF RangeInv, CellInv
  <2>4. QED
    BY <2>3, Zenon DEF Grants, IssuedGrant
<1>4. QED
  BY <1>1, <1>2, <1>3, RangeInvInit, RangeInvStep, PTL DEF Spec

===========================================================================
