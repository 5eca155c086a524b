------------------------- MODULE HiLoIdGenerator -------------------------
(***************************************************************************)
(* The client-side HiLo generator of hi_lo_id_generator.go.  Goroutines    *)
(* call GenerateDocumentID on one generator; the generator draws numbers   *)
(* from its current RangeValue with an atomic add, and fetches a new range *)
(* from the server under generatorLock when the range is exhausted.        *)
(*                                                                         *)
(* RangeValue objects are cells, and the fields of the objects functions   *)
(* of the cell: a goroutine keeps its pointer rangev while another one     *)
(* installs a new range.  The server is external: every node keeps the     *)
(* last number it granted (the Max of the Raven/Hilo document) and grants  *)
(* the next BatchSize numbers, to this client or to another one.           *)
(***************************************************************************)
EXTENDS Integers, FiniteSets

CONSTANTS
  Goroutines,   \* callers of GenerateDocumentID
  Nodes,        \* server nodes, named by their ServerTag
  None,         \* no goroutine, no tag
  BatchSize,    \* numbers per granted range
  MaxCalls,     \* bound: calls per goroutine
  MaxRanges,    \* bound: ranges installed by the generator
  MaxHigh       \* bound: largest number a node grants

ASSUME HiLoAssumption ==
  /\ None \notin Goroutines \cup Nodes
  /\ BatchSize \in Nat \ {0}
  /\ MaxCalls \in Nat /\ MaxRanges \in Nat /\ MaxHigh \in Nat

VARIABLES
  min, max, current,  \* fields of the RangeValue cells; cell 0 is the
                      \* empty range of the constructor
  node,       \* per cell: the node that granted the range
  range,      \* g._range: the cell the generator points to
  serverTag,  \* g.serverTag
  lock,       \* holder of generatorLock
  pc, rangev, id, slow, reply, calls,   \* per goroutine: locals of NextID
  serverMax,  \* per node: last number granted
  foreign,    \* per node: numbers granted to other clients
  returned,   \* ReturnUnusedRange has run (the store is closed)
  issued      \* history: every id GenerateDocumentID returned

cells == <<min, max, current, node>>
locals == <<rangev, id, slow>>
server == <<serverMax, foreign>>
vars == <<cells, range, serverTag, lock, pc, locals, reply, calls,
          server, returned, issued>>

RangeIds == 0..MaxRanges
PCs == {"idle", "load", "add", "lock", "check", "fetch", "tag", "install", "format"}
InGetNextRange == {"fetch", "tag", "install"}

Init ==
  /\ min = [r \in RangeIds |-> 1]
  /\ max = [r \in RangeIds |-> 0]
  /\ current = [r \in RangeIds |-> 0]
  /\ node = [r \in RangeIds |-> None]
  /\ range = 0
  /\ serverTag = None
  /\ lock = None
  /\ pc = [g \in Goroutines |-> "idle"]
  /\ rangev = [g \in Goroutines |-> 0]
  /\ id = [g \in Goroutines |-> 0]
  /\ slow = [g \in Goroutines |-> FALSE]
  /\ reply = [g \in Goroutines |-> [node |-> None, low |-> 1, high |-> 0]]
  /\ calls = [g \in Goroutines |-> 0]
  /\ serverMax = [n \in Nodes |-> 0]
  /\ foreign = [n \in Nodes |-> {}]
  /\ returned = FALSE
  /\ issued = {}

Goto(g, label) == pc' = [pc EXCEPT ![g] = label]
\* leaving NextID runs the deferred Unlock, if this call took the lock
ReleaseOnReturn(g) == lock' = IF lock = g THEN None ELSE lock

---------------------------------------------------------------------------
(* GenerateDocumentID and NextID *)

\* The application calls GenerateDocumentID; it does not once it closed the
\* store.
Call(g) ==
  /\ pc[g] = "idle" /\ calls[g] < MaxCalls /\ ~returned
  /\ calls' = [calls EXCEPT ![g] = @ + 1]
  /\ Goto(g, "load")
  /\ UNCHANGED <<cells, range, serverTag, lock, locals, reply, server, returned, issued>>

LoadRange(g) ==
  /\ pc[g] = "load"
  /\ rangev' = [rangev EXCEPT ![g] = range]
  /\ Goto(g, "add")
  /\ UNCHANGED <<cells, range, serverTag, lock, id, slow, reply, calls, server, returned, issued>>

\* the atomic add, and the return of an id inside the range
AddCurrent(g) ==
  LET r == rangev[g]
      n == current[r] + 1
  IN /\ pc[g] = "add"
     /\ current' = [current EXCEPT ![r] = n]
     /\ id' = [id EXCEPT ![g] = n]
     /\ slow' = [slow EXCEPT ![g] = FALSE]
     /\ IF n <= max[r]
        THEN Goto(g, "format") /\ ReleaseOnReturn(g)
        ELSE Goto(g, "lock") /\ UNCHANGED lock
     /\ UNCHANGED <<min, max, node, range, serverTag, rangev, reply, calls, server, returned, issued>>

\* sync.Mutex is not reentrant: a holder that arrives here again is stuck
AcquireLock(g) ==
  /\ pc[g] = "lock" /\ lock = None
  /\ lock' = g
  /\ Goto(g, "check")
  /\ UNCHANGED <<cells, range, serverTag, locals, reply, calls, server, returned, issued>>

\* mutant: no second look at the range under the lock
CheckNothing(g) ==
  /\ pc[g] = "check"
  /\ Goto(g, "fetch")
  /\ UNCHANGED <<cells, range, serverTag, lock, locals, reply, calls, server, returned, issued>>

\* another goroutine may have installed a new range: take its Current as it is
CheckRange(g) ==
  /\ pc[g] = "check"
  /\ id' = [id EXCEPT ![g] = current[range]]
  /\ IF current[range] <= max[range]
     THEN /\ rangev' = [rangev EXCEPT ![g] = range]
          /\ slow' = [slow EXCEPT ![g] = TRUE]
          /\ Goto(g, "format") /\ ReleaseOnReturn(g)
     ELSE Goto(g, "fetch") /\ UNCHANGED <<rangev, slow, lock>>
  /\ UNCHANGED <<cells, range, serverTag, reply, calls, server, returned, issued>>

\* mutant: the id is read back from the range, not taken from the add
FormatCurrent(g) ==
  /\ pc[g] = "format"
  /\ issued' = issued \cup {[by |-> g, call |-> calls[g], range |-> rangev[g],
                             num |-> current[rangev[g]], slow |-> slow[g], tag |-> serverTag]}
  /\ Goto(g, "idle")
  /\ UNCHANGED <<cells, range, serverTag, lock, locals, reply, calls, server, returned>>

\* GenerateDocumentID formats the number with the tag the generator has now
FormatID(g) ==
  /\ pc[g] = "format"
  /\ issued' = issued \cup {[by |-> g, call |-> calls[g], range |-> rangev[g],
                             num |-> id[g], slow |-> slow[g], tag |-> serverTag]}
  /\ Goto(g, "idle")
  /\ UNCHANGED <<cells, range, serverTag, lock, locals, reply, calls, server, returned>>

---------------------------------------------------------------------------
(* GetNextRange: the server grants a range, then the client installs it *)

ServerGrant(n) ==
  /\ serverMax[n] + BatchSize <= MaxHigh
  /\ serverMax' = [serverMax EXCEPT ![n] = @ + BatchSize]

RequestRange(g, n) ==
  /\ pc[g] = "fetch" /\ range < MaxRanges
  /\ ServerGrant(n)
  /\ reply' = [reply EXCEPT ![g] =
       [node |-> n, low |-> serverMax[n] + 1, high |-> serverMax[n] + BatchSize]]
  /\ Goto(g, "tag")
  /\ UNCHANGED <<cells, range, serverTag, lock, locals, calls, foreign, returned, issued>>

\* mutant: the error path forgets to unlock
FailLocked(g) ==
  /\ pc[g] \in {"fetch", "tag"}
  /\ Goto(g, "idle")
  /\ UNCHANGED <<cells, range, serverTag, lock, locals, reply, calls, server, returned, issued>>

\* the request fails before or after the server granted the range: NextID
\* returns the error
RequestFails(g) ==
  /\ pc[g] \in {"fetch", "tag"}
  /\ Goto(g, "idle") /\ ReleaseOnReturn(g)
  /\ UNCHANGED <<cells, range, serverTag, locals, reply, calls, server, returned, issued>>

\* cell r becomes the RangeValue of a reply; nothing has been drawn from it
NewRangeValue(r, result) ==
  /\ min' = [min EXCEPT ![r] = result.low]
  /\ max' = [max EXCEPT ![r] = result.high]
  /\ current' = [current EXCEPT ![r] = result.low - 1]
  /\ node' = [node EXCEPT ![r] = result.node]

\* mutant: the tag is set from the wrong field of the result
TagFromLow(g) ==
  /\ pc[g] = "tag"
  /\ serverTag' = reply[g].low
  /\ Goto(g, "install")
  /\ UNCHANGED <<cells, range, lock, locals, reply, calls, server, returned, issued>>

SetServerTag(g) ==
  /\ pc[g] = "tag"
  /\ serverTag' = reply[g].node
  /\ Goto(g, "install")
  /\ UNCHANGED <<cells, range, lock, locals, reply, calls, server, returned, issued>>

\* mutant: the lock covers GetNextRange only
InstallUnlocked(g) ==
  /\ pc[g] = "install"
  /\ NewRangeValue(range + 1, reply[g])
  /\ range' = range + 1
  /\ Goto(g, "load") /\ ReleaseOnReturn(g)
  /\ UNCHANGED <<serverTag, locals, reply, calls, server, returned, issued>>

InstallRange(g) ==
  /\ pc[g] = "install"
  /\ NewRangeValue(range + 1, reply[g])
  /\ range' = range + 1
  /\ Goto(g, "load")
  /\ UNCHANGED <<serverTag, lock, locals, reply, calls, server, returned, issued>>

---------------------------------------------------------------------------
(* the rest of the world *)

OtherClient(n) ==
  /\ ServerGrant(n)
  /\ foreign' = [foreign EXCEPT ![n] = @ \cup (serverMax[n] + 1)..(serverMax[n] + BatchSize)]
  /\ UNCHANGED <<cells, range, serverTag, lock, pc, locals, reply, calls, returned, issued>>

\* mutant: the command is built with Min in place of Current
ReturnFromMin(n) ==
  LET last == min[range]
      end == max[range]
  IN /\ ~returned /\ \A g \in Goroutines : pc[g] = "idle"
     /\ returned' = TRUE
     /\ serverMax' = IF serverMax[n] = end /\ last <= end
                     THEN [serverMax EXCEPT ![n] = last] ELSE serverMax
     /\ UNCHANGED <<cells, range, serverTag, lock, pc, locals, reply, calls, foreign, issued>>

\* The store is closed when no call is running.  The command names neither
\* the range's node nor its low end; the node that receives it takes the
\* numbers after last back if its last grant ended at end.
ReturnUnusedRange(n) ==
  LET last == current[range]
      end == max[range]
  IN /\ ~returned /\ \A g \in Goroutines : pc[g] = "idle"
     /\ returned' = TRUE
     /\ serverMax' = IF serverMax[n] = end /\ last <= end
                     THEN [serverMax EXCEPT ![n] = last] ELSE serverMax
     /\ UNCHANGED <<cells, range, serverTag, lock, pc, locals, reply, calls, foreign, issued>>

NextID(g) ==
  \/ LoadRange(g) \/ AddCurrent(g) \/ AcquireLock(g) \/ CheckRange(g)
  \/ (\E n \in Nodes : RequestRange(g, n)) \/ SetServerTag(g) \/ InstallRange(g)

Next ==
  \/ \E g \in Goroutines : Call(g) \/ NextID(g) \/ RequestFails(g) \/ FormatID(g)
  \/ \E n \in Nodes : OtherClient(n) \/ ReturnUnusedRange(n)

Spec == Init /\ [][Next]_vars

\* Goroutines keep running, requests end (with a grant or an error), and
\* sync.Mutex hands the lock to a waiter that is starved.
Fairness ==
  \A g \in Goroutines :
    /\ WF_vars(NextID(g) \/ RequestFails(g) \/ FormatID(g))
    /\ SF_vars(AcquireLock(g))
FairSpec == Spec /\ Fairness

---------------------------------------------------------------------------
(* Properties *)

Replies == [node : Nodes \cup {None}, low : Nat, high : Nat]
Issues == [by : Goroutines, call : Nat, range : RangeIds, num : Nat,
           slow : BOOLEAN, tag : Nodes \cup {None}]

\* Every variable of the generator keeps its type; the counters stay natural
\* numbers.
TypeOK ==
  /\ min \in [RangeIds -> Nat] /\ max \in [RangeIds -> Nat]
  /\ current \in [RangeIds -> Nat]
  /\ node \in [RangeIds -> Nodes \cup {None}]
  /\ range \in RangeIds
  /\ serverTag \in Nodes \cup {None}
  /\ lock \in Goroutines \cup {None}
  /\ pc \in [Goroutines -> PCs]
  /\ rangev \in [Goroutines -> RangeIds]
  /\ id \in [Goroutines -> Nat]
  /\ slow \in [Goroutines -> BOOLEAN]
  /\ reply \in [Goroutines -> Replies]
  /\ calls \in [Goroutines -> Nat]
  /\ serverMax \in [Nodes -> Nat]
  /\ foreign \in [Nodes -> SUBSET Nat]
  /\ returned \in BOOLEAN
  /\ issued \in SUBSET Issues

InRange(r, n) == min[r] <= n /\ n <= max[r]

\* Every number NextID returns lies in a range a server granted: in
\* particular the double check under generatorLock (line 78), which takes
\* Current as it finds it, never returns Low - 1 of a range that was
\* installed but not drawn from yet.
IssuedInRange ==
  \A i \in issued : InRange(i.range, i.num)

\* Two numbers drawn by the atomic add (line 69) from one range are never
\* equal, whatever the goroutines interleave.
FastNumbersUnique ==
  \A i, j \in issued :
    ~i.slow /\ ~j.slow /\ i.range = j.range /\ i.num = j.num => i = j

\* A new range is asked for by one goroutine at a time and only when the
\* current one is exhausted: callers that queued up at generatorLock use the
\* range the first of them fetched (lines 75-82).
OneRangeAtATime ==
  \A g \in Goroutines : pc[g] \in InGetNextRange =>
    /\ current[range] > max[range]
    /\ \A h \in Goroutines : pc[h] \in InGetNextRange => h = g

\* With a single server node, a number this client issued is never granted to
\* another client, also when Close returned the rest of the range
\* (ReturnUnusedRange sends Current, which may have run past Max).
ClientsDisjoint ==
  (\A m, n \in Nodes : m = n) =>
    \A i \in issued : i.num \notin foreign[node[i.range]]

\* A call of GenerateDocumentID returns, with an id or an error.
CallReturns ==
  \A g \in Goroutines : pc[g] # "idle" ~> pc[g] = "idle"

\* "GenerateDocumentID generates a unique key for entity"
\* (multi_type_hi_lo_id_generator.go:25): no two calls return the same key.
DocumentIDsUnique ==
  \A i, j \in issued : i.num = j.num /\ i.tag = j.tag => i = j

\* The same for the keys whose number came from the atomic add alone.
FastDocumentIDsUnique ==
  \A i, j \in issued :
    ~i.slow /\ ~j.slow /\ i.num = j.num /\ i.tag = j.tag => i = j

==========================================================================
