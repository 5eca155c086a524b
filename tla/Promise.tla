------------------------------ MODULE Promise ------------------------------
(***************************************************************************)
(* What a future promises: it is resolved at most once, and whoever gets a *)
(* value from it gets that one.  A getter with a timeout may give up.      *)
(***************************************************************************)
CONSTANTS Getters, Outcomes, Unresolved, TimedOut

VARIABLES outcome, got

Init == outcome = Unresolved /\ got = [g \in Getters |-> {}]

Resolve(o) ==
  /\ outcome = Unresolved
  /\ outcome' = o
  /\ UNCHANGED got

Return(g) ==
  /\ outcome # Unresolved
  /\ got' = [got EXCEPT ![g] = @ \cup {outcome}]
  /\ UNCHANGED outcome

GiveUp(g) ==
  /\ got' = [got EXCEPT ![g] = @ \cup {TimedOut}]
  /\ UNCHANGED outcome

Next ==
  \/ \E o \in Outcomes : Resolve(o)
  \/ \E g \in Getters : Return(g) \/ GiveUp(g)

Spec == Init /\ [][Next]_<<outcome, got>>

==========================================================================
