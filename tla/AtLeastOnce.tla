---------------------------- MODULE AtLeastOnce ----------------------------
(***************************************************************************)
(* What a data subscription promises: documents 1, 2, ... are handed over  *)
(* in runs that begin after the last acknowledged one, possibly again, and *)
(* the server forgets only what was handled.                               *)
(***************************************************************************)
EXTENDS Integers

CONSTANT MaxDocs

VARIABLES handled, \* the documents that have been handled
          acked    \* documents 1 .. acked will not be sent again

vars == <<handled, acked>>

Init == handled = {} /\ acked = 0

\* A run of documents that begins after the acknowledged ones is handled.
Handle == \E hi \in acked + 1 .. MaxDocs :
            /\ handled' = handled \cup acked + 1 .. hi
            /\ UNCHANGED acked

Acknowledge == \E n \in acked + 1 .. MaxDocs :
                 /\ 1 .. n \subseteq handled
                 /\ acked' = n /\ UNCHANGED handled

Next == Handle \/ Acknowledge

Spec == Init /\ [][Next]_vars

=============================================================================
