------------------------- MODULE MCDiscoveryCycle -------------------------
(***************************************************************************)
(* Small instances of DiscoveryCycle.                                      *)
(***************************************************************************)
EXTENDS DiscoveryCycle

CONSTANTS s1, s2, o1, o2, c1, c2

NoPins == [s \in Sources |-> {}]

\* o1 stays on every board, the other offers come and go.
PinFirst == [s \in Sources |-> {o1}]
=============================================================================
