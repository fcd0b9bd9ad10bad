-------------------------- MODULE MCVendorThrottle --------------------------
(***************************************************************************)
(* Small instances of VendorThrottle.  A tick is between one and three     *)
(* seconds; what matters is the order of the delays: the backoffs of a     *)
(* server error and of a throw are below the gap, AskCap (30 s) is below   *)
(* LongPause (60 s), which is below PauseCap (10 min).                     *)
(***************************************************************************)
EXTENDS VendorThrottle

CONSTANTS a, b, d, x, y

\* Two boards on hosts of their own, and d on the host of b.
OneHostEach == [c \in Callers |-> IF c = a THEN x ELSE y]

Backoffs ==
    [limited |-> [n \in 0..MaxRetries |-> 2 + n],
     server  |-> [n \in 0..MaxRetries |-> 1 + n],
     thrown  |-> [n \in 0..MaxRetries |-> 1]]
=============================================================================
