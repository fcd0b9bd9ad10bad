---------------------------- MODULE MCAccountPages ----------------------------
(***************************************************************************)
(* A small instance of AccountPages: two tabs of one browser.              *)
(***************************************************************************)
EXTENDS AccountPages, TLC

CONSTANTS t1, t2

TwoLinks == [k \in Kinds |-> IF k = "verification" THEN 2 ELSE 1]

TwoCodes == [k \in Kinds |-> IF k = "otp" THEN 2 ELSE 1]

Tabs == Permutations(Clients)
=============================================================================
