------------------------- MODULE MCOrderProcessing -------------------------
(* Small instances of OrderProcessing for TLC. *)
EXTENDS OrderProcessing, TLC

CONSTANTS o1, alice, bob, r1, r2, r3

\* alice uploads o1 twice, bob once.
MCUserOf == r1 :> alice @@ r2 :> alice @@ r3 :> bob
MCOrderOf == r1 :> o1 @@ r2 :> o1 @@ r3 :> o1

\* alice uploads o1.
MCOneUser == r1 :> alice
MCOneOrder == r1 :> o1
=============================================================================
