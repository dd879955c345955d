-------------------------- MODULE MCBalanceLedger --------------------------
(* A small instance of BalanceLedger for TLC. *)
EXTENDS BalanceLedger, TLC

CONSTANTS alice, w1, w2, c1, p, q

\* Two withdrawals of all there is, for different orders.
MCUserOf == w1 :> alice @@ w2 :> alice @@ c1 :> alice
MCOrderOf == w1 :> p @@ w2 :> q
MCAsked == w1 :> 2 @@ w2 :> 2 @@ c1 :> 2
=============================================================================
