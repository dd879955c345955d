----------------------------- MODULE MCLoyalty -----------------------------
(* A small instance of Loyalty for TLC. *)
EXTENDS Loyalty, TLC

CONSTANTS alice, bob, w1, w2, w3, w4, c1, c2, c3, p, q, o1, o2

\* Alice and Bob may both upload o1, and Alice o2.  Alice withdraws twice for p,
\* with the same sum, and once for q.  Bob asks for a negative sum.
MCUserOf == w1 :> alice @@ w2 :> alice @@ w3 :> alice @@ w4 :> bob
            @@ c1 :> alice @@ c2 :> bob @@ c3 :> alice
MCOrderOf == w1 :> p @@ w2 :> p @@ w3 :> q @@ w4 :> q
MCNumberOf == c1 :> o1 @@ c2 :> o1 @@ c3 :> o2

\* 1.15 and 0.57 become 114 and 56: each withdrawal fits after one credit or the
\* other, the two credits together exceed MaxInt, and so do the withdrawals.
MCAsked == w1 :> 57 @@ w2 :> 57 @@ w3 :> 115 @@ w4 :> -1
           @@ c1 :> 115 @@ c2 :> 115 @@ c3 :> 57
=============================================================================
