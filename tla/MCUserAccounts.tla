--------------------------- MODULE MCUserAccounts ---------------------------
(* Small instances of UserAccounts for TLC. *)
EXTENDS UserAccounts, TLC

CONSTANTS alice, bob, p1, p2, g1, g2, g3, g4, l1, l2

\* Two registrations of alice's login with different passwords, bob's, one of
\* bob's that is invalid; logins with alice's two passwords.
MCLoginOf == g1 :> alice @@ g2 :> alice @@ g3 :> bob @@ g4 :> bob @@ l1 :> alice @@ l2 :> alice
MCPasswordOf == g1 :> p1 @@ g2 :> p2 @@ g3 :> p1 @@ g4 :> p2 @@ l1 :> p1 @@ l2 :> p2

\* One user registers and logs in.
MCOneLogin == g1 :> alice @@ l1 :> alice
MCOnePassword == g1 :> p1 @@ l1 :> p1
=============================================================================
