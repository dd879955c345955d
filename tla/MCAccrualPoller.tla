-------------------------- MODULE MCAccrualPoller --------------------------
(* Small instances of AccrualPoller for TLC. *)
EXTENDS AccrualPoller, TLC

CONSTANTS t1, t2, n1, n2

\* One call.
MCSingle == t1 :> n1

\* Two calls for one number.
MCOneNumber == t1 :> n1 @@ t2 :> n1

\* One call for each of two numbers.
MCDistinct == t1 :> n1 @@ t2 :> n2

Limited(n, u) == [headerOK |-> TRUE, seconds |-> 60, bodyOK |-> TRUE,
                  fits |-> TRUE, number |-> n, unit |-> u]

\* The documented sentence, with a number that leaves a rate and one that does not.
MCReplies == {Limited(1, "second"), Limited(2, "second")}
TenPerMinute == {Limited(10, "minute")}
HundredPerMinute == {Limited(100, "minute")}
OnePerSecond == {Limited(1, "second")}

\* The default of ants, math.MaxInt32.
MCPoolSize == 2147483647
=============================================================================
