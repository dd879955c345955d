-------------------------- MODULE RateLimitReply --------------------------
(***************************************************************************)
(* How the poller reads a 429 response (poller.go:226-267).  A response is  *)
(* a record: headerOK and seconds give the Retry-After header and whether   *)
(* Atoi accepts it; bodyOK says that the text is the documented sentence    *)
(* "No more than N requests per U allowed", fits that Atoi accepts its N.   *)
(***************************************************************************)
EXTENDS Naturals

Unit == {"second", "minute", "hour"}

Response ==
  [headerOK : BOOLEAN, seconds : Nat,
   bodyOK : BOOLEAN, fits : BOOLEAN, number : Nat, unit : Unit]

SecondsIn(unit) == CASE unit = "second" -> 1
                     [] unit = "minute" -> 60
                     [] unit = "hour"   -> 3600

RetryAfter(r) == IF r.headerOK THEN r.seconds ELSE 60

RequestsIn(r) == IF r.fits THEN r.number ELSE 1

\* The caller takes the three results as retryAfter, numberOfRequests, period;
\* the last return statement gives them in another order than the early one.
ParseRateLimitedResponse(r) ==
  IF ~r.bodyOK
  THEN [retryAfter |-> RetryAfter(r), requests |-> 1, period |-> 60]
  ELSE [retryAfter |-> RequestsIn(r),
        requests   |-> SecondsIn(r.unit),
        period     |-> RequestsIn(r)]

\* rate.Limit(numberOfRequests / period): the division is one of ints.
InstalledLimit(p) == p.requests \div p.period
=============================================================================
