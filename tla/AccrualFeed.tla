---------------------------- MODULE AccrualFeed ----------------------------
(***************************************************************************)
(* What an order.AccrualPoller promises to the order service, seen from the *)
(* channels Enqueue returns: each accepted call opens one feed, the feed    *)
(* carries changes of the order's status in their order, ends with one      *)
(* final status or one error, and is then closed.  Nothing is said of       *)
(* requests, retries, rate limits or workers: AccrualPoller has those and   *)
(* is shown to implement this module.                                       *)
(***************************************************************************)
EXTENDS OrderStatus

CONSTANTS
  Tasks,     \* the calls of Enqueue
  Numbers,   \* the order numbers
  NumberOf,  \* the number each call is made for
  Nothing    \* the value of an empty channel, no result

VARIABLES
  remote,   \* what the accrual service would report now for each number
  feed,     \* "idle", "open", "ended" (last result sent) or "closed"
  known,    \* the last status the feed has announced
  chan,     \* the one-slot buffer of the result channel
  stopped   \* the poller no longer accepts work

vars == <<remote, feed, known, chan, stopped>>

Results == Status \cup {"ERROR"}

TypeOK ==
  /\ remote \in [Numbers -> AccrualStatus]
  /\ feed \in [Tasks -> {"idle", "open", "ended", "closed"}]
  /\ known \in [Tasks -> Status \ Final]
  /\ chan \in [Tasks -> Results \cup {Nothing}]
  /\ stopped \in BOOLEAN

Init ==
  /\ remote = [n \in Numbers |-> "unregistered"]
  /\ feed = [t \in Tasks |-> "idle"]
  /\ known = [t \in Tasks |-> "NEW"]
  /\ chan = [t \in Tasks |-> Nothing]
  /\ stopped = FALSE

Live(t) == feed[t] \in {"open", "ended"}

\* Enqueue succeeds: the number is followed by no other live feed.
Accept(t) ==
  /\ ~stopped
  /\ feed[t] = "idle"
  /\ \A u \in Tasks : NumberOf[u] = NumberOf[t] => ~Live(u)
  /\ feed' = [feed EXCEPT ![t] = "open"]
  /\ UNCHANGED <<remote, known, chan, stopped>>

\* A change that is not final is announced; the accrual service may have
\* moved on since the answer was read.
Emit(t, s) ==
  /\ feed[t] = "open"
  /\ chan[t] = Nothing
  /\ s \notin Final
  /\ Rank(known[t]) < Rank(s)
  /\ Rank(s) <= Rank(StatusOf(remote[NumberOf[t]]))
  /\ known' = [known EXCEPT ![t] = s]
  /\ chan' = [chan EXCEPT ![t] = s]
  /\ UNCHANGED <<remote, feed, stopped>>

\* The accrual service's final status, or the error that gives the order up.
EmitLast(t, s) ==
  /\ feed[t] = "open"
  /\ chan[t] = Nothing
  /\ s \in Final => s = StatusOf(remote[NumberOf[t]])
  /\ feed' = [feed EXCEPT ![t] = "ended"]
  /\ chan' = [chan EXCEPT ![t] = s]
  /\ UNCHANGED <<remote, known, stopped>>

CloseFeed(t) ==
  /\ feed[t] = "ended"
  /\ feed' = [feed EXCEPT ![t] = "closed"]
  /\ UNCHANGED <<remote, known, chan, stopped>>

\* Close closes feeds that have not come to their end.
Abandon(S) ==
  /\ stopped
  /\ S # {}
  /\ \A t \in S : Live(t)
  /\ feed' = [t \in Tasks |-> IF t \in S THEN "closed" ELSE feed[t]]
  /\ UNCHANGED <<remote, known, chan, stopped>>

\* The order service takes a result; a closed feed still yields its last one.
Receive(t) ==
  /\ chan[t] # Nothing
  /\ chan' = [chan EXCEPT ![t] = Nothing]
  /\ UNCHANGED <<remote, feed, known, stopped>>

Stop ==
  /\ ~stopped
  /\ stopped' = TRUE
  /\ UNCHANGED <<remote, feed, known, chan>>

Advance(n) ==
  /\ \E a \in LaterStatuses(remote[n]) : remote' = [remote EXCEPT ![n] = a]
  /\ UNCHANGED <<feed, known, chan, stopped>>

Next ==
  \/ \E t \in Tasks : \/ Accept(t)
                      \/ \E s \in Status \ Final : Emit(t, s)
                      \/ \E s \in Final \cup {"ERROR"} : EmitLast(t, s)
                      \/ CloseFeed(t)
                      \/ Receive(t)
  \/ \E S \in SUBSET Tasks : Abandon(S)
  \/ Stop
  \/ \E n \in Numbers : Advance(n)

Spec == Init /\ [][Next]_vars

\* Until the poller is stopped a feed does not stay open for ever, with a
\* status, or with an error once the attempts are used up.
Ending(t) == ~stopped /\ \E s \in Final \cup {"ERROR"} : EmitLast(t, s)

Fairness ==
  \A t \in Tasks : WF_vars(Ending(t)) /\ WF_vars(CloseFeed(t)) /\ WF_vars(Receive(t))

FairSpec == Spec /\ Fairness
=============================================================================
