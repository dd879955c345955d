------------------------------ MODULE Loyalty ------------------------------
(***************************************************************************)
(* Orders and accounts together: the credits of BalanceLedger are those of  *)
(* orders, which come to be accepted and PROCESSED as OrderLife says, while *)
(* withdrawals, failures and crashes go on in the ledger.  An event         *)
(* "order:processed" carries the order's owner and its accrual, and joins   *)
(* the two: the statement that credits is a step of both.                   *)
(***************************************************************************)
EXTENDS BalanceLedger, OrderStatus

CONSTANTS
  Numbers,   \* order numbers
  NumberOf,  \* the order of each credit: who may upload it has one for it
  NoOne      \* the owner of an order that is not stored

ASSUME LoyaltyAssumption ==
  /\ NumberOf \in [Credits -> Numbers]
  /\ \A c, d \in Credits :
       NumberOf[c] = NumberOf[d] /\ UserOf[c] = UserOf[d] => c = d
  /\ NoOne \notin Users

VARIABLES owner, status, credited   \* see OrderLife

orderVars == <<owner, status, credited>>
allVars == <<vars, orderVars>>

Orders == INSTANCE OrderLife

LoyaltyInit == Init /\ Orders!Init

-----------------------------------------------------------------------------
\* An upload is accepted.
Accept(c) == Orders!Accept(NumberOf[c], UserOf[c]) /\ UNCHANGED vars

\* The accrual service's answers are stored.
Forward(n) == (\E s \in Status : Orders!Forward(n, s)) /\ UNCHANGED vars

\* Mutant: the event carries whoever asks, not the order's owner.
IsForAnyone(c) == owner[NumberOf[c]] # NoOne

\* The event's user is the uploader of the order, captured when it was queued
\* (service.go:81), and its sum the order's accrual.  The owner never changes, so
\* reading it here gives the user that was captured.
IsFor(c) == owner[NumberOf[c]] = UserOf[c]

\* The listener's event arrives and the accrual is added.
Earn(c) ==
  /\ IsFor(c)
  /\ Orders!Credit(NumberOf[c])
  /\ Increase(c) \/ (IncreaseFails(c) /\ call'[c] = "done")

\* It arrives and is lost, for want of room or with the failing call.
Lose(c) ==
  /\ IsFor(c)
  /\ status[NumberOf[c]] = "PROCESSED" /\ credited[NumberOf[c]] = 0
  /\ Overflow(c) \/ (IncreaseFails(c) /\ call'[c] = "broken")
  /\ UNCHANGED orderVars

\* The ledger's own steps.
Account ==
  /\ (\E w \in Withdrawals : Withdrawing(w)) \/ Crash
  /\ UNCHANGED orderVars

LoyaltyNext ==
  \/ \E c \in Credits : Accept(c) \/ Earn(c) \/ Lose(c)
  \/ \E n \in Numbers : Forward(n)
  \/ Account

LoyaltySpec == LoyaltyInit /\ [][LoyaltyNext]_allVars

\* A withdrawal that has begun goes on: its statements return, with an error when
\* the database takes too long.  Nothing obliges a user, the accrual service or
\* an event to come.
LoyaltyFairness ==
  \A w \in Withdrawals :
    WF_allVars(call[w] # "idle" /\ Withdrawing(w) /\ UNCHANGED orderVars)

FairLoyaltySpec == LoyaltySpec /\ LoyaltyFairness

-----------------------------------------------------------------------------
(* Properties.                                                              *)

\* The credits u has for the orders, by what the orders say.
EarnedBy(u) ==
  {c \in Credits : /\ UserOf[c] = u
                   /\ owner[NumberOf[c]] = u
                   /\ status[NumberOf[c]] = "PROCESSED"
                   /\ credited[NumberOf[c]] = 1}

\* The two sides agree on every credit: it has taken effect on the account if and
\* only if the order is the user's, is PROCESSED and counts as credited; so an
\* order two users upload is never paid to both, nor one that is not processed
\* (service.go:44-50, 86-114, balance/service.go:149-154).
CreditsAreEarned ==
  \A u \in Users : EarnedBy(u) = CreditsOf(u)

AccrualOf(u) == SumFunctionOnSet(Asked, EarnedBy(u))

\* Every point that is on an account or was withdrawn from it comes from the
\* accruals of orders that this user had accepted and that were processed, each
\* there once; the conversion of the sums takes a
\* hundredth of each at the most and adds none (service.go:110-112,
\* balance/service.go:149-154, money.go:7-9).
PointsAreEarned ==
  \A u \in Users :
    LET points == Balance(u).current + Balance(u).withdrawn
    IN  /\ points <= AccrualOf(u)
        /\ AccrualOf(u) <= points + Cardinality(EarnedBy(u))
=============================================================================
