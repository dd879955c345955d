--------------------------- MODULE LoyaltyProofs ---------------------------
(***************************************************************************)
(* Proofs about Loyalty, for any orders, users, withdrawals, sums and       *)
(* failures: seen alone, its orders are those of OrderLife and its accounts *)
(* those of BalanceLedger, and the two agree on what was credited.          *)
(***************************************************************************)
EXTENDS Loyalty, BalanceLedgerProofs

\* A number nobody had accepted is not credited; a credit follows PROCESSED.
OrdersInv ==
  /\ owner \in [Numbers -> Users \cup {NoOne}]
  /\ status \in [Numbers -> Status]
  /\ credited \in [Numbers -> {0, 1}]
  /\ \A n \in Numbers :
       credited[n] = 1 => owner[n] # NoOne /\ status[n] = "PROCESSED"

\* Both sides of a credit.
LinkInv ==
  \A c \in Credits :
    call[c] = "done" <=> owner[NumberOf[c]] = UserOf[c] /\ credited[NumberOf[c]] = 1

LoyaltyInv == Inv /\ OrdersInv /\ LinkInv

-----------------------------------------------------------------------------
LEMMA OrdersStatuses ==
  /\ Orders!Status = Status
  /\ \A s \in Status : ~(Orders!Rank("PROCESSED") < Orders!Rank(s))
<1>1. /\ Orders!Rank("NEW") = 0 /\ Orders!Rank("PROCESSING") = 1
      /\ Orders!Rank("INVALID") = 2 /\ Orders!Rank("PROCESSED") = 2
  BY DEF Orders!Rank, Orders!Final
<1> QED BY <1>1 DEF Orders!Status, Status

LEMMA LoyaltyConstants ==
  /\ NoOne \notin Users
  /\ \A c \in Credits : NumberOf[c] \in Numbers /\ UserOf[c] \in Users
  /\ \A c, d \in Credits : NumberOf[c] = NumberOf[d] /\ UserOf[c] = UserOf[d] => c = d
  /\ \A w \in Withdrawals, c \in Credits : w # c
  BY LoyaltyAssumption, Constants

\* Every step is one of the ledger, or leaves it alone.
LEMMA LedgerStep == LoyaltyNext => [Next]_vars
<1> SUFFICES ASSUME LoyaltyNext PROVE [Next]_vars
  OBVIOUS
<1>1. ASSUME NEW c \in Credits, Accept(c) PROVE [Next]_vars
  BY <1>1 DEF Accept
<1>2. ASSUME NEW c \in Credits, Earn(c) \/ Lose(c) PROVE [Next]_vars
  BY <1>2 DEF Earn, Lose, Next
<1>3. ASSUME NEW n \in Numbers, Forward(n) PROVE [Next]_vars
  BY <1>3 DEF Forward
<1>4. CASE Account
  BY <1>4 DEF Account, Next
<1> QED BY <1>1, <1>2, <1>3, <1>4 DEF LoyaltyNext

\* Every step is one of the orders, or leaves them alone.
LEMMA OrdersStep == LoyaltyNext => [Orders!Next]_Orders!vars
<1> SUFFICES ASSUME LoyaltyNext PROVE [Orders!Next]_Orders!vars
  OBVIOUS
<1>1. ASSUME NEW c \in Credits, Accept(c) PROVE Orders!Next
  BY <1>1, LoyaltyConstants DEF Accept, Orders!Next
<1>2. ASSUME NEW c \in Credits, Earn(c) PROVE Orders!Next
  BY <1>2, LoyaltyConstants DEF Earn, Orders!Next
<1>3. ASSUME NEW n \in Numbers, Forward(n) PROVE Orders!Next
  BY <1>3, OrdersStatuses DEF Forward, Orders!Next
<1>4. ASSUME NEW c \in Credits, Lose(c) PROVE UNCHANGED Orders!vars
  BY <1>4 DEF Lose, orderVars, Orders!vars
<1>5. CASE Account
  BY <1>5 DEF Account, orderVars, Orders!vars
<1> QED BY <1>1, <1>2, <1>3, <1>4, <1>5 DEF LoyaltyNext

\* What orders and accounts are known to do apart, they do together: the
\* ledger's theorems hold of the accounts in Loyalty.
THEOREM AccountsAreALedger == LoyaltySpec => Spec
<1>1. LoyaltyInit => Init
  BY DEF LoyaltyInit
<1>2. [LoyaltyNext]_allVars => [Next]_vars
  BY LedgerStep DEF allVars
<1> QED BY <1>1, <1>2, PTL DEF LoyaltySpec, Spec

\* And its orders live as OrderLife says.
THEOREM OrdersLive == LoyaltySpec => Orders!Spec
<1>1. LoyaltyInit => Orders!Init
  BY DEF LoyaltyInit
<1>2. [LoyaltyNext]_allVars => [Orders!Next]_Orders!vars
  BY OrdersStep DEF allVars, orderVars, Orders!vars
<1> QED BY <1>1, <1>2, PTL DEF LoyaltySpec, Orders!Spec

-----------------------------------------------------------------------------
LEMMA LoyaltyInitInv == LoyaltyInit => LoyaltyInv
<1> SUFFICES ASSUME LoyaltyInit PROVE LoyaltyInv
  OBVIOUS
<1>1. Inv
  BY InitInv DEF LoyaltyInit
<1>2. OrdersInv
  BY DEF LoyaltyInit, Orders!Init, OrdersInv, Status
<1>3. LinkInv
  BY LoyaltyConstants, Constants DEF LoyaltyInit, Init, Orders!Init, LinkInv
<1> QED BY <1>1, <1>2, <1>3 DEF LoyaltyInv

LEMMA AcceptStep ==
  ASSUME LoyaltyInv, NEW c \in Credits, Accept(c)
  PROVE  OrdersInv' /\ LinkInv'
<1> USE LoyaltyConstants DEF Accept, Orders!Accept, LoyaltyInv
<1>1. OrdersInv'
  BY DEF OrdersInv
<1>2. call' = call
  BY DEF vars
<1>3. LinkInv'
  BY <1>2 DEF LinkInv, OrdersInv
<1> QED BY <1>1, <1>3

LEMMA ForwardStep ==
  ASSUME LoyaltyInv, NEW n \in Numbers, Forward(n)
  PROVE  OrdersInv' /\ LinkInv'
<1> USE LoyaltyConstants DEF LoyaltyInv
<1>1. PICK s \in Status : Orders!Forward(n, s)
  BY DEF Forward
<1>2. status[n] # "PROCESSED"
  BY <1>1, OrdersStatuses DEF Orders!Forward
<1>3. OrdersInv'
  BY <1>1, <1>2 DEF Orders!Forward, OrdersInv
<1>4. call' = call
  BY DEF Forward, vars
<1>5. LinkInv'
  BY <1>1, <1>4 DEF Orders!Forward, LinkInv
<1> QED BY <1>3, <1>5

\* The order counts as credited in the step that pays its owner, and only
\* that credit is for this number and this user.
LEMMA EarnStep ==
  ASSUME LoyaltyInv, NEW c \in Credits, Earn(c)
  PROVE  OrdersInv' /\ LinkInv'
<1> USE LoyaltyConstants, Constants DEF Earn, Orders!Credit, LoyaltyInv, IsFor
<1>1. OrdersInv'
  BY DEF OrdersInv
<1>2. call' = [call EXCEPT ![c] = "done"] /\ call \in [Calls -> Places]
  BY DEF Increase, IncreaseFails, GoTo, Inv, TypeOK
<1>3. LinkInv'
  BY <1>2 DEF LinkInv, OrdersInv
<1> QED BY <1>1, <1>3

\* A credit that is lost was not there and is not; withdrawals and crashes
\* leave credits where they are.
LEMMA OtherStep ==
  ASSUME LoyaltyInv, (\E c \in Credits : Lose(c)) \/ Account
  PROVE  OrdersInv' /\ LinkInv'
<1> USE LoyaltyConstants, Constants DEF LoyaltyInv
<1>1. UNCHANGED orderVars
  BY DEF Lose, Account
<1>2. \A d \in Credits : call'[d] = "done" <=> call[d] = "done"
  <2>1. call \in [Calls -> Places]
    BY DEF Inv, TypeOK
  <2>2. ASSUME NEW c \in Credits, Lose(c)
        PROVE  \A d \in Credits : call'[d] = "done" <=> call[d] = "done"
    BY <2>1, <2>2 DEF Lose, Overflow, IncreaseFails, GoTo
  <2>3. ASSUME NEW w \in Withdrawals, Withdrawing(w)
        PROVE  \A d \in Credits : call'[d] = call[d]
    BY <2>1, <2>3, OthersStay
  <2>4. CASE Crash
    BY <2>1, <2>4 DEF Crash
  <2> QED BY <2>2, <2>3, <2>4 DEF Account
<1>3. OrdersInv' /\ LinkInv'
  BY <1>1, <1>2 DEF orderVars, OrdersInv, LinkInv
<1> QED BY <1>3

LEMMA LoyaltyNextInv == LoyaltyInv /\ [LoyaltyNext]_allVars => LoyaltyInv'
<1> SUFFICES ASSUME LoyaltyInv, [LoyaltyNext]_allVars PROVE LoyaltyInv'
  OBVIOUS
<1>1. Inv'
  BY LedgerStep, NextInv DEF LoyaltyInv, allVars
<1>2. OrdersInv' /\ LinkInv'
  <2>1. CASE LoyaltyNext
    BY <2>1, AcceptStep, ForwardStep, EarnStep, OtherStep DEF LoyaltyNext
  <2>2. CASE UNCHANGED allVars
    BY <2>2 DEF LoyaltyInv, allVars, vars, orderVars, OrdersInv, LinkInv
  <2> QED BY <2>1, <2>2
<1> QED BY <1>1, <1>2 DEF LoyaltyInv

\* Orders and accounts agree on every credit: it is on the account if and only
\* if its order is the user's, processed, and counted as credited.
THEOREM EarnedIsCredited == LoyaltySpec => []CreditsAreEarned
<1>1. LoyaltyInv => CreditsAreEarned
  BY LoyaltyConstants DEF LoyaltyInv, OrdersInv, LinkInv, CreditsAreEarned, EarnedBy, CreditsOf
<1> QED BY <1>1, LoyaltyInitInv, LoyaltyNextInv, PTL DEF LoyaltySpec
-----------------------------------------------------------------------------
(* The sums.                                                                *)

\* The conversion takes a hundredth of each credit at the most and adds none.
LEMMA CreditedNearAsked ==
  ASSUME NEW u \in Users
  PROVE  LET asked == SumFunctionOnSet(Asked, CreditsOf(u))
         IN  /\ Credited(u) <= asked
             /\ asked <= Credited(u) + Cardinality(CreditsOf(u))
<1>1. IsFiniteSet(CreditsOf(u))
  BY FiniteCredits
<1>2. \A c \in CreditsOf(u) :
        /\ Sum[c] \in Int /\ Asked[c] \in Int
        /\ Sum[c] <= Asked[c] /\ Asked[c] <= Sum[c] + 1
  <2> SUFFICES ASSUME NEW c \in CreditsOf(u)
               PROVE  /\ Sum[c] \in Int /\ Asked[c] \in Int
                      /\ Sum[c] <= Asked[c] /\ Asked[c] <= Sum[c] + 1
    OBVIOUS
  <2>1. c \in Calls /\ Asked[c] \in Nat
    BY LedgerAssumption, Constants DEF CreditsOf
  <2>2. Sum[c] = FloatToInt(Asked[c])
    BY <2>1 DEF Sum
  <2> QED BY <2>1, <2>2, FloatToIntTruncates
<1> QED BY <1>1, <1>2, SumBounds DEF Credited

\* Every point on an account, or withdrawn from it, comes from the accrual of an
\* order that this user had accepted and that was processed, there once; the
\* conversions lose less than a hundredth for each order, and add none.
THEOREM PointsComeFromOrders == LoyaltySpec => []PointsAreEarned
<1>1. CreditsAreEarned /\ Conservation => PointsAreEarned
  BY CreditedNearAsked DEF CreditsAreEarned, Conservation, PointsAreEarned, AccrualOf
<1> QED BY <1>1, EarnedIsCredited, AccountsAreALedger, PointsAreConserved, PTL

\* What the accounts promise, they promise while orders come and are processed:
\* no points appear or vanish, the history explains what was withdrawn, answers
\* and debits are recorded.
THEOREM AccountsKeepTheirPromises ==
  LoyaltySpec => /\ [](TypeOK /\ Conservation /\ HistoryAddsUp /\ AnswersMatchHistory)
                 /\ DebitsAreRecorded
  BY AccountsAreALedger, TypeCorrect, PointsAreConserved, HistoryIsExact,
     AnswersAreRecorded, DebitsMatchRows, PTL
=============================================================================
