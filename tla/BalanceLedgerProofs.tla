------------------------ MODULE BalanceLedgerProofs ------------------------
(***************************************************************************)
(* Proofs about BalanceLedger, for any users, withdrawals, credits, sums,   *)
(* column width and failing database calls.                                 *)
(***************************************************************************)
EXTENDS BalanceLedger, SumTheorems

\* The withdrawal is in its transaction.
Open(w) == call[w] \in {"reading", "updating", "adding", "committing", "orphaned"}

\* Its COMMIT may be under way.
Added(w) == call[w] \in {"committing", "orphaned"}

\* What a withdrawal has found out stays true until it commits: its sum was
\* valid from the start, the columns have room for it while it holds the row,
\* and its key is free from the insertion on.  Only a call that is over was
\* answered, and one whose COMMIT got lost can have been answered 500 only.
WithdrawalInv(w) ==
  /\ Open(w) => ValidSum(w)
  /\ Holds(w) => RoomFor(w)
  /\ Added(w) => ~KeyTaken(w)
  /\ answer[w] # "none" => call[w] \in {"done", "orphaned", "broken"}
  /\ call[w] \in {"orphaned", "broken"} => answer[w] \in {"none", "500"}

\* One transaction at a time holds a row.
LockInv ==
  \A w, v \in Withdrawals : UserOf[w] = UserOf[v] /\ Holds(w) /\ Holds(v) => w = v

\* The call knows that its withdrawal took effect, whether it has said so or not.
Made(w) == call[w] = "committed" \/ answer[w] = "200"

\* Then it is recorded, and no other call with the same order knows so.
MadeInv ==
  \A w \in Withdrawals : Made(w) =>
    /\ Entry(w) \in history
    /\ \A v \in Withdrawals :
         Made(v) /\ UserOf[v] = UserOf[w] /\ OrderOf[v] = OrderOf[w] => v = w

\* The call can have recorded its withdrawal.
Origin(w) ==
  call[w] \in {"committed", "done", "broken"} /\ answer[w] \notin {"400", "402", "422"}

RowInv ==
  \A w \in Withdrawals : Entry(w) \in history =>
    \E v \in Withdrawals : Entry(v) = Entry(w) /\ Origin(v)

Inv == TypeOK /\ (\A w \in Withdrawals : WithdrawalInv(w)) /\ LockInv /\ MadeInv /\ RowInv

-----------------------------------------------------------------------------
LEMMA Constants ==
  /\ MaxInt \in Nat /\ MaxFaults \in Nat
  /\ Withdrawals \cap Credits = {}
  /\ \A c \in Calls : UserOf[c] \in Users
  /\ \A w \in Withdrawals : w \in Calls
  /\ \A c \in Credits : c \in Calls
  BY LedgerAssumption DEF Calls

\* The conversion of a sum changes it by a hundredth at the most.
LEMMA FloatToIntNear ==
  ASSUME NEW n \in Int
  PROVE  FloatToInt(n) \in Int /\ FloatToInt(n) \in {n - 1, n, n + 1}
<1>1. CASE n = 0
  BY <1>1 DEF FloatToInt
<1>2. CASE n > 0
  BY <1>2 DEF FloatToInt
<1>3. CASE n < 0
  BY <1>3 DEF FloatToInt
<1> QED BY <1>1, <1>2, <1>3

\* It truncates: what is above zero is not made larger, nor less than zero.
LEMMA FloatToIntTruncates ==
  ASSUME NEW n \in Nat
  PROVE  FloatToInt(n) \in Nat /\ FloatToInt(n) <= n /\ n <= FloatToInt(n) + 1
<1>1. CASE n = 0
  BY <1>1 DEF FloatToInt
<1>2. CASE n > 0
  BY <1>2 DEF FloatToInt
<1> QED BY <1>1, <1>2

LEMMA Sums ==
  /\ \A c \in Calls : Sum[c] \in Int
  /\ \A c \in Credits : Sum[c] >= 0
<1>1. ASSUME NEW c \in Calls PROVE Sum[c] = FloatToInt(Asked[c]) /\ Asked[c] \in Int
  BY LedgerAssumption DEF Sum
<1>2. ASSUME NEW c \in Credits PROVE Sum[c] >= 0
  <2>1. Asked[c] \in Nat /\ c \in Calls
    BY LedgerAssumption DEF Calls
  <2> QED BY <1>1, <2>1, FloatToIntTruncates
<1> QED BY <1>1, <1>2, FloatToIntNear

LEMMA InitInv == Init => Inv
<1> SUFFICES ASSUME Init PROVE Inv
  OBVIOUS
<1> USE Constants DEF Init
<1>1. TypeOK
  BY DEF TypeOK, Places
<1>2. \A w \in Withdrawals : WithdrawalInv(w)
  BY DEF WithdrawalInv, Open, Added, Holds
<1>3. LockInv /\ MadeInv /\ RowInv
  BY DEF LockInv, Holds, MadeInv, Made, RowInv
<1> QED BY <1>1, <1>2, <1>3 DEF Inv

\* Whatever leaves the history alone, makes nobody know of a withdrawal and keeps
\* the origins of the rows.
LEMMA HistorySame ==
  ASSUME MadeInv, RowInv, history' = history,
         \A v \in Withdrawals : (Made(v)' => Made(v)) /\ (Origin(v) => Origin(v)')
  PROVE  MadeInv' /\ RowInv'
<1>1. \A v : Entry(v)' = Entry(v)
  BY DEF Entry, Sum
<1> QED BY <1>1 DEF MadeInv, RowInv

-----------------------------------------------------------------------------
(* Steps that leave the tables alone.                                       *)

\* A withdrawal goes one place further: what it must have found out is so.
LEMMA GoToStep ==
  ASSUME Inv, NEW w \in Withdrawals, NEW place \in Places,
         place \in {"reading", "updating", "adding", "committing"},
         UNCHANGED <<tables, answer>>, faults' \in 0 .. MaxFaults,
         call' = [call EXCEPT ![w] = place],
         answer[w] = "none", ValidSum(w), call[w] \notin {"committed", "done", "broken"},
         place \in {"adding", "committing"} => RoomFor(w) /\ (Holds(w) \/ ~Locked(UserOf[w])),
         place = "committing" => ~KeyTaken(w)
  PROVE  Inv'
<1> USE Constants DEF tables
<1>1. TypeOK'
  BY DEF Inv, TypeOK
<1>2. \A v \in Withdrawals : WithdrawalInv(v)'
  BY DEF Inv, TypeOK, WithdrawalInv, Open, Added, Holds, RoomFor, Fits, KeyTaken, ValidSum
<1>3. LockInv'
  BY DEF Inv, TypeOK, LockInv, Holds, Locked
<1>4. MadeInv' /\ RowInv'
  BY HistorySame DEF Inv, TypeOK, Made, Origin
<1> QED BY <1>1, <1>2, <1>3, <1>4 DEF Inv

\* A withdrawal is refused.
LEMMA RefusedStep ==
  ASSUME Inv, NEW w \in Withdrawals, NEW code \in {"400", "402", "422", "500"},
         call[w] \notin {"committed", "orphaned", "done", "broken"}, Answer(w, code), UNCHANGED tables, faults' \in 0 .. MaxFaults
  PROVE  Inv'
<1> USE Constants DEF tables, Answer
<1>1. TypeOK'
  BY DEF Inv, TypeOK, Places
<1>2. \A v \in Withdrawals : WithdrawalInv(v)'
  BY DEF Inv, TypeOK, WithdrawalInv, Open, Added, Holds, RoomFor, Fits, KeyTaken, ValidSum
<1>3. LockInv'
  BY DEF Inv, TypeOK, LockInv, Holds
<1>4. MadeInv' /\ RowInv'
  BY HistorySame DEF Inv, TypeOK, Made, Origin
<1> QED BY <1>1, <1>2, <1>3, <1>4 DEF Inv

LEMMA BeginStep ==
  ASSUME Inv, NEW w \in Withdrawals, Begin(w)
  PROVE  Inv'
<1>1. answer[w] = "none" /\ call[w] = "idle" /\ faults' \in 0 .. MaxFaults /\ UNCHANGED tables
  BY DEF Inv, TypeOK, WithdrawalInv, Begin
<1>2. \/ GoTo(w, "reading") /\ ValidSum(w)
      \/ Answer(w, "400") \/ Answer(w, "422")
  BY DEF Begin
<1> QED BY <1>1, <1>2, GoToStep, RefusedStep DEF GoTo, Places

LEMMA ReadStep ==
  ASSUME Inv, NEW w \in Withdrawals, Read(w)
  PROVE  Inv'
<1>1. /\ answer[w] = "none" /\ call[w] = "reading" /\ faults' \in 0 .. MaxFaults
      /\ UNCHANGED tables /\ ValidSum(w)
  BY DEF Inv, TypeOK, WithdrawalInv, Read, Open
<1> QED BY <1>1, GoToStep, RefusedStep DEF Read, GoTo, Places

LEMMA WithdrawStep ==
  ASSUME Inv, NEW w \in Withdrawals, Withdraw(w)
  PROVE  Inv'
<1>1. /\ answer[w] = "none" /\ call[w] = "updating" /\ faults' \in 0 .. MaxFaults
      /\ UNCHANGED tables /\ ValidSum(w) /\ ~Locked(UserOf[w])
  BY DEF Inv, TypeOK, WithdrawalInv, Withdraw, Open
<1> QED BY <1>1, GoToStep, RefusedStep DEF Withdraw, GoTo, Places

LEMMA AddStep ==
  ASSUME Inv, NEW w \in Withdrawals, Add(w)
  PROVE  Inv'
<1>1. /\ answer[w] = "none" /\ call[w] = "adding" /\ faults' \in 0 .. MaxFaults
      /\ UNCHANGED tables /\ ValidSum(w) /\ RoomFor(w) /\ Holds(w)
  BY DEF Inv, TypeOK, WithdrawalInv, Add, Open, Holds
<1> QED BY <1>1, GoToStep, RefusedStep DEF Add, GoTo, Places

\* The answer of a withdrawal that took effect.
LEMMA SucceedStep ==
  ASSUME Inv, NEW w \in Withdrawals, Succeed(w)
  PROVE  Inv'
<1> USE Constants DEF tables, Answer, Succeed
<1>1. TypeOK'
  BY DEF Inv, TypeOK, Places
<1>2. \A v \in Withdrawals : WithdrawalInv(v)'
  BY DEF Inv, TypeOK, WithdrawalInv, Open, Added, Holds, RoomFor, Fits, KeyTaken, ValidSum
<1>3. LockInv'
  BY DEF Inv, TypeOK, LockInv, Holds
<1>4. MadeInv' /\ RowInv'
  BY HistorySame DEF Inv, TypeOK, Made, Origin
<1> QED BY <1>1, <1>2, <1>3, <1>4 DEF Inv

\* The connection is lost, and the transaction keeps the row.
LEMMA UnknownStep ==
  ASSUME Inv, NEW w \in Withdrawals, CommitUnknown(w)
  PROVE  Inv'
<1> USE Constants DEF tables, CommitUnknown
<1>1. TypeOK'
  BY DEF Inv, TypeOK, Places, Fault
<1>2. \A v \in Withdrawals : WithdrawalInv(v)'
  BY DEF Inv, TypeOK, WithdrawalInv, Open, Added, Holds, RoomFor, Fits, KeyTaken, ValidSum
<1>3. LockInv'
  BY DEF Inv, TypeOK, LockInv, Holds
<1>4. MadeInv' /\ RowInv'
  BY HistorySame DEF Inv, TypeOK, Made, Origin
<1> QED BY <1>1, <1>2, <1>3, <1>4 DEF Inv

\* The server rolls it back.
LEMMA RolledBackStep ==
  ASSUME Inv, NEW w \in Withdrawals, call[w] = "orphaned", GoTo(w, "broken"),
         UNCHANGED <<tables, faults>>
  PROVE  Inv'
<1> USE Constants DEF tables, GoTo
<1>1. TypeOK'
  BY DEF Inv, TypeOK, Places
<1>2. \A v \in Withdrawals : WithdrawalInv(v)'
  BY DEF Inv, TypeOK, WithdrawalInv, Open, Added, Holds, RoomFor, Fits, KeyTaken, ValidSum
<1>3. LockInv'
  BY DEF Inv, TypeOK, LockInv, Holds
<1>4. MadeInv' /\ RowInv'
  BY HistorySame DEF Inv, TypeOK, Made, Origin
<1> QED BY <1>1, <1>2, <1>3, <1>4 DEF Inv

LEMMA FailStep ==
  ASSUME Inv, NEW w \in Withdrawals, Fail(w)
  PROVE  Inv'
<1>1. faults' \in 0 .. MaxFaults
  BY Constants DEF Inv, TypeOK, Fail, Fault
<1> QED BY <1>1, RefusedStep DEF Fail

-----------------------------------------------------------------------------
(* Steps that write.                                                        *)

\* A COMMIT that takes effect, for a call that hears of it or for nobody.
TakesEffect(w, place) ==
  /\ Added(w)
  /\ Apply(w)
  /\ place = IF call[w] = "committing" THEN "committed" ELSE "broken"
  /\ GoTo(w, place)

LEMMA EffectCases ==
  ASSUME NEW w \in Withdrawals, Commit(w) \/ EndOrphan(w)
  PROVE  \/ \E place \in {"committed", "broken"} : TakesEffect(w, place)
         \/ call[w] = "orphaned" /\ UNCHANGED tables /\ GoTo(w, "broken")
  BY DEF Commit, EndOrphan, TakesEffect, Added

\* A commit writes what the transaction has made sure of; nobody else holds the
\* row, so nothing that another withdrawal has found out is touched.
LEMMA CommitStep ==
  ASSUME Inv, NEW w \in Withdrawals, NEW place \in {"committed", "broken"},
         TakesEffect(w, place), UNCHANGED faults
  PROVE  Inv'
<1> USE Constants, Sums DEF Apply, GoTo, TakesEffect, Added
<1>1. /\ answer[w] \in {"none", "500"} /\ ValidSum(w) /\ RoomFor(w) /\ ~KeyTaken(w)
      /\ place = "committed" => answer[w] = "none"
      /\ UserOf[w] \in Users /\ Sum[w] \in Int
      /\ current[UserOf[w]] \in Int /\ withdrawn[UserOf[w]] \in Nat
  BY DEF Inv, TypeOK, WithdrawalInv, Open, Holds
<1>2. TypeOK'
  <2>1. /\ current[UserOf[w]] - Sum[w] \in -MaxInt - 1 .. MaxInt
        /\ withdrawn[UserOf[w]] + Sum[w] \in 0 .. MaxInt
    BY <1>1 DEF RoomFor, Fits, ValidSum
  <2> QED BY <2>1 DEF Inv, TypeOK, Places
<1>3. \A v \in Withdrawals : v # w /\ UserOf[v] = UserOf[w] => ~Holds(v)
  BY DEF Inv, LockInv, Holds
<1>4. \A v \in Withdrawals : WithdrawalInv(v)'
  <2> SUFFICES ASSUME NEW v \in Withdrawals PROVE WithdrawalInv(v)'
    OBVIOUS
  <2>1. CASE v = w
    BY <2>1 DEF Inv, TypeOK, WithdrawalInv, Open, Holds
  <2>2. CASE v # w
    <3>1. call'[v] = call[v] /\ answer'[v] = answer[v]
      BY <2>2 DEF Inv, TypeOK
    <3>2. Holds(v) => UserOf[v] # UserOf[w]
      BY <1>3, <2>2
    <3>3. Holds(v) => RoomFor(v)'
      BY <3>2 DEF Inv, TypeOK, WithdrawalInv, RoomFor, Fits
    <3>4. Holds(v) => (KeyTaken(v)' => KeyTaken(v))
      BY <3>2 DEF KeyTaken, Entry
    <3> QED BY <3>1, <3>3, <3>4 DEF Inv, WithdrawalInv, Open, Holds, ValidSum
  <2> QED BY <2>1, <2>2
<1>5. LockInv'
  BY DEF Inv, TypeOK, LockInv, Holds
<1>6. \A v : Entry(v)' = Entry(v)
  BY DEF Entry, Sum
<1>7. MadeInv'
  <2>1. \A v \in Withdrawals :
          Made(v) => Entry(v) \in history /\ ~(UserOf[v] = UserOf[w] /\ OrderOf[v] = OrderOf[w])
    BY <1>1 DEF Inv, MadeInv, KeyTaken, Entry
  <2>2. \A v \in Withdrawals : Made(v)' => v = w \/ Made(v)
    BY DEF Inv, TypeOK, Made
  <2>3. Entry(w) \in history' /\ history \subseteq history'
    OBVIOUS
  <2> QED BY <1>6, <2>1, <2>2, <2>3 DEF Inv, MadeInv
<1>8. RowInv'
  <2>1. Origin(w)' /\ \A v \in Withdrawals : Origin(v) => Origin(v)'
    BY <1>1 DEF Inv, TypeOK, Origin
  <2>2. history' = history \cup {Entry(w)}
    OBVIOUS
  <2> QED BY <1>6, <2>1, <2>2 DEF Inv, RowInv
<1> QED BY <1>2, <1>4, <1>5, <1>7, <1>8 DEF Inv

\* A credit waits for the row, so no withdrawal that holds it is touched.
LEMMA UpsertStep ==
  ASSUME Inv, NEW c \in Credits, Upsert(c), GoTo(c, "done"), faults' \in 0 .. MaxFaults
  PROVE  Inv'
<1> USE Constants, Sums DEF Upsert, GoTo
<1>1. UserOf[c] \in Users /\ Sum[c] \in Int /\ current[UserOf[c]] \in Int
  BY DEF Inv, TypeOK
<1>2. TypeOK'
  <2>1. current[UserOf[c]] + Sum[c] \in -MaxInt - 1 .. MaxInt
    BY <1>1 DEF Fits
  <2> QED BY <2>1 DEF Inv, TypeOK, Places
<1>3. \A v \in Withdrawals : call'[v] = call[v] /\ (Holds(v) => UserOf[v] # UserOf[c])
  BY DEF Inv, TypeOK, Holds, Locked
<1>4. \A v \in Withdrawals : WithdrawalInv(v)'
  <2> SUFFICES ASSUME NEW v \in Withdrawals PROVE WithdrawalInv(v)'
    OBVIOUS
  <2>1. Holds(v) => RoomFor(v)'
    BY <1>3 DEF Inv, TypeOK, WithdrawalInv, RoomFor, Fits
  <2>2. KeyTaken(v)' <=> KeyTaken(v)
    BY DEF KeyTaken
  <2> QED BY <1>3, <2>1, <2>2 DEF Inv, WithdrawalInv, Open, Added, Holds, ValidSum
<1>5. LockInv'
  BY <1>3 DEF Inv, LockInv, Holds
<1>6. MadeInv' /\ RowInv'
  BY <1>3, HistorySame DEF Inv, Made, Origin
<1> QED BY <1>2, <1>4, <1>5, <1>6 DEF Inv

\* A credit that fails leaves everything but its own place.
LEMMA LostCreditStep ==
  ASSUME Inv, NEW c \in Credits, GoTo(c, "broken"), UNCHANGED tables,
         faults' \in 0 .. MaxFaults
  PROVE  Inv'
<1> USE Constants DEF GoTo, tables
<1>1. TypeOK'
  BY DEF Inv, TypeOK, Places
<1>2. \A v \in Withdrawals : call'[v] = call[v]
  BY DEF Inv, TypeOK
<1>3. \A v \in Withdrawals : WithdrawalInv(v)'
  BY <1>2 DEF Inv, WithdrawalInv, Open, Added, Holds, RoomFor, Fits, KeyTaken, ValidSum
<1>4. LockInv' /\ MadeInv' /\ RowInv'
  BY <1>2, HistorySame DEF Inv, LockInv, Holds, Made, Origin
<1> QED BY <1>1, <1>3, <1>4 DEF Inv

LEMMA CreditStep ==
  ASSUME Inv, NEW c \in Credits, Increase(c) \/ Overflow(c) \/ IncreaseFails(c)
  PROVE  Inv'
<1>1. faults' \in 0 .. MaxFaults
  BY Constants DEF Inv, TypeOK, Increase, Overflow, IncreaseFails, Fault
<1>2. \/ Upsert(c) /\ GoTo(c, "done")
      \/ UNCHANGED tables /\ GoTo(c, "broken")
  BY DEF Increase, Overflow, IncreaseFails
<1> QED BY <1>1, <1>2, UpsertStep, LostCreditStep

\* Transactions that are rolled back leave nothing, and one whose COMMIT was sent
\* keeps what it held.
LEMMA CrashStep ==
  ASSUME Inv, Crash
  PROVE  Inv'
<1>1. TypeOK' /\ UNCHANGED <<tables, answer>>
  BY DEF Crash, tables, Inv, TypeOK, Places
<1>2. ASSUME NEW v \in Withdrawals
      PROVE  /\ call'[v] = IF call[v] = "committing" THEN "orphaned"
                           ELSE IF call[v] \in {"reading", "updating", "adding", "committed"}
                           THEN "broken" ELSE call[v]
             /\ answer'[v] = answer[v]
  BY Constants DEF Crash, Inv, TypeOK
<1>3. \A v \in Withdrawals : WithdrawalInv(v)'
  <2> SUFFICES ASSUME NEW v \in Withdrawals PROVE WithdrawalInv(v)'
    OBVIOUS
  <2>1. /\ answer'[v] # "none" => call'[v] \in {"done", "orphaned", "broken"}
        /\ call'[v] \in {"orphaned", "broken"} => answer'[v] \in {"none", "500"}
    BY <1>2 DEF Inv, TypeOK, WithdrawalInv
  <2>2. (RoomFor(v)' <=> RoomFor(v)) /\ (KeyTaken(v)' <=> KeyTaken(v)) /\ (ValidSum(v)' <=> ValidSum(v))
    BY <1>1 DEF tables, RoomFor, Fits, KeyTaken, ValidSum, Sum
  <2> QED BY <1>2, <2>1, <2>2 DEF Inv, WithdrawalInv, Holds, Open, Added
<1>4. LockInv'
  BY <1>2 DEF Inv, LockInv, Holds
<1>5. MadeInv' /\ RowInv'
  BY <1>1, <1>2, HistorySame DEF tables, Inv, Made, Origin
<1> QED BY <1>1, <1>3, <1>4, <1>5 DEF Inv

-----------------------------------------------------------------------------
LEMMA NextInv == Inv /\ [Next]_vars => Inv'
<1> SUFFICES ASSUME Inv, [Next]_vars PROVE Inv'
  OBVIOUS
<1>1. ASSUME NEW w \in Withdrawals, Withdrawing(w) PROVE Inv'
  <2>1. CASE Commit(w) \/ EndOrphan(w)
    <3>1. UNCHANGED faults
      BY <2>1 DEF Commit, EndOrphan
    <3> QED BY <2>1, <3>1, EffectCases, CommitStep, RolledBackStep
  <2> QED BY <1>1, <2>1, BeginStep, ReadStep, WithdrawStep, AddStep, SucceedStep, FailStep,
             UnknownStep DEF Withdrawing
<1>2. ASSUME NEW c \in Credits, Increase(c) \/ Overflow(c) \/ IncreaseFails(c)
      PROVE  Inv'
  BY <1>2, CreditStep
<1>3. CASE UNCHANGED vars
  <2> USE <1>3 DEF vars, tables
  <2>1. TypeOK'
    BY DEF Inv, TypeOK
  <2>2. \A v \in Withdrawals : WithdrawalInv(v)'
    BY DEF Inv, WithdrawalInv, Open, Added, Holds, RoomFor, Fits, KeyTaken, ValidSum
  <2>3. LockInv' /\ MadeInv' /\ RowInv'
    BY HistorySame DEF Inv, LockInv, Holds, Made, Origin
  <2> QED BY <2>1, <2>2, <2>3 DEF Inv
<1> QED BY <1>1, <1>2, <1>3, CrashStep DEF Next

\* Inv holds in every reachable state.
THEOREM Invariance == Spec => []Inv
  BY InitInv, NextInv, PTL DEF Spec

\* Every variable keeps its type: no balance leaves its INT column, and the
\* withdrawn total is never negative, whatever overlaps between the check of a
\* sum and its commit.
THEOREM TypeCorrect == Spec => []TypeOK
<1>1. Inv => TypeOK
  BY DEF Inv
<1> QED BY <1>1, Invariance, PTL

\* A withdrawal answered 200 is recorded, once for its order.  What is recorded
\* comes from a call that sent its COMMIT and was answered 200, or 500 with the
\* outcome unknown, or nothing because the program died: not from a refused one.
THEOREM AnswersAreRecorded == Spec => []AnswersMatchHistory
<1>1. Inv => AnswersMatchHistory
  BY DEF Inv, MadeInv, Made, RowInv, Origin, AnswersMatchHistory
<1> QED BY <1>1, Invariance, PTL

-----------------------------------------------------------------------------
(* The sums.                                                                *)

\* The balance was found sufficient.
Granted(w) == call[w] \in {"updating", "adding", "committing", "orphaned"}

\* What a user was granted was once on the account, and so is no more than all
\* that was ever credited, though others may have spent it by now.
GrantInv ==
  \A w \in Withdrawals :
    Granted(w) => exists[UserOf[w]] /\ Sum[w] <= Credited(UserOf[w])

\* The columns against the credits and the history; who has no row has nothing.
SumInv ==
  \A u \in Users :
    /\ ~exists[u] => current[u] = 0 /\ withdrawn[u] = 0
    /\ current[u] + withdrawn[u] = Credited(u)
    /\ withdrawn[u] = Recorded(u)
    /\ IsFiniteSet(WithdrawalHistory(u))

MoneyInv == SumInv /\ GrantInv


LEMMA FiniteCredits ==
  \A u \in Users : IsFiniteSet(CreditsOf(u)) /\ CreditsOf(u) \subseteq Calls
<1>1. ASSUME NEW u \in Users PROVE CreditsOf(u) \in SUBSET Calls
  BY DEF CreditsOf, Calls
<1> QED BY <1>1, LedgerAssumption, FS_Subset

LEMMA CreditedType == \A u \in Users : Credited(u) \in Int
<1> SUFFICES ASSUME NEW u \in Users PROVE Credited(u) \in Int
  OBVIOUS
<1>1. IsFiniteSet(CreditsOf(u)) /\ \A c \in CreditsOf(u) : Sum[c] \in Int
  BY FiniteCredits, Sums
<1>2. CreditsOf(u) \in SUBSET CreditsOf(u)
  OBVIOUS
<1> QED BY <1>1, <1>2, SumType DEF Credited

LEMMA MoneyInit == Init => MoneyInv
<1> SUFFICES ASSUME Init PROVE MoneyInv
  OBVIOUS
<1>1. ASSUME NEW u \in Users
      PROVE  /\ Credited(u) = 0 /\ Recorded(u) = 0
             /\ IsFiniteSet(WithdrawalHistory(u))
  <2>1. CreditsOf(u) = {} /\ WithdrawalHistory(u) = {}
    BY DEF Init, CreditsOf, WithdrawalHistory, Calls
  <2>2. DOMAIN [e \in WithdrawalHistory(u) |-> e.sum] = WithdrawalHistory(u)
    OBVIOUS
  <2> QED BY <2>1, <2>2, SumEmpty, FS_EmptySet DEF Credited, Recorded, SumFunction
<1>2. SumInv
  BY <1>1 DEF Init, SumInv
<1>3. GrantInv
  BY DEF Init, GrantInv, Granted, Calls
<1> QED BY <1>2, <1>3 DEF MoneyInv

\* The tables and the credits stay: a withdrawal is granted only what is there.
LEMMA MoneySame ==
  ASSUME Inv, MoneyInv, UNCHANGED tables,
         \A c \in Credits : call'[c] = "done" <=> call[c] = "done",
         \A w \in Withdrawals : Granted(w)' => Granted(w) \/ Enough(w)
  PROVE  MoneyInv'
<1> USE DEF tables
<1>1. \A u : CreditsOf(u)' = CreditsOf(u)
  BY DEF CreditsOf
<1>2. \A u : Credited(u)' = Credited(u)
  BY <1>1 DEF Credited
<1>3. \A u : WithdrawalHistory(u)' = WithdrawalHistory(u) /\ Recorded(u)' = Recorded(u)
  BY DEF WithdrawalHistory, Recorded
<1>4. SumInv'
  BY <1>2, <1>3 DEF MoneyInv, SumInv
<1>5. ASSUME NEW w \in Withdrawals, Enough(w) PROVE Sum[w] <= Credited(UserOf[w])
  <2>1. UserOf[w] \in Users /\ Sum[w] \in Int
    BY Constants, Sums
  <2>2. /\ current[UserOf[w]] \in Int /\ withdrawn[UserOf[w]] \in Nat
        /\ current[UserOf[w]] + withdrawn[UserOf[w]] = Credited(UserOf[w])
    BY <2>1, Constants DEF Inv, TypeOK, MoneyInv, SumInv
  <2> QED BY <1>5, <2>1, <2>2 DEF Enough
<1>6. GrantInv'
  BY <1>2, <1>5 DEF MoneyInv, GrantInv, Enough
<1> QED BY <1>4, <1>6 DEF MoneyInv

\* What is added to a history is added to its sum.
LEMMA RecordedAdd ==
  ASSUME NEW H, IsFiniteSet(H), NEW r, r \notin H, \A e \in H \cup {r} : e.sum \in Int
  PROVE  SumFunction([e \in H \cup {r} |-> e.sum]) = SumFunction([e \in H |-> e.sum]) + r.sum
<1> DEFINE f == [e \in H |-> e.sum]
           g == [e \in H \cup {r} |-> e.sum]
<1>1. \A e \in H : f[e] \in Int /\ f[e] = g[e]
  OBVIOUS
<1>2. (\A e \in H \cup {r} : g[e] \in Int) /\ g[r] = r.sum
  OBVIOUS
<1>3. DOMAIN f = H /\ DOMAIN g = H \cup {r}
  OBVIOUS
<1> HIDE DEF f, g
<1>4. SumFunctionOnSet(g, H \cup {r}) = SumFunctionOnSet(g, H) + g[r]
  BY <1>2, SumAdd
<1>5. SumFunctionOnSet(f, H) = SumFunctionOnSet(g, H)
  BY <1>1, SumSame
<1> QED BY <1>2, <1>3, <1>4, <1>5 DEF SumFunction, f, g


\* A commit takes from the account what it adds to the withdrawn total and to the
\* history: its key is free, so the row is a new one.
LEMMA MoneyCommit ==
  ASSUME Inv, MoneyInv, NEW w \in Withdrawals, NEW place \in {"committed", "broken"},
         TakesEffect(w, place)
  PROVE  MoneyInv'
<1> USE DEF Apply, GoTo, TakesEffect, Added
<1> DEFINE r == [order |-> OrderOf[w], sum |-> Sum[w]]
           a == UserOf[w]
<1>1. /\ a \in Users /\ Sum[w] \in Int /\ ~KeyTaken(w) /\ exists[a]
      /\ current[a] \in Int /\ withdrawn[a] \in Int
      /\ call \in [Calls -> Places] /\ w \in Calls /\ w \notin Credits
  BY Constants, Sums DEF Inv, TypeOK, WithdrawalInv, MoneyInv, GrantInv, Granted
<1>2. \A u \in Users : /\ current'[u] = IF u = a THEN current[u] - Sum[w] ELSE current[u]
                       /\ withdrawn'[u] = IF u = a THEN withdrawn[u] + Sum[w] ELSE withdrawn[u]
  BY DEF Inv, TypeOK
<1>3. \A u : CreditsOf(u)' = CreditsOf(u)
  BY <1>1 DEF CreditsOf, Calls
<1>4. \A u : Credited(u)' = Credited(u)
  BY <1>3 DEF Credited
<1>5. \A e \in history : e.sum \in Int
  BY Constants, Sums DEF Inv, TypeOK, Entry
<1>6. \A u \in Users : u # a => WithdrawalHistory(u)' = WithdrawalHistory(u)
  BY DEF WithdrawalHistory, Entry
<1>7. WithdrawalHistory(a)' = WithdrawalHistory(a) \cup {r} /\ r \notin WithdrawalHistory(a)
  <2>1. WithdrawalHistory(a)' = WithdrawalHistory(a) \cup {r}
    <3>1. {h \in history' : h.user = a} = {h \in history : h.user = a} \cup {Entry(w)}
      BY DEF Entry
    <3>2. r = [order |-> Entry(w).order, sum |-> Entry(w).sum]
      BY DEF Entry
    <3> HIDE DEF r
    <3> QED BY <3>1, <3>2 DEF WithdrawalHistory
  <2>2. r \notin WithdrawalHistory(a)
    BY <1>1 DEF WithdrawalHistory, KeyTaken
  <2> QED BY <2>1, <2>2
<1>8. \A u \in Users : IsFiniteSet(WithdrawalHistory(u))'
  BY <1>6, <1>7, FS_AddElement DEF MoneyInv, SumInv
<1>9. \A u \in Users : Recorded(u)' = IF u = a THEN Recorded(u) + Sum[w] ELSE Recorded(u)
  <2>1. \A u \in Users : u # a => Recorded(u)' = Recorded(u)
    BY <1>6 DEF Recorded
  <2>2. Recorded(a)' = Recorded(a) + Sum[w]
    <3>1. \A e \in WithdrawalHistory(a) \cup {r} : e.sum \in Int
      BY <1>1, <1>5 DEF WithdrawalHistory
    <3>2. SumFunction([e \in WithdrawalHistory(a) \cup {r} |-> e.sum])
            = SumFunction([e \in WithdrawalHistory(a) |-> e.sum]) + r.sum
      BY <1>1, <1>7, <3>1, RecordedAdd DEF MoneyInv, SumInv
    <3> QED BY <1>7, <3>2 DEF Recorded
  <2> QED BY <2>1, <2>2
<1>10. SumInv'
  <2> SUFFICES ASSUME NEW u \in Users
               PROVE  /\ ~exists[u] => current'[u] = 0 /\ withdrawn'[u] = 0
                      /\ current'[u] + withdrawn'[u] = Credited(u)
                      /\ withdrawn'[u] = Recorded(u)'
    BY <1>4, <1>8 DEF SumInv
  <2>1. /\ ~exists[u] => current[u] = 0 /\ withdrawn[u] = 0
        /\ current[u] + withdrawn[u] = Credited(u)
        /\ withdrawn[u] = Recorded(u)
    BY DEF MoneyInv, SumInv
  <2>2. CASE u = a
    <3>1. /\ current'[u] = current[u] - Sum[w] /\ withdrawn'[u] = withdrawn[u] + Sum[w]
          /\ exists[u] /\ current[u] \in Int /\ withdrawn[u] \in Int /\ Sum[w] \in Int
      BY <1>1, <1>2, <2>2
    <3>2. Recorded(u)' = Recorded(u) + Sum[w]
      BY <1>9, <2>2, Zenon
    <3> QED BY <2>1, <3>1, <3>2
  <2>3. CASE u # a
    BY <1>2, <1>9, <2>1, <2>3
  <2> QED BY <2>2, <2>3
<1>11. GrantInv'
  BY <1>1, <1>4 DEF MoneyInv, GrantInv, Granted
<1> QED BY <1>10, <1>11 DEF MoneyInv

\* A credit adds to the account what it adds to the credits.
LEMMA MoneyCredit ==
  ASSUME Inv, MoneyInv, NEW c \in Credits, call[c] = "idle", Upsert(c), GoTo(c, "done")
  PROVE  MoneyInv'
<1> USE DEF Upsert, GoTo
<1> DEFINE a == UserOf[c]
<1>1. /\ a \in Users /\ Sum[c] \in Int /\ Sum[c] >= 0 /\ c \in Calls
      /\ current[a] \in Int /\ withdrawn[a] \in Int /\ call \in [Calls -> Places]
      /\ \A w \in Withdrawals : w # c
  BY Constants, Sums DEF Inv, TypeOK
<1>2. \A u \in Users : /\ current'[u] = IF u = a THEN current[u] + Sum[c] ELSE current[u]
                       /\ exists'[u] = (u = a \/ exists[u])
  BY DEF Inv, TypeOK
<1>3. \A u \in Users : u # a => CreditsOf(u)' = CreditsOf(u)
  BY <1>1 DEF CreditsOf, Calls
<1>4. CreditsOf(a)' = CreditsOf(a) \cup {c} /\ c \notin CreditsOf(a)
  BY <1>1 DEF CreditsOf, Calls
<1>5. Credited(a)' = Credited(a) + Sum[c]
  <2>1. IsFiniteSet(CreditsOf(a)) /\ \A d \in CreditsOf(a) \cup {c} : Sum[d] \in Int
    BY <1>1, FiniteCredits, Sums
  <2>2. SumFunctionOnSet(Sum, CreditsOf(a) \cup {c}) = SumFunctionOnSet(Sum, CreditsOf(a)) + Sum[c]
    BY <1>4, <2>1, SumAdd
  <2> QED BY <1>4, <2>2 DEF Credited
<1>6. \A u \in Users : u # a => Credited(u)' = Credited(u)
  BY <1>3 DEF Credited
<1>7. \A u : WithdrawalHistory(u)' = WithdrawalHistory(u) /\ Recorded(u)' = Recorded(u)
  BY DEF WithdrawalHistory, Recorded
<1>8. SumInv'
  <2> SUFFICES ASSUME NEW u \in Users
               PROVE  /\ ~exists'[u] => current'[u] = 0 /\ withdrawn'[u] = 0
                      /\ current'[u] + withdrawn'[u] = Credited(u)'
                      /\ withdrawn'[u] = Recorded(u)'
                      /\ IsFiniteSet(WithdrawalHistory(u))'
    BY DEF SumInv
  <2>1. /\ ~exists[u] => current[u] = 0 /\ withdrawn[u] = 0
        /\ current[u] + withdrawn[u] = Credited(u)
        /\ withdrawn[u] = Recorded(u)
        /\ IsFiniteSet(WithdrawalHistory(u))
    BY DEF MoneyInv, SumInv
  <2>2. withdrawn' = withdrawn
    OBVIOUS
  <2>3. CASE u = a
    <3>1. current'[u] = current[u] + Sum[c] /\ exists'[u]
      BY <1>2, <2>3
    <3>2. Credited(u)' = Credited(u) + Sum[c]
      BY <1>5, <2>3, Zenon
    <3>3. current[u] \in Int /\ withdrawn[u] \in Int /\ Sum[c] \in Int
      BY <1>1, <2>3
    <3>4. current'[u] + withdrawn'[u] = Credited(u)'
      BY <2>1, <2>2, <3>1, <3>2, <3>3
    <3> QED BY <1>7, <2>1, <2>2, <3>1, <3>4
  <2>4. CASE u # a
    BY <1>2, <1>6, <1>7, <2>1, <2>2, <2>4
  <2> QED BY <2>3, <2>4
<1>9. \A u \in Users : Credited(u) <= Credited(u)'
  BY <1>1, <1>5, <1>6, CreditedType
<1>10. ASSUME NEW w \in Withdrawals, Granted(w)'
       PROVE  exists'[UserOf[w]] /\ Sum[w] <= Credited(UserOf[w])'
  <2>1. Granted(w) /\ UserOf[w] \in Users /\ Sum[w] \in Int
    BY <1>1, <1>10, Constants, Sums DEF Granted, Calls
  <2>2. exists[UserOf[w]] /\ Sum[w] <= Credited(UserOf[w])
    BY <2>1 DEF MoneyInv, GrantInv
  <2>3. Credited(UserOf[w]) \in Int /\ Credited(UserOf[w])' \in Int
    BY <1>1, <1>5, <1>6, <2>1, CreditedType
  <2> QED BY <1>2, <1>9, <2>1, <2>2, <2>3
<1>11. GrantInv'
  BY <1>10 DEF GrantInv
<1> QED BY <1>8, <1>11 DEF MoneyInv

\* A step of a withdrawal leaves the other calls where they are.
LEMMA OthersStay ==
  ASSUME call \in [Calls -> Places], NEW w \in Withdrawals, Withdrawing(w)
  PROVE  \A c \in Calls : c # w => call'[c] = call[c]
  BY DEF Withdrawing, Begin, Read, Withdraw, Add, Commit, Succeed, Fail, CommitUnknown, EndOrphan,
         Answer, GoTo

\* It is granted its sum only when it has found it covered.
LEMMA GrantedWhenRead ==
  ASSUME call \in [Calls -> Places], NEW w \in Withdrawals, Withdrawing(w), Granted(w)'
  PROVE  Granted(w) \/ Enough(w)
<1> USE Constants DEF Granted, Answer, GoTo
<1>1. CASE Begin(w) \/ Read(w)
  BY <1>1 DEF Begin, Read
<1>2. CASE ~(Begin(w) \/ Read(w))
  BY <1>2 DEF Withdrawing, Withdraw, Add, Commit, Succeed, Fail, CommitUnknown, EndOrphan
<1> QED BY <1>1, <1>2

\* It writes all that it has to write, or nothing.
LEMMA EffectOrSame ==
  ASSUME NEW w \in Withdrawals, Withdrawing(w)
  PROVE  \/ \E place \in {"committed", "broken"} : TakesEffect(w, place)
         \/ UNCHANGED tables
<1>1. CASE Commit(w) \/ EndOrphan(w)
  BY <1>1, EffectCases
<1>2. CASE ~(Commit(w) \/ EndOrphan(w))
  BY <1>2 DEF Withdrawing, Begin, Read, Withdraw, Add, Succeed, Fail, CommitUnknown
<1> QED BY <1>1, <1>2

LEMMA MoneyNext == Inv /\ MoneyInv /\ [Next]_vars => MoneyInv'
<1> SUFFICES ASSUME Inv, MoneyInv, [Next]_vars PROVE MoneyInv'
  OBVIOUS
<1>1. call \in [Calls -> Places] /\ \A w \in Withdrawals, c \in Credits : w # c
  BY Constants DEF Inv, TypeOK
<1>2. ASSUME NEW w \in Withdrawals, Withdrawing(w) PROVE MoneyInv'
  <2>1. CASE \E place \in {"committed", "broken"} : TakesEffect(w, place)
    BY <2>1, MoneyCommit
  <2>2. CASE UNCHANGED tables
    <3>1. \A c \in Credits : call'[c] = call[c]
      BY <1>1, <1>2, Constants, OthersStay
    <3>2. \A v \in Withdrawals : Granted(v)' => Granted(v) \/ Enough(v)
      <4>1. \A v \in Withdrawals : v # w => (Granted(v)' => Granted(v))
        BY <1>1, <1>2, Constants, OthersStay DEF Granted
      <4> QED BY <1>1, <1>2, <4>1, GrantedWhenRead
    <3> QED BY <2>2, <3>1, <3>2, MoneySame
  <2> QED BY <1>2, <2>1, <2>2, EffectOrSame
<1>3. ASSUME NEW c \in Credits, Increase(c) \/ Overflow(c) \/ IncreaseFails(c)
      PROVE  MoneyInv'
  <2>1. CASE call[c] = "idle" /\ Upsert(c) /\ GoTo(c, "done")
    BY <2>1, MoneyCredit
  <2>2. CASE call[c] = "idle" /\ UNCHANGED tables /\ GoTo(c, "broken")
    <3>1. \A d \in Credits : call'[d] = "done" <=> call[d] = "done"
      BY <1>1, <2>2 DEF GoTo, Calls
    <3>2. \A v \in Withdrawals : Granted(v)' => Granted(v)
      BY <1>1, <2>2 DEF GoTo, Granted, Calls
    <3> QED BY <2>2, <3>1, <3>2, MoneySame
  <2> QED BY <1>3, <2>1, <2>2 DEF Increase, Overflow, IncreaseFails
<1>4. CASE Crash \/ UNCHANGED vars
  <2>1. UNCHANGED tables
    BY <1>4 DEF Crash, vars
  <2>2. \A c \in Credits : call'[c] = "done" <=> call[c] = "done"
    BY <1>1, <1>4 DEF Crash, vars, Calls
  <2>3. \A v \in Withdrawals : Granted(v)' => Granted(v)
    BY <1>1, <1>4 DEF Crash, vars, Granted, Calls
  <2> QED BY <2>1, <2>2, <2>3, MoneySame
<1> QED BY <1>2, <1>3, <1>4 DEF Next

LEMMA MoneyInvariance == Spec => []MoneyInv
  BY MoneyInit, MoneyNext, Invariance, PTL DEF Spec

\* No points appear or vanish: what a user is shown to have and to have withdrawn
\* is the sum of the credits that took effect, however many there are.
THEOREM PointsAreConserved == Spec => []Conservation
<1>1. MoneyInv => Conservation
  BY DEF MoneyInv, SumInv, Conservation, Balance
<1> QED BY <1>1, MoneyInvariance, PTL

\* The withdrawn total that is shown is the sum of the history that is shown.
THEOREM HistoryIsExact == Spec => []HistoryAddsUp
<1>1. MoneyInv => HistoryAddsUp
  BY DEF MoneyInv, SumInv, HistoryAddsUp, Balance
<1> QED BY <1>1, MoneyInvariance, PTL

-----------------------------------------------------------------------------
(* Debits.                                                                  *)

\* What DebitsAreRecorded says of one step.
DebitsRecorded ==
  /\ history \subseteq history'
  /\ \A u \in Users : current'[u] < current[u] =>
       \E e \in history' \ history :
         e.user = u /\ e.sum = current[u] - current'[u] /\ e.sum <= Credited(u)

\* A commit debits its user alone, by the sum of the row it adds.
LEMMA CommitRecords ==
  ASSUME Inv, MoneyInv, NEW w \in Withdrawals, NEW place \in {"committed", "broken"},
         TakesEffect(w, place)
  PROVE  DebitsRecorded
<1> USE DEF Apply, TakesEffect, Added
<1>1. /\ UserOf[w] \in Users /\ Sum[w] \in Int /\ ~KeyTaken(w)
      /\ Sum[w] <= Credited(UserOf[w]) /\ current[UserOf[w]] \in Int
  BY Constants, Sums DEF Inv, TypeOK, WithdrawalInv, MoneyInv, GrantInv, Granted
<1>2. \A u \in Users : /\ current[u] \in Int
                       /\ current'[u] = IF u = UserOf[w] THEN current[u] - Sum[w] ELSE current[u]
  BY Constants DEF Inv, TypeOK
<1>3. Entry(w) \in history' \ history
  BY <1>1 DEF KeyTaken, Entry
<1>4. Entry(w).user = UserOf[w] /\ Entry(w).sum = Sum[w]
  BY DEF Entry
<1>5. ASSUME NEW u \in Users, current'[u] < current[u]
      PROVE  u = UserOf[w] /\ Sum[w] = current[u] - current'[u]
  BY <1>1, <1>2, <1>5
<1> QED BY <1>1, <1>3, <1>4, <1>5 DEF DebitsRecorded

LEMMA StepRecords == Inv /\ MoneyInv /\ [Next]_vars => DebitsRecorded
<1> SUFFICES ASSUME Inv, MoneyInv, [Next]_vars PROVE DebitsRecorded
  OBVIOUS
<1>1. \A u \in Users : current[u] \in Int
  BY Constants DEF Inv, TypeOK
<1>2. CASE UNCHANGED tables
  BY <1>1, <1>2 DEF tables, DebitsRecorded
<1>3. ASSUME NEW w \in Withdrawals, Withdrawing(w) PROVE DebitsRecorded
  BY <1>2, <1>3, CommitRecords, EffectOrSame
<1>4. ASSUME NEW c \in Credits, Upsert(c) PROVE DebitsRecorded
  <2>1. Sum[c] \in Int /\ Sum[c] >= 0
    BY Constants, Sums
  <2>2. \A u \in Users : current'[u] = current[u] \/ current'[u] = current[u] + Sum[c]
    BY <1>4 DEF Upsert, Inv, TypeOK
  <2>3. \A u \in Users : ~(current'[u] < current[u])
    BY <1>1, <2>1, <2>2
  <2> QED BY <1>4, <2>3 DEF Upsert, DebitsRecorded
<1>5. ASSUME NEW c \in Credits, Increase(c) \/ Overflow(c) \/ IncreaseFails(c)
      PROVE  DebitsRecorded
  BY <1>2, <1>4, <1>5 DEF Increase, Overflow, IncreaseFails
<1>6. CASE Crash \/ UNCHANGED vars
  BY <1>2, <1>6 DEF Crash, vars
<1> QED BY <1>3, <1>5, <1>6 DEF Next

\* A balance goes down only together with a new row of the history, of the same
\* sum, and never by more than the user was credited in all; no row is removed.
THEOREM DebitsMatchRows == Spec => DebitsAreRecorded
<1>1. Inv /\ MoneyInv /\ [Next]_vars => [DebitsRecorded]_vars
  BY StepRecords
<1> QED BY <1>1, Invariance, MoneyInvariance, PTL DEF Spec, DebitsAreRecorded, DebitsRecorded
-----------------------------------------------------------------------------
(* What overdraws an account.                                               *)

\* No two withdrawals of a user overlap, from the reading of the balance to the end.
OneAtATime ==
  \A w, v \in Withdrawals : UserOf[w] = UserOf[v] /\ Granted(w) /\ Granted(v) => w = v

\* Then what was granted is still on the account.
CoveredInv ==
  /\ NoOverdraft
  /\ \A w \in Withdrawals : Granted(w) => Sum[w] <= current[UserOf[w]]

LEMMA CoveredInit == Init => CoveredInv
  BY Constants DEF Init, CoveredInv, NoOverdraft, Granted, Calls

\* A commit takes what nobody else of the user was granted.
LEMMA CoveredCommit ==
  ASSUME Inv, CoveredInv, OneAtATime, NEW w \in Withdrawals,
         NEW place \in {"committed", "broken"}, TakesEffect(w, place)
  PROVE  CoveredInv'
<1> USE Constants, Sums DEF Apply, GoTo, TakesEffect, Added
<1>1. /\ UserOf[w] \in Users /\ Sum[w] \in Int /\ current[UserOf[w]] \in Int
      /\ Sum[w] <= current[UserOf[w]]
  BY DEF Inv, TypeOK, CoveredInv, Granted
<1>2. \A u \in Users : current'[u] = IF u = UserOf[w] THEN current[u] - Sum[w] ELSE current[u]
  BY DEF Inv, TypeOK
<1>3. NoOverdraft'
  BY <1>1, <1>2 DEF CoveredInv, NoOverdraft
<1>4. \A v \in Withdrawals : Granted(v)' => Granted(v) /\ UserOf[v] # UserOf[w]
  BY DEF Inv, TypeOK, Granted, OneAtATime
<1>5. \A v \in Withdrawals : Granted(v)' => Sum[v] <= current'[UserOf[v]]
  BY <1>2, <1>4 DEF CoveredInv
<1> QED BY <1>3, <1>5 DEF CoveredInv

LEMMA CoveredNext == Inv /\ CoveredInv /\ OneAtATime /\ [Next]_vars => CoveredInv'
<1> SUFFICES ASSUME Inv, CoveredInv, OneAtATime, [Next]_vars PROVE CoveredInv'
  OBVIOUS
<1>1. /\ call \in [Calls -> Places] /\ \A w \in Withdrawals, c \in Credits : w # c
      /\ \A u \in Users : current[u] \in Int
      /\ \A w \in Withdrawals : UserOf[w] \in Users /\ Sum[w] \in Int
  BY Constants, Sums DEF Inv, TypeOK
<1>2. ASSUME UNCHANGED tables,
             \A w \in Withdrawals : Granted(w)' => Granted(w) \/ Enough(w)
      PROVE  CoveredInv'
  BY <1>2 DEF tables, CoveredInv, NoOverdraft, Enough
<1>3. ASSUME NEW w \in Withdrawals, Withdrawing(w) PROVE CoveredInv'
  <2>1. CASE \E place \in {"committed", "broken"} : TakesEffect(w, place)
    BY <2>1, CoveredCommit
  <2>2. CASE UNCHANGED tables
    <3>1. \A v \in Withdrawals : Granted(v)' => Granted(v) \/ Enough(v)
      <4>1. \A v \in Withdrawals : v # w => (Granted(v)' => Granted(v))
        BY <1>1, <1>3, Constants, OthersStay DEF Granted
      <4> QED BY <1>1, <1>3, <4>1, GrantedWhenRead
    <3> QED BY <1>2, <2>2, <3>1
  <2> QED BY <1>3, <2>1, <2>2, EffectOrSame
<1>4. ASSUME NEW c \in Credits, Upsert(c), GoTo(c, "done") PROVE CoveredInv'
  <2>1. Sum[c] \in Int /\ Sum[c] >= 0
    BY Constants, Sums
  <2>2. \A u \in Users : current[u] <= current'[u] /\ current'[u] \in Int
    <3>1. \A u \in Users : current'[u] = current[u] \/ current'[u] = current[u] + Sum[c]
      BY <1>4 DEF Upsert, Inv, TypeOK
    <3> QED BY <1>1, <2>1, <3>1
  <2>3. \A w \in Withdrawals : Granted(w)' => Granted(w)
    BY <1>1, <1>4 DEF GoTo, Granted, Calls
  <2>4. NoOverdraft'
    BY <1>1, <2>2 DEF CoveredInv, NoOverdraft
  <2>5. \A w \in Withdrawals : Granted(w)' => Sum[w] <= current'[UserOf[w]]
    BY <1>1, <2>2, <2>3 DEF CoveredInv
  <2> QED BY <2>4, <2>5 DEF CoveredInv
<1>5. ASSUME NEW c \in Credits, Increase(c) \/ Overflow(c) \/ IncreaseFails(c)
      PROVE  CoveredInv'
  <2>1. CASE Upsert(c) /\ GoTo(c, "done")
    BY <1>4, <2>1
  <2>2. CASE UNCHANGED tables /\ GoTo(c, "broken")
    <3>1. \A w \in Withdrawals : Granted(w)' => Granted(w)
      BY <1>1, <2>2 DEF GoTo, Granted, Calls
    <3> QED BY <1>2, <2>2, <3>1
  <2> QED BY <1>5, <2>1, <2>2 DEF Increase, Overflow, IncreaseFails
<1>6. CASE Crash \/ UNCHANGED vars
  <2>1. UNCHANGED tables
    BY <1>6 DEF Crash, vars
  <2>2. \A w \in Withdrawals : Granted(w)' => Granted(w)
    BY <1>1, <1>6 DEF Crash, vars, Granted, Calls
  <2> QED BY <1>2, <2>1, <2>2
<1> QED BY <1>3, <1>5, <1>6 DEF Next

\* An account is overdrawn by withdrawals of its user that overlap, and by nothing
\* else: while a user makes one at a time, whatever other users, credits,
\* failing calls and crashes do, the balance stays at zero or above.
THEOREM OverdraftTakesOverlap == Spec /\ []OneAtATime => []NoOverdraft
<1>1. CoveredInv => NoOverdraft
  BY DEF CoveredInv
<1> QED BY <1>1, CoveredInit, CoveredNext, Invariance, PTL DEF Spec
=============================================================================
