--------------------------- MODULE BalanceLedger ---------------------------
(***************************************************************************)
(* The loyalty account: balance/service.go with its two repositories over   *)
(* PostgreSQL.  Withdraw runs in a READ COMMITTED transaction that reads    *)
(* the balance without a lock, updates it, adds the withdrawal to the       *)
(* history and commits; Increase is one statement.  The UPDATE locks the    *)
(* user's row until the transaction ends and changes what is committed by   *)
(* then; what it writes is seen by others from the commit on.  Balances are *)
(* INT columns: a statement whose result does not fit fails.                *)
(***************************************************************************)
EXTENDS Money, FiniteSets, Functions

CONSTANTS
  Users,
  Withdrawals,  \* the calls of Withdraw
  Credits,      \* the calls of Increase: one per processed order
  UserOf,       \* whose account each call is about
  OrderOf,      \* the order number of each withdrawal
  ValidOrders,  \* the numbers that pass the Luhn check
  Asked,        \* the sum in its JSON, in hundredths: a withdrawal's, an accrual's
  MaxInt,       \* the largest INT: 2^31 - 1
  MaxFaults     \* bound: how many database calls fail

Calls == Withdrawals \cup Credits

ASSUME LedgerAssumption ==
  /\ UserOf \in [Calls -> Users]
  /\ Asked \in [Calls -> Int]
  /\ \A c \in Credits : Asked[c] >= 0
  /\ MaxInt \in Nat
  /\ Withdrawals \cap Credits = {}
  /\ IsFiniteSet(Calls)
  /\ DOMAIN OrderOf = Withdrawals
  /\ MaxFaults \in Nat

VARIABLES
  exists,     \* the user has a row in balances
  current,    \* balances.current
  withdrawn,  \* balances.withdrawn
  history,    \* the rows of withdrawals
  call,       \* where each call is
  answer,     \* the response code of each withdrawal
  faults      \* how many database calls failed

tables == <<exists, current, withdrawn, history>>
vars == <<tables, call, answer, faults>>

\* What each call asks for, as the handler or the poller passes it on.
Sum == [c \in Calls |-> FloatToInt(Asked[c])]

\* A row of withdrawals, its primary key first.
Entry(w) == [user |-> UserOf[w], order |-> OrderOf[w], sum |-> Sum[w]]

\* "orphaned": the COMMIT was sent and the call does not hear of it; "broken": the
\* program died, or nobody is left to hear of the call.
Places == {"idle", "reading", "updating", "adding", "committing", "committed",
           "orphaned", "done", "broken"}

\* Mutant: wider columns than the schema has.
FitsAlways(x) == TRUE

\* An INT can hold x.
Fits(x) == -MaxInt - 1 <= x /\ x <= MaxInt

TypeOK ==
  /\ exists \in [Users -> BOOLEAN]
  /\ current \in [Users -> -MaxInt - 1 .. MaxInt]
  /\ withdrawn \in [Users -> 0 .. MaxInt]
  /\ history \subseteq {Entry(w) : w \in Withdrawals}
  /\ call \in [Calls -> Places]
  /\ answer \in [Withdrawals -> {"none", "200", "400", "402", "422", "500"}]
  /\ faults \in 0 .. MaxFaults

Init ==
  /\ exists = [u \in Users |-> FALSE]
  /\ current = [u \in Users |-> 0]
  /\ withdrawn = [u \in Users |-> 0]
  /\ history = {}
  /\ call = [c \in Calls |-> "idle"]
  /\ answer = [w \in Withdrawals |-> "none"]
  /\ faults = 0

\* Mutant: the deferred Rollback is missing, a failed transaction keeps its row.
HoldsAfterFailure(w) ==
  call[w] \in {"adding", "committing", "orphaned"} \/ answer[w] = "500"

\* The transaction has updated the row, and is not over: Commit or the deferred
\* Rollback lets go of it, or the server that has lost its client.
Holds(w) == call[w] \in {"adding", "committing", "orphaned"}

Locked(u) == \E w \in Withdrawals : UserOf[w] = u /\ Holds(w)

Fault == faults < MaxFaults /\ faults' = faults + 1

Answer(w, code) ==
  /\ call' = [call EXCEPT ![w] = "done"]
  /\ answer' = [answer EXCEPT ![w] = code]

GoTo(c, place) == call' = [call EXCEPT ![c] = place] /\ UNCHANGED answer

-----------------------------------------------------------------------------
ValidSum(w) == Sum[w] > 0

\* The checks of the arguments, and StartTransaction.
Begin(w) ==
  /\ call[w] = "idle"
  /\ IF OrderOf[w] \notin ValidOrders THEN Answer(w, "422")
     ELSE IF ValidSum(w) THEN GoTo(w, "reading") ELSE Answer(w, "400")
  /\ UNCHANGED <<tables, faults>>

\* Mutant: a balance is enough if there is one.
EnoughUnchecked(w) == exists[UserOf[w]]

\* The row is found and the sum is covered.
Enough(w) == exists[UserOf[w]] /\ Sum[w] <= current[UserOf[w]]

\* repo.Get, with no lock, and the comparison with the sum.
Read(w) ==
  /\ call[w] = "reading"
  /\ IF Enough(w)
     THEN GoTo(w, "updating")
     ELSE Answer(w, "402")
  /\ UNCHANGED <<tables, faults>>

\* The two columns have room for the withdrawal.
RoomFor(w) ==
  /\ Fits(current[UserOf[w]] - Sum[w])
  /\ Fits(withdrawn[UserOf[w]] + Sum[w])

\* repo.Withdraw waits for the row's lock.
Withdraw(w) ==
  /\ call[w] = "updating"
  /\ ~Locked(UserOf[w])
  /\ IF RoomFor(w) THEN GoTo(w, "adding") ELSE Answer(w, "500")
  /\ UNCHANGED <<tables, faults>>

\* Mutant: the table has no primary key.
KeyNeverTaken(w) == FALSE

KeyTaken(w) ==
  \E e \in history : e.user = UserOf[w] /\ e.order = OrderOf[w]

\* withdrawalsRepo.Add: a second withdrawal for the order violates the key.
Add(w) ==
  /\ call[w] = "adding"
  /\ IF KeyTaken(w) THEN Answer(w, "500") ELSE GoTo(w, "committing")
  /\ UNCHANGED <<tables, faults>>

\* What the transaction wrote takes effect.
Apply(w) ==
  /\ current' = [current EXCEPT ![UserOf[w]] = @ - Sum[w]]
  /\ withdrawn' = [withdrawn EXCEPT ![UserOf[w]] = @ + Sum[w]]
  /\ history' = history \cup {Entry(w)}
  /\ UNCHANGED exists

\* Mutant: Commit is not called, and the deferred Rollback undoes everything.
CommitForgotten(w) ==
  /\ call[w] = "committing"
  /\ GoTo(w, "committed")
  /\ UNCHANGED <<tables, faults>>

\* tx.Commit takes effect; the answer is on its way.
Commit(w) ==
  /\ call[w] = "committing"
  /\ Apply(w)
  /\ GoTo(w, "committed")
  /\ UNCHANGED faults

Succeed(w) ==
  /\ call[w] = "committed"
  /\ Answer(w, "200")
  /\ UNCHANGED <<tables, faults>>

\* A database call fails and the deferred Rollback ends the transaction.
Fail(w) ==
  /\ call[w] \in {"idle", "reading", "updating", "adding", "committing"}
  /\ call[w] = "idle" => OrderOf[w] \in ValidOrders /\ ValidSum(w)
  /\ Fault
  /\ Answer(w, "500")
  /\ UNCHANGED tables

\* The COMMIT, or the answer to it, is lost with the connection.
CommitUnknown(w) ==
  /\ call[w] = "committing"
  /\ Fault
  /\ call' = [call EXCEPT ![w] = "orphaned"]
  /\ answer' = [answer EXCEPT ![w] = "500"]
  /\ UNCHANGED tables

\* The server ends a transaction whose client is gone: the COMMIT has reached it,
\* and takes effect whether or not anybody waits, or it rolls back.
EndOrphan(w) ==
  /\ call[w] = "orphaned"
  /\ Apply(w) \/ UNCHANGED tables
  /\ GoTo(w, "broken")
  /\ UNCHANGED faults

-----------------------------------------------------------------------------
\* Mutant: the row is overwritten on conflict.
UpsertOverwrites(c) ==
  /\ ~Locked(UserOf[c])
  /\ Fits(Sum[c])
  /\ exists' = [exists EXCEPT ![UserOf[c]] = TRUE]
  /\ current' = [current EXCEPT ![UserOf[c]] = Sum[c]]
  /\ UNCHANGED <<withdrawn, history>>

\* The upsert of Increase.
Upsert(c) ==
  /\ ~Locked(UserOf[c])
  /\ Fits(current[UserOf[c]] + Sum[c])
  /\ exists' = [exists EXCEPT ![UserOf[c]] = TRUE]
  /\ current' = [current EXCEPT ![UserOf[c]] = @ + Sum[c]]
  /\ UNCHANGED <<withdrawn, history>>

Increase(c) ==
  /\ call[c] = "idle"
  /\ Upsert(c)
  /\ GoTo(c, "done")
  /\ UNCHANGED faults

\* The credit does not fit; the caller only logs it.
Overflow(c) ==
  /\ call[c] = "idle"
  /\ ~Locked(UserOf[c])
  /\ ~Fits(current[UserOf[c]] + Sum[c])
  /\ GoTo(c, "broken")
  /\ UNCHANGED <<tables, faults>>

\* Failed, without effect or with it; only logged too.
IncreaseFails(c) ==
  /\ call[c] = "idle"
  /\ Fault
  /\ \/ UNCHANGED tables /\ GoTo(c, "broken")
     \/ Upsert(c) /\ GoTo(c, "done")

-----------------------------------------------------------------------------
\* The answers of GET /api/user/balance and /api/user/withdrawals; who was never
\* credited has no row, and a balance of zero.
Balance(u) ==
  IF exists[u] THEN [current |-> current[u], withdrawn |-> withdrawn[u]]
               ELSE [current |-> 0, withdrawn |-> 0]

WithdrawalHistory(u) == {[order |-> e.order, sum |-> e.sum] : e \in {h \in history : h.user = u}}

-----------------------------------------------------------------------------
\* The program dies: open transactions are rolled back, unless the COMMIT was
\* sent already, and a commit that took effect stays without its answer.
Crash ==
  /\ call' = [c \in Calls |->
                IF call[c] = "committing" THEN "orphaned"
                ELSE IF call[c] \in {"reading", "updating", "adding", "committed"} THEN "broken"
                ELSE call[c]]
  /\ UNCHANGED <<tables, answer, faults>>

Withdrawing(w) ==
  \/ Begin(w) \/ Read(w) \/ Withdraw(w) \/ Add(w) \/ Commit(w) \/ Succeed(w)
  \/ Fail(w) \/ CommitUnknown(w) \/ EndOrphan(w)

Next ==
  \/ \E w \in Withdrawals : Withdrawing(w)
  \/ \E c \in Credits : Increase(c) \/ Overflow(c) \/ IncreaseFails(c)
  \/ Crash

Spec == Init /\ [][Next]_vars

-----------------------------------------------------------------------------
(* Properties.                                                              *)

CreditsOf(u) == {c \in Credits : UserOf[c] = u /\ call[c] = "done"}

Credited(u) == SumFunctionOnSet(Sum, CreditsOf(u))

Recorded(u) == SumFunction([e \in WithdrawalHistory(u) |-> e.sum])

\* No points appear or vanish: what a user was credited is on the account or
\* withdrawn from it, as the account is shown, whatever withdrawals and credits
\* overlap, fail at any of their calls or for want of room, or die with the
\* program (balance/service.go:38-53, 76-123, database.go:52-87).
Conservation ==
  \A u \in Users : Balance(u).current + Balance(u).withdrawn = Credited(u)

\* The withdrawn total that is shown is the sum of the history that is shown, so
\* the two statements of a withdrawal take effect together or not at all
\* (balance/service.go:38-53, 104-137).
HistoryAddsUp == \A u \in Users : Balance(u).withdrawn = Recorded(u)

\* 200 says that the withdrawal is recorded, and no other call with the same
\* order got 200.  What is recorded comes from a call that sent its COMMIT, which
\* was answered 200, or 500 with the outcome unknown, or not at all when the program
\* died: never from one that was refused with 400, 402 or 422
\* (balance/service.go:55-126).
AnswersMatchHistory ==
  \A w \in Withdrawals :
    /\ answer[w] = "200" => Entry(w) \in history
    /\ \A v \in Withdrawals :
         answer[w] = "200" /\ answer[v] = "200" /\ UserOf[v] = UserOf[w]
         /\ OrderOf[v] = OrderOf[w] => v = w
    /\ Entry(w) \in history =>
         \E v \in Withdrawals : /\ Entry(v) = Entry(w)
                               /\ call[v] \in {"committed", "done", "broken"}
                               /\ answer[v] \notin {"400", "402", "422"}

\* A balance goes down only by a withdrawal that is added to the history in the
\* same step and is not larger than what the user was ever credited; the
\* history only grows (balance/service.go:104-119).
DebitsAreRecorded ==
  [][/\ history \subseteq history'
     /\ \A u \in Users : current'[u] < current[u] =>
          \E e \in history' \ history :
            e.user = u /\ e.sum = current[u] - current'[u] /\ e.sum <= Credited(u)]_vars

\* A withdrawal that has begun comes to its end: it waits for the row of its user,
\* and who holds it lets go of it, by Commit, by the deferred Rollback of whatever
\* failed, or by the server's end of a lost connection (balance/service.go:71-125).
WithdrawalsEnd ==
  \A w \in Withdrawals : call[w] = "reading" ~> call[w] \in {"done", "broken"}

\* A withdrawal of more than the balance is refused, "402 - there are not enough
\* points on the account" (SPECIFICATION.md:265, balance/service.go:97-101): so no
\* account is overdrawn.
NoOverdraft == \A u \in Users : current[u] >= 0
=============================================================================
