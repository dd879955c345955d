# gophermart-loyalty: models and proofs

TLA+ models of the loyalty service in this repository: the poller that asks the
accrual service about orders, the life of an order from its upload to the credit
on the user's account, the account's ledger, the two together, and users, their
tokens and the secrets behind them. TLC checks them on small
instances; TLAPS proves the main safety properties for every value of the
constants. Paths below are relative to the repository; the line of code behind
each definition is in `PROJECT.json` under `map`.

## The system

| Part | Code | State | Operations |
|---|---|---|---|
| Accrual poller | `internal/service/order/accrual` | task list under a mutex, tasks with attempts and last announced status, one result channel per task, rate limiter | `Enqueue`, `processTask` on pool workers, retry timers, `tuneRateLimiting`, `Close` |
| Goroutine pool | `internal/support/pool` over ants v2 | capacity, busy and parked goroutines | `Submit` (blocks when full), `Tune`, `Close` |
| Order service | `internal/service/order` | one listener goroutine per feed | `Upload`, `AddToProcessQueue`, `listenAccrualResults`, `List` |
| Orders repository | `internal/storage/order` | table `orders` | `Add`, `Update`, `GetOwner`, `GetUnprocessedOrders`, `List` |
| Event bus | `internal/support/event` | subscriber, goroutines started by `Publish` | `Subscribe`, `Publish`, `Unsubscribe`, `Release` |
| Balance service | `internal/service/balance` | none | `Withdraw`, `onOrderProcessed`, `Get`, `WithdrawalHistory` |
| Ledger repositories | `internal/storage/balance`, `.../withdrawals`, `internal/support/transaction` | tables `balances`, `withdrawals` | `Get`, `Increase`, `Withdraw`, `Add`, `List`, transactions |
| User service | `internal/service/user`, `internal/storage/user` | tables `users`, `secrets` | `Register`, `Login`, `ParseToken`, secrets |
| Program | `cmd/gophermart/main.go` | what is up | start, requeueing of orders, shutdown in deferred calls |
| Transport | `internal/transport` | none | routes, handlers, authentication |

How they interact: a handler calls `Upload`, which looks the number up, stores
the order and calls `Enqueue`; `Enqueue` submits the task to the pool and returns
a channel, from which a new goroutine of the order service writes each result to
the table. A result PROCESSED is published on the bus after it was written, and
a goroutine of the bus adds the accrual to the balance. On start the program
reads the orders that have no final status and enqueues them again, then
subscribes the balance service, then serves. On a signal it stops the server,
unsubscribes the balance service, closes the poller, closes the database, waits
for the bus. Withdrawals are transactions of their own.

What is hard about it: `Enqueue` waits for a worker while it holds the mutex that
workers need; a worker may end before its task is listed; `Close` does not wait
for workers; three kinds of timers; the pool is resized and the rate changed in
operation; results wait in channels while others are written; a credit follows a
write with nothing persistent between the two; every database call can fail
before or after it took effect; the program can die at any point; withdrawals
overlap. `PROJECT.json` lists each hazard at its line with the properties that
are about it.

## Modules

| Module | What it is |
|---|---|
| `OrderStatus` | statuses of orders and of the accrual service, and the conversion between them |
| `RateLimitReply` | how a 429 response is read: `parseRateLimitedResponse` and the division that follows |
| `AccrualFeed` | abstract specification: what a channel returned by `Enqueue` promises to its reader |
| `AccrualPoller` | the poller in detail: mutex, pool, workers, limiter, timers, `Close` |
| `AccrualPollerProofs` | inductive invariant and theorems about `AccrualPoller` |
| `AccrualPollerRefinement` | proof that `AccrualPoller` implements `AccrualFeed` |
| `OrderProcessing` | uploads, orders table, listeners, bus, credits, start, shutdown, crash; composes with `AccrualFeed` as its poller |
| `OrderProcessingProofs` | inductive invariant and theorems about `OrderProcessing` |
| `OrderLife` | abstract specification: what the service promises of an order number and its credit |
| `OrderProcessingRefinement` | proof that `OrderProcessing` implements `OrderLife` |
| `Money` | the conversion of sums, `FloatToInt`, to the hundredth |
| `BalanceLedger` | withdrawals in READ COMMITTED transactions, credits, and what users are shown |
| `BalanceLedgerProofs` | inductive invariant and theorems about `BalanceLedger` |
| `SumTheorems` | facts about the sum of a function over a finite set, by induction |
| `Loyalty` | composes `OrderLife` with `BalanceLedger`: credits come from orders |
| `LoyaltyProofs` | theorems about the composition |
| `UserAccounts` | registration, login, tokens, and the secrets created or read at the start |
| `UserAccountsProofs` | inductive invariant and theorems about `UserAccounts` |
| `MCAccrualPoller`, `MCOrderProcessing`, `MCBalanceLedger`, `MCLoyalty`, `MCUserAccounts` | instances for TLC |

Definitions named "Mutant" in a comment are variants of the definition below them
with a plausible bug; nothing uses them except the mutation checks of
`PROJECT.json`, which put them in the place of the original to see each property
fail.

### AccrualPoller

An action is what one goroutine does between two points at which another can
matter. `Enqueue` takes the mutex and looks the number up; `EnqueueSubmit`,
`EnqueueFail` and `EnqueueInsert` happen with the mutex held (`LockFree` is what
others wait for). `WaitGranted` and `WaitRefused` are the two results of
`limiter.Wait`, `Response...` those of the request, `Send`, `CloseChan` and
`DeleteSingle` the end of `processTask`. `Panic` is a send on, or a close of, a
channel `Close` has closed; ants recovers it and the rest of `processTask` does
not run. `Close` is `Release` and `CloseChannels`; if it meets a channel already
closed it panics, after any subset of the others, since the order of a map is
arbitrary.

A worker that has given the mutex back in `DeleteSingle` is not free yet: ants counts its
goroutine as running until `processTask` has returned and the goroutine is parked
(`returning`, `ParkWorker`), and one that expires, or whose task panicked, until it has
ended (`leaving`, `Leave`). In between another call can hold the mutex and wait for it.

Outside `src/`: ants (a released pool refuses, also callers it blocks; a finished
goroutine is parked and reused unless the pool is over its capacity; `Tune`
ignores a size below one) and `x/time/rate`. A limiter's tokens are not counted:
with a rate it grants if its burst is 1 and may refuse. With the limit
`SmallestNonzeroFloat64`, which the code installs to block requests, the wait
overflows a `Duration`, and the result depends on the processor: grant or
refuse. With the limit 0 it uses its burst up and then refuses for ever. Timers
fire at any time.

The accrual service (`RemoteAdvance`) keeps a final status
(`SPECIFICATION.md:365`); that a number moves forward only before that is an assumption. Responses are 204 or a status, an error of
any kind, or one of the 429 responses in the constant `Replies`. A 429 with N = 0
is excluded by `PollerAssumption`; in the code it divides by zero.

### AccrualFeed and the refinement

A feed is idle, open, ended (last result sent) or closed. It announces
statuses in rising order, then one final status or one error, then is closed;
`Stop` lets the poller close feeds in the middle. The refinement mapping reads a
feed's state from where the task's worker is and whether the channel is closed;
a status that a worker is about to send is not announced yet.

### OrderProcessing

The poller is `AccrualFeed` with one feed per order number and run of the
program. One is enough since a number is never enqueued twice in a run, which is
what `Enqueueable` says and `NeverRefused` proves. `LoseMemory` is the end of the
process, after the deferred calls (`Exit`) or not (`Crash`): feeds, listeners,
events under way and requests without answer are gone, `owner`, `status` and
`credited` stay. `Crash` also covers what `log.Fatalw` does at the start. A
database call fails before it takes effect (`DBFails`), or after
(`AnswerLost`); after `CloseDB` every call fails. A call that times out and takes
effect later is not modelled. One instance of the program runs at a time.
`List` is what a user is shown, and `StatusForward` is stated over it.

### OrderLife and the refinement

`OrderLife` has three actions: a number is accepted from one user, its status
goes forward in `Rank`, and a PROCESSED order is credited once. `FollowsLife` says
that `OrderProcessing` does nothing else to owners, statuses and credits. The
mapping is the identity on the three variables; the work is in the statuses a
repeated poll writes again (a stutter) and in the event, which is a credit only
because it is the only one of its order. `OrderLife` is then the side of orders in
`Loyalty`, which keeps that composition small.

### BalanceLedger

A withdrawal reads the committed balance without a lock, then its UPDATE waits
for the row's lock, and what it writes becomes visible at the commit. Since the
row is locked from UPDATE to commit, the model applies the writes at the commit.
A failing call rolls back. The commit (`Commit`) and the answer 200 (`Succeed`) are two
steps, and the program may die between them. When the connection is lost with the COMMIT
under way, by an error (`CommitUnknown`, answered 500) or with the program (`Crash`), the
transaction is `orphaned`: it keeps its row until the server commits it or rolls it back
(`EndOrphan`), and nobody hears of it. A crash rolls all other open transactions back. The columns are INTs: a statement whose result
does not fit fails (`Fits`), which for a withdrawal is 500 and for a credit a line in
the log (`Overflow`). `Balance` and `WithdrawalHistory` are the answers of the two
read-only requests.

### Money

A call asks for a number of hundredths (`Asked`), and the ledger works with what
`FloatToInt` makes of it. That is `int64(sum * 100)` on doubles: the decimal is
rounded to a double, the product is rounded again, and the fraction is cut off.
`FallsShort` says when the result is one less: 1.15 becomes 114. It is derived from the
53 bits of a significand (how much the double differs from the decimal, and whether
the rounding of the product makes up for it) and agrees with IEEE arithmetic for every sum
below 2^22 and two million larger ones (in a program that compared them). Accruals in the poller and sums of withdrawals take this way;
`IntToFloat`, the way back, divides by 100 and is read to two decimals.

### Loyalty

An event carries the user and the sum fixed when the order was queued; the model reads the
owner at the credit, which is the same as an owner never changes. `Earn`
is the statement that credits, a step of both sides; `Lose` is the same step failing,
for want of room or with the failing call. A credit is named by an order and a user who may have
uploaded it, so that an order two users upload has two, of which one can be
earned (`IsFor`). Withdrawals, failures and crashes go on as in `BalanceLedger`; events
lost with the process simply never come.

### UserAccounts

`phase` is where `initUserService` is: it reads both secrets (`Start`), creates what
is missing, the token secret first (`CreateSecret`, `CreateSalt`), and serves. A
secret generated in run k of the program is the number k, and 0 is the empty string; a
password's hash is the pair of the password and the salt, collisions of
SHA-256 being left out. `CreateFails` is a failed write, with effect or without, after which
the program ends; `Stop` ends it at any point. A user is known by the login, in
place of the generated id. A registration that has inserted its row goes on to
log in in a step of its own, as the handler does. Requests with no login or too short
a password are the set `Invalid`. A token that expires leaves `tokens`. One instance of
the program runs at a time: two that start on an empty database are not
modelled.

## Runs

| Run | Instance | Shows |
|---|---|---|
| `poller_safety` | two calls for one number, a pool of two, one retry, a 429 with a rate and one without | task list exact, no overlap of tasks of a number, no use of closed channels before `Close`, no listener left, no call of `Enqueue` waits for a running task while there is room for as many as numbers, refinement of `AccrualFeed` |
| `poller_liveness` | the same, 429 of 1 per second, which leaves one worker, fair | every feed ends, every task gets its next request, every call of `Enqueue` returns |
| `poller_deadlock` | two calls for two numbers, 429 of 1 per second, fair | finding: `Enqueue` and a worker wait for each other |
| `poller_stall` | one call, 429 of 100 per minute, fair | finding: the installed limit is 0 and requests stop |
| `poller_overlap` | two calls for two numbers, 429s of 10 per minute | finding: requests go out before the time the last 429 asked for has passed |
| `order_processing` | one number, three uploads by two users, two runs, one failing call, fair | one credit at the most, answers agree, orders followed, statuses go forward, refinement of `OrderLife`; with no failing call, stored orders are settled, and without a restart the credit of a processed order is on its way and is made |
| `order_uncredited` | one upload, two runs, fair | finding: a processed order is never credited |
| `order_invalid` | one upload | finding: INVALID without the accrual service's refusal |
| `loyalty` | two users, two orders, one of which both upload, four withdrawals (two for one order, one of a negative sum), narrow columns, two failing calls, fair | orders, balance, history and answers agree to the hundredth; withdrawals end |
| `ledger_overdraft` | two withdrawals, one credit | finding: the account is overdrawn |
| `accounts_safety` | two logins, four registrations (two of one login with different passwords, one invalid), two logins with them, three runs, one failing call | tokens outlive restarts, one owner per login, only unsalted accounts are locked out |
| `accounts_salt` | one registration, one login, two runs | finding: a registered user cannot log in after a restart |

Bounds. Two tasks of one number are the smallest instance in which tasks of a
number can overlap; two numbers are what the deadlock needs, as one worker and one
caller block each other. One retry (`MaxAttempts` = 1) exercises the retry and its
end. The pool of these two runs has two workers, of which a 429 leaves one: in a wider one a
refused task can come back before its goroutine is parked, any number of times, and the
goroutines would have no bound. The other runs about the poller have the default size of
ants, 2^31 - 1, and the theorems any. `MaxTunings` bounds pending limiter timers of one rate; with it at one, two
kinds of timers still overlap. Orders of different numbers share only the event
bus, the database and the life cycle, so one number with three requests of two users
covers the races of uploads; two runs are one that is cut short anywhere and one that requeues
what it left. Every safety property of that run is proved for any number of runs and
requests; with three runs (614,008 states) TLC finds no error either. In `loyalty`
one user has credits of 1.15 and 0.57, stored as 114 and 56, and withdraws 0.57 twice
for one number and 1.15 for another: each fits after one credit or the other.
`MaxInt` = 150 stands for 2^31 - 1; both credits together exceed it, and so do the
withdrawals, so both columns overflow. A number that fails the Luhn check (422) is left to the proofs:
it ends the call at its first step, as the negative sum does. Two failing calls let a withdrawal and a credit fail in one
behaviour. Two
registrations with different passwords are the smallest race for a login, and three
runs are one that creates the secrets, possibly only one of them, one that completes
them and one that reads both. The theorems remove the
bounds for the properties they name.

Deadlock is not checked: the program may stop, and requests are finitely many.

## Fairness

`AccrualPoller`: a goroutine that can go on does (weak fairness of workers, of
calls of `Enqueue` that have begun, of listeners, of timers, and of the pool's goroutines that
are to be parked or to end), which is what the
Go scheduler and runtime timers give. A limiter with a positive rate
is strongly fair to a waiting task: it refuses a wait that would exceed the
deadline, but a retried task does not lose for ever. No fairness for calls of `Enqueue`, the
accrual service, errors, or `Close` beginning. `OrderProcessing`: handlers, listeners,
bus, requeueing at the start and the feeds' ends are weakly fair, the last being
what `FeedLiveness` checks of the poller; `Start` is, since somebody starts the
program again while starts are left. `Loyalty`: the statements of a withdrawal that
has begun return, if only with an error, since their context has a deadline, and the server
ends the transaction of a lost connection. Nothing obliges signals, crashes or database failures; the
liveness properties speak of runs that serve for good in the end.

A note on `poller_liveness` and `poller_deadlock`, which share `EnqueueReturns`: the first run
has one number, so that a pool of one worker is as wide as there are numbers, and there
`Enqueue` returns though it may meet the one goroutine between its task and its parking.
The deadlock needs two numbers and a 429 that leaves one worker. Liveness of `OrderProcessing` therefore holds
as long as the poller keeps its promise, which the findings about the poller limit.

## Findings

Details with the quoted lines are in `PROJECT.json`.

1. `Enqueue` can wait for ever (`poller.go:95`): mutex and pool of one worker.
2. Requests can stop for good after a 429 (`poller.go:219`, `:266`).
3. Timers of two 429s overlap (`poller.go:217`): the first lifts the block that the second has
   renewed. Two requests under way that are both answered 429 are enough; where the blocked limiter grants
   (see above), one after the other.
4. A processed order may never be credited (`service.go:110`, `main.go:72-84`).
5. An order the poller gave up is INVALID for good (`service.go:92`).
6. Overlapping withdrawals overdraw the account (`balance/service.go:98`).
7. Who registers in the program's first run cannot log in after a restart
   (`main.go:167`): the options get the empty salt that was read and not the new one.

## Proofs

All proofs hold for any sets of tasks, numbers, users and requests, any number of
runs, retries and failures, any sums and any width of the columns, under the named assumptions on constants in the
modules (types of the functions, `Nothing` distinct from results, N # 0 in 429
responses, finitely many tasks).

`AccrualPollerProofs`. `TypeOK` is not inductive: `attempts` stays within bounds only
because a task that used its attempts up is never requested again, and
`ListedUntilDone` only because `deleteSingle` waits for the mutex. The invariant
adds that one call at a time is past the lock, that a listed task is the only one
of its number, that attempts bound the places a task can be in, and how a
task's place, its pending result and its channel belong together; the theorems
`TypeCorrect`, `ListedExactly`, `OneTask`, `NoEarlyPanic`, `CloseIsComplete` follow
from it. Three more say what the findings about the poller take. `WideEnoughWaitsForNoTask`: in a pool with
room for as many workers as order numbers asked for, `Enqueue` waits at most for a goroutine whose
task is over and which needs no mutex any more (`WaitsForNoTask`), since the
numbers of busy workers are distinct and none is the caller's (`BusyApart`, from the invariant,
and the pigeonhole principle). That it does not wait at all is not so: with one number and
one worker it can take the mutex that the worker has just given back. `RateIsNeverZero`: the limit becomes zero only after a 429 that is not understood
or names more requests than its unit has seconds; `ZeroRate` computes that from the two
functions of the code. `OverlapLiftsBlock`: while the timers of two 429s do not overlap, no
block is lifted early.

`AccrualPollerRefinement` proves `ImplementsFeed`: `Spec => FeedSafety`. Initial
states map to initial states; one lemma per action shows a step of the feeds
(submission is `Accept`, a send is `Emit` or `EmitLast`, closing is `CloseFeed`,
`Close` is `Stop` and `Abandon`) or a stutter. The invariant is needed for `Accept`
(no other live feed for the number) and for `Emit` (what is sent is later than what was
announced, and no later than what the accrual service has by now).

`OrderProcessingProofs`. `CreditedAtMostOnce` depends on the whole path of a
result. `NumberInv` says, for one number, that the deciding result is in one
place only (channel, listener, event or credit), that the order has no final status
before it is written, and that `inflight + credited` is at most one; `QueueInv`, that an
order about to be queued has no feed and no final status; `AnswerInv`, that one
request at most has stored the order. Theorems: `TypeCorrect`, `NoDoubleCredit`,
`AcceptedOnce`, `NeverRefused` and, as an action property, `OnlyForward`. `NoneForgotten`
needs more: that no order is forgotten holds of the phase in which orders are read as well, and a
feed that has ended has left its result in the channel, with the listener or in the table.
That is `FollowInv`, inductive together with the invariant above. `NoCreditLost` says
that in a program never stopped, and until a database call fails, the credit of a processed
order is made or its event under way; `FirstRunInv` adds to it that nothing is stored before
the first run serves. `InvalidOnlyByError` says that, as long as no channel carries an error,
INVALID means refused; `RefusedInv` follows the result from the channel to the table.

`OrderProcessingRefinement` proves `ImplementsLife`: `Spec => FollowsLife`, with one
lemma for each kind of step that is not a stutter (insertion, write of a status, credit).

`BalanceLedgerProofs`. `TypeOK` says that columns stay in their range, which a commit
keeps only because what the UPDATE found is still so at the commit. `WithdrawalInv`
says what a withdrawal has found out and still holds (a valid sum, room in the columns,
a free key), also when nobody waits for its COMMIT any more; `LockInv`, that one transaction
holds a row, without which another commit could take the room or the key away. `MadeInv` is
about the calls that know their commit took effect, answered or not: each is recorded, once for
its order; `RowInv` says that a recorded row has a call that sent its COMMIT. Theorems:
`TypeCorrect`, `AnswersAreRecorded`. The lemmas
`FloatToIntNear` and `FloatToIntTruncates` bound the conversion for every sum.

The sums need a second invariant, `MoneyInv`. `SumInv` relates the columns to the sum
of the credits that took effect and to the sum of the history; a commit keeps it because its key is
free, so that the set of rows really grows, and a user with no row because nobody can be
granted anything there. That is `GrantInv`, which also says that what was granted is not more
than was ever credited; that it is still on the account does not hold, as others may have spent it
(finding 6). Theorems: `PointsAreConserved`, `HistoryIsExact` and, as an action property,
`DebitsMatchRows`. `OverdraftTakesOverlap` is what is left of `NoOverdraft`: it holds while no user
has two withdrawals between the reading of the balance and the commit, since then
what was granted is still there (`CoveredInv`).

`SumTheorems` has the facts about sums: what one element adds, and how sums of functions that
differ by at most one on each element differ. The library's induction theorems take an operator, which
the provers do not instantiate; an induction here is a least counterexample instead, since the
subsets of a finite set on which a fact fails have a minimal one (`LeastSubset`).

`LoyaltyProofs`. `AccountsAreALedger` and `OrdersLive` show that a behaviour of the
composition is, on each side, one of `BalanceLedger` and of `OrderLife`, so that what is proved of
either holds of the whole. `EarnedIsCredited` joins the two by `LinkInv`: a credit took
effect if and only if its order is its user's and counts as credited.
`PointsComeFromOrders` adds `PointsAreConserved` to it, and the bounds on the
conversion summed over the credits. `AccountsKeepTheirPromises` collects what the ledger's
theorems say of the whole.

`UserAccountsProofs`. `SecretInv` says that past its creation the token secret in use is the
saved one, that every token is signed with it, and that it is written only where there
was none; `SaltInv`, that the salt in use is the saved one or, in the run that creates
it, none, and that stored hashes have one of the two; `OwnerInv`, that who inserted a
login or was let in has the stored password, and that one registration at most
inserted it. Theorems: `TypeCorrect`, `TokensOutliveRestarts`, `OneOwner`,
`LockedOutAreUnsalted`.

TLC has checked the inductive invariants on the instances above, and no error came up for
`OverdraftTakesOverlap` on that of `loyalty` either. The hypotheses of the theorems that have one are
met, for instance, by a program that receives no 429, whose orders are not given up and whose users
withdraw one at a time.

Only model-checked: liveness (`FeedLiveness`, `RequestsResume`, `EnqueueReturns`, `StoredIsSettled`,
`FirstRunCredits`, `WithdrawalsEnd`), since fairness and ENABLED are out of the prover's
reach. Safety halves of them are proved: `CloseIsComplete`, `WideEnoughWaitsForNoTask`, `RateIsNeverZero`, `NoneForgotten`
and `NoCreditLost`. That `FloatToInt` is what doubles compute is a matter of the derivation above,
not of a proof.

## Not modelled

- Amounts in the poller and in `OrderProcessing`: the sum of an order enters in
  `Loyalty`. The width of `orders.accrual`: a result that does not fit is an `Update` that
  always fails.
- The order of the lists and the times in them: both are read with no ORDER BY.
  Wording, logging, routing, JSON and the middleware: no property here is about them.
- A 429 with N = 0, which divides by zero in a timer and ends the program.
- The Luhn check, a library's: the ledger has the set of numbers that pass.
- Configuration: read once from flags and the environment, with nothing concurrent; its
  values are constants of the models.
- Memory repositories and test helpers: test doubles. `cmd/accrual`: binaries.

## Plan

Done, in this order: `AccrualPoller` with `AccrualFeed`, `OrderProcessing`,
`BalanceLedger`, `UserAccounts`, their proofs, `OrderLife` with its refinement, `Money`,
`Loyalty`. To come:

1. The panic of `Close` on a channel its worker has closed (`poller.go:115`) and what it leaves
   undone of the shutdown.
2. The reading of a 429 against the sentence `SPECIFICATION.md` gives.
3. Two instances of the program on one database.
