---------------------------- MODULE UserAccounts ----------------------------
(***************************************************************************)
(* Registration and login (internal/service/user/service.go) over the       *)
(* tables users and secrets, with the token secret and the password salt    *)
(* that initUserService (cmd/gophermart/main.go) reads or creates at every  *)
(* start of the program.  Only the two tables and the tokens in the users'  *)
(* hands survive a restart.  A secret generated in run k is the number k,   *)
(* 0 is the empty string; a hash is the pair it is made of.                 *)
(***************************************************************************)
EXTENDS Naturals

CONSTANTS
  Logins,
  Passwords,
  Registrations,  \* requests to register
  LoginRequests,  \* requests to log in
  LoginOf,        \* the login and the password in each request
  PasswordOf,
  Invalid,        \* registrations with no login, or with too short a password
  NoUser,         \* the row of a login that is not registered
  MaxRuns,        \* bound: how often the program is started
  MaxFaults       \* bound: how many database calls fail

Requests == Registrations \cup LoginRequests

ASSUME AccountsAssumption ==
  /\ LoginOf \in [Requests -> Logins]
  /\ PasswordOf \in [Requests -> Passwords]
  /\ Registrations \cap LoginRequests = {}
  /\ MaxRuns \in Nat
  /\ MaxFaults \in Nat

Secrets == 0 .. MaxRuns

Hashes == [password : Passwords, salt : Secrets]

ASSUME NoUserAssumption == NoUser \notin Hashes

VARIABLES
  stored,     \* users.password_hash by login
  secretDB,   \* secrets: jwt_secret
  saltDB,     \* secrets: password_salt
  phase,      \* what main is doing
  secret,     \* Options.TokenSecret
  salt,       \* Options.PasswordSalt
  req,        \* where each request is
  answer,     \* its response code
  tokens,     \* the tokens issued and not expired
  runs,       \* how often the program was started
  faults      \* how many database calls failed

tables      == <<stored, secretDB, saltDB>>
options     == <<secret, salt>>
requestVars == <<req, answer, tokens>>
vars == <<tables, phase, options, requestVars, runs, faults>>

TypeOK ==
  /\ stored \in [Logins -> Hashes \cup {NoUser}]
  /\ secretDB \in Secrets
  /\ saltDB \in Secrets
  /\ phase \in {"down", "secret", "salt", "serving"}
  /\ secret \in Secrets
  /\ salt \in Secrets
  /\ req \in [Requests -> {"idle", "finding", "answered", "broken"}]
  /\ answer \in [Requests -> {"none", "200", "400", "401", "409", "500"}]
  /\ tokens \subseteq [user : Logins, secret : Secrets \ {0}]
  /\ runs \in Secrets
  /\ faults \in 0 .. MaxFaults

Init ==
  /\ stored = [l \in Logins |-> NoUser]
  /\ secretDB = 0
  /\ saltDB = 0
  /\ phase = "down"
  /\ secret = 0
  /\ salt = 0
  /\ req = [r \in Requests |-> "idle"]
  /\ answer = [r \in Requests |-> "none"]
  /\ tokens = {}
  /\ runs = 0
  /\ faults = 0

Fault == faults < MaxFaults /\ faults' = faults + 1

-----------------------------------------------------------------------------
(* initUserService.                                                         *)

\* Mutant: the token secret is not looked at.
NextStageSaltOnly(s, p) == IF p = 0 THEN "salt" ELSE "serving"

\* What is missing has to be created, the token secret first.
NextStage(s, p) ==
  IF s = 0 THEN "secret" ELSE IF p = 0 THEN "salt" ELSE "serving"

\* GetSecretsFromDB
Start ==
  /\ phase = "down"
  /\ runs < MaxRuns
  /\ runs' = runs + 1
  /\ secret' = secretDB
  /\ salt' = saltDB
  /\ phase' = NextStage(secretDB, saltDB)
  /\ UNCHANGED <<tables, requestVars, faults>>

\* Mutant: the secret is used and not saved.
CreateSecretKept ==
  /\ phase = "secret"
  /\ secret' = runs
  /\ phase' = NextStage(runs, salt)
  /\ UNCHANGED <<tables, salt, requestVars, runs, faults>>

CreateSecret ==
  /\ phase = "secret"
  /\ secret' = runs
  /\ secretDB' = runs
  /\ phase' = NextStage(runs, salt)
  /\ UNCHANGED <<stored, saltDB, salt, requestVars, runs, faults>>

\* Mutant: the new salt is used and not saved.
CreateSaltKept ==
  /\ phase = "salt"
  /\ salt' = runs
  /\ phase' = "serving"
  /\ UNCHANGED <<tables, secret, requestVars, runs, faults>>

\* The new salt is saved; the options still get the value read before.
CreateSalt ==
  /\ phase = "salt"
  /\ saltDB' = runs
  /\ phase' = "serving"
  /\ UNCHANGED <<stored, secretDB, options, requestVars, runs, faults>>

\* Whatever is not in the database is gone.
LoseMemory ==
  /\ phase' = "down"
  /\ secret' = 0
  /\ salt' = 0
  /\ req' = [r \in Requests |-> IF req[r] = "finding" THEN "broken" ELSE req[r]]
  /\ UNCHANGED <<stored, answer, tokens, runs>>

\* Writing one fails, with effect or without, and the program ends.
CreateFails ==
  /\ Fault
  /\ \/ /\ phase = "secret"
        /\ secretDB' \in {secretDB, runs}
        /\ UNCHANGED saltDB
     \/ /\ phase = "salt"
        /\ saltDB' \in {saltDB, runs}
        /\ UNCHANGED secretDB
  /\ LoseMemory

\* The program is stopped or dies.
Stop ==
  /\ phase # "down"
  /\ LoseMemory
  /\ UNCHANGED <<secretDB, saltDB, faults>>

-----------------------------------------------------------------------------
(* Requests.                                                                *)

HashPassword(p) == [password |-> p, salt |-> salt]

Answer(r, code) ==
  /\ req' = [req EXCEPT ![r] = "answered"]
  /\ answer' = [answer EXCEPT ![r] = code]

Reached(r) == phase = "serving" /\ req[r] = "idle"

\* Mutant: logins are not unique.
FreeAlways(l) == TRUE

Free(l) == stored[l] = NoUser

Insert(r) == stored' = [stored EXCEPT ![LoginOf[r]] = HashPassword(PasswordOf[r])]

\* Register, after which the handler goes on to log the user in.
Register(r) ==
  /\ Reached(r)
  /\ \/ /\ r \in Invalid
        /\ Answer(r, "400")
        /\ UNCHANGED stored
     \/ /\ r \notin Invalid
        /\ IF Free(LoginOf[r])
           THEN /\ Insert(r)
                /\ req' = [req EXCEPT ![r] = "finding"]
                /\ UNCHANGED answer
           ELSE /\ Answer(r, "409")
                /\ UNCHANGED stored
  /\ UNCHANGED <<secretDB, saltDB, phase, options, tokens, runs, faults>>

\* repo.Add fails without effect, or its answer is lost.
RegisterFails(r) ==
  /\ Reached(r)
  /\ r \notin Invalid
  /\ Fault
  /\ \/ UNCHANGED stored
     \/ Free(LoginOf[r]) /\ Insert(r)
  /\ Answer(r, "500")
  /\ UNCHANGED <<secretDB, saltDB, phase, options, tokens, runs>>

\* The pair is the one of a registered user: the hashes are compared.
ValidPair(l, p) == stored[l] = HashPassword(p)

ReadyToLogin(r) ==
  /\ phase = "serving"
  /\ req[r] = IF r \in Registrations THEN "finding" ELSE "idle"

Login(r) ==
  /\ ReadyToLogin(r)
  /\ IF ValidPair(LoginOf[r], PasswordOf[r])
     THEN /\ Answer(r, "200")
          /\ tokens' = tokens \cup {[user |-> LoginOf[r], secret |-> secret]}
     ELSE /\ Answer(r, "401")
          /\ UNCHANGED tokens
  /\ UNCHANGED <<tables, phase, options, runs, faults>>

LoginFails(r) ==
  /\ ReadyToLogin(r)
  /\ Fault
  /\ Answer(r, "500")
  /\ UNCHANGED <<tables, phase, options, tokens, runs>>

\* ParseToken, of a token that has not expired.
Accepted(t) == t.secret = secret

Expire(t) ==
  /\ tokens' = tokens \ {t}
  /\ UNCHANGED <<tables, phase, options, req, answer, runs, faults>>

-----------------------------------------------------------------------------
Next ==
  \/ Start \/ CreateSecret \/ CreateSalt \/ CreateFails \/ Stop
  \/ \E r \in Registrations : Register(r) \/ RegisterFails(r)
  \/ \E r \in Requests : Login(r) \/ LoginFails(r)
  \/ \E t \in tokens : Expire(t)

Spec == Init /\ [][Next]_vars

-----------------------------------------------------------------------------
(* Properties.                                                              *)

\* A token is accepted until it expires, by every later run of the program too:
\* whatever fails or dies between the creation of a secret, its write and its
\* use, no token is signed with a secret the next run does not find
\* (main.go:134-149, service.go:88-144).
TokensStayValid == phase = "serving" => \A t \in tokens : Accepted(t)

\* A login has one owner for good: who was answered 200, as new user or as known
\* one, has the password that is stored, and no two registrations of a login
\* got 200, however they overlap, fail or repeat (service.go:37-86).
OneOwnerPerLogin ==
  \A r, q \in Requests :
    /\ answer[r] = "200" =>
         /\ stored[LoginOf[r]] # NoUser
         /\ stored[LoginOf[r]].password = PasswordOf[r]
    /\ r \in Registrations /\ q \in Registrations /\ answer[r] = "200"
       /\ answer[q] = "200" /\ LoginOf[r] = LoginOf[q] => r = q

\* A registered user is locked out only if the password was hashed with no salt,
\* which is what the run that creates the salt does; the salt is created once
\* and every later account stays usable (main.go:134, 151-168, service.go:121-127).
OnlyUnsaltedLockedOut ==
  phase = "serving" =>
    \A l \in Logins :
      stored[l] # NoUser /\ ~ValidPair(l, stored[l].password) => stored[l].salt = 0

\* Login refuses a pair of login and password only if it is wrong, "401 - the pair
\* is wrong" (SPECIFICATION.md:120): whoever is registered can log in.
RegisteredCanLogIn ==
  phase = "serving" =>
    \A l \in Logins : stored[l] # NoUser => ValidPair(l, stored[l].password)
=============================================================================
