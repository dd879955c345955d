------------------------- MODULE UserAccountsProofs -------------------------
(***************************************************************************)
(* Proofs about UserAccounts, for any requests, restarts and failures: the  *)
(* token secret and the salt are created once, tokens outlive restarts, and *)
(* a login keeps its owner.                                                 *)
(***************************************************************************)
EXTENDS UserAccounts, TLAPS

\* Past its creation the token secret in use is the saved one, and so is the one
\* in every token.
SecretInv ==
  /\ phase # "down" => runs # 0
  /\ phase = "secret" => secretDB = 0
  /\ phase \in {"salt", "serving"} => secret = secretDB /\ secretDB # 0
  /\ \A t \in tokens : t.secret = secretDB /\ secretDB # 0

\* The salt in use is the saved one, but in the run that creates it, before which
\* no other salt was in use.
SaltInv ==
  /\ phase = "secret" => salt = saltDB
  /\ phase = "salt" => salt = 0 /\ saltDB = 0
  /\ phase = "serving" => saltDB # 0 /\ salt \in {0, saltDB}
  /\ \A l \in Logins : stored[l] # NoUser =>
       /\ stored[l].salt \in {0, saltDB}
       /\ phase = "serving" /\ salt = 0 => stored[l].salt = 0

\* The registration has inserted the login.
Made(r) == r \in Registrations /\ (req[r] = "finding" \/ answer[r] = "200")

OwnerInv ==
  /\ \A r \in Requests : Made(r) \/ answer[r] = "200" =>
       stored[LoginOf[r]] # NoUser /\ stored[LoginOf[r]].password = PasswordOf[r]
  /\ \A r, q \in Requests : Made(r) /\ Made(q) /\ LoginOf[r] = LoginOf[q] => r = q

Inv == TypeOK /\ SecretInv /\ SaltInv /\ OwnerInv

LEMMA Constants ==
  /\ \A r \in Requests : LoginOf[r] \in Logins /\ PasswordOf[r] \in Passwords
  /\ NoUser \notin Hashes
  /\ Registrations \subseteq Requests
  BY AccountsAssumption, NoUserAssumption DEF Requests

LEMMA InitInv == Init => Inv
<1> SUFFICES ASSUME Init PROVE Inv
  OBVIOUS
<1> USE AccountsAssumption DEF Init
<1>1. TypeOK
  BY DEF TypeOK, Secrets
<1>2. SecretInv /\ SaltInv /\ OwnerInv
  BY Constants DEF SecretInv, SaltInv, OwnerInv, Made
<1> QED BY <1>1, <1>2 DEF Inv

-----------------------------------------------------------------------------
(* initUserService.                                                         *)

LEMMA StartStep ==
  ASSUME Inv, Start
  PROVE  Inv'
<1> USE DEF Start, tables, requestVars
<1>1. phase' \in {"secret", "salt", "serving"}
  BY DEF NextStage
<1>2. runs' \in Secrets /\ runs' # 0
  BY AccountsAssumption DEF Inv, TypeOK, Secrets
<1>3. TypeOK'
  BY <1>1, <1>2 DEF Inv, TypeOK
<1>4. SecretInv'
  BY <1>1, <1>2 DEF Inv, SecretInv, NextStage
<1>5. SaltInv'
  BY DEF Inv, SaltInv, NextStage
<1>6. OwnerInv'
  BY DEF Inv, OwnerInv, Made
<1> QED BY <1>3, <1>4, <1>5, <1>6 DEF Inv

LEMMA CreateStep ==
  ASSUME Inv, CreateSecret \/ CreateSalt
  PROVE  Inv'
<1> USE DEF CreateSecret, CreateSalt, options, requestVars
<1>1. TypeOK'
  BY DEF Inv, TypeOK, NextStage
<1>2. SecretInv'
  BY DEF Inv, SecretInv, NextStage
<1>3. SaltInv'
  BY DEF Inv, SecretInv, SaltInv, NextStage
<1>4. OwnerInv'
  BY DEF Inv, OwnerInv, Made
<1> QED BY <1>1, <1>2, <1>3, <1>4 DEF Inv

\* The program ends: what it may have written, it wrote where nothing was.
LEMMA EndStep ==
  ASSUME Inv, CreateFails \/ Stop
  PROVE  Inv'
<1> USE DEF CreateFails, Stop, LoseMemory, Fault
<1>1. TypeOK'
  <2>1. faults' \in 0 .. MaxFaults
    BY AccountsAssumption DEF Inv, TypeOK
  <2>2. secretDB' \in Secrets /\ saltDB' \in Secrets
    BY DEF Inv, TypeOK
  <2>3. req' \in [Requests -> {"idle", "finding", "answered", "broken"}]
    BY DEF Inv, TypeOK
  <2>4. secret' \in Secrets /\ salt' \in Secrets
    BY AccountsAssumption DEF Secrets
  <2> QED BY <2>1, <2>2, <2>3, <2>4 DEF Inv, TypeOK
<1>2. secretDB' = secretDB \/ secretDB = 0
  BY DEF Inv, SecretInv
<1>3. saltDB' = saltDB \/ saltDB = 0
  BY DEF Inv, SaltInv
<1>4. SecretInv'
  BY <1>2 DEF Inv, SecretInv
<1>5. SaltInv'
  BY <1>3 DEF Inv, SaltInv
<1>6. OwnerInv'
  <2>1. \A r \in Requests : Made(r)' => Made(r)
    BY Constants DEF Made
  <2> QED BY <2>1 DEF Inv, OwnerInv
<1> QED BY <1>1, <1>4, <1>5, <1>6 DEF Inv

-----------------------------------------------------------------------------
(* Requests.                                                                *)

\* A free login is inserted, and the request goes on to log in or fails.
LEMMA InsertKeeps ==
  ASSUME Inv, NEW r \in Registrations, phase = "serving", Free(LoginOf[r]), Insert(r),
         UNCHANGED <<secretDB, saltDB, phase, options>>,
         \/ req' = [req EXCEPT ![r] = "finding"] /\ answer' = answer
         \/ Answer(r, "500")
  PROVE  stored' \in [Logins -> Hashes \cup {NoUser}] /\ SaltInv' /\ OwnerInv'
<1> USE Constants DEF Free, Insert, HashPassword, Answer, options
<1>1. /\ r \in Requests
      /\ [password |-> PasswordOf[r], salt |-> salt] \in Hashes
  BY DEF Inv, TypeOK, Hashes
<1>2. stored' \in [Logins -> Hashes \cup {NoUser}]
  BY <1>1 DEF Inv, TypeOK
<1>3. SaltInv'
  BY <1>1 DEF Inv, TypeOK, SaltInv
<1>4. OwnerInv'
  <2>1. \A q \in Requests : LoginOf[q] = LoginOf[r] => ~Made(q) /\ answer[q] # "200"
    BY <1>1 DEF Inv, OwnerInv
  <2>2. \A q \in Requests : q # r => (Made(q)' <=> Made(q)) /\ answer'[q] = answer[q]
    BY <1>1 DEF Inv, TypeOK, Made
  <2>3. answer'[r] # "200"
    BY <1>1, <2>1 DEF Inv, TypeOK
  <2>4. /\ stored'[LoginOf[r]] # NoUser /\ stored'[LoginOf[r]].password = PasswordOf[r]
        /\ \A l \in Logins : l # LoginOf[r] => stored'[l] = stored[l]
    BY <1>1 DEF Inv, TypeOK
  <2> QED BY <1>1, <2>1, <2>2, <2>3, <2>4 DEF Inv, OwnerInv
<1> QED BY <1>2, <1>3, <1>4

LEMMA RegisterStep ==
  ASSUME Inv, NEW r \in Registrations, Register(r) \/ RegisterFails(r)
  PROVE  Inv'
<1> USE Constants DEF Register, RegisterFails, Reached, Fault, options
<1>1. r \in Requests /\ phase = "serving" /\ UNCHANGED <<secretDB, saltDB, phase, options, tokens, runs>>
  OBVIOUS
<1>2. faults' \in 0 .. MaxFaults
  BY AccountsAssumption DEF Inv, TypeOK
<1>3. SecretInv'
  BY <1>1 DEF Inv, SecretInv
<1>4. ASSUME Free(LoginOf[r]), Insert(r),
             \/ req' = [req EXCEPT ![r] = "finding"] /\ answer' = answer
             \/ Answer(r, "500")
      PROVE  Inv'
  <2>1. stored' \in [Logins -> Hashes \cup {NoUser}] /\ SaltInv' /\ OwnerInv'
    BY <1>1, <1>4, InsertKeeps
  <2>2. TypeOK'
    BY <1>1, <1>2, <1>4, <2>1 DEF Inv, TypeOK, Answer
  <2> QED BY <1>3, <2>1, <2>2 DEF Inv
<1>5. ASSUME UNCHANGED stored, NEW code \in {"400", "409", "500"}, Answer(r, code)
      PROVE  Inv'
  <2> USE <1>5 DEF Answer
  <2>1. TypeOK'
    BY <1>1, <1>2 DEF Inv, TypeOK
  <2>2. SaltInv'
    BY <1>1 DEF Inv, SaltInv
  <2>3. OwnerInv'
    <3>1. \A q \in Requests : (Made(q)' => Made(q)) /\ (answer'[q] = "200" => answer[q] = "200")
      BY <1>1 DEF Inv, TypeOK, Made
    <3> QED BY <3>1 DEF Inv, OwnerInv
  <2> QED BY <1>3, <2>1, <2>2, <2>3 DEF Inv
<1> QED BY <1>4, <1>5

LEMMA LoginStep ==
  ASSUME Inv, NEW r \in Requests, Login(r) \/ LoginFails(r)
  PROVE  Inv'
<1> USE Constants DEF Login, LoginFails, ReadyToLogin, Fault, tables, options
<1>1. phase = "serving" /\ UNCHANGED <<stored, secretDB, saltDB, phase, secret, salt, runs>>
  OBVIOUS
<1>2. faults' \in 0 .. MaxFaults
  BY AccountsAssumption DEF Inv, TypeOK
<1>3. SaltInv'
  BY <1>1 DEF Inv, SaltInv
<1>4. CASE ValidPair(LoginOf[r], PasswordOf[r]) /\ Answer(r, "200")
           /\ tokens' = tokens \cup {[user |-> LoginOf[r], secret |-> secret]}
  <2> USE <1>4 DEF Answer, ValidPair, HashPassword
  <2>1. secret = secretDB /\ secretDB # 0
    BY <1>1 DEF Inv, SecretInv
  <2>2. TypeOK'
    BY <1>1, <1>2, <2>1 DEF Inv, TypeOK
  <2>3. SecretInv'
    BY <1>1, <2>1 DEF Inv, SecretInv
  <2>4. [password |-> PasswordOf[r], salt |-> salt] \in Hashes
    BY DEF Inv, TypeOK, Hashes
  <2>5. stored[LoginOf[r]] # NoUser /\ stored[LoginOf[r]].password = PasswordOf[r]
    BY <2>4
  <2>6. OwnerInv'
    <3>1. r \in Registrations => Made(r)
      BY <1>1 DEF Made
    <3>2. \A q \in Requests : Made(q)' => Made(q)
      BY <3>1 DEF Inv, TypeOK, Made
    <3>3. \A q \in Requests : answer'[q] = "200" => q = r \/ answer[q] = "200"
      BY DEF Inv, TypeOK
    <3> QED BY <1>1, <2>5, <3>2, <3>3 DEF Inv, OwnerInv
  <2> QED BY <1>3, <2>2, <2>3, <2>6 DEF Inv
<1>5. ASSUME UNCHANGED tokens, NEW code \in {"401", "500"}, Answer(r, code)
      PROVE  Inv'
  <2> USE <1>5 DEF Answer
  <2>1. TypeOK'
    BY <1>1, <1>2 DEF Inv, TypeOK
  <2>2. SecretInv'
    BY <1>1 DEF Inv, SecretInv
  <2>3. OwnerInv'
    <3>1. \A q \in Requests : (Made(q)' => Made(q)) /\ (answer'[q] = "200" => answer[q] = "200")
      BY DEF Inv, TypeOK, Made
    <3> QED BY <1>1, <3>1 DEF Inv, OwnerInv
  <2> QED BY <1>3, <2>1, <2>2, <2>3 DEF Inv
<1> QED BY <1>4, <1>5

LEMMA NextInv == Inv /\ [Next]_vars => Inv'
<1> SUFFICES ASSUME Inv, [Next]_vars PROVE Inv'
  OBVIOUS
<1>1. ASSUME NEW t \in tokens, Expire(t) PROVE Inv'
  BY <1>1 DEF Expire, tables, options, Inv, TypeOK, SecretInv, SaltInv, OwnerInv, Made
<1>2. CASE UNCHANGED vars
  BY <1>2 DEF vars, tables, options, requestVars, Inv, TypeOK, SecretInv, SaltInv, OwnerInv, Made
<1> QED
  BY <1>1, <1>2, StartStep, CreateStep, EndStep, RegisterStep, LoginStep DEF Next

\* Inv holds in every reachable state.
THEOREM Invariance == Spec => []Inv
  BY InitInv, NextInv, PTL DEF Spec

\* Every variable keeps its type; no token is signed with an empty secret.
THEOREM TypeCorrect == Spec => []TypeOK
<1>1. Inv => TypeOK
  BY DEF Inv
<1> QED BY <1>1, Invariance, PTL

\* Every run of the program accepts the tokens of every earlier one.
THEOREM TokensOutliveRestarts == Spec => []TokensStayValid
<1>1. Inv => TokensStayValid
  BY DEF Inv, SecretInv, TokensStayValid, Accepted
<1> QED BY <1>1, Invariance, PTL

\* A login has one owner for good.
THEOREM OneOwner == Spec => []OneOwnerPerLogin
<1>1. Inv => OneOwnerPerLogin
  BY Constants DEF Inv, OwnerInv, Made, OneOwnerPerLogin
<1> QED BY <1>1, Invariance, PTL

\* Who is locked out registered in the run that created the salt.
THEOREM LockedOutAreUnsalted == Spec => []OnlyUnsaltedLockedOut
<1>1. Inv => OnlyUnsaltedLockedOut
  <2> SUFFICES ASSUME Inv, phase = "serving", NEW l \in Logins, stored[l] # NoUser,
                      ~ValidPair(l, stored[l].password)
               PROVE  stored[l].salt = 0
    BY DEF OnlyUnsaltedLockedOut
  <2>1. stored[l] \in [password : Passwords, salt : Secrets]
    BY DEF Inv, TypeOK, Hashes
  <2>2. stored[l].salt # salt
    BY <2>1 DEF ValidPair, HashPassword
  <2> QED BY <2>2 DEF Inv, SaltInv
<1> QED BY <1>1, Invariance, PTL
=============================================================================
