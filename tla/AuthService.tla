----------------------------- MODULE AuthService -----------------------------
(***************************************************************************)
(* Accounts and tokens: AuthHandler of                                     *)
(* internal/interfaces/http/auth_handler.go over authService of            *)
(* internal/application/auth_service.go and the users table, the JWTs of   *)
(* pkg/security/token.go and the middleware that asks for one in front of  *)
(* the payment routes.                                                     *)
(*                                                                         *)
(* Requests run concurrently in several API processes.  A call to Postgres *)
(* is a step, and time passes between steps.  Each process reads its own   *)
(* clock, in whole seconds, as the tokens do.                              *)
(***************************************************************************)
EXTENDS Integers

CONSTANTS Requests, Emails, Passwords,
          Empty, Short, Long, \* passwords of 0, under 6 characters, over 72 bytes
          First72,   \* what bcrypt reads of each password
          Apis,      \* API processes, with one JWT_SECRET
          None,      \* no user, no token
          Lifetime,  \* JWT_EXPIRATION_HOURS
          MaxSkew,   \* how far two of the processes' clocks are apart
          MaxTime,   \* bound: when time stops
          Faults     \* bound: the kinds of failure that may occur

(* A user's id is the request that created it: uuid.New() never repeats.   *)
User  == [id : Requests, email : Emails, hash : Passwords \ Long]
Token == [user : Requests, email : Emails, nbf : Int, exp : Int]

(* Which process registers a user makes no difference.                     *)
Request == [kind : {"register"}, email : Emails, password : Passwords]
             \cup [kind : {"login"}, api : Apis, email : Emails, password : Passwords]
             \cup [kind : {"use"}, api : Apis, token : Token \cup {None}]

(* 201, 200, 400, 409 and 500, three kinds of 401 from the middleware and  *)
(* Login ("denied": invalid email or password; "failed": Postgres's error),*)
(* and a protected request that goes through.                              *)
Codes == {"created", "ok", "bad", "conflict", "error",
          "denied", "failed", "expired", "invalid", "admitted"}
Response == [code : Codes, token : Token \cup {None}]

ASSUME AuthAssumption ==
  /\ None \notin User \cup Token \cup Request \cup Response
  /\ Empty \subseteq Short /\ Short \subseteq Passwords
  /\ Long \subseteq Passwords \ Short
  /\ First72 \in [Passwords -> Passwords]
  /\ \A p \in Passwords \ Long : First72[p] = p
  /\ Lifetime \in Nat \ {0}
  /\ MaxSkew \in Nat /\ MaxTime \in Nat
  /\ Faults \subseteq {"db"}

VARIABLES users,    \* users table: the row of each email, or None
          now,      \* the time
          skew,     \* how far each process's clock is ahead of it
          req,      \* what each request asks for, and of which process
          pc,       \* where each request is
          found,    \* the row a login has read
          expires,  \* the expiry a login has computed
          answer,   \* the response to each request
          earlier,  \* history: the requests answered before one arrived
          began     \* history: when each login found its row

clocks  == <<now, skew>>
locals  == <<found, expires>>
history == <<earlier, began>>
vars == <<users, clocks, req, pc, locals, answer, history>>

Clock(a) == now + skew[a]

Goto(r, from, to) == pc[r] = from /\ pc' = [pc EXCEPT ![r] = to]

Answer(r, code, token) ==
  /\ pc' = [pc EXCEPT ![r] = "done"]
  /\ answer' = [answer EXCEPT ![r] = [code |-> code, token |-> token]]
Respond(r, code) == Answer(r, code, None)

Arrive(r, what) ==
  /\ pc[r] = "new"
  /\ req' = [req EXCEPT ![r] = what]
  /\ earlier' = [earlier EXCEPT ![r] = {q \in Requests : pc[q] = "done"}]
  /\ UNCHANGED <<users, clocks, locals, began>>

-----------------------------------------------------------------------------
(* POST /auth/register: binding, then HashPassword, then the INSERT.  (The *)
(* first is a mutant: the error of HashPassword is not looked at.)         *)
ArriveRegisterUnhashed(r, e, p) ==
  /\ Arrive(r, [kind |-> "register", email |-> e, password |-> p])
  /\ \/ p \in Short /\ Respond(r, "bad")
     \/ p \notin Short /\ Goto(r, "new", "insert") /\ UNCHANGED answer

ArriveRegister(r, e, p) ==
  /\ Arrive(r, [kind |-> "register", email |-> e, password |-> p])
  /\ \/ p \in Short /\ Respond(r, "bad")
     \/ p \in Long /\ Respond(r, "error")
     \/ p \notin Short \cup Long /\ Goto(r, "new", "insert") /\ UNCHANGED answer

Inserted(r) ==
  [users EXCEPT ![req[r].email] =
     [id |-> r, email |-> req[r].email, hash |-> req[r].password]]

(* Mutant: a conflict that goes unnoticed.                                 *)
InsertOrNothing(r) ==
  /\ pc[r] = "insert"
  /\ users' = IF users[req[r].email] = None THEN Inserted(r) ELSE users
  /\ Respond(r, "created")
  /\ UNCHANGED <<clocks, req, locals, history>>

(* UserRepository.Create: email is UNIQUE, and a violation is 409.         *)
Insert(r) ==
  /\ pc[r] = "insert"
  /\ \/ users[req[r].email] = None /\ users' = Inserted(r) /\ Respond(r, "created")
     \/ users[req[r].email] # None /\ UNCHANGED users /\ Respond(r, "conflict")
  /\ UNCHANGED <<clocks, req, locals, history>>

(* Mutant: every error of the INSERT is taken for a unique violation.      *)
InsertFailsAsConflict(r) ==
  /\ pc[r] = "insert" /\ "db" \in Faults
  /\ UNCHANGED users /\ Respond(r, "conflict")
  /\ UNCHANGED <<clocks, req, locals, history>>

(* Any other error is 500; the row may be there all the same.              *)
InsertFails(r) ==
  /\ pc[r] = "insert" /\ "db" \in Faults
  /\ users' \in {users} \cup {u \in {Inserted(r)} : users[req[r].email] = None}
  /\ Respond(r, "error")
  /\ UNCHANGED <<clocks, req, locals, history>>

(* POST /auth/login: the row is read and the password compared with its    *)
(* hash, which takes a while; then the token is signed.                    *)
ArriveLogin(r, a, e, p) ==
  /\ Arrive(r, [kind |-> "login", api |-> a, email |-> e, password |-> p])
  /\ \/ p \in Empty /\ Respond(r, "bad")
     \/ p \notin Empty /\ Goto(r, "new", "lookup") /\ UNCHANGED answer

CheckPasswordHash(password, hash) == First72[password] = hash

(* Mutant: an error of GetByEmail is taken for ErrUserNotFound.            *)
LookupFailsAsMissing(r) ==
  /\ pc[r] = "lookup" /\ "db" \in Faults
  /\ Respond(r, "denied")
  /\ UNCHANGED <<users, clocks, req, locals, history>>

Lookup(r) ==
  /\ pc[r] = "lookup"
  /\ LET user    == users[req[r].email]
         matches == user # None /\ CheckPasswordHash(req[r].password, user.hash)
     IN  \/ /\ matches
            /\ Goto(r, "lookup", "sign")
            /\ found' = [found EXCEPT ![r] = user]
            /\ began' = [began EXCEPT ![r] = now]
            /\ UNCHANGED answer
         \/ /\ ~ matches
            /\ Respond(r, "denied") /\ UNCHANGED <<found, began>>
  /\ UNCHANGED <<users, clocks, req, expires, earlier>>

LookupFails(r) ==
  /\ pc[r] = "lookup" /\ "db" \in Faults
  /\ Respond(r, "failed")
  /\ UNCHANGED <<users, clocks, req, locals, history>>

(* GenerateToken reads the clock for the expiry first and for not-before   *)
(* last: the second, or more, may change in between.                       *)
ReadExpiry(r) ==
  /\ Goto(r, "sign", "stamp")
  /\ expires' = [expires EXCEPT ![r] = Clock(req[r].api) + Lifetime]
  /\ UNCHANGED <<users, clocks, req, found, answer, history>>

GenerateToken(user, exp, clock) ==
  [user |-> user.id, email |-> user.email, nbf |-> clock, exp |-> exp]

Sign(r) ==
  /\ pc[r] = "stamp"
  /\ Answer(r, "ok", GenerateToken(found[r], expires[r], Clock(req[r].api)))
  /\ found' = [found EXCEPT ![r] = None]
  /\ expires' = [expires EXCEPT ![r] = 0]
  /\ UNCHANGED <<users, clocks, req, history>>

-----------------------------------------------------------------------------
(* Mutant: the last second counts.                                         *)
ValidateTokenInclusive(token, clock) ==
  CASE token = None      -> "invalid"
    [] token.exp < clock -> "expired"
    [] OTHER             -> IF clock < token.nbf THEN "invalid" ELSE "admitted"

(* ValidateToken, with no leeway; iat is not looked at.                    *)
ValidateToken(token, clock) ==
  CASE token = None       -> "invalid"
    [] token.exp <= clock -> "expired"
    [] OTHER              -> IF clock < token.nbf THEN "invalid" ELSE "admitted"

(* AuthMiddleware: a payment request shows a token, or none that parses.   *)
Answered(r, code) == answer[r] # None /\ answer[r].code = code
Issued == {answer[q].token : q \in {q \in Requests : Answered(q, "ok")}}

ArriveWithToken(r, a, token) ==
  /\ Arrive(r, [kind |-> "use", api |-> a, token |-> token])
  /\ Respond(r, ValidateToken(token, Clock(a)))

Tick ==
  /\ now < MaxTime
  /\ now' = now + 1
  /\ UNCHANGED <<users, skew, req, pc, locals, answer, history>>

-----------------------------------------------------------------------------
Init ==
  /\ users = [e \in Emails |-> None]
  /\ now = 0
  /\ skew \in [Apis -> 0..MaxSkew]
  /\ req = [r \in Requests |-> None]
  /\ pc = [r \in Requests |-> "new"]
  /\ found = [r \in Requests |-> None]
  /\ expires = [r \in Requests |-> 0]
  /\ answer = [r \in Requests |-> None]
  /\ earlier = [r \in Requests |-> {}]
  /\ began = [r \in Requests |-> 0]

Serve(r) ==
  \/ Insert(r) \/ InsertFails(r)
  \/ Lookup(r) \/ LookupFails(r) \/ ReadExpiry(r) \/ Sign(r)

Next ==
  \/ \E r \in Requests, e \in Emails, p \in Passwords :
        ArriveRegister(r, e, p) \/ \E a \in Apis : ArriveLogin(r, a, e, p)
  \/ \E r \in Requests, a \in Apis, token \in Issued \cup {None} :
        ArriveWithToken(r, a, token)
  \/ \E r \in Requests : Serve(r)
  \/ Tick

Spec == Init /\ [][Next]_vars

-----------------------------------------------------------------------------
Is(r, kind) == req[r] # None /\ req[r].kind = kind
Same(q, r)  == req[q].email = req[r].email /\ req[q].password = req[r].password

(* Every variable keeps its type, and only a login that is signing holds a *)
(* row.                                                                    *)
TypeOK ==
  /\ users \in [Emails -> User \cup {None}]
  /\ now \in 0..MaxTime
  /\ skew \in [Apis -> 0..MaxSkew]
  /\ req \in [Requests -> Request \cup {None}]
  /\ pc \in [Requests -> {"new", "insert", "lookup", "sign", "stamp", "done"}]
  /\ found \in [Requests -> User \cup {None}]
  /\ answer \in [Requests -> Response \cup {None}]
  /\ earlier \in [Requests -> SUBSET Requests]
  /\ expires \in [Requests -> Nat]
  /\ began \in [Requests -> 0..MaxTime]
  /\ \A r \in Requests :
       /\ req[r] = None <=> pc[r] = "new"
       /\ found[r] # None <=> pc[r] \in {"sign", "stamp"}
       /\ answer[r] # None <=> pc[r] = "done"

(* Of the registrations of one email, however they race, at most one is    *)
(* told 201, and the account, and every token for it, is that one's.       *)
OneOwner ==
  \A r \in Requests : Is(r, "register") /\ Answered(r, "created") =>
     /\ users[req[r].email].id = r
     /\ \A token \in Issued : token.email = req[r].email => token.user = r

(* Once a client was told that it is registered, its password is never     *)
(* called invalid, whoever else tries to register the email.               *)
RegisteredCanLogIn ==
  \A r \in Requests : Is(r, "login") /\ answer[r] # None =>
     \A q \in earlier[r] :
        Is(q, "register") /\ Answered(q, "created") /\ Same(q, r)
          => ~ Answered(r, "denied")

(* A 409 means that the email has an account, made by a registration that  *)
(* was sent.  So a client whose registration failed with 500, and who is   *)
(* alone with its email, may repeat it: told 201 or 409, it is registered  *)
(* with its password.                                                      *)
RepeatRegisters ==
  \A r \in Requests :
     Is(r, "register") /\ (Answered(r, "conflict") \/ Answered(r, "created")) =>
       /\ users[req[r].email] # None
       /\ \E q \in Requests : Is(q, "register") /\ req[q].email = req[r].email
                              /\ req[q].password = users[req[r].email].hash

(* A token works everywhere from MaxSkew after its login was answered, and *)
(* nowhere from MaxSkew after its Lifetime.  It is refused as expired no   *)
(* earlier than MaxSkew before its Lifetime is over, counted from when its *)
(* login found the account: the time that GenerateToken takes between its  *)
(* two readings of the clock is lost to the client (token.go 29-31).       *)
TokenWindow ==
  [][\A r \in Requests : pc[r] = "new" /\ pc'[r] = "done" /\ req'[r].kind = "use" =>
       \A q \in Requests :
         Answered(q, "ok") /\ answer[q].token = req'[r].token =>
           LET age  == now - (answer[q].token.nbf - skew[req[q].api])
               code == answer'[r].code
           IN  /\ code = "admitted" => age < Lifetime + MaxSkew
               /\ code = "expired"  => now - began[q] >= Lifetime - MaxSkew
               /\ code = "invalid"  => age < MaxSkew]_vars
=============================================================================
