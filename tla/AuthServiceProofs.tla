-------------------------- MODULE AuthServiceProofs --------------------------
(***************************************************************************)
(* Proofs about AuthService, for any requests, emails, passwords, API      *)
(* processes, clock skew and token lifetime: AuthInv, the inductive        *)
(* invariant, gives the safety properties of accounts and of tokens.       *)
(***************************************************************************)
EXTENDS AuthService, TLAPS

USE DEF clocks, locals, history

(* An account is that of a registration that was sent, and has its         *)
(* password.                                                               *)
UsersInv ==
  \A e \in Emails : users[e] # None =>
     /\ users[e].email = e
     /\ Is(users[e].id, "register")
     /\ req[users[e].id].email = e
     /\ req[users[e].id].password = users[e].hash

(* What is known of a request at each label: a password that is stored was *)
(* hashed, and a login signs for the account of its email.                 *)
PhaseInv(r) ==
  /\ pc[r] = "insert" => Is(r, "register") /\ req[r].password \notin Long
  /\ pc[r] \in {"lookup", "sign", "stamp"} => Is(r, "login")
  /\ pc[r] \in {"sign", "stamp"} => found[r] = users[req[r].email]
  /\ pc[r] = "new" => earlier[r] = {}
  /\ \A q \in earlier[r] : q # r /\ pc[q] = "done"

(* What an answer says of the accounts and of the token it carries.        *)
AnswerInv(r) ==
  /\ Is(r, "register") /\ (Answered(r, "created") \/ Answered(r, "conflict")) =>
       users[req[r].email] # None
  /\ Is(r, "register") /\ Answered(r, "created") => users[req[r].email].id = r
  /\ Answered(r, "ok") =>
       /\ Is(r, "login")
       /\ answer[r].token # None
       /\ users[answer[r].token.email] # None
       /\ answer[r].token.user = users[answer[r].token.email].id

(* A registered client's password is not called invalid.                   *)
LoginInv(r) ==
  Is(r, "login") /\ answer[r] # None =>
     \A q \in earlier[r] :
        Is(q, "register") /\ Answered(q, "created") /\ Same(q, r)
          => ~ Answered(r, "denied")

RequestInv(r) == PhaseInv(r) /\ AnswerInv(r) /\ LoginInv(r)

(* The expiry of a token is a Lifetime after a moment between the one at   *)
(* which its login found the account and the token's not-before.           *)
TimeInv(r) ==
  /\ pc[r] \in {"sign", "stamp"} => began[r] <= now
  /\ pc[r] = "stamp" =>
       /\ began[r] + skew[req[r].api] + Lifetime <= expires[r]
       /\ expires[r] <= now + skew[req[r].api] + Lifetime
  /\ Answered(r, "ok") =>
       /\ began[r] + skew[req[r].api] + Lifetime <= answer[r].token.exp
       /\ answer[r].token.exp <= answer[r].token.nbf + Lifetime

(* The inductive invariant.                                                *)
AuthInv ==
  /\ TypeOK
  /\ UsersInv
  /\ \A r \in Requests : RequestInv(r)
  /\ \A r \in Requests : TimeInv(r)

-----------------------------------------------------------------------------
(* Types.                                                                  *)
(* What a request of each kind asks for.                                   *)
LEMMA RequestTypes ==
  ASSUME TypeOK, NEW r \in Requests
  PROVE  /\ Is(r, "register") => req[r].email \in Emails /\ req[r].password \in Passwords
         /\ Is(r, "login") => /\ req[r].email \in Emails /\ req[r].password \in Passwords
                              /\ req[r].api \in Apis
<1>1. req[r] \in Request \cup {None}
  BY DEF TypeOK
<1> QED
  BY <1>1 DEF Is, Request

(* The row of an account, and what a token says.                           *)
LEMMA UserTypes ==
  ASSUME NEW u \in User
  PROVE  /\ u.id \in Requests /\ u.email \in Emails /\ u.hash \in Passwords \ Long
         /\ u # None
         /\ \A exp, clock \in Int : GenerateToken(u, exp, clock) \in Token
  BY AuthAssumption DEF User, GenerateToken, Token

(* An answer that was given.                                               *)
LEMMA AnswerTypes ==
  ASSUME TypeOK, NEW r \in Requests, answer[r] # None
  PROVE  /\ answer[r].code \in Codes /\ answer[r].token \in Token \cup {None}
         /\ answer[r].token # None =>
              /\ answer[r].token.user \in Requests /\ answer[r].token.email \in Emails
              /\ answer[r].token.nbf \in Int /\ answer[r].token.exp \in Int
         /\ pc[r] = "done"
<1>1. answer[r] \in Response /\ pc[r] = "done"
  BY DEF TypeOK
<1> QED
  BY <1>1 DEF Response, Token

(* A process's clock.                                                      *)
LEMMA ClockType ==
  ASSUME TypeOK, NEW a \in Apis
  PROVE  /\ now \in Int /\ skew[a] \in 0..MaxSkew /\ Clock(a) = now + skew[a]
         /\ Clock(a) \in Int
  BY AuthAssumption DEF TypeOK, Clock

(* What a step does to where the requests are and what they are answered,  *)
(* when it moves the request r.                                            *)
AnswersOK ==
  /\ pc \in [Requests -> {"new", "insert", "lookup", "sign", "stamp", "done"}]
  /\ answer \in [Requests -> Response \cup {None}]
  /\ \A q \in Requests : answer[q] # None <=> pc[q] = "done"

Moves(r, to) ==
  /\ pc'[r] = to
  /\ \A q \in Requests \ {r} : pc'[q] = pc[q] /\ answer'[q] = answer[q]

(* A request that is answered is done.                                     *)
LEMMA Answers ==
  ASSUME TypeOK, NEW r \in Requests, NEW code \in Codes, NEW token \in Token \cup {None},
         Answer(r, code, token)
  PROVE  /\ AnswersOK' /\ Moves(r, "done")
         /\ answer'[r] = [code |-> code, token |-> token]
<1>1. [code |-> code, token |-> token] \in Response
  BY DEF Response
<1>2. [code |-> code, token |-> token] # None
  BY <1>1, AuthAssumption
<1> QED
  BY <1>1, <1>2 DEF TypeOK, Answer, AnswersOK, Moves

(* A request that is refused carries no token.                             *)
LEMMA Responds ==
  ASSUME TypeOK, NEW r \in Requests, NEW code \in Codes, Respond(r, code)
  PROVE  /\ AnswersOK' /\ Moves(r, "done")
         /\ answer'[r] = [code |-> code, token |-> None]
  BY Answers DEF Respond

(* A request that goes on to another label is not answered.                *)
LEMMA GoesOn ==
  ASSUME TypeOK, NEW r \in Requests, NEW from \in {"new", "lookup", "sign"},
         NEW to \in {"insert", "lookup", "sign", "stamp"}, Goto(r, from, to), UNCHANGED answer
  PROVE  AnswersOK' /\ Moves(r, to) /\ pc[r] = from /\ answer'[r] = None
  BY DEF TypeOK, Goto, AnswersOK, Moves

(* A request that arrives keeps the types.                                 *)
LEMMA ArriveTypes ==
  ASSUME TypeOK, NEW r \in Requests, NEW what \in Request, Arrive(r, what),
         AnswersOK', NEW to \in {"insert", "lookup", "done"}, Moves(r, to)
  PROVE  TypeOK' /\ req'[r] = what
<1>1. what # None
  BY AuthAssumption
<1> QED
  BY <1>1 DEF TypeOK, Arrive, AnswersOK, Moves

(* The row that a registration inserts is an account's.                    *)
LEMMA InsertedType ==
  ASSUME TypeOK, NEW r \in Requests, pc[r] = "insert", PhaseInv(r), users' = Inserted(r)
  PROVE  /\ users' \in [Emails -> User \cup {None}]
         /\ users'[req[r].email] = [id |-> r, email |-> req[r].email, hash |-> req[r].password]
         /\ users'[req[r].email] \in User
         /\ \A e \in Emails \ {req[r].email} : users'[e] = users[e]
<1>1. req[r].email \in Emails /\ req[r].password \in Passwords \ Long
  BY RequestTypes DEF PhaseInv
<1> QED
  BY <1>1 DEF TypeOK, Inserted, User

(* The codes of the answers.                                               *)
LEMMA CodesOf ==
  /\ {"created", "ok", "bad", "conflict", "error", "denied", "failed"} \subseteq Codes
  /\ \A token, clock : ValidateToken(token, clock) \in {"expired", "invalid", "admitted"}
  /\ \A token, clock : ValidateToken(token, clock) \in Codes
  BY DEF Codes, ValidateToken

(* Every step keeps the types.                                             *)
LEMMA TypeStep ==
  ASSUME AuthInv, [Next]_vars
  PROVE  TypeOK'
<1>0. TypeOK /\ None \notin User /\ \A r \in Requests : PhaseInv(r)
  BY AuthAssumption DEF AuthInv, RequestInv
<1> USE <1>0, CodesOf
<1>1. ASSUME NEW r \in Requests, NEW e \in Emails, NEW p \in Passwords, ArriveRegister(r, e, p)
      PROVE  TypeOK'
  <2>1. AnswersOK' /\ \E to \in {"insert", "done"} : Moves(r, to)
    BY <1>1, Responds, GoesOn DEF ArriveRegister
  <2>2. [kind |-> "register", email |-> e, password |-> p] \in Request
    BY DEF Request
  <2> QED
    BY <1>1, <2>1, <2>2, ArriveTypes DEF ArriveRegister
<1>2. ASSUME NEW r \in Requests, NEW a \in Apis, NEW e \in Emails, NEW p \in Passwords,
             ArriveLogin(r, a, e, p)
      PROVE  TypeOK'
  <2>1. AnswersOK' /\ \E to \in {"lookup", "done"} : Moves(r, to)
    BY <1>2, Responds, GoesOn DEF ArriveLogin
  <2>2. [kind |-> "login", api |-> a, email |-> e, password |-> p] \in Request
    BY DEF Request
  <2> QED
    BY <1>2, <2>1, <2>2, ArriveTypes DEF ArriveLogin
<1>3. ASSUME NEW r \in Requests, NEW a \in Apis, NEW token \in Issued \cup {None},
             ArriveWithToken(r, a, token)
      PROVE  TypeOK'
  <2>1. AnswersOK' /\ Moves(r, "done")
    BY <1>3, Responds DEF ArriveWithToken
  <2>2. token \in Token \cup {None}
    BY AnswerTypes DEF Issued, Answered
  <2>3. [kind |-> "use", api |-> a, token |-> token] \in Request
    BY <2>2 DEF Request
  <2> QED
    BY <1>3, <2>1, <2>3, ArriveTypes DEF ArriveWithToken
<1>4. ASSUME NEW r \in Requests, Insert(r) PROVE TypeOK'
  <2>1. AnswersOK' /\ Moves(r, "done")
    BY <1>4, Responds DEF Insert
  <2>2. users' \in [Emails -> User \cup {None}]
    <3>1. CASE users' = Inserted(r)
      BY <1>4, <3>1, InsertedType DEF Insert
    <3>2. CASE UNCHANGED users
      BY <3>2 DEF TypeOK
    <3> QED
      BY <1>4, <3>1, <3>2 DEF Insert
  <2> QED
    BY <1>4, <2>1, <2>2 DEF Insert, TypeOK, AnswersOK, Moves
<1>5. ASSUME NEW r \in Requests, InsertFails(r) PROVE TypeOK'
  <2>1. AnswersOK' /\ Moves(r, "done")
    BY <1>5, Responds DEF InsertFails
  <2>2. users' \in [Emails -> User \cup {None}]
    <3>1. CASE users' = Inserted(r)
      BY <1>5, <3>1, InsertedType DEF InsertFails
    <3>2. CASE UNCHANGED users
      BY <3>2 DEF TypeOK
    <3> QED
      BY <1>5, <3>1, <3>2 DEF InsertFails
  <2> QED
    BY <1>5, <2>1, <2>2 DEF InsertFails, TypeOK, AnswersOK, Moves
<1>6. ASSUME NEW r \in Requests, Lookup(r) PROVE TypeOK'
  <2>1. req[r].email \in Emails /\ users[req[r].email] \in User \cup {None}
    BY <1>6, RequestTypes DEF PhaseInv, Lookup, TypeOK
  <2>2. CASE Respond(r, "denied") /\ UNCHANGED <<found, began>>
    <3>1. AnswersOK' /\ Moves(r, "done")
      BY <2>2, Responds
    <3> QED
      BY <1>6, <2>2, <3>1 DEF Lookup, TypeOK, AnswersOK, Moves
  <2>3. CASE /\ users[req[r].email] # None /\ Goto(r, "lookup", "sign")
             /\ found' = [found EXCEPT ![r] = users[req[r].email]]
             /\ began' = [began EXCEPT ![r] = now]
             /\ UNCHANGED answer
    <3>1. AnswersOK' /\ Moves(r, "sign")
      BY <2>3, GoesOn
    <3> QED
      BY <1>6, <2>1, <2>3, <3>1 DEF Lookup, TypeOK, AnswersOK, Moves
  <2> QED
    BY <1>6, <2>2, <2>3 DEF Lookup
<1>7. ASSUME NEW r \in Requests, LookupFails(r) PROVE TypeOK'
  <2>1. AnswersOK' /\ Moves(r, "done")
    BY <1>7, Responds DEF LookupFails
  <2> QED
    BY <1>7, <2>1 DEF LookupFails, TypeOK, AnswersOK, Moves
<1>8. ASSUME NEW r \in Requests, Sign(r) PROVE TypeOK'
  <2>1. found[r] \in User /\ req[r].api \in Apis /\ expires[r] \in Int
    BY <1>8, RequestTypes DEF Sign, TypeOK, PhaseInv
  <2>2. GenerateToken(found[r], expires[r], Clock(req[r].api)) \in Token
    BY <2>1, UserTypes, ClockType
  <2>3. AnswersOK' /\ Moves(r, "done")
    BY <1>8, <2>2, Answers DEF Sign
  <2> QED
    BY <1>8, <2>3 DEF Sign, TypeOK, AnswersOK, Moves
<1>11. ASSUME NEW r \in Requests, ReadExpiry(r) PROVE TypeOK'
  <2>1. AnswersOK' /\ Moves(r, "stamp") /\ pc[r] = "sign"
    BY <1>11, GoesOn DEF ReadExpiry
  <2>2. Clock(req[r].api) + Lifetime \in Nat
    BY <2>1, RequestTypes, ClockType, AuthAssumption DEF PhaseInv, TypeOK
  <2> QED
    BY <1>11, <2>1, <2>2 DEF ReadExpiry, TypeOK, AnswersOK, Moves
<1>9. CASE Tick
  BY <1>9, AuthAssumption DEF Tick, TypeOK
<1>10. CASE UNCHANGED vars
  BY <1>10 DEF vars, TypeOK
<1> QED
  BY <1>1, <1>2, <1>3, <1>4, <1>5, <1>6, <1>7, <1>8, <1>9, <1>10, <1>11
  DEF Next, Serve

-----------------------------------------------------------------------------
(* What every step does.                                                   *)
(* A request that was sent keeps what it asks for, one that was answered   *)
(* keeps its answer, an account is never written again, and time goes on.  *)
Progress ==
  /\ \A q \in Requests : pc[q] # "new" =>
        pc'[q] # "new" /\ req'[q] = req[q] /\ earlier'[q] = earlier[q]
  /\ \A q \in Requests : pc[q] = "done" => pc'[q] = "done" /\ answer'[q] = answer[q]
  /\ \A e \in Emails : users[e] # None => users'[e] = users[e]
  /\ now <= now' /\ skew' = skew

(* A step that is not of the request r.                                    *)
Still(r) ==
  /\ pc'[r] = pc[r] /\ req'[r] = req[r] /\ earlier'[r] = earlier[r]
  /\ found'[r] = found[r] /\ expires'[r] = expires[r] /\ answer'[r] = answer[r]
  /\ began'[r] = began[r]

(* The step of the request r that was sent and is not answered yet.        *)
Alone(r) ==
  /\ pc[r] \notin {"new", "done"} /\ pc'[r] # "new"
  /\ UNCHANGED <<clocks, req, earlier>>
  /\ \A q \in Requests \ {r} : Still(q)
  /\ \A e \in Emails : users[e] # None => users'[e] = users[e]

(* A request at work moves alone.                                          *)
LEMMA ServeAlone ==
  ASSUME AuthInv, NEW r \in Requests, Serve(r)
  PROVE  Alone(r)
<1>0. TypeOK /\ PhaseInv(r)
  BY DEF AuthInv, RequestInv
<1> USE <1>0
<1>1. ASSUME pc[r] = "insert", users[req[r].email] = None, users' = Inserted(r)
      PROVE  \A e \in Emails : users[e] # None => users'[e] = users[e]
  BY <1>1, InsertedType
<1>2. CASE Insert(r)
  BY <1>1, <1>2 DEF Insert, Respond, Answer, TypeOK, Alone, Still
<1>3. CASE InsertFails(r)
  BY <1>1, <1>3 DEF InsertFails, Respond, Answer, TypeOK, Alone, Still
<1>4. CASE Lookup(r)
  BY <1>4 DEF Lookup, Respond, Answer, Goto, TypeOK, Alone, Still
<1>5. CASE LookupFails(r)
  BY <1>5 DEF LookupFails, Respond, Answer, TypeOK, Alone, Still
<1>6. CASE Sign(r)
  BY <1>6 DEF Sign, Answer, TypeOK, Alone, Still
<1>7. CASE ReadExpiry(r)
  BY <1>7 DEF ReadExpiry, Goto, TypeOK, Alone, Still
<1> QED
  BY <1>2, <1>3, <1>4, <1>5, <1>6, <1>7 DEF Serve

(* A request that arrives: it notes who was answered, and no other moves.  *)
LEMMA Arrives ==
  ASSUME AuthInv, NEW r \in Requests, NEW what \in Request, Arrive(r, what),
         AnswersOK', NEW to \in {"insert", "lookup", "done"}, Moves(r, to)
  PROVE  /\ Progress /\ \A q \in Requests \ {r} : Still(q)
         /\ users' = users /\ req'[r] = what /\ pc[r] = "new"
         /\ earlier'[r] = {q \in Requests : pc[q] = "done"}
         /\ \A q \in earlier'[r] : q # r /\ pc'[q] = "done"
  BY DEF AuthInv, TypeOK, Arrive, AnswersOK, Moves, Progress, Still

(* The three ways in which a request arrives.                              *)
Arrival(r) ==
  \/ \E e \in Emails, p \in Passwords :
       ArriveRegister(r, e, p) \/ \E a \in Apis : ArriveLogin(r, a, e, p)
  \/ \E a \in Apis, token \in Issued \cup {None} : ArriveWithToken(r, a, token)

(* A password that is stored fits in 72 bytes, so only itself and longer   *)
(* ones match it.                                                          *)
LEMMA OwnPasswordMatches ==
  ASSUME NEW u \in User
  PROVE  CheckPasswordHash(u.hash, u.hash)
  BY UserTypes, AuthAssumption DEF CheckPasswordHash

-----------------------------------------------------------------------------
(* What is known of the requests.                                          *)
(* What is known of a request that does not move stays true.               *)
LEMMA RequestStays ==
  ASSUME AuthInv, Progress, TypeOK', NEW r \in Requests, Still(r)
  PROVE  RequestInv(r)'
<1>0. TypeOK /\ RequestInv(r)
  BY DEF AuthInv
<1> USE <1>0
<1>1. ASSUME NEW q \in earlier'[r]
      PROVE  /\ q \in Requests /\ q \in earlier[r] /\ q # r /\ pc'[q] = "done"
             /\ answer'[q] = answer[q] /\ req'[q] = req[q]
  <2>1. q \in Requests /\ q \in earlier[r] /\ q # r /\ pc[q] = "done"
    BY <1>1 DEF TypeOK, Still, RequestInv, PhaseInv
  <2> QED
    BY <2>1 DEF Progress
<1>2. PhaseInv(r)'
  <2>1. ASSUME pc[r] \in {"sign", "stamp"} PROVE users'[req[r].email] = users[req[r].email]
    <3>1. req[r].email \in Emails /\ found[r] # None /\ found[r] = users[req[r].email]
      BY <2>1, RequestTypes DEF RequestInv, PhaseInv, TypeOK
    <3> QED
      BY <3>1 DEF Progress
  <2> QED
    BY <1>1, <2>1 DEF RequestInv, PhaseInv, Still, Is
<1>3. AnswerInv(r)'
  <2>1. ASSUME Is(r, "register"), users[req[r].email] # None
        PROVE  users'[req[r].email] = users[req[r].email]
    BY <2>1, RequestTypes DEF Progress
  <2>2. ASSUME Answered(r, "ok")
        PROVE  /\ answer[r].token # None
               /\ users'[answer[r].token.email] = users[answer[r].token.email]
    <3>1. answer[r].token # None /\ answer[r].token.email \in Emails
      BY <2>2, AnswerTypes DEF Answered, RequestInv, AnswerInv
    <3> QED
      BY <2>2, <3>1 DEF Progress, RequestInv, AnswerInv
  <2> QED
    BY <2>1, <2>2 DEF RequestInv, AnswerInv, Still, Is, Answered
<1>4. LoginInv(r)'
  BY <1>1 DEF RequestInv, LoginInv, Still, Is, Answered, Same
<1> QED
  BY <1>2, <1>3, <1>4 DEF RequestInv

(* What is known of a request that arrives.                                *)
LEMMA RequestArrives ==
  ASSUME AuthInv, TypeOK', NEW r \in Requests, Arrival(r)
  PROVE  /\ RequestInv(r)' /\ Progress /\ users' = users
         /\ \A q \in Requests \ {r} : Still(q)
<1>0. TypeOK
  BY DEF AuthInv
<1> USE <1>0, CodesOf
<1>1. ASSUME NEW e \in Emails, NEW p \in Passwords, ArriveRegister(r, e, p)
      PROVE  /\ RequestInv(r)' /\ Progress /\ users' = users
             /\ \A q \in Requests \ {r} : Still(q)
  <2>1. /\ AnswersOK'
        /\ \/ Moves(r, "insert") /\ p \notin Long /\ answer'[r] = None
           \/ \E code \in {"bad", "error"} :
                Moves(r, "done") /\ answer'[r] = [code |-> code, token |-> None]
    BY <1>1, Responds, GoesOn DEF ArriveRegister
  <2>2. [kind |-> "register", email |-> e, password |-> p] \in Request
    BY DEF Request
  <2>3. /\ Progress /\ \A q \in Requests \ {r} : Still(q)
        /\ users' = users /\ req'[r] = [kind |-> "register", email |-> e, password |-> p]
        /\ \A q \in earlier'[r] : q # r /\ pc'[q] = "done"
    BY <1>1, <2>1, <2>2, Arrives DEF ArriveRegister
  <2>4. Is(r, "register")' /\ ~ Is(r, "login")'
    BY <2>2, <2>3, AuthAssumption DEF Is
  <2> QED
    BY <2>1, <2>3, <2>4 DEF RequestInv, PhaseInv, AnswerInv, LoginInv, Answered, Moves
<1>2. ASSUME NEW a \in Apis, NEW e \in Emails, NEW p \in Passwords, ArriveLogin(r, a, e, p)
      PROVE  /\ RequestInv(r)' /\ Progress /\ users' = users
             /\ \A q \in Requests \ {r} : Still(q)
  <2>1. /\ AnswersOK'
        /\ \/ Moves(r, "lookup") /\ answer'[r] = None
           \/ Moves(r, "done") /\ answer'[r] = [code |-> "bad", token |-> None]
    BY <1>2, Responds, GoesOn DEF ArriveLogin
  <2>2. [kind |-> "login", api |-> a, email |-> e, password |-> p] \in Request
    BY DEF Request
  <2>3. /\ Progress /\ \A q \in Requests \ {r} : Still(q)
        /\ users' = users
        /\ req'[r] = [kind |-> "login", api |-> a, email |-> e, password |-> p]
        /\ \A q \in earlier'[r] : q # r /\ pc'[q] = "done"
    BY <1>2, <2>1, <2>2, Arrives DEF ArriveLogin
  <2>4. Is(r, "login")' /\ ~ Is(r, "register")'
    BY <2>2, <2>3, AuthAssumption DEF Is
  <2> QED
    BY <2>1, <2>3, <2>4 DEF RequestInv, PhaseInv, AnswerInv, LoginInv, Answered, Moves
<1>3. ASSUME NEW a \in Apis, NEW token \in Issued \cup {None}, ArriveWithToken(r, a, token)
      PROVE  /\ RequestInv(r)' /\ Progress /\ users' = users
             /\ \A q \in Requests \ {r} : Still(q)
  <2>1. /\ AnswersOK' /\ Moves(r, "done")
        /\ \E code \in {"expired", "invalid", "admitted"} :
             answer'[r] = [code |-> code, token |-> None]
    BY <1>3, Responds DEF ArriveWithToken
  <2>2. token \in Token \cup {None}
    BY AnswerTypes DEF Issued, Answered
  <2>3. [kind |-> "use", api |-> a, token |-> token] \in Request
    BY <2>2 DEF Request
  <2>4. /\ Progress /\ \A q \in Requests \ {r} : Still(q)
        /\ users' = users
        /\ req'[r] = [kind |-> "use", api |-> a, token |-> token]
        /\ \A q \in earlier'[r] : q # r /\ pc'[q] = "done"
    BY <1>3, <2>1, <2>3, Arrives DEF ArriveWithToken
  <2>5. ~ Is(r, "login")' /\ ~ Is(r, "register")'
    BY <2>4 DEF Is
  <2> QED
    BY <2>1, <2>4, <2>5 DEF RequestInv, PhaseInv, AnswerInv, LoginInv, Answered, Moves
<1> QED
  BY <1>1, <1>2, <1>3 DEF Arrival

(* What is known of a request that moves: one lemma for each call that a   *)
(* request makes.  First, that it is answered without a token.             *)
LEMMA Refused ==
  ASSUME AuthInv, TypeOK', NEW r \in Requests, Alone(r),
         NEW code \in Codes \ {"ok"}, Respond(r, code),
         Is(r, "register") /\ code \in {"created", "conflict"} => users'[req[r].email] # None,
         Is(r, "register") /\ code = "created" => users'[req[r].email].id = r,
         Is(r, "login") /\ code = "denied" =>
            \A q \in earlier[r] : ~ (Is(q, "register") /\ Answered(q, "created") /\ Same(q, r))
  PROVE  RequestInv(r)'
<1>0. TypeOK /\ PhaseInv(r)
  BY DEF AuthInv, RequestInv
<1> USE <1>0
<1>1. pc'[r] = "done" /\ answer'[r] = [code |-> code, token |-> None]
  BY Responds DEF Moves
<1>2. ASSUME NEW q \in earlier'[r]
      PROVE  q \in earlier[r] /\ q # r /\ pc'[q] = "done" /\ answer'[q] = answer[q]
  BY <1>2 DEF Alone, Still, PhaseInv, TypeOK
<1>3. PhaseInv(r)'
  BY <1>1, <1>2 DEF PhaseInv
<1>4. AnswerInv(r)'
  BY <1>1 DEF AnswerInv, Alone, Is, Answered
<1>5. LoginInv(r)'
  BY <1>1, <1>2 DEF LoginInv, Alone, Is, Answered, Same
<1> QED
  BY <1>3, <1>4, <1>5 DEF RequestInv

(* The INSERT of a registration, which may fail.                           *)
LEMMA InsertRequest ==
  ASSUME AuthInv, TypeOK', NEW r \in Requests, Insert(r) \/ InsertFails(r)
  PROVE  RequestInv(r)'
<1>0. TypeOK /\ PhaseInv(r) /\ Alone(r) /\ pc[r] = "insert"
  BY ServeAlone DEF AuthInv, RequestInv, Serve, Insert, InsertFails
<1> USE <1>0, CodesOf
<1>1. Is(r, "register") /\ ~ Is(r, "login") /\ req[r].email \in Emails
  BY RequestTypes DEF PhaseInv, Is
<1>2. CASE users' = Inserted(r) /\ Respond(r, "created")
  <2>1. /\ users'[req[r].email] \in User
        /\ users'[req[r].email] = [id |-> r, email |-> req[r].email, hash |-> req[r].password]
    BY <1>2, InsertedType
  <2>2. users'[req[r].email] # None /\ users'[req[r].email].id = r
    BY <2>1, UserTypes
  <2> QED
    BY <1>1, <1>2, <2>2, Refused
<1>3. CASE users[req[r].email] # None /\ UNCHANGED users /\ Respond(r, "conflict")
  BY <1>1, <1>3, Refused
<1>4. CASE Respond(r, "error")
  BY <1>4, Refused
<1> QED
  BY <1>2, <1>3, <1>4 DEF Insert, InsertFails

(* The SELECT of a login, which may fail: the account of a registration    *)
(* that was told 201 has its password, and that matches.                   *)
LEMMA LookupRequest ==
  ASSUME AuthInv, TypeOK', NEW r \in Requests, Lookup(r) \/ LookupFails(r)
  PROVE  RequestInv(r)'
<1>0. /\ TypeOK /\ UsersInv /\ PhaseInv(r) /\ Alone(r) /\ pc[r] = "lookup"
      /\ users' = users
  BY ServeAlone DEF AuthInv, RequestInv, Serve, Lookup, LookupFails
<1> USE <1>0, CodesOf
<1>1. Is(r, "login") /\ ~ Is(r, "register") /\ req[r].email \in Emails
  BY RequestTypes DEF PhaseInv, Is
<1>2. users[req[r].email] \in User \cup {None}
  BY <1>1 DEF TypeOK
<1>3. CASE Respond(r, "failed")
  BY <1>1, <1>3, Refused
<1>4. CASE /\ Respond(r, "denied")
           /\ ~ (/\ users[req[r].email] # None
                 /\ CheckPasswordHash(req[r].password, users[req[r].email].hash))
  <2>1. ASSUME NEW q \in earlier[r], Is(q, "register"), Answered(q, "created"), Same(q, r)
        PROVE  FALSE
    <3>1. q \in Requests /\ AnswerInv(q)
      BY <2>1 DEF AuthInv, RequestInv, TypeOK
    <3>2. users[req[r].email] # None /\ users[req[r].email].id = q
      BY <2>1, <3>1 DEF AnswerInv, Same
    <3>3. req[r].password = users[req[r].email].hash
      BY <1>1, <2>1, <3>2 DEF UsersInv, Same
    <3> QED
      BY <1>2, <1>4, <3>2, <3>3, OwnPasswordMatches
  <2> QED
    BY <1>1, <1>4, <2>1, Refused
<1>5. CASE /\ users[req[r].email] # None /\ Goto(r, "lookup", "sign")
           /\ found' = [found EXCEPT ![r] = users[req[r].email]]
           /\ UNCHANGED answer
  <2>1. pc'[r] = "sign" /\ answer'[r] = None
    BY <1>5, GoesOn DEF Moves
  <2>2. found'[r] = users[req[r].email]
    BY <1>5 DEF TypeOK
  <2>3. \A q \in earlier[r] : q # r /\ pc'[q] = "done"
    BY DEF PhaseInv, Alone, Still, TypeOK
  <2>4. PhaseInv(r)'
    BY <1>1, <2>1, <2>2, <2>3 DEF PhaseInv, Alone, Is
  <2> QED
    BY <2>1, <2>4 DEF RequestInv, AnswerInv, LoginInv, Answered
<1> QED
  BY <1>3, <1>4, <1>5 DEF Lookup, LookupFails

(* The reading of the clock for the expiry.                                *)
LEMMA ExpiryRequest ==
  ASSUME AuthInv, TypeOK', NEW r \in Requests, ReadExpiry(r)
  PROVE  RequestInv(r)'
<1>0. /\ TypeOK /\ PhaseInv(r) /\ Alone(r) /\ pc[r] = "sign"
      /\ users' = users /\ found' = found
  BY ServeAlone DEF AuthInv, RequestInv, Serve, ReadExpiry, Goto
<1> USE <1>0
<1>1. pc'[r] = "stamp" /\ answer'[r] = None
  BY GoesOn DEF ReadExpiry, Moves
<1>2. \A q \in earlier[r] : q # r /\ pc'[q] = "done"
  BY DEF PhaseInv, Alone, Still, TypeOK
<1>3. PhaseInv(r)'
  BY <1>1, <1>2 DEF PhaseInv, Alone, Is
<1> QED
  BY <1>1, <1>3 DEF RequestInv, AnswerInv, LoginInv, Answered

(* The token that a login is given is for the account of its email.        *)
LEMMA SignRequest ==
  ASSUME AuthInv, TypeOK', NEW r \in Requests, Sign(r)
  PROVE  RequestInv(r)'
<1>0. /\ TypeOK /\ UsersInv /\ PhaseInv(r) /\ Alone(r) /\ pc[r] = "stamp"
      /\ users' = users
  BY ServeAlone DEF AuthInv, RequestInv, Serve, Sign
<1> USE <1>0, CodesOf
<1> DEFINE user  == users[req[r].email]
           exp   == expires[r]
           clock == Clock(req[r].api)
<1>1. /\ Is(r, "login") /\ ~ Is(r, "register") /\ req[r].email \in Emails
      /\ clock \in Int /\ exp \in Int
  BY RequestTypes, ClockType DEF PhaseInv, Is, TypeOK
<1>2. found[r] = user /\ user \in User /\ user # None /\ user.email = req[r].email
  BY <1>1 DEF TypeOK, PhaseInv, UsersInv
<1> HIDE DEF user, exp, clock
<1>3. GenerateToken(user, exp, clock) \in Token /\ GenerateToken(user, exp, clock) # None
  BY <1>1, <1>2, UserTypes, AuthAssumption
<1>4. /\ pc'[r] = "done"
      /\ answer'[r] = [code |-> "ok", token |-> GenerateToken(user, exp, clock)]
  BY <1>2, <1>3, Answers DEF Sign, Moves, exp, clock
<1>5. \A q \in earlier[r] : q # r /\ pc'[q] = "done"
  BY DEF PhaseInv, Alone, Still, TypeOK
<1>6. PhaseInv(r)'
  BY <1>4, <1>5 DEF PhaseInv, Alone
<1>7. AnswerInv(r)'
  BY <1>1, <1>2, <1>3, <1>4 DEF AnswerInv, Alone, Is, Answered, GenerateToken, user
<1>8. LoginInv(r)'
  BY <1>4 DEF LoginInv, Answered
<1> QED
  BY <1>6, <1>7, <1>8 DEF RequestInv

(* A request at work keeps what is known of it and of the accounts: only   *)
(* an INSERT writes one, and that one is its own.                          *)
LEMMA ServeStep ==
  ASSUME AuthInv, TypeOK', NEW r \in Requests, Serve(r)
  PROVE  RequestInv(r)' /\ Progress /\ UsersInv'
<1>0. TypeOK /\ UsersInv /\ PhaseInv(r) /\ Alone(r)
  BY ServeAlone DEF AuthInv, RequestInv
<1> USE <1>0
<1>1. RequestInv(r)'
  BY InsertRequest, LookupRequest, ExpiryRequest, SignRequest DEF Serve
<1>2. Progress
  BY DEF Alone, Still, Progress, TypeOK
<1>3. req' = req
  BY DEF Alone
<1>4. ASSUME users' = users PROVE UsersInv'
  BY <1>3, <1>4 DEF UsersInv, Is
<1>5. ASSUME pc[r] = "insert", users' = Inserted(r) PROVE UsersInv'
  <2>1. Is(r, "register") /\ req[r].email \in Emails
    BY <1>5, RequestTypes DEF PhaseInv
  <2>2. /\ users'[req[r].email] = [id |-> r, email |-> req[r].email, hash |-> req[r].password]
        /\ \A e \in Emails \ {req[r].email} : users'[e] = users[e]
    BY <1>5, InsertedType
  <2> QED
    BY <1>3, <2>1, <2>2 DEF UsersInv, Is
<1>6. UsersInv'
  BY <1>4, <1>5 DEF Serve, Insert, InsertFails, Lookup, LookupFails, ReadExpiry, Sign
<1> QED
  BY <1>1, <1>2, <1>6

(* The times of a request that does not move stay in their order.          *)
LEMMA TimeStays ==
  ASSUME AuthInv, Progress, TypeOK', NEW r \in Requests, Still(r)
  PROVE  TimeInv(r)'
<1>0. TypeOK /\ TimeInv(r) /\ PhaseInv(r) /\ AnswerInv(r)
  BY DEF AuthInv, RequestInv
<1> USE <1>0
<1>1. /\ now \in Int /\ now' \in Int /\ began[r] \in Int /\ expires[r] \in Int
      /\ now <= now'
  BY DEF TypeOK, Progress
<1>2. ASSUME pc[r] = "stamp" PROVE skew[req[r].api] \in Int
  BY <1>2, RequestTypes DEF TypeOK, PhaseInv
<1> QED
  BY <1>1, <1>2, AuthAssumption DEF TimeInv, Progress, Still, Answered

(* The times of a request at work: the expiry is read after the account    *)
(* was found, and not-before after the expiry.                             *)
LEMMA TimeServed ==
  ASSUME AuthInv, TypeOK', NEW r \in Requests, Serve(r)
  PROVE  TimeInv(r)'
<1>0. TypeOK /\ TimeInv(r) /\ PhaseInv(r) /\ Alone(r)
  BY ServeAlone DEF AuthInv, RequestInv
<1> USE <1>0, CodesOf
<1>1. ASSUME NEW code \in Codes \ {"ok"}, Respond(r, code) PROVE TimeInv(r)'
  <2>1. pc'[r] = "done" /\ answer'[r] = [code |-> code, token |-> None]
    BY <1>1, Responds DEF Moves
  <2>2. answer'[r].code # "ok"
    BY <2>1
  <2> QED
    BY <2>1, <2>2 DEF TimeInv, Answered
<1>2. ASSUME Lookup(r), Goto(r, "lookup", "sign"), UNCHANGED answer,
             began' = [began EXCEPT ![r] = now]
      PROVE  TimeInv(r)'
  <2>1. pc'[r] = "sign" /\ answer'[r] = None
    BY <1>2, GoesOn DEF Moves
  <2>2. began'[r] = now /\ now' = now /\ now \in Int
    BY <1>2 DEF TypeOK, Alone
  <2> QED
    BY <2>1, <2>2 DEF TimeInv, Answered
<1>3. CASE ReadExpiry(r)
  <2>1. pc'[r] = "stamp" /\ answer'[r] = None /\ pc[r] = "sign"
    BY <1>3, GoesOn DEF ReadExpiry, Moves, Goto
  <2>2. req[r].api \in Apis
    BY <2>1, RequestTypes DEF PhaseInv
  <2>3. /\ expires'[r] = now + skew[req[r].api] + Lifetime /\ began' = began
        /\ now' = now /\ skew' = skew /\ req' = req
    BY <1>3 DEF ReadExpiry, TypeOK, Clock
  <2>4. now \in Int /\ began[r] \in Int /\ skew[req[r].api] \in Int /\ began[r] <= now
    BY <2>1, <2>2 DEF TypeOK, TimeInv
  <2> QED
    BY <2>1, <2>3, <2>4, AuthAssumption DEF TimeInv, Answered
<1>4. CASE Sign(r)
  <2>1. /\ pc[r] = "stamp" /\ found[r] \in User /\ expires[r] \in Int
        /\ req[r].api \in Apis
    BY <1>4, RequestTypes DEF Sign, TypeOK, PhaseInv
  <2> DEFINE clock == Clock(req[r].api)
             token == GenerateToken(found[r], expires[r], clock)
  <2>2. /\ clock \in Int /\ clock = now + skew[req[r].api] /\ token \in Token
        /\ token.exp = expires[r] /\ token.nbf = clock
    BY <2>1, ClockType, UserTypes DEF GenerateToken
  <2> HIDE DEF clock, token
  <2>3. pc'[r] = "done" /\ answer'[r] = [code |-> "ok", token |-> token]
    BY <1>4, <2>2, Answers DEF Sign, Moves, clock, token
  <2>4. began' = began /\ skew' = skew /\ req' = req
    BY <1>4 DEF Sign
  <2> QED
    BY <2>1, <2>2, <2>3, <2>4 DEF TimeInv, Answered
<1> QED
  BY <1>1, <1>2, <1>3, <1>4 DEF Serve, Insert, InsertFails, Lookup, LookupFails

(* A request that arrives is not answered with a token.                    *)
LEMMA TimeArrives ==
  ASSUME AuthInv, NEW r \in Requests, Arrival(r)
  PROVE  TimeInv(r)'
<1>0. TypeOK
  BY DEF AuthInv
<1> USE <1>0, CodesOf
<1>1. ASSUME NEW code \in Codes \ {"ok"}, Respond(r, code) PROVE TimeInv(r)'
  <2>1. pc'[r] = "done" /\ answer'[r] = [code |-> code, token |-> None]
    BY <1>1, Responds DEF Moves
  <2>2. answer'[r].code # "ok"
    BY <2>1
  <2> QED
    BY <2>1, <2>2 DEF TimeInv, Answered
<1>2. ASSUME NEW to \in {"insert", "lookup"}, Goto(r, "new", to), UNCHANGED answer
      PROVE  TimeInv(r)'
  BY <1>2, GoesOn DEF TimeInv, Answered, Moves
<1> QED
  BY <1>1, <1>2 DEF Arrival, ArriveRegister, ArriveLogin, ArriveWithToken

(* Accounts that are not written keep naming their registrations.          *)
LEMMA UsersStay ==
  ASSUME AuthInv, Progress, users' = users
  PROVE  UsersInv'
<1>1. ASSUME NEW e \in Emails, users[e] # None
      PROVE  LET q == users[e].id
             IN  q \in Requests /\ req[q] # None /\ req'[q] = req[q]
  <2>1. users[e].id \in Requests /\ req[users[e].id] # None
    BY <1>1, UserTypes DEF AuthInv, TypeOK, UsersInv, Is
  <2> QED
    BY <2>1 DEF AuthInv, TypeOK, Progress
<1> QED
  BY <1>1 DEF AuthInv, UsersInv, Is

-----------------------------------------------------------------------------
(* The theorems.                                                           *)
(* AuthInv holds initially.                                                *)
LEMMA AuthInit == Init => AuthInv
<1> SUFFICES ASSUME Init PROVE AuthInv
  OBVIOUS
<1> USE AuthAssumption DEF Init
<1>1. TypeOK
  BY DEF TypeOK
<1>2. UsersInv
  BY DEF UsersInv
<1>3. ASSUME NEW r \in Requests PROVE RequestInv(r) /\ TimeInv(r)
  BY DEF RequestInv, PhaseInv, AnswerInv, LoginInv, TimeInv, Is, Answered
<1> QED
  BY <1>1, <1>2, <1>3 DEF AuthInv

(* Every step keeps AuthInv.                                               *)
LEMMA AuthStep ==
  ASSUME AuthInv, [Next]_vars
  PROVE  AuthInv'
<1>0. TypeOK /\ TypeOK'
  BY TypeStep DEF AuthInv
<1> USE <1>0
<1>1. ASSUME NEW r \in Requests, Arrival(r) PROVE AuthInv'
  BY <1>1, RequestArrives, TimeArrives, RequestStays, TimeStays, UsersStay DEF AuthInv
<1>2. ASSUME NEW r \in Requests, Serve(r) PROVE AuthInv'
  <2>1. RequestInv(r)' /\ Progress /\ UsersInv' /\ Alone(r)
    BY <1>2, ServeStep, ServeAlone
  <2>2. \A q \in Requests \ {r} : RequestInv(q)' /\ TimeInv(q)'
    BY <2>1, RequestStays, TimeStays DEF Alone
  <2>3. TimeInv(r)'
    BY <1>2, TimeServed
  <2> QED
    BY <2>1, <2>2, <2>3 DEF AuthInv
<1>3. CASE Tick \/ UNCHANGED vars
  <2>1. UNCHANGED <<users, skew, req, pc, locals, answer, history>>
    BY <1>3 DEF Tick, vars
  <2>2. now \in Int /\ now <= now'
    BY <1>3 DEF Tick, vars, TypeOK
  <2>3. Progress /\ \A r \in Requests : Still(r)
    BY <2>1, <2>2 DEF Progress, Still
  <2> QED
    BY <2>1, <2>3, RequestStays, TimeStays, UsersStay DEF AuthInv
<1> QED
  BY <1>1, <1>2, <1>3 DEF Next, Arrival

(* The inductive invariant of accounts and tokens holds in every reachable *)
(* state, however registrations, logins and failures interleave.           *)
THEOREM AuthInvariance == Spec => []AuthInv
<1>1. Init => AuthInv
  BY AuthInit
<1>2. AuthInv /\ [Next]_vars => AuthInv'
  BY AuthStep
<1> QED
  BY <1>1, <1>2, PTL DEF Spec

(* Every variable keeps its type; no password over 72 bytes is stored.     *)
THEOREM AuthTypes == Spec => []TypeOK
<1>1. AuthInv => TypeOK
  BY DEF AuthInv
<1> QED
  BY <1>1, AuthInvariance, PTL

(* At most one registration of an email is told 201, and the account and   *)
(* all its tokens are that one's.                                          *)
THEOREM AccountHasOneOwner == Spec => []OneOwner
<1>1. ASSUME AuthInv, NEW r \in Requests, Is(r, "register"), Answered(r, "created"),
             NEW token \in Issued, token.email = req[r].email
      PROVE  token.user = r
  <2>1. PICK q \in Requests : Answered(q, "ok") /\ token = answer[q].token
    BY <1>1 DEF Issued
  <2>2. token.user = users[req[r].email].id
    BY <1>1, <2>1 DEF AuthInv, RequestInv, AnswerInv
  <2>3. users[req[r].email].id = r
    BY <1>1 DEF AuthInv, RequestInv, AnswerInv
  <2> QED
    BY <2>2, <2>3
<1>2. AuthInv => OneOwner
  BY <1>1 DEF AuthInv, RequestInv, AnswerInv, OneOwner
<1> QED
  BY <1>2, AuthInvariance, PTL

(* Whoever was told that it is registered is never told that its password  *)
(* is invalid.                                                             *)
THEOREM RegisteredLogsIn == Spec => []RegisteredCanLogIn
<1>1. AuthInv => RegisteredCanLogIn
  BY DEF AuthInv, RequestInv, LoginInv, RegisteredCanLogIn
<1> QED
  BY <1>1, AuthInvariance, PTL

(* A 201 or a 409 means that the email has an account, with the password   *)
(* of a registration that was sent for it.                                 *)
THEOREM RegistrationRepeats == Spec => []RepeatRegisters
<1>1. ASSUME AuthInv, NEW r \in Requests, Is(r, "register"),
             Answered(r, "conflict") \/ Answered(r, "created")
      PROVE  /\ users[req[r].email] # None
             /\ \E q \in Requests : Is(q, "register") /\ req[q].email = req[r].email
                                    /\ req[q].password = users[req[r].email].hash
  <2>1. req[r].email \in Emails /\ users[req[r].email] # None
    BY <1>1, RequestTypes DEF AuthInv, RequestInv, AnswerInv
  <2>2. users[req[r].email] \in User
    BY <1>1, <2>1 DEF AuthInv, TypeOK
  <2>3. users[req[r].email].id \in Requests
    BY <2>2, UserTypes
  <2> QED
    BY <1>1, <2>1, <2>3 DEF AuthInv, UsersInv
<1>2. AuthInv => RepeatRegisters
  BY <1>1 DEF RepeatRegisters
<1> QED
  BY <1>2, AuthInvariance, PTL

(* What a process makes of a token at the time t, for clocks at most       *)
(* MaxSkew apart, when its login found the account at the time b.          *)
LEMMA WindowOfToken ==
  ASSUME NEW nbf \in Int, NEW exp \in Int, NEW b \in Int, NEW t \in Int,
         NEW s \in 0..MaxSkew, NEW z \in 0..MaxSkew,
         b + s + Lifetime <= exp, exp <= nbf + Lifetime,
         NEW token, token # None, token.nbf = nbf, token.exp = exp
  PROVE  LET age  == t - (nbf - s)
             code == ValidateToken(token, t + z)
         IN  /\ code = "admitted" => age < Lifetime + MaxSkew
             /\ code = "expired"  => t - b >= Lifetime - MaxSkew
             /\ code = "invalid"  => age < MaxSkew
<1>1. CASE token.exp <= t + z
  BY <1>1, AuthAssumption DEF ValidateToken
<1>2. CASE ~ (token.exp <= t + z) /\ t + z < token.nbf
  BY <1>2, AuthAssumption DEF ValidateToken
<1>3. CASE ~ (token.exp <= t + z) /\ ~ (t + z < token.nbf)
  BY <1>3, AuthAssumption DEF ValidateToken
<1> QED
  BY <1>1, <1>2, <1>3

(* Only the arrival of a request with a token is answered by what the      *)
(* middleware makes of it.                                                 *)
LEMMA TokenIsUsed ==
  ASSUME TypeOK, [Next]_vars, NEW r \in Requests,
         pc[r] = "new", pc'[r] = "done", req'[r].kind = "use"
  PROVE  \E a \in Apis, token \in Issued \cup {None} : ArriveWithToken(r, a, token)
<1>1. ASSUME NEW q \in Requests, q # r, Arrival(q) \/ Serve(q) PROVE FALSE
  BY <1>1 DEF TypeOK, Arrival, ArriveRegister, ArriveLogin, ArriveWithToken, Serve, Insert,
              InsertFails, Lookup, LookupFails, ReadExpiry, Sign, Respond, Answer, Goto
<1>2. ASSUME Serve(r) PROVE FALSE
  BY <1>2 DEF Serve, Insert, InsertFails, Lookup, LookupFails, ReadExpiry, Sign, Goto
<1>3. ASSUME NEW e \in Emails, NEW p \in Passwords, ArriveRegister(r, e, p) PROVE FALSE
  BY <1>3 DEF TypeOK, ArriveRegister, Arrive
<1>4. ASSUME NEW a \in Apis, NEW e \in Emails, NEW p \in Passwords, ArriveLogin(r, a, e, p)
      PROVE  FALSE
  BY <1>4 DEF TypeOK, ArriveLogin, Arrive
<1>5. ASSUME UNCHANGED pc PROVE FALSE
  BY <1>5
<1> QED
  BY <1>1, <1>2, <1>3, <1>4, <1>5 DEF Next, Arrival, Tick, vars

(* A token is honoured for its lifetime after not-before and no longer,    *)
(* and refused as expired no earlier than its lifetime after its login     *)
(* found the account, give or take the skew of the processes' clocks.      *)
THEOREM TokensHaveTheirWindow == Spec => TokenWindow
<1> DEFINE Use(r) == pc[r] = "new" /\ pc'[r] = "done" /\ req'[r].kind = "use"
           Window(r, q) ==
             Answered(q, "ok") /\ answer[q].token = req'[r].token =>
               LET age  == now - (answer[q].token.nbf - skew[req[q].api])
                   code == answer'[r].code
               IN  /\ code = "admitted" => age < Lifetime + MaxSkew
                   /\ code = "expired"  => now - began[q] >= Lifetime - MaxSkew
                   /\ code = "invalid"  => age < MaxSkew
<1>1. ASSUME AuthInv, [Next]_vars, NEW r \in Requests, Use(r), NEW q \in Requests
      PROVE  Window(r, q)
  <2>0. TypeOK
    BY <1>1 DEF AuthInv
  <2> SUFFICES ASSUME Answered(q, "ok"), answer[q].token = req'[r].token
               PROVE  Window(r, q)
    OBVIOUS
  <2>1. PICK a \in Apis, token \in Issued \cup {None} : ArriveWithToken(r, a, token)
    BY <1>1, <2>0, TokenIsUsed
  <2>2. /\ req'[r].token = token
        /\ answer'[r].code = ValidateToken(token, now + skew[a])
    BY <2>0, <2>1 DEF ArriveWithToken, Arrive, Respond, Answer, Clock, TypeOK
  <2>3. token # None /\ token = answer[q].token /\ Is(q, "login")
    BY <1>1, <2>2 DEF AuthInv, RequestInv, AnswerInv
  <2>6. /\ began[q] + skew[req[q].api] + Lifetime <= token.exp
        /\ token.exp <= token.nbf + Lifetime
    BY <1>1, <2>3 DEF AuthInv, TimeInv
  <2>4. token.nbf \in Int /\ token.exp \in Int /\ began[q] \in Int
    BY <2>0, <2>3, AnswerTypes DEF Answered, TypeOK
  <2>5. now \in Int /\ skew[a] \in 0..MaxSkew /\ skew[req[q].api] \in 0..MaxSkew
    BY <2>0, <2>3, RequestTypes, ClockType
  <2> QED
    BY <2>2, <2>3, <2>4, <2>5, <2>6, WindowOfToken
<1>2. AuthInv /\ [Next]_vars =>
        [\A r \in Requests : Use(r) => \A q \in Requests : Window(r, q)]_vars
  BY <1>1
<1> QED
  BY <1>2, AuthInvariance, PTL DEF TokenWindow, Spec
=============================================================================
