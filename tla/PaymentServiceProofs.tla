------------------------- MODULE PaymentServiceProofs -------------------------
(***************************************************************************)
(* Proofs about PaymentService, for any requests, keys and kinds of        *)
(* failure: every safety property of the service follows from ServiceInv,  *)
(* the inductive invariant.                                                *)
(***************************************************************************)
EXTENDS PaymentService, TLAPS

USE DEF redis, postgres, history

(* The labels of a request that makes a payment, and of one that looks one *)
(* up.                                                                     *)
Writing == {"insert", "save", "commit", "populate"}
Looking == {"cacheGet", "select", "fill"}

(* What is known of a request at each label: its key, its transaction and  *)
(* its row.                                                                *)
PhaseInv(r) ==
  /\ pc[r] = "new" => IsGet(r) /\ earlier[r] = {}
  /\ pc[r] \in {"acquire", "getKey"} \cup Writing => IsCreate(r) /\ req[r].key \in Keys
  /\ rows[r] # Absent => pc[r] \in {"populate", "done"} /\ req[r].key \in Keys
  /\ pc[r] = "populate" => rows[r] # Absent
  /\ pc[r] = "save"   => tx[r] = {"payment"}
  /\ pc[r] = "commit" => tx[r] = {"payment", "event"}
  /\ pc[r] \notin {"save", "commit"} => tx[r] = {}
  /\ pc[r] \in Looking => found[r].payment \in Requests
  /\ \A q \in earlier[r] : q # r /\ pc[q] = "done"

(* A key that is set names a request that sent it, and until it expires it *)
(* names the one request that may make a payment with it, or has.          *)
KeysInv ==
  /\ \A k \in Keys : keys[k] # None =>
        /\ req[keys[k]].key = k /\ pc[keys[k]] # "new"
  /\ \A r \in Requests :
        (pc[r] \in Writing \/ rows[r] # Absent) /\ req[r].key \notin lapsed
          => keys[req[r].key] = r

(* s is not further along than t, nor another status as far along.         *)
Behind(s, t) == Rank(s) <= Rank(t) /\ (Rank(s) = Rank(t) => s = t)

(* What a request has read of a payment, and what it was answered.         *)
LookupInv(r) ==
  /\ pc[r] \in Looking /\ IsCreate(r) =>
       req[found[r].payment].key = req[r].key /\ pc[found[r].payment] # "new"
  /\ pc[r] = "fill" =>
       found[r].status # Absent /\ Behind(found[r].status, rows[found[r].payment])

AnswerInv(r) ==
  answer[r] # None =>
    /\ answer[r].code = "created" => answer[r].payment # None /\ IsCreate(r)
    /\ answer[r].payment # None =>
         /\ rows[answer[r].payment] # Absent
         /\ IsCreate(r) => req[answer[r].payment].key = req[r].key

(* A repeat, from its arrival on, is on its way to the payment that the    *)
(* first request was given, as long as their key has not expired.          *)
Repeats(r, q) ==
  /\ Answered(q, "created")
  /\ IsCreate(r) /\ req[r].body # "unbound"
  /\ req[r].key = req[q].key /\ req[r].key \notin lapsed

RepeatInv(r) ==
  \A q \in earlier[r] : Repeats(r, q) =>
     /\ pc[r] \notin Writing
     /\ pc[r] \in Looking => found[r].payment = answer[q].payment
     /\ pc[r] = "done" => answer[r].code = "error" \/ answer[r] = answer[q]

(* A GET that follows the answer finds the payment.                        *)
FoundInv(r) ==
  \A q \in earlier[r] :
     /\ Answered(q, "created") /\ pc[r] = "done"
     /\ IsGet(r) /\ found[r].payment = answer[q].payment
     => ~ Answered(r, "notFound")

RequestInv(r) ==
  PhaseInv(r) /\ LookupInv(r) /\ AnswerInv(r) /\ RepeatInv(r) /\ FoundInv(r)

(* The inductive invariant.                                                *)
ServiceInv ==
  /\ TypeOK
  /\ \A r \in Requests : RequestInv(r)
  /\ KeysInv
  /\ StoredWithEvent
  /\ \A id \in Requests : Behind(cache[id], rows[id])

-----------------------------------------------------------------------------
(* Statuses.                                                               *)
(* Behind is a partial order with Absent at its bottom, and a payment only *)
(* moves up in it.                                                         *)
LEMMA BehindOrder ==
  ASSUME NEW s \in Statuses \cup {Absent}, NEW t \in Statuses \cup {Absent}
  PROVE  /\ Behind(s, s) /\ Behind(Absent, s)
         /\ Behind(s, t) /\ s # Absent => t # Absent
         /\ t # Absent => Behind(StatusPending, t)
         /\ CanTransitionTo(s, t) => Behind(s, t) /\ s # Absent /\ t # Absent
  BY DEF Behind, Rank, Statuses, Terminal, Absent, CanTransitionTo, StatusPending,
         StatusProcessing, StatusApproved, StatusRejected, StatusFailed

(* Behind is transitive.                                                   *)
LEMMA BehindTransitive ==
  ASSUME NEW s \in Statuses \cup {Absent}, NEW t \in Statuses \cup {Absent},
         NEW u \in Statuses \cup {Absent}, Behind(s, t), Behind(t, u)
  PROVE  Behind(s, u)
  BY DEF Behind, Rank, Statuses, Terminal, Absent, StatusPending,
         StatusProcessing, StatusApproved, StatusRejected, StatusFailed

(* PENDING is a status, Absent is none, and the worker's are statuses.     *)
LEMMA StatusNames ==
  /\ StatusPending \in Statuses /\ StatusPending # Absent /\ Absent \notin Statuses
  /\ Outcomes \cup {StatusProcessing} \subseteq Statuses
  BY ServiceAssumption
     DEF Statuses, Terminal, Absent, StatusPending, StatusProcessing,
         StatusApproved, StatusRejected, StatusFailed

-----------------------------------------------------------------------------
(* Types.                                                                  *)

(* A body that binds is validated into one of the codes.                   *)
LEMMA CodesOf ==
  /\ \A body \in Bodies : Validate(body) \in {"created", "error", "bad"}
  /\ \A r : Hit(r) \in {"ok", "created"} /\ Miss(r) \in {"notFound", "conflict"}
  /\ {"ok", "created", "notFound", "conflict", "error", "bad"} \subseteq Codes
  BY DEF Validate, Hit, Miss, Codes

(* What a step does to where the requests are and what they are answered,  *)
(* when it moves the request r.                                            *)
AnswersOK ==
  /\ pc \in [Requests -> Labels]
  /\ answer \in [Requests -> Response \cup {None}]
  /\ \A q \in Requests : answer[q] # None <=> pc[q] = "done"

Moves(r, to) ==
  /\ pc'[r] = to
  /\ \A q \in Requests \ {r} : pc'[q] = pc[q] /\ answer'[q] = answer[q]

FoundOK ==
  found \in [Requests -> [payment : Requests \cup {None}, status : Statuses \cup {Absent}]]

(* A request that is answered is done.                                     *)
LEMMA Responds ==
  ASSUME TypeOK, NEW r \in Requests, NEW code \in Codes,
         NEW id \in Requests \cup {None}, Respond(r, code, id)
  PROVE  /\ AnswersOK' /\ Moves(r, "done")
         /\ answer'[r] = [code |-> code, payment |-> id]
  BY ServiceAssumption DEF TypeOK, Respond, Labels, Response, AnswersOK, Moves

(* A request that goes on to another label is not answered.                *)
LEMMA GoesOn ==
  ASSUME TypeOK, NEW r \in Requests, NEW from \in Labels \ {"done"},
         NEW to \in Labels \ {"done"}, Goto(r, from, to), UNCHANGED answer
  PROVE  AnswersOK' /\ Moves(r, to) /\ pc[r] = from /\ answer'[r] = None
  BY DEF TypeOK, Goto, Labels, AnswersOK, Moves

(* What a request looks up is changed.                                     *)
LEMMA FoundPayment ==
  ASSUME TypeOK, NEW r \in Requests, NEW id \in Requests \cup {None},
         found' = [found EXCEPT ![r].payment = id]
  PROVE  /\ FoundOK'
         /\ found'[r].payment = id /\ found'[r].status = found[r].status
         /\ \A q \in Requests \ {r} : found'[q] = found[q]
<1>1. found[r] \in [payment : Requests \cup {None}, status : Statuses \cup {Absent}]
  BY DEF TypeOK
<1>2. /\ found'[r] = [found[r] EXCEPT !.payment = id]
      /\ \A q \in Requests \ {r} : found'[q] = found[q]
      /\ found' = [q \in Requests |-> found'[q]]
  BY DEF TypeOK
<1> QED
  BY <1>1, <1>2 DEF TypeOK, FoundOK

(* What a request has read of it is changed.                               *)
LEMMA FoundStatus ==
  ASSUME TypeOK, NEW r \in Requests, NEW s \in Statuses \cup {Absent},
         found' = [found EXCEPT ![r].status = s]
  PROVE  /\ FoundOK'
         /\ found'[r].payment = found[r].payment /\ found'[r].status = s
         /\ \A q \in Requests \ {r} : found'[q] = found[q]
<1>1. found[r] \in [payment : Requests \cup {None}, status : Statuses \cup {Absent}]
  BY DEF TypeOK
<1>2. /\ found'[r] = [found[r] EXCEPT !.status = s]
      /\ \A q \in Requests \ {r} : found'[q] = found[q]
      /\ found' = [q \in Requests |-> found'[q]]
  BY DEF TypeOK
<1> QED
  BY <1>1, <1>2 DEF TypeOK, FoundOK

(* A transaction is opened, goes on or ends.                               *)
LEMMA TxStep ==
  ASSUME TypeOK, AnswersOK', NEW r \in Requests, NEW to, Moves(r, to),
         \/ UNCHANGED tx /\ tx[r] = {}
         \/ tx' = [tx EXCEPT ![r] = {}]
         \/ to \in {"save", "commit"} /\ \E t \in {"payment", "event"} : tx' = [tx EXCEPT ![r] = @ \cup {t}]
  PROVE  /\ tx' \in [Requests -> SUBSET {"payment", "event"}]
         /\ \A q \in Requests : /\ answer'[q] # None <=> pc'[q] = "done"
                                /\ tx'[q] # {} => pc'[q] \in {"save", "commit"}
<1>1. tx' \in [Requests -> SUBSET {"payment", "event"}]
  BY DEF TypeOK
<1>2. \A q \in Requests \ {r} : tx'[q] = tx[q]
  BY DEF TypeOK
<1>3. tx'[r] # {} => to \in {"save", "commit"}
  BY DEF TypeOK
<1> QED
  BY <1>1, <1>2, <1>3 DEF TypeOK, AnswersOK, Moves

(* The key and the payment that a request names.                           *)
LEMMA NameTypes ==
  ASSUME ServiceInv, NEW r \in Requests
  PROVE  /\ TypeOK
         /\ req[r].key \in Keys \cup {None} /\ req[r].body \in Bodies \cup {"get"}
         /\ pc[r] \in {"acquire", "getKey"} \cup Writing => req[r].key \in Keys
         /\ found[r].payment \in Requests \cup {None}
         /\ pc[r] \in Looking => found[r].payment \in Requests
         /\ found[r].status \in Statuses \cup {Absent}
         /\ pc[r] \in Labels /\ earlier[r] \subseteq Requests
         /\ pc[r] \notin {"save", "commit"} => tx[r] = {}
<1>1. /\ req[r] \in [key : Keys \cup {None}, body : Bodies \cup {"get"}]
      /\ found[r] \in [payment : Requests \cup {None}, status : Statuses \cup {Absent}]
      /\ TypeOK
  BY DEF TypeOK, ServiceInv
<1>2. PhaseInv(r)
  BY DEF ServiceInv, RequestInv
<1> QED
  BY <1>1, <1>2 DEF TypeOK, PhaseInv

(* A payment that a client is given.                                       *)
LEMMA AnswerTypes ==
  ASSUME TypeOK, NEW r \in Requests, answer[r] # None
  PROVE  /\ answer[r].payment \in Requests \cup {None}
         /\ answer[r] = [code |-> answer[r].code, payment |-> answer[r].payment]
         /\ pc[r] = "done"
<1>1. answer[r] \in Response
  BY DEF TypeOK
<1> QED
  BY <1>1 DEF TypeOK, Response

(* Every step keeps the types.                                             *)
LEMMA TypeStep ==
  ASSUME ServiceInv, [Next]_vars
  PROVE  TypeOK'
<1>0. TypeOK
  BY DEF ServiceInv
<1> USE <1>0, StatusNames, CodesOf
<1>1. ASSUME NEW r \in Requests, NEW k \in Keys, NEW b \in Bodies, ArriveCreate(r, k, b)
      PROVE  TypeOK'
  <2>1. \E to : AnswersOK' /\ Moves(r, to)
    BY <1>1, Responds, GoesOn DEF ArriveCreate, Labels
  <2>2. tx[r] = {} /\ UNCHANGED tx
    BY <1>1, NameTypes DEF ArriveCreate
  <2> QED
    BY <1>1, <2>1, <2>2, TxStep DEF TypeOK, ArriveCreate, AnswersOK
<1>2. ASSUME NEW r \in Requests, NEW id \in Requests \cup {None}, ArriveGet(r, id) PROVE TypeOK'
  <2>1. (\E to : AnswersOK' /\ Moves(r, to)) /\ FoundOK'
    BY <1>2, Responds, GoesOn, FoundPayment DEF ArriveGet, Labels
  <2>2. tx[r] = {} /\ UNCHANGED tx
    BY <1>2, NameTypes DEF ArriveGet, Goto
  <2> QED
    BY <1>2, <2>1, <2>2, TxStep DEF TypeOK, ArriveGet, AnswersOK, FoundOK
<1>3. ASSUME NEW r \in Requests, Acquire(r) PROVE TypeOK'
  <2>1. \E to : AnswersOK' /\ Moves(r, to)
    <3>1. Validate(req[r].body) \in Codes
      BY DEF Validate, Codes
    <3> QED
      BY <1>3, <3>1, Responds, GoesOn DEF Acquire, Labels
  <2>2. tx[r] = {} /\ UNCHANGED tx /\ keys' \in [Keys -> Requests \cup {None}]
    BY <1>3, NameTypes DEF Acquire, TypeOK
  <2> QED
    BY <1>3, <2>1, <2>2, TxStep DEF TypeOK, Acquire, AnswersOK
<1>4. ASSUME NEW r \in Requests, AcquireDuplicate(r) PROVE TypeOK'
  <2>1. AnswersOK' /\ Moves(r, "getKey")
    BY <1>4, GoesOn DEF AcquireDuplicate, Labels
  <2>2. tx[r] = {} /\ UNCHANGED tx
    BY <1>4, NameTypes DEF AcquireDuplicate, Goto
  <2> QED
    BY <1>4, <2>1, <2>2, TxStep DEF TypeOK, AcquireDuplicate, AnswersOK
<1>5. ASSUME NEW r \in Requests, AcquireFails(r) PROVE TypeOK'
  <2>1. AnswersOK' /\ Moves(r, "done")
    BY <1>5, Responds DEF AcquireFails
  <2>2. tx[r] = {} /\ UNCHANGED tx /\ keys' \in [Keys -> Requests \cup {None}]
    <3>1. tx[r] = {}
      BY <1>5, NameTypes DEF AcquireFails
    <3> QED
      BY <1>5, <3>1 DEF AcquireFails, TypeOK
  <2> QED
    BY <1>5, <2>1, <2>2, TxStep DEF TypeOK, AcquireFails, AnswersOK
<1>6. ASSUME NEW r \in Requests, GetKey(r) PROVE TypeOK'
  <2>1. AnswersOK' /\ \E to : Moves(r, to)
    BY <1>6, Responds, GoesOn DEF GetKey, Labels
  <2>2. tx[r] = {} /\ UNCHANGED tx
    BY <1>6, NameTypes DEF GetKey, Goto
  <2>3. FoundOK'
    <3>1. req[r].key \in Keys
      BY <1>6, NameTypes DEF GetKey, Goto
    <3>2. keys[req[r].key] \in Requests \cup {None}
      BY <3>1 DEF TypeOK
    <3>3. FoundOK
      BY DEF TypeOK, FoundOK
    <3>4. UNCHANGED found => FoundOK'
      BY <3>3 DEF FoundOK
    <3> QED
      BY <1>6, <3>2, <3>4, FoundPayment DEF GetKey
  <2> QED
    BY <1>6, <2>1, <2>2, <2>3, TxStep DEF TypeOK, GetKey, AnswersOK, FoundOK
<1>7. ASSUME NEW r \in Requests, CacheGet(r) PROVE TypeOK'
  <2>1. AnswersOK' /\ \E to : Moves(r, to)
    <3>1. Hit(r) \in Codes /\ found[r].payment \in Requests
      BY <1>7, NameTypes DEF CacheGet, Goto, Looking
    <3> QED
      BY <1>7, <3>1, Responds, GoesOn DEF CacheGet, Labels
  <2>2. tx[r] = {} /\ UNCHANGED tx
    BY <1>7, NameTypes DEF CacheGet, Goto
  <2> QED
    BY <1>7, <2>1, <2>2, TxStep DEF TypeOK, CacheGet, AnswersOK
<1>8. ASSUME NEW r \in Requests, Select(r) PROVE TypeOK'
  <2>1. AnswersOK' /\ \E to : Moves(r, to)
    BY <1>8, Responds, GoesOn DEF Select, Labels
  <2>2. tx[r] = {} /\ UNCHANGED tx
    BY <1>8, NameTypes DEF Select, Goto
  <2>3. FoundOK'
    <3>1. found[r].payment \in Requests
      BY <1>8, NameTypes DEF Select, Looking, Goto
    <3>2. rows[found[r].payment] \in Statuses \cup {Absent}
      BY <3>1 DEF TypeOK
    <3>3. FoundOK
      BY DEF TypeOK, FoundOK
    <3>4. UNCHANGED found => FoundOK'
      BY <3>3 DEF FoundOK
    <3> QED
      BY <1>8, <3>2, <3>4, FoundStatus DEF Select
  <2> QED
    BY <1>8, <2>1, <2>2, <2>3, TxStep DEF TypeOK, Select, AnswersOK, FoundOK
<1>9. ASSUME NEW r \in Requests, Fill(r) PROVE TypeOK'
  <2>1. AnswersOK' /\ Moves(r, "done") /\ FoundOK'
    <3>1. Hit(r) \in Codes /\ found[r].payment \in Requests
      BY <1>9, NameTypes DEF Fill, Looking
    <3> QED
      BY <1>9, <3>1, Responds, FoundStatus DEF Fill
  <2>2. tx[r] = {} /\ UNCHANGED tx /\ cache' \in [Requests -> Statuses \cup {Absent}]
    <3>1. tx[r] = {} /\ found[r].status \in Statuses \cup {Absent}
      BY <1>9, NameTypes DEF Fill
    <3> QED
      BY <1>9, <3>1 DEF Fill, TypeOK
  <2> QED
    BY <1>9, <2>1, <2>2, TxStep DEF TypeOK, Fill, AnswersOK, FoundOK
<1>10. ASSUME NEW r \in Requests, Insert(r) PROVE TypeOK'
  BY <1>10 DEF TypeOK, Insert, Goto, Labels
<1>11. ASSUME NEW r \in Requests, Save(r) PROVE TypeOK'
  BY <1>11 DEF TypeOK, Save, Goto, Labels
<1>12. ASSUME NEW r \in Requests, Commit(r) PROVE TypeOK'
  BY <1>12 DEF TypeOK, Commit, Committed, Goto, Labels
<1>13. ASSUME NEW r \in Requests, TxFails(r) PROVE TypeOK'
  <2>1. AnswersOK' /\ Moves(r, "done")
    BY <1>13, Responds DEF TxFails
  <2>2. rows' \in [Requests -> Statuses \cup {Absent}] /\ events' \subseteq Requests
    BY <1>13 DEF TxFails, Committed, TypeOK
  <2> QED
    BY <1>13, <2>1, <2>2, TxStep DEF TypeOK, TxFails, AnswersOK
<1>14. ASSUME NEW r \in Requests, Populate(r) PROVE TypeOK'
  <2>1. AnswersOK' /\ Moves(r, "done")
    BY <1>14, Responds DEF Populate
  <2>2. tx[r] = {} /\ UNCHANGED tx /\ cache' \in [Requests -> Statuses \cup {Absent}]
    <3>1. tx[r] = {}
      BY <1>14, NameTypes DEF Populate
    <3> QED
      BY <1>14, <3>1 DEF Populate, TypeOK
  <2> QED
    BY <1>14, <2>1, <2>2, TxStep DEF TypeOK, Populate, AnswersOK
<1>15. ASSUME NEW r \in Requests, Abandon(r) PROVE TypeOK'
  <2>1. AnswersOK' /\ Moves(r, "done")
    BY <1>15, Responds DEF Abandon
  <2> QED
    BY <1>15, <2>1, TxStep DEF TypeOK, Abandon, AnswersOK
<1>16. ASSUME NEW id \in Requests, WorkerMoves(id) PROVE TypeOK'
  BY <1>16 DEF TypeOK, WorkerMoves
<1>17. ASSUME NEW id \in Requests, WorkerCaches(id) PROVE TypeOK'
  BY <1>17 DEF TypeOK, WorkerCaches
<1>18. ASSUME NEW id \in Requests, ExpireCache(id) PROVE TypeOK'
  BY <1>18 DEF TypeOK, ExpireCache
<1>19. ASSUME NEW k \in Keys, ExpireKey(k) PROVE TypeOK'
  BY <1>19 DEF TypeOK, ExpireKey
<1>20. CASE UNCHANGED vars
  BY <1>20 DEF vars, TypeOK
<1> QED
  BY <1>1, <1>2, <1>3, <1>4, <1>5, <1>6, <1>7, <1>8, <1>9, <1>10, <1>11, <1>12, <1>13,
     <1>14, <1>15, <1>16, <1>17, <1>18, <1>19, <1>20
     DEF Next, Serve

-----------------------------------------------------------------------------
(* What every step does.                                                   *)
(* A request that was sent keeps what it asks for, one that was answered   *)
(* keeps its answer, a payment only moves on, and a key that expired has.  *)
Progress ==
  /\ \A q \in Requests : pc[q] # "new" =>
        pc'[q] # "new" /\ req'[q] = req[q] /\ earlier'[q] = earlier[q]
  /\ \A q \in Requests : pc[q] = "done" => pc'[q] = "done" /\ answer'[q] = answer[q]
  /\ \A q \in Requests : Behind(rows[q], rows'[q])
  /\ lapsed \subseteq lapsed'

(* A step that is not of the request r.                                    *)
Still(r) ==
  /\ pc'[r] = pc[r] /\ req'[r] = req[r] /\ earlier'[r] = earlier[r]
  /\ found'[r] = found[r] /\ answer'[r] = answer[r] /\ tx'[r] = tx[r]
  /\ rows[r] = Absent => rows'[r] = Absent

(* A key is set by a request that acquires it, and only then, and cleared  *)
(* when it expires.                                                        *)
KeysMove ==
  \A k \in Keys : k \notin lapsed' /\ keys'[k] # keys[k] =>
     keys[k] = None /\ \E r \in Requests : /\ pc[r] = "acquire" /\ req[r].key = k
                                           /\ keys'[k] = r

(* The step of the request r that was sent and is not answered yet: every  *)
(* action of Serve keeps what Progress says, and no other request moves.   *)
Alone(r) ==
  /\ pc[r] \notin {"new", "done"} /\ pc'[r] # "new"
  /\ UNCHANGED <<req, earlier, lapsed>>
  /\ \A q \in Requests \ {r} : Still(q) /\ rows'[q] = rows[q]
  /\ Behind(rows[r], rows'[r])

(* Rows that do not change do not move back.                               *)
LEMMA SameRows ==
  ASSUME TypeOK, UNCHANGED rows
  PROVE  \A q \in Requests : Behind(rows[q], rows'[q])
  BY BehindOrder DEF TypeOK

(* A request at work moves alone.                                          *)
LEMMA ServeAlone ==
  ASSUME ServiceInv, NEW r \in Requests, Serve(r)
  PROVE  Alone(r)
<1>0. TypeOK
  BY DEF ServiceInv
<1> USE <1>0, SameRows
<1>1. CASE Acquire(r)
  BY <1>1 DEF TypeOK, Acquire, Goto, Respond, Alone, Still
<1>2. CASE AcquireDuplicate(r)
  BY <1>2 DEF TypeOK, AcquireDuplicate, Goto, Alone, Still
<1>3. CASE AcquireFails(r)
  BY <1>3 DEF TypeOK, AcquireFails, Respond, Alone, Still
<1>4. CASE GetKey(r)
  BY <1>4 DEF TypeOK, GetKey, Goto, Respond, Alone, Still
<1>5. CASE CacheGet(r)
  BY <1>5 DEF TypeOK, CacheGet, Goto, Respond, Alone, Still
<1>6. CASE Select(r)
  BY <1>6 DEF TypeOK, Select, Goto, Respond, Alone, Still
<1>7. CASE Fill(r)
  BY <1>7 DEF TypeOK, Fill, Respond, Alone, Still
<1>8. CASE Insert(r)
  BY <1>8 DEF TypeOK, Insert, Goto, Alone, Still
<1>9. CASE Save(r)
  BY <1>9 DEF TypeOK, Save, Goto, Alone, Still
<1>10. ASSUME pc[r] = "commit", rows' = rows \/ Committed(r) PROVE Behind(rows[r], rows'[r])
  <2>1. rows[r] = Absent
    BY <1>10 DEF ServiceInv, RequestInv, PhaseInv
  <2>2. rows'[r] \in Statuses \cup {Absent}
    BY <1>10, StatusNames DEF TypeOK, Committed
  <2> QED
    BY <2>1, <2>2, BehindOrder
<1>11. CASE Commit(r)
  <2>1. Behind(rows[r], rows'[r])
    BY <1>10, <1>11 DEF Commit, Goto
  <2> QED
    BY <1>11, <2>1 DEF TypeOK, Commit, Committed, Goto, Alone, Still
<1>12. CASE TxFails(r)
  <2>1. Behind(rows[r], rows'[r])
    BY <1>10, <1>12 DEF TxFails
  <2> QED
    BY <1>12, <2>1 DEF TypeOK, TxFails, Committed, Respond, Alone, Still
<1>13. CASE Populate(r)
  BY <1>13 DEF TypeOK, Populate, Respond, Alone, Still
<1>14. CASE Abandon(r)
  BY <1>14 DEF TypeOK, Abandon, Respond, Alone, Still
<1> QED
  BY <1>1, <1>2, <1>3, <1>4, <1>5, <1>6, <1>7, <1>8, <1>9, <1>11, <1>12, <1>13, <1>14
     DEF Serve

(* A request writes no row but that of its payment, once, as PENDING.      *)
LEMMA ServeRows ==
  ASSUME ServiceInv, NEW r \in Requests, Serve(r)
  PROVE  \/ UNCHANGED rows
         \/ rows[r] = Absent /\ rows' = [rows EXCEPT ![r] = StatusPending]
<1>1. pc[r] = "commit" => rows[r] = Absent
  BY DEF ServiceInv, RequestInv, PhaseInv
<1> QED
  BY <1>1 DEF Serve, Acquire, AcquireDuplicate, AcquireFails, GetKey, CacheGet, Select, Fill,
              Insert, Save, Commit, Committed, TxFails, Populate, Abandon, Goto

(* Every step keeps what Progress says.                                    *)
LEMMA ProgressStep ==
  ASSUME ServiceInv, [Next]_vars
  PROVE  Progress
<1>0. TypeOK
  BY DEF ServiceInv
<1> USE <1>0, SameRows
<1>1. ASSUME NEW r \in Requests, NEW k \in Keys, NEW b \in Bodies, ArriveCreate(r, k, b)
      PROVE  Progress
  BY <1>1 DEF TypeOK, ArriveCreate, Goto, Respond, Progress
<1>2. ASSUME NEW r \in Requests, NEW id \in Requests \cup {None}, ArriveGet(r, id) PROVE Progress
  BY <1>2 DEF TypeOK, ArriveGet, Goto, Respond, Progress
<1>3. ASSUME NEW r \in Requests, Serve(r) PROVE Progress
  <2>1. Alone(r)
    BY <1>3, ServeAlone
  <2> QED
    BY <2>1, BehindOrder DEF Alone, Still, Progress, TypeOK
<1>4. ASSUME NEW id \in Requests, WorkerMoves(id) PROVE Progress
  <2>1. \A q \in Requests : Behind(rows[q], rows'[q])
    BY <1>4, BehindOrder, StatusNames DEF WorkerMoves, TypeOK
  <2> QED
    BY <1>4, <2>1 DEF WorkerMoves, Progress
<1>5. ASSUME NEW id \in Requests, WorkerCaches(id) \/ ExpireCache(id) PROVE Progress
  BY <1>5 DEF WorkerCaches, ExpireCache, Progress
<1>6. ASSUME NEW k \in Keys, ExpireKey(k) PROVE Progress
  BY <1>6 DEF ExpireKey, Progress
<1>7. CASE UNCHANGED vars
  BY <1>7 DEF vars, Progress
<1> QED
  BY <1>1, <1>2, <1>3, <1>4, <1>5, <1>6, <1>7 DEF Next

(* How the keys change.                                                    *)
LEMMA KeysStep ==
  ASSUME ServiceInv, [Next]_vars
  PROVE  KeysMove
<1>0. TypeOK
  BY DEF ServiceInv
<1> USE <1>0
<1>1. ASSUME NEW r \in Requests, Acquire(r) \/ AcquireFails(r) PROVE KeysMove
  <2>1. req[r].key \in Keys
    BY <1>1, NameTypes DEF Acquire, AcquireFails
  <2> QED
    BY <1>1, <2>1 DEF Acquire, AcquireFails, KeysMove, TypeOK
<1>2. ASSUME NEW k \in Keys, ExpireKey(k) PROVE KeysMove
  BY <1>2 DEF ExpireKey, KeysMove, TypeOK
<1>3. CASE UNCHANGED keys
  BY <1>3 DEF KeysMove
<1> QED
  BY <1>1, <1>2, <1>3
     DEF Next, Serve, ArriveCreate, ArriveGet, AcquireDuplicate, GetKey, CacheGet,
         Select, Fill, Insert, Save, Commit, TxFails, Populate, Abandon, WorkerMoves,
         WorkerCaches, ExpireCache, vars

-----------------------------------------------------------------------------
(* What is known of the requests.                                          *)
(* A payment that is stored stays stored, and keeps its key.               *)
LEMMA StoredStays ==
  ASSUME ServiceInv, Progress, TypeOK', NEW id \in Requests, rows[id] # Absent
  PROVE  rows'[id] # Absent /\ pc[id] # "new" /\ req'[id] = req[id]
<1>1. rows'[id] # Absent
  BY BehindOrder DEF ServiceInv, TypeOK, Progress
<1>2. pc[id] # "new"
  BY DEF ServiceInv, RequestInv, PhaseInv
<1> QED
  BY <1>1, <1>2 DEF Progress

(* What was answered before a request arrived stays so.                    *)
LEMMA EarlierStays ==
  ASSUME ServiceInv, Progress, NEW r \in Requests, pc[r] # "new", NEW q \in earlier[r]
  PROVE  /\ q \in Requests /\ q # r /\ earlier'[r] = earlier[r]
         /\ pc'[q] = "done" /\ answer'[q] = answer[q] /\ req'[q] = req[q]
         /\ answer[q] # None
         /\ Repeats(r, q)' => Repeats(r, q)
<1>1. q \in Requests /\ q # r /\ pc[q] = "done" /\ answer[q] # None
  BY DEF ServiceInv, RequestInv, PhaseInv, TypeOK
<1> QED
  BY <1>1 DEF Progress, Repeats, Answered, IsCreate

(* The key of a request names the payment that an earlier request with the *)
(* same key was given.                                                     *)
LEMMA KeyOfPayment ==
  ASSUME ServiceInv, NEW r \in Requests, NEW q \in earlier[r], Repeats(r, q)
  PROVE  /\ answer[q].payment \in Requests
         /\ answer[q] = [code |-> "created", payment |-> answer[q].payment]
         /\ rows[answer[q].payment] # Absent
         /\ keys[req[r].key] = answer[q].payment
<1>1. q \in Requests /\ answer[q] # None /\ TypeOK
  BY DEF ServiceInv, RequestInv, PhaseInv, TypeOK, Repeats, Answered
<1>2. /\ answer[q].payment \in Requests \cup {None}
      /\ answer[q] = [code |-> "created", payment |-> answer[q].payment]
  BY <1>1, AnswerTypes DEF Repeats, Answered
<1>3. AnswerInv(q)
  BY <1>1 DEF ServiceInv, RequestInv
<1>4. /\ answer[q].payment \in Requests /\ rows[answer[q].payment] # Absent
      /\ req[answer[q].payment].key = req[r].key
  BY <1>1, <1>2, <1>3 DEF AnswerInv, Repeats, Answered
<1>5. keys[req[r].key] = answer[q].payment
  BY <1>4 DEF ServiceInv, KeysInv, Repeats
<1> QED
  BY <1>2, <1>4, <1>5

(* What is known of a request that does not move stays true.               *)
LEMMA RequestStays ==
  ASSUME ServiceInv, Progress, TypeOK', NEW r \in Requests, Still(r)
  PROVE  RequestInv(r)'
<1>0. TypeOK /\ RequestInv(r)
  BY DEF ServiceInv
<1> USE <1>0
<1>1. PhaseInv(r)'
  <2>1. rows'[r] # Absent => rows[r] # Absent
    BY DEF Still
  <2>2. rows[r] # Absent => rows'[r] # Absent
    BY StoredStays
  <2>3. \A q \in earlier[r] : q # r /\ pc'[q] = "done"
    <3>1. ASSUME NEW q \in earlier[r] PROVE q # r /\ pc'[q] = "done"
      BY <3>1 DEF RequestInv, PhaseInv, TypeOK, Progress
    <3> QED
      BY <3>1
  <2> QED
    BY <2>1, <2>2, <2>3 DEF PhaseInv, RequestInv, Still, IsGet, IsCreate
<1>2. LookupInv(r)'
  <2>1. ASSUME pc[r] \in Looking
        PROVE  found[r].payment \in Requests /\ found[r].status \in Statuses \cup {Absent}
    BY <2>1, NameTypes
  <2>2. ASSUME pc[r] \in Looking, IsCreate(r)
        PROVE  /\ req'[found[r].payment].key = req[r].key
               /\ pc'[found[r].payment] # "new"
    BY <2>1, <2>2 DEF RequestInv, LookupInv, Progress
  <2>3. ASSUME pc[r] = "fill"
        PROVE  found[r].status # Absent /\ Behind(found[r].status, rows'[found[r].payment])
    <3>1. found[r].payment \in Requests /\ found[r].status \in Statuses \cup {Absent}
      BY <2>1, <2>3 DEF Looking
    <3>2. /\ rows[found[r].payment] \in Statuses \cup {Absent}
          /\ rows'[found[r].payment] \in Statuses \cup {Absent}
      BY <3>1 DEF TypeOK
    <3> QED
      BY <2>3, <3>1, <3>2, BehindTransitive DEF RequestInv, LookupInv, Progress
  <2> QED
    BY <2>2, <2>3 DEF LookupInv, Still, IsCreate
<1>3. AnswerInv(r)'
  <2>1. ASSUME answer[r] # None, answer[r].payment # None
        PROVE  /\ rows'[answer[r].payment] # Absent
               /\ req'[answer[r].payment] = req[answer[r].payment]
    <3>1. answer[r].payment \in Requests
      BY <2>1, AnswerTypes
    <3> QED
      BY <2>1, <3>1, StoredStays DEF RequestInv, AnswerInv
  <2> QED
    BY <2>1 DEF RequestInv, AnswerInv, Still, IsCreate
<1>4. pc[r] = "new" => earlier'[r] = {}
  BY DEF RequestInv, PhaseInv, Still
<1>5. RepeatInv(r)'
  <2>1. ASSUME NEW q \in earlier'[r], Repeats(r, q)' PROVE
               /\ pc'[r] \notin Writing
               /\ pc'[r] \in Looking => found'[r].payment = answer'[q].payment
               /\ pc'[r] = "done" => answer'[r].code = "error" \/ answer'[r] = answer'[q]
    <3>1. q \in earlier[r] /\ pc[r] # "new"
      BY <2>1, <1>4 DEF Still
    <3>2. Repeats(r, q) /\ answer'[q] = answer[q]
      BY <2>1, <3>1, EarlierStays
    <3> QED
      BY <3>1, <3>2 DEF RequestInv, RepeatInv, Still
  <2> QED
    BY <2>1 DEF RepeatInv
<1>6. FoundInv(r)'
  <2>1. ASSUME NEW q \in earlier'[r] PROVE q \in earlier[r] /\ answer'[q] = answer[q]
    <3>1. q \in earlier[r] /\ pc[r] # "new"
      BY <2>1, <1>4 DEF Still
    <3> QED
      BY <3>1, EarlierStays
  <2> QED
    BY <2>1 DEF RequestInv, FoundInv, Still, Answered, IsGet
<1> QED
  BY <1>1, <1>2, <1>3, <1>5, <1>6 DEF RequestInv

(* A request that is answered: what the answer has to be.                  *)
LEMMA Answering ==
  ASSUME ServiceInv, Progress, TypeOK', NEW r \in Requests, Alone(r),
         NEW code \in Codes, NEW id \in Requests \cup {None},
         Respond(r, code, id),
         tx'[r] = {},
         rows'[r] # Absent => req[r].key \in Keys,
         code = "created" => id # None /\ IsCreate(r),
         id # None => rows'[id] # Absent /\ (IsCreate(r) => req[id].key = req[r].key),
         \A q \in earlier[r] : Repeats(r, q) =>
            code = "error" \/ answer[q] = [code |-> code, payment |-> id],
         code = "notFound" => /\ UNCHANGED found
                              /\ found[r].payment # None
                              /\ rows[found[r].payment] = Absent
  PROVE  RequestInv(r)'
<1>0. TypeOK /\ RequestInv(r)
  BY DEF ServiceInv
<1> USE <1>0
<1>1. /\ pc'[r] = "done" /\ pc[r] # "new"
      /\ answer'[r] = [code |-> code, payment |-> id]
      /\ req' = req /\ earlier' = earlier
  <2>1. Moves(r, "done") /\ answer'[r] = [code |-> code, payment |-> id]
    BY Responds
  <2> QED
    BY <2>1 DEF Alone, Moves
<1>2. ASSUME NEW q \in earlier'[r]
      PROVE  /\ q \in Requests /\ q # r /\ q \in earlier[r] /\ pc'[q] = "done"
             /\ answer'[q] = answer[q] /\ answer[q] # None
             /\ Repeats(r, q)' => Repeats(r, q)
  BY <1>1, <1>2, EarlierStays
<1>3. PhaseInv(r)'
  BY <1>1, <1>2 DEF PhaseInv, Looking, Writing
<1>4. LookupInv(r)'
  BY <1>1 DEF LookupInv, Looking
<1>5. AnswerInv(r)'
  BY <1>1 DEF AnswerInv, IsCreate
<1>6. RepeatInv(r)'
  BY <1>1, <1>2 DEF RepeatInv, Looking, Writing
<1>7. FoundInv(r)'
  <2>1. ASSUME NEW q \in earlier'[r], Answered(q, "created")',
               code = "notFound", found'[r].payment = answer'[q].payment
        PROVE  FALSE
    <3>1. q \in Requests /\ answer'[q] = answer[q] /\ AnswerInv(q)
      BY <1>2, <2>1 DEF ServiceInv, RequestInv
    <3>2. rows[answer[q].payment] # Absent
      BY <2>1, <3>1 DEF AnswerInv, Answered
    <3> QED
      BY <2>1, <3>1, <3>2
  <2> QED
    BY <1>1, <2>1 DEF FoundInv, Answered
<1> QED
  BY <1>3, <1>4, <1>5, <1>6, <1>7 DEF RequestInv

(* A request that goes on: what has to be known at its next label.         *)
LEMMA GoingOn ==
  ASSUME ServiceInv, Progress, TypeOK', NEW r \in Requests, Alone(r),
         pc'[r] # "done", PhaseInv(r)', LookupInv(r)',
         \A q \in earlier[r] : Repeats(r, q) =>
            /\ pc'[r] \notin Writing
            /\ pc'[r] \in Looking => found'[r].payment = answer[q].payment
  PROVE  RequestInv(r)'
<1>1. answer'[r] = None
  BY DEF TypeOK
<1>2. pc[r] # "new" /\ earlier' = earlier
  BY DEF Alone
<1>3. ASSUME NEW q \in earlier'[r]
      PROVE  q \in earlier[r] /\ answer'[q] = answer[q] /\ (Repeats(r, q)' => Repeats(r, q))
  BY <1>2, <1>3, EarlierStays
<1>4. RepeatInv(r)'
  BY <1>3 DEF RepeatInv
<1> QED
  BY <1>1, <1>4 DEF RequestInv, AnswerInv, FoundInv

(* The phase of a request that moves: nothing else than its label, its     *)
(* transaction and its row changes.                                        *)
LEMMA PhaseMoves ==
  ASSUME ServiceInv, Progress, TypeOK', NEW r \in Requests, Alone(r),
         pc'[r] \notin {"new", "done"}, pc[r] \in {"acquire", "getKey"} \cup Writing \cup Looking,
         pc'[r] \in {"getKey"} \cup Writing => pc[r] \in {"acquire", "getKey"} \cup Writing,
         rows'[r] # Absent <=> pc'[r] = "populate",
         pc'[r] = "save"   => tx'[r] = {"payment"},
         pc'[r] = "commit" => tx'[r] = {"payment", "event"},
         pc'[r] \notin {"save", "commit"} => tx'[r] = {},
         pc'[r] \in Looking => found'[r].payment \in Requests,
         pc'[r] # "acquire"
  PROVE  PhaseInv(r)'
<1>1. /\ pc[r] # "new" /\ req' = req /\ earlier' = earlier
      /\ RequestInv(r)
  BY DEF Alone, ServiceInv
<1>2. ASSUME NEW q \in earlier'[r] PROVE q # r /\ pc'[q] = "done"
  BY <1>1, <1>2, EarlierStays
<1>3. pc'[r] \in {"getKey"} \cup Writing => IsCreate(r) /\ req[r].key \in Keys
  BY <1>1 DEF RequestInv, PhaseInv
<1> QED
  BY <1>1, <1>2, <1>3 DEF PhaseInv, IsCreate, Writing

(* What is known of a request that moves.                                  *)
LEMMA RequestMoves ==
  ASSUME ServiceInv, Progress, TypeOK', NEW r \in Requests, Serve(r)
  PROVE  RequestInv(r)'
<1>0. /\ TypeOK /\ Alone(r) /\ RequestInv(r)
      /\ PhaseInv(r) /\ LookupInv(r) /\ RepeatInv(r)
  BY ServeAlone DEF ServiceInv, RequestInv
<1> USE <1>0
<1>a. /\ None \notin Requests /\ {"bad", "error", "conflict", "notFound", "ok", "created"} \subseteq Codes
      /\ \A q \in earlier[r] : Repeats(r, q) => pc[r] \notin Writing
  BY ServiceAssumption DEF Codes, RepeatInv
<1> USE <1>a
<1>e. ASSUME Respond(r, "error", None), tx'[r] = {},
             UNCHANGED rows \/ pc[r] = "commit"
      PROVE  RequestInv(r)'
  <2>1. rows'[r] # Absent => req[r].key \in Keys
    BY <1>e, NameTypes DEF PhaseInv, Writing
  <2> QED
    BY <1>e, <2>1, Answering
<1>1. CASE Acquire(r)
  <2>1. pc[r] = "acquire" /\ keys[req[r].key] = None /\ tx'[r] = {} /\ UNCHANGED rows
    BY <1>1, NameTypes DEF Acquire
  <2>2. \A q \in earlier[r] : ~ Repeats(r, q)
    BY <2>1, KeyOfPayment
  <2>3. rows[r] = Absent /\ req[r].key \in Keys
    BY <2>1, NameTypes DEF PhaseInv
  <2>4. CASE Validate(req[r].body) = "created"
    <3>1. pc'[r] = "insert"
      BY <1>1, <2>4 DEF Acquire, Goto, TypeOK
    <3>2. PhaseInv(r)'
      BY <2>1, <2>3, <3>1, PhaseMoves DEF Looking, Writing
    <3> QED
      BY <2>2, <3>1, <3>2, GoingOn DEF LookupInv, Looking
  <2>5. CASE Validate(req[r].body) # "created"
    <3>1. PICK code \in {"bad", "error"} : Respond(r, code, None)
      BY <1>1, <2>5 DEF Acquire, Validate
    <3> QED
      BY <2>1, <2>2, <2>3, <3>1, Answering
  <2> QED
    BY <2>4, <2>5
<1>2. CASE AcquireDuplicate(r)
  <2>1. pc[r] = "acquire" /\ pc'[r] = "getKey" /\ tx'[r] = {} /\ UNCHANGED rows
    BY <1>2, NameTypes DEF AcquireDuplicate, Goto, TypeOK
  <2>2. PhaseInv(r)'
    BY <2>1, PhaseMoves DEF PhaseInv, Looking, Writing
  <2> QED
    BY <2>1, <2>2, GoingOn DEF LookupInv, Looking, Writing
<1>3. CASE AcquireFails(r)
  <2>1. tx'[r] = {} /\ UNCHANGED rows
    BY <1>3, NameTypes DEF AcquireFails
  <2> QED
    BY <1>3, <2>1, <1>e DEF AcquireFails
<1>4. CASE GetKey(r)
  <2>1. pc[r] = "getKey" /\ tx'[r] = {} /\ UNCHANGED <<rows, keys>>
    BY <1>4, NameTypes DEF GetKey, Goto
  <2>2. CASE Respond(r, "error", None)
    BY <2>1, <2>2, <1>e
  <2>3. CASE /\ keys[req[r].key] # None /\ Goto(r, "getKey", "cacheGet")
             /\ found' = [found EXCEPT ![r].payment = keys[req[r].key]]
    <3>1. req[r].key \in Keys /\ rows[r] = Absent
      BY <2>1, NameTypes DEF PhaseInv
    <3>2. keys[req[r].key] \in Requests /\ pc'[r] = "cacheGet"
      BY <2>3, <3>1 DEF TypeOK, Goto
    <3>3. found'[r].payment = keys[req[r].key]
      BY <2>3, <3>2, FoundPayment
    <3>4. PhaseInv(r)'
      BY <2>1, <3>1, <3>2, <3>3, PhaseMoves DEF Looking, Writing
    <3>5. LookupInv(r)'
      <4>1. /\ req[keys[req[r].key]].key = req[r].key
            /\ pc[keys[req[r].key]] # "new"
        BY <2>3, <3>1 DEF ServiceInv, KeysInv
      <4> QED
        BY <3>2, <3>3, <4>1 DEF LookupInv, Progress, Alone
    <3>6. \A q \in earlier[r] : Repeats(r, q) => found'[r].payment = answer[q].payment
      BY <3>3, KeyOfPayment
    <3> QED
      BY <3>2, <3>4, <3>5, <3>6, GoingOn DEF Writing
  <2> QED
    BY <1>4, <2>2, <2>3 DEF GetKey
<1>5. CASE CacheGet(r)
  <2>1. pc[r] = "cacheGet" /\ tx'[r] = {} /\ UNCHANGED <<rows, cache, found, req>>
    BY <1>5, NameTypes DEF CacheGet, Goto
  <2>2. found[r].payment \in Requests /\ rows[r] = Absent
    BY <2>1, NameTypes DEF PhaseInv, Looking
  <2>3. \A q \in earlier[r] : Repeats(r, q) => found[r].payment = answer[q].payment
    BY <2>1 DEF RepeatInv, Looking
  <2>4. CASE Respond(r, Hit(r), found[r].payment) /\ cache[found[r].payment] # Absent
    <3>1. rows[found[r].payment] # Absent
      BY <2>2, <2>4, BehindOrder DEF ServiceInv, TypeOK
    <3>2. IsCreate(r) => req[found[r].payment].key = req[r].key
      BY <2>1 DEF LookupInv, Looking
    <3>3. Hit(r) \in {"ok", "created"} /\ (Hit(r) = "created" => IsCreate(r))
      BY NameTypes DEF Hit, IsGet, IsCreate
    <3>4. \A q \in earlier[r] : Repeats(r, q) =>
             answer[q] = [code |-> Hit(r), payment |-> found[r].payment]
      BY <2>3, KeyOfPayment DEF Hit, IsGet, Repeats, IsCreate, Bodies
    <3> QED
      BY <2>1, <2>2, <2>4, <3>1, <3>2, <3>3, <3>4, Answering
  <2>5. CASE Goto(r, "cacheGet", "select")
    <3>1. pc'[r] = "select"
      BY <2>5 DEF Goto, TypeOK
    <3>2. PhaseInv(r)'
      BY <2>1, <2>2, <3>1, PhaseMoves DEF Looking, Writing
    <3>3. LookupInv(r)'
      BY <2>1, <2>2, <3>1 DEF LookupInv, Looking, Progress, IsCreate
    <3> QED
      BY <2>1, <2>3, <3>1, <3>2, <3>3, GoingOn DEF Writing
  <2> QED
    BY <1>5, <2>4, <2>5 DEF CacheGet
<1>6. CASE Select(r)
  <2>1. pc[r] = "select" /\ tx'[r] = {} /\ UNCHANGED <<rows, req>>
    BY <1>6, NameTypes DEF Select, Goto
  <2>2. found[r].payment \in Requests /\ rows[r] = Absent
    BY <2>1, NameTypes DEF PhaseInv, Looking
  <2>3. \A q \in earlier[r] : Repeats(r, q) =>
           found[r].payment = answer[q].payment /\ rows[found[r].payment] # Absent
    BY <2>1, KeyOfPayment DEF RepeatInv, Looking
  <2>4. CASE /\ rows[found[r].payment] # Absent /\ Goto(r, "select", "fill")
             /\ found' = [found EXCEPT ![r].status = rows[found[r].payment]]
    <3>1. rows[found[r].payment] \in Statuses \cup {Absent}
      BY <2>2 DEF TypeOK
    <3>2. /\ pc'[r] = "fill" /\ found'[r].payment = found[r].payment
          /\ found'[r].status = rows[found[r].payment]
      BY <2>4, <3>1, FoundStatus DEF Goto, TypeOK
    <3>3. PhaseInv(r)'
      BY <2>1, <2>2, <3>2, PhaseMoves DEF Looking, Writing
    <3>4. LookupInv(r)'
      BY <2>1, <2>2, <2>4, <3>1, <3>2, BehindOrder DEF LookupInv, Looking, Progress, IsCreate
    <3> QED
      BY <2>3, <3>2, <3>3, <3>4, GoingOn DEF Writing
  <2>5. CASE rows[found[r].payment] = Absent /\ Respond(r, Miss(r), None) /\ UNCHANGED found
    <3>1. Miss(r) \in {"notFound", "conflict"}
      BY CodesOf
    <3> QED
      BY <2>1, <2>2, <2>3, <2>5, <3>1, Answering
  <2>6. CASE Respond(r, "error", None)
    BY <2>1, <2>6, <1>e
  <2> QED
    BY <1>6, <2>4, <2>5, <2>6 DEF Select
<1>7. CASE Fill(r)
  <2>1. /\ pc[r] = "fill" /\ tx'[r] = {} /\ UNCHANGED <<rows, req>>
        /\ Respond(r, Hit(r), found[r].payment)
    BY <1>7, NameTypes DEF Fill
  <2>2. found[r].payment \in Requests /\ rows[r] = Absent
    BY <2>1, NameTypes DEF PhaseInv, Looking
  <2>3. found[r].status \in Statuses \cup {Absent} /\ rows[found[r].payment] \in Statuses \cup {Absent}
    BY <2>2, NameTypes DEF TypeOK
  <2>4. rows[found[r].payment] # Absent
    BY <2>1, <2>3, BehindOrder DEF LookupInv
  <2>5. IsCreate(r) => req[found[r].payment].key = req[r].key
    BY <2>1 DEF LookupInv, Looking
  <2>6. Hit(r) \in {"ok", "created"} /\ (Hit(r) = "created" => IsCreate(r))
    BY NameTypes DEF Hit, IsGet, IsCreate
  <2>7. \A q \in earlier[r] : Repeats(r, q) =>
           answer[q] = [code |-> Hit(r), payment |-> found[r].payment]
    BY <2>1, KeyOfPayment DEF Hit, IsGet, Repeats, IsCreate, Bodies, RepeatInv, Looking
  <2> QED
    BY <2>1, <2>2, <2>4, <2>5, <2>6, <2>7, Answering
<1>8. CASE Insert(r)
  <2>1. /\ pc[r] = "insert" /\ pc'[r] = "save" /\ tx'[r] = {"payment"}
        /\ UNCHANGED rows /\ rows[r] = Absent
    BY <1>8, NameTypes DEF Insert, Goto, PhaseInv, TypeOK
  <2>2. PhaseInv(r)'
    BY <2>1, PhaseMoves DEF Looking, Writing
  <2> QED
    BY <2>1, <2>2, GoingOn DEF LookupInv, Looking, Writing
<1>9. CASE Save(r)
  <2>1. /\ pc[r] = "save" /\ pc'[r] = "commit" /\ tx'[r] = {"payment", "event"}
        /\ UNCHANGED rows /\ rows[r] = Absent
    BY <1>9 DEF Save, Goto, PhaseInv, TypeOK
  <2>2. PhaseInv(r)'
    BY <2>1, PhaseMoves DEF Looking, Writing
  <2> QED
    BY <2>1, <2>2, GoingOn DEF LookupInv, Looking, Writing
<1>10. CASE Commit(r)
  <2>1. /\ pc[r] = "commit" /\ pc'[r] = "populate" /\ tx'[r] = {} /\ rows'[r] # Absent
    BY <1>10, StatusNames DEF Commit, Committed, Goto, PhaseInv, TypeOK
  <2>2. PhaseInv(r)'
    BY <2>1, PhaseMoves DEF Looking, Writing
  <2> QED
    BY <2>1, <2>2, GoingOn DEF LookupInv, Looking, Writing
<1>11. CASE TxFails(r)
  <2>1. tx'[r] = {}
    BY <1>11 DEF TxFails, TypeOK
  <2> QED
    BY <1>11, <2>1, <1>e DEF TxFails
<1>12. CASE Populate(r)
  <2>1. /\ pc[r] = "populate" /\ tx'[r] = {} /\ UNCHANGED rows
        /\ rows[r] # Absent /\ req[r].key \in Keys /\ IsCreate(r)
        /\ Respond(r, "created", r)
    BY <1>12, NameTypes DEF Populate, PhaseInv, Writing
  <2> QED
    BY <2>1, Answering DEF Writing
<1>13. CASE Abandon(r)
  <2>1. tx'[r] = {}
    BY <1>13 DEF Abandon, TypeOK
  <2> QED
    BY <1>13, <2>1, <1>e DEF Abandon
<1> QED
  BY <1>1, <1>2, <1>3, <1>4, <1>5, <1>6, <1>7, <1>8, <1>9, <1>10, <1>11, <1>12, <1>13
     DEF Serve

(* What is known of a request that arrives.                                *)
LEMMA RequestArrives ==
  ASSUME ServiceInv, Progress, TypeOK', NEW r \in Requests,
         \/ \E k \in Keys, b \in Bodies : ArriveCreate(r, k, b)
         \/ \E id \in Requests \cup {None} : ArriveGet(r, id)
  PROVE  RequestInv(r)' /\ \A q \in Requests \ {r} : Still(q)
<1>0. TypeOK
  BY DEF ServiceInv
<1> USE <1>0
<1>1. /\ pc[r] = "new" /\ earlier'[r] = {q \in Requests : pc[q] = "done"}
      /\ tx'[r] = {} /\ rows' = rows /\ rows[r] = Absent
      /\ \A q \in Requests : pc[q] = "done" => q # r /\ pc'[q] = "done"
  <2>1. pc[r] = "new" /\ rows' = rows /\ tx' = tx
        /\ earlier'[r] = {q \in Requests : pc[q] = "done"}
    BY DEF ArriveCreate, ArriveGet, Goto, TypeOK
  <2>2. tx[r] = {} /\ rows[r] = Absent
    BY <2>1, NameTypes DEF ServiceInv, RequestInv, PhaseInv
  <2> QED
    BY <2>1, <2>2 DEF Progress
<1>2. ASSUME NEW k \in Keys, NEW b \in Bodies, ArriveCreate(r, k, b)
      PROVE  RequestInv(r)' /\ \A q \in Requests \ {r} : Still(q)
  <2>1. req'[r] = [key |-> k, body |-> b]
    BY <1>2 DEF ArriveCreate, TypeOK
  <2>2. \/ pc'[r] = "acquire" /\ b # "unbound" /\ answer'[r] = None
        \/ pc'[r] = "done" /\ b = "unbound" /\ answer'[r] = [code |-> "bad", payment |-> None]
    BY <1>2, <1>1 DEF ArriveCreate, Goto, Respond, TypeOK
  <2>3. PhaseInv(r)'
    BY <1>1, <2>1, <2>2 DEF PhaseInv, IsCreate, Looking, Writing
  <2>4. LookupInv(r)' /\ AnswerInv(r)' /\ RepeatInv(r)' /\ FoundInv(r)'
    BY <1>1, <2>1, <2>2
       DEF LookupInv, AnswerInv, RepeatInv, FoundInv, Looking, Writing, Repeats, Answered
  <2>5. \A q \in Requests \ {r} : Still(q)
    BY <1>2, <1>1 DEF ArriveCreate, Goto, Respond, TypeOK, Still
  <2> QED
    BY <2>3, <2>4, <2>5 DEF RequestInv
<1>3. ASSUME NEW id \in Requests \cup {None}, ArriveGet(r, id)
      PROVE  RequestInv(r)' /\ \A q \in Requests \ {r} : Still(q)
  <2>1. /\ req'[r] = [key |-> None, body |-> "get"]
        /\ \/ id # None /\ pc'[r] = "cacheGet" /\ answer'[r] = None
           \/ pc'[r] = "done" /\ answer'[r] = [code |-> "bad", payment |-> None]
    BY <1>3, <1>1 DEF ArriveGet, Goto, Respond, TypeOK
  <2>2. found'[r].payment = id /\ \A q \in Requests \ {r} : found'[q] = found[q]
    BY <1>3, FoundPayment DEF ArriveGet
  <2>3. PhaseInv(r)'
    BY <1>1, <2>1, <2>2 DEF PhaseInv, Looking, Writing
  <2>4. LookupInv(r)' /\ AnswerInv(r)' /\ RepeatInv(r)' /\ FoundInv(r)'
    BY <2>1 DEF LookupInv, AnswerInv, RepeatInv, FoundInv, Looking, Repeats, Answered,
                IsCreate, Bodies
  <2>5. \A q \in Requests \ {r} : Still(q)
    BY <1>3, <1>1, <2>2 DEF ArriveGet, Goto, Respond, TypeOK, Still
  <2> QED
    BY <2>3, <2>4, <2>5 DEF RequestInv
<1> QED
  BY <1>2, <1>3

(* What is known of every request stays true.                              *)
LEMMA RequestsStep ==
  ASSUME ServiceInv, Progress, TypeOK', [Next]_vars, NEW r \in Requests
  PROVE  RequestInv(r)'
<1>0. TypeOK
  BY DEF ServiceInv
<1> USE <1>0
<1>1. ASSUME NEW q \in Requests,
             \/ \E k \in Keys, b \in Bodies : ArriveCreate(q, k, b)
             \/ \E id \in Requests \cup {None} : ArriveGet(q, id)
      PROVE  RequestInv(r)'
  <2>1. RequestInv(q)' /\ \A p \in Requests \ {q} : Still(p)
    BY <1>1, RequestArrives
  <2> QED
    BY <2>1, RequestStays
<1>2. ASSUME NEW q \in Requests, Serve(q) PROVE RequestInv(r)'
  <2>1. RequestInv(q)' /\ Alone(q)
    BY <1>2, RequestMoves, ServeAlone
  <2> QED
    BY <2>1, RequestStays DEF Alone
<1>3. ASSUME NEW id \in Requests, WorkerMoves(id) PROVE RequestInv(r)'
  <2>1. Still(r)
    BY <1>3, BehindOrder, StatusNames DEF WorkerMoves, Still, TypeOK
  <2> QED
    BY <2>1, RequestStays
<1>4. CASE UNCHANGED <<rows, tx, req, pc, found, answer, earlier>>
  <2>1. Still(r)
    BY <1>4 DEF Still
  <2> QED
    BY <2>1, RequestStays
<1> QED
  BY <1>1, <1>2, <1>3, <1>4 DEF Next, WorkerCaches, ExpireCache, ExpireKey, vars

-----------------------------------------------------------------------------
(* The stores.                                                             *)
(* Only a commit stores a payment, and a request comes to make one only by *)
(* acquiring its key.                                                      *)
LEMMA MakersStep ==
  ASSUME ServiceInv, Progress, [Next]_vars, NEW r \in Requests,
         pc'[r] \in Writing \/ rows'[r] # Absent
  PROVE  \/ pc[r] \in Writing \/ rows[r] # Absent
         \/ pc[r] = "acquire" /\ keys'[req[r].key] = r
<1>0. TypeOK
  BY DEF ServiceInv
<1> USE <1>0 DEF Writing
<1>1. ASSUME NEW q \in Requests, q # r, Serve(q) PROVE pc'[r] = pc[r] /\ rows'[r] = rows[r]
  BY <1>1, ServeAlone DEF Alone, Still
<1>2. CASE Acquire(r)
  <2>1. req[r].key \in Keys
    BY <1>2, NameTypes DEF Acquire
  <2> QED
    BY <1>2, <2>1 DEF Acquire, TypeOK
<1>3. CASE Serve(r) /\ ~ Acquire(r)
  BY <1>3 DEF Serve, AcquireDuplicate, AcquireFails, GetKey, CacheGet, Select, Fill,
              Insert, Save, Commit, TxFails, Committed, Populate, Abandon, Goto, Respond, TypeOK
<1>4. ASSUME NEW q \in Requests, NEW k \in Keys, NEW b \in Bodies, ArriveCreate(q, k, b)
      PROVE  pc[r] \in Writing \/ rows[r] # Absent
  BY <1>4 DEF ArriveCreate, Goto, Respond, TypeOK
<1>5. ASSUME NEW q \in Requests, NEW id \in Requests \cup {None}, ArriveGet(q, id)
      PROVE  pc[r] \in Writing \/ rows[r] # Absent
  BY <1>5 DEF ArriveGet, Goto, Respond, TypeOK
<1>6. ASSUME NEW id \in Requests, WorkerMoves(id)
      PROVE  pc[r] \in Writing \/ rows[r] # Absent
  BY <1>6, BehindOrder, StatusNames DEF WorkerMoves, TypeOK
<1>7. CASE UNCHANGED <<pc, rows>>
  BY <1>7
<1> QED
  BY <1>1, <1>2, <1>3, <1>4, <1>5, <1>6, <1>7
     DEF Next, WorkerCaches, ExpireCache, ExpireKey, vars

(* A key keeps naming a request that sent it, and the one that may make a  *)
(* payment with it.                                                        *)
LEMMA KeysInvStep ==
  ASSUME ServiceInv, Progress, TypeOK', [Next]_vars
  PROVE  KeysInv'
<1>0. TypeOK /\ KeysMove /\ KeysInv
  BY KeysStep DEF ServiceInv
<1> USE <1>0
<1>1. ASSUME NEW k \in Keys, keys'[k] # None
      PROVE  req'[keys'[k]].key = k /\ pc'[keys'[k]] # "new"
  <2>1. CASE keys'[k] = keys[k]
    <3>1. keys[k] \in Requests /\ pc[keys[k]] # "new" /\ req[keys[k]].key = k
      BY <1>1, <2>1 DEF TypeOK, KeysInv
    <3> QED
      BY <2>1, <3>1 DEF Progress
  <2>2. CASE \E r \in Requests : pc[r] = "acquire" /\ req[r].key = k /\ keys'[k] = r
    BY <2>2 DEF Progress
  <2>3. CASE keys'[k] # keys[k] /\ k \in lapsed'
    <3>1. CASE \E q \in Requests : Acquire(q) \/ AcquireFails(q)
      <4>1. PICK q \in Requests : Acquire(q) \/ AcquireFails(q)
        BY <3>1
      <4>2. pc[q] = "acquire" /\ req[q].key \in Keys
        BY <4>1, NameTypes DEF Acquire, AcquireFails
      <4>3. req[q].key = k /\ keys'[k] = q
        BY <2>3, <4>1, <4>2 DEF Acquire, AcquireFails, TypeOK
      <4> QED
        BY <4>2, <4>3 DEF Progress
    <3>2. CASE \E x \in Keys : ExpireKey(x)
      BY <1>1, <2>3, <3>2 DEF ExpireKey, TypeOK
    <3>3. CASE UNCHANGED keys
      BY <2>3, <3>3
    <3> QED
      BY <3>1, <3>2, <3>3
         DEF Next, Serve, ArriveCreate, ArriveGet, AcquireDuplicate, GetKey, CacheGet,
             Select, Fill, Insert, Save, Commit, TxFails, Populate, Abandon, WorkerMoves,
             WorkerCaches, ExpireCache, vars
  <2> QED
    BY <2>1, <2>2, <2>3 DEF KeysMove
<1>2. ASSUME NEW r \in Requests, pc'[r] \in Writing \/ rows'[r] # Absent,
             req'[r].key \notin lapsed'
      PROVE  keys'[req'[r].key] = r
  <2>1. RequestInv(r) /\ PhaseInv(r)
    BY DEF ServiceInv, RequestInv
  <2>2. CASE pc[r] = "acquire" /\ keys'[req[r].key] = r
    BY <2>2 DEF Progress
  <2>3. CASE pc[r] \in Writing \/ rows[r] # Absent
    <3>1. pc[r] # "new" /\ req'[r] = req[r] /\ req[r].key \in Keys
      BY <2>1, <2>3 DEF PhaseInv, Writing, Progress
    <3>2. keys[req[r].key] = r
      BY <1>2, <2>3, <3>1 DEF KeysInv, Progress
    <3>3. r # None
      BY ServiceAssumption
    <3> QED
      BY <1>2, <3>1, <3>2, <3>3 DEF KeysMove
  <2> QED
    BY <1>2, <2>2, <2>3, MakersStep
<1> QED
  BY <1>1, <1>2 DEF KeysInv

(* The transactional outbox: row and event are committed together.         *)
LEMMA StoredStep ==
  ASSUME ServiceInv, Progress, [Next]_vars
  PROVE  StoredWithEvent'
<1>0. TypeOK /\ StoredWithEvent
  BY DEF ServiceInv
<1> USE <1>0
<1>1. ASSUME NEW r \in Requests, pc[r] = "commit", Committed(r) PROVE StoredWithEvent'
  <2>1. tx[r] = {"payment", "event"}
    BY <1>1 DEF ServiceInv, RequestInv, PhaseInv
  <2> QED
    BY <1>1, <2>1, StatusNames DEF Committed, StoredWithEvent, TypeOK
<1>2. ASSUME NEW id \in Requests, WorkerMoves(id) PROVE StoredWithEvent'
  BY <1>2, BehindOrder, StatusNames DEF WorkerMoves, StoredWithEvent, TypeOK
<1>3. CASE UNCHANGED <<rows, events>>
  BY <1>3 DEF StoredWithEvent
<1> QED
  BY <1>1, <1>2, <1>3
     DEF Next, Serve, ArriveCreate, ArriveGet, Acquire, AcquireDuplicate, AcquireFails,
         GetKey, CacheGet, Select, Fill, Insert, Save, Commit, TxFails, Populate, Abandon,
         WorkerCaches, ExpireCache, ExpireKey, Goto, vars

(* The cache stays behind the rows: what is put there was read from a row, *)
(* and rows only move on.                                                  *)
LEMMA CacheStep ==
  ASSUME ServiceInv, Progress, TypeOK', [Next]_vars, NEW id \in Requests
  PROVE  Behind(cache'[id], rows'[id])
<1>0. /\ TypeOK /\ Behind(cache[id], rows[id]) /\ Behind(rows[id], rows'[id])
      /\ cache[id] \in Statuses \cup {Absent} /\ rows[id] \in Statuses \cup {Absent}
      /\ rows'[id] \in Statuses \cup {Absent}
  BY DEF ServiceInv, TypeOK, Progress
<1> USE <1>0
<1>1. CASE cache'[id] = cache[id]
  BY <1>1, BehindTransitive
<1>2. CASE cache'[id] = rows[id]
  BY <1>2
<1>3. CASE cache'[id] = Absent
  BY <1>3, BehindOrder
<1>4. ASSUME NEW r \in Requests, Fill(r) PROVE Behind(cache'[id], rows'[id])
  <2>1. CASE found[r].payment = id /\ cache' = [cache EXCEPT ![id] = found[r].status]
    <3>1. LookupInv(r) /\ pc[r] = "fill"
      BY <1>4 DEF ServiceInv, RequestInv, Fill
    <3>2. found[r].status \in Statuses \cup {Absent}
      BY NameTypes
    <3> QED
      BY <2>1, <3>1, <3>2, BehindTransitive DEF LookupInv, TypeOK
  <2>2. CASE cache'[id] = cache[id]
    BY <1>1, <2>2
  <2> QED
    BY <1>4, <2>1, <2>2 DEF Fill, TypeOK
<1>5. ASSUME NEW r \in Requests, Populate(r) PROVE Behind(cache'[id], rows'[id])
  <2>1. CASE r = id /\ cache'[id] = StatusPending
    <3>1. rows[id] # Absent
      BY <1>5, <2>1 DEF ServiceInv, RequestInv, PhaseInv, Populate
    <3> QED
      BY <2>1, <3>1, StatusNames, BehindOrder, BehindTransitive
  <2>2. CASE cache'[id] = cache[id]
    BY <1>1, <2>2
  <2> QED
    BY <1>5, <2>1, <2>2 DEF Populate, TypeOK
<1>6. ASSUME NEW x \in Requests, WorkerCaches(x) \/ ExpireCache(x)
      PROVE  Behind(cache'[id], rows'[id])
  BY <1>6, <1>1, <1>2, <1>3 DEF WorkerCaches, ExpireCache, TypeOK
<1> QED
  BY <1>1, <1>4, <1>5, <1>6
     DEF Next, Serve, ArriveCreate, ArriveGet, Acquire, AcquireDuplicate, AcquireFails,
         GetKey, CacheGet, Select, Insert, Save, Commit, TxFails, Abandon,
         WorkerMoves, ExpireKey, vars

-----------------------------------------------------------------------------
(* The theorems.                                                           *)
(* ServiceInv holds initially.                                             *)
LEMMA ServiceInit == Init => ServiceInv
<1> SUFFICES ASSUME Init PROVE ServiceInv
  OBVIOUS
<1> USE ServiceAssumption DEF Init
<1>1. TypeOK
  BY DEF TypeOK, Labels
<1>2. ASSUME NEW r \in Requests PROVE RequestInv(r)
  BY DEF RequestInv, PhaseInv, LookupInv, AnswerInv, RepeatInv, FoundInv, IsGet,
         Writing, Looking
<1>3. KeysInv /\ StoredWithEvent
  BY DEF KeysInv, StoredWithEvent, Writing
<1>4. \A id \in Requests : Behind(cache[id], rows[id])
  BY BehindOrder
<1> QED
  BY <1>1, <1>2, <1>3, <1>4 DEF ServiceInv

(* Every step keeps ServiceInv.                                            *)
LEMMA ServiceStep ==
  ASSUME ServiceInv, [Next]_vars
  PROVE  ServiceInv'
<1>1. TypeOK' /\ Progress
  BY TypeStep, ProgressStep
<1>2. \A r \in Requests : RequestInv(r)'
  BY <1>1, RequestsStep
<1>3. KeysInv' /\ StoredWithEvent'
  BY <1>1, KeysInvStep, StoredStep
<1>4. \A id \in Requests : Behind(cache'[id], rows'[id])
  BY <1>1, CacheStep
<1> QED
  BY <1>1, <1>2, <1>3, <1>4 DEF ServiceInv

(* The inductive invariant of the payment service holds in every reachable *)
(* state, whatever requests race, calls fail or keys expire.               *)
THEOREM ServiceInvariance == Spec => []ServiceInv
<1>1. Init => ServiceInv
  BY ServiceInit
<1>2. ServiceInv /\ [Next]_vars => ServiceInv'
  BY ServiceStep
<1> QED
  BY <1>1, <1>2, PTL DEF Spec

(* Every variable keeps its type, and only a request in its transaction    *)
(* has one open.                                                           *)
THEOREM ServiceTypes == Spec => []TypeOK
<1>1. ServiceInv => TypeOK
  BY DEF ServiceInv
<1> QED
  BY <1>1, ServiceInvariance, PTL

(* A payment is stored exactly when its outbox event is, whatever fails.   *)
THEOREM OutboxIsTransactional == Spec => []StoredWithEvent
<1>1. ServiceInv => StoredWithEvent
  BY DEF ServiceInv
<1> QED
  BY <1>1, ServiceInvariance, PTL

(* A key that has not expired makes one payment, however many requests     *)
(* send it at once.                                                        *)
THEOREM OnePaymentPerKey == Spec => []OncePerKey
<1>1. ServiceInv => OncePerKey
  BY DEF ServiceInv, KeysInv, OncePerKey
<1> QED
  BY <1>1, ServiceInvariance, PTL

(* A client is only given a payment that was committed, and for a key it   *)
(* sent only the one made with that key.                                   *)
THEOREM AnswersStored == Spec => []AnswersAreStored
<1>1. ServiceInv => AnswersAreStored
  BY DEF ServiceInv, RequestInv, AnswerInv, AnswersAreStored
<1> QED
  BY <1>1, ServiceInvariance, PTL

(* A request repeated after its client was given a payment gets the same   *)
(* payment or a server error, until the key expires.                       *)
THEOREM RepeatsAnswered == Spec => []RepeatsGetThePayment
<1>1. ASSUME ServiceInv, NEW r \in Requests, NEW q \in earlier[r],
             Repeats(r, q), answer[r] # None
      PROVE  answer[r].code = "error" \/ answer[r] = answer[q]
  <2>1. pc[r] = "done" /\ RepeatInv(r)
    BY <1>1 DEF ServiceInv, RequestInv, TypeOK
  <2> QED
    BY <1>1, <2>1 DEF RepeatInv
<1>2. ServiceInv => RepeatsGetThePayment
  BY <1>1 DEF RepeatsGetThePayment, Repeats
<1> QED
  BY <1>2, ServiceInvariance, PTL

(* A payment that its client was given is never answered 404 later.        *)
THEOREM CreatedFound == Spec => []CreatedIsFound
<1>1. ServiceInv => CreatedIsFound
  BY DEF ServiceInv, RequestInv, FoundInv, CreatedIsFound
<1> QED
  BY <1>1, ServiceInvariance, PTL

(* The cache is never ahead of the row, nor settled otherwise, in whatever *)
(* order the API's fills and the worker's writes land.                     *)
THEOREM ServiceCacheBehind == Spec => []CacheNeverAhead
<1>1. ServiceInv => CacheNeverAhead
  BY DEF ServiceInv, Behind, CacheNeverAhead
<1> QED
  BY <1>1, ServiceInvariance, PTL
=============================================================================
