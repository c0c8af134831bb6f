---------------------------- MODULE PaymentService ----------------------------
(***************************************************************************)
(* The API's payment endpoints: PaymentHandler of                          *)
(* internal/interfaces/http/payment_handler.go over paymentService of      *)
(* internal/application/payment_service.go, with the idempotency keys and  *)
(* the read-through cache in Redis and the transaction in Postgres that    *)
(* saves a payment with its outbox event.                                  *)
(*                                                                         *)
(* Each request is a goroutine of its own.  Every call to Redis or         *)
(* Postgres is a step, so requests and the worker's updates interleave     *)
(* between any two.  The id of a payment is that of the request which made *)
(* it: uuid.New() never repeats.                                           *)
(***************************************************************************)
EXTENDS Payment

CONSTANTS Requests,  \* requests, and the ids of the payments they may make
          Keys,      \* values of the Idempotency-Key header
          None,      \* no payment, no key
          Outcomes,  \* bound: the terminal statuses the worker gives
          Faults     \* bound: the kinds of failure that may occur

(* A response: 201, 200, 400, 404, 409 or 500, and the payment it gives.   *)
Codes    == {"created", "ok", "bad", "notFound", "conflict", "error"}
Response == [code : Codes, payment : Requests \cup {None}]

ASSUME ServiceAssumption ==
  /\ None \notin Requests \cup Keys \cup Response
  /\ Outcomes \subseteq Terminal
  /\ Faults \subseteq {"redis", "db", "crash", "keyTTL"}

VARIABLES keys,      \* Redis idempotency:<key>: the payment id, or None
          cache,     \* Redis payment:<id>: the cached status, or Absent
          rows,      \* payments table: the committed status, or Absent
          events,    \* outbox_events table: payments with a committed event
          tx,        \* each request's open transaction: the rows inserted
          req,       \* what each request asks for
          pc,        \* where each request is
          found,     \* the payment a request looks up, and the status it read
          answer,    \* the response to each request
          earlier,   \* history: the requests answered before one arrived
          lapsed     \* history: the keys that have expired

redis    == <<keys, cache>>
postgres == <<rows, events, tx>>
history  == <<earlier, lapsed>>
vars == <<redis, postgres, req, pc, found, answer, history>>

(* What the body gets from binding and from Payment.Validate: it is good,  *)
(* it does not bind (or has no key), its amount or currency is invalid, or *)
(* its customer_id is the nil UUID.                                        *)
Bodies == {"good", "unbound", "invalid", "nilCustomer"}
Validate(body) == CASE body = "good"        -> "created"
                    [] body = "nilCustomer" -> "error"
                    [] OTHER                -> "bad"

MayFail(kind) == kind \in Faults
Goto(r, from, to) == pc[r] = from /\ pc' = [pc EXCEPT ![r] = to]

Respond(r, code, id) ==
  /\ pc' = [pc EXCEPT ![r] = "done"]
  /\ answer' = [answer EXCEPT ![r] = [code |-> code, payment |-> id]]

-----------------------------------------------------------------------------
(* A request arrives: POST /payments or GET /payments/{id}.                *)
ArriveCreate(r, key, body) ==
  /\ pc[r] = "new"
  /\ req' = [req EXCEPT ![r] = [key |-> key, body |-> body]]
  /\ earlier' = [earlier EXCEPT ![r] = {q \in Requests : pc[q] = "done"}]
  /\ IF body = "unbound" THEN Respond(r, "bad", None)
     ELSE Goto(r, "new", "acquire") /\ UNCHANGED answer
  /\ UNCHANGED <<redis, postgres, found, lapsed>>

(* The id None is one that uuid.Parse refuses.                             *)
ArriveGet(r, id) ==
  /\ pc[r] = "new"
  /\ req' = [req EXCEPT ![r] = [key |-> None, body |-> "get"]]
  /\ earlier' = [earlier EXCEPT ![r] = {q \in Requests : pc[q] = "done"}]
  /\ found' = [found EXCEPT ![r].payment = id]
  /\ IF id = None THEN Respond(r, "bad", None)
     ELSE Goto(r, "new", "cacheGet") /\ UNCHANGED answer
  /\ UNCHANGED <<redis, postgres, lapsed>>

(* Mutant: SET in the place of SETNX.                                      *)
AcquireAnyway(r) ==
  /\ pc[r] = "acquire"
  /\ keys' = [keys EXCEPT ![req[r].key] = r]
  /\ IF Validate(req[r].body) = "created"
     THEN Goto(r, "acquire", "insert") /\ UNCHANGED answer
     ELSE Respond(r, Validate(req[r].body), None)
  /\ UNCHANGED <<cache, postgres, req, found, history>>

(* TryAcquire: SETNX.  The request that sets the key validates its payment *)
(* next, and fails with the key set.                                       *)
Acquire(r) ==
  /\ pc[r] = "acquire"
  /\ keys[req[r].key] = None
  /\ keys' = [keys EXCEPT ![req[r].key] = r]
  /\ IF Validate(req[r].body) = "created"
     THEN Goto(r, "acquire", "insert") /\ UNCHANGED answer
     ELSE Respond(r, Validate(req[r].body), None)
  /\ UNCHANGED <<cache, postgres, req, found, history>>

AcquireDuplicate(r) ==
  /\ Goto(r, "acquire", "getKey")
  /\ keys[req[r].key] # None
  /\ UNCHANGED <<redis, postgres, req, found, answer, history>>

(* SETNX fails; the key may have been set all the same.                    *)
AcquireFails(r) ==
  /\ pc[r] = "acquire" /\ MayFail("redis")
  /\ keys' \in {keys, [keys EXCEPT ![req[r].key] = IF @ = None THEN r ELSE @]}
  /\ Respond(r, "error", None)
  /\ UNCHANGED <<cache, postgres, req, found, history>>

(* Mutant: when the id cannot be read, the request is taken for a new one. *)
GetKeyOrGoOn(r) ==
  /\ Goto(r, "getKey", "insert")
  /\ keys[req[r].key] = None \/ MayFail("redis")
  /\ UNCHANGED <<redis, postgres, req, found, answer, history>>

(* TryAcquire: GET the id behind the key.  It fails if the key has expired *)
(* since.                                                                  *)
GetKey(r) ==
  /\ pc[r] = "getKey"
  /\ \/ /\ keys[req[r].key] # None
        /\ Goto(r, "getKey", "cacheGet")
        /\ found' = [found EXCEPT ![r].payment = keys[req[r].key]]
        /\ UNCHANGED answer
     \/ /\ keys[req[r].key] = None \/ MayFail("redis")
        /\ Respond(r, "error", None)
        /\ UNCHANGED found
  /\ UNCHANGED <<redis, postgres, req, history>>

(* What a found payment is answered with, and a missing one.               *)
IsGet(r) == req[r].body = "get"
Hit(r)  == IF IsGet(r) THEN "ok" ELSE "created"
Miss(r) == IF IsGet(r) THEN "notFound" ELSE "conflict"

(* The duplicate branch and GetPaymentByID: the cache first; a miss or an  *)
(* error falls through to Postgres.                                        *)
CacheGet(r) ==
  /\ pc[r] = "cacheGet"
  /\ \/ /\ cache[found[r].payment] # Absent
        /\ Respond(r, Hit(r), found[r].payment)
     \/ /\ cache[found[r].payment] = Absent \/ MayFail("redis")
        /\ Goto(r, "cacheGet", "select")
        /\ UNCHANGED answer
  /\ UNCHANGED <<redis, postgres, req, found, history>>

(* Mutant: every error of GetByID is taken for ErrPaymentNotFound.         *)
SelectFailsAsMissing(r) ==
  /\ pc[r] = "select"
  /\ MayFail("db")
  /\ Respond(r, Miss(r), None)
  /\ UNCHANGED <<redis, postgres, req, found, history>>

Select(r) ==
  /\ pc[r] = "select"
  /\ \/ /\ rows[found[r].payment] # Absent
        /\ Goto(r, "select", "fill")
        /\ found' = [found EXCEPT ![r].status = rows[found[r].payment]]
        /\ UNCHANGED answer
     \/ /\ rows[found[r].payment] = Absent
        /\ Respond(r, Miss(r), None)
        /\ UNCHANGED found
     \/ /\ MayFail("db")
        /\ Respond(r, "error", None)
        /\ UNCHANGED found
  /\ UNCHANGED <<redis, postgres, req, history>>

(* The row that was read is put in the cache, whatever has happened to     *)
(* either since; an error is ignored.                                      *)
Fill(r) ==
  /\ pc[r] = "fill"
  /\ \/ cache' = [cache EXCEPT ![found[r].payment] = found[r].status]
     \/ MayFail("redis") /\ UNCHANGED cache
  /\ found' = [found EXCEPT ![r].status = Absent]
  /\ Respond(r, Hit(r), found[r].payment)
  /\ UNCHANGED <<keys, postgres, req, history>>

(* The transaction: paymentRepo.Create, then outboxRepo.Save, then Commit. *)
Insert(r) ==
  /\ Goto(r, "insert", "save")
  /\ tx' = [tx EXCEPT ![r] = @ \cup {"payment"}]
  /\ UNCHANGED <<redis, rows, events, req, found, answer, history>>

(* Mutant: the event is saved outside of the transaction.                  *)
SaveAtOnce(r) ==
  /\ Goto(r, "save", "commit")
  /\ events' = events \cup {r}
  /\ UNCHANGED <<redis, rows, tx, req, found, answer, history>>

(* Mutant: the cache is populated before the commit.                       *)
SaveAndCache(r) ==
  /\ Goto(r, "save", "commit")
  /\ tx' = [tx EXCEPT ![r] = @ \cup {"event"}]
  /\ cache' = [cache EXCEPT ![r] = StatusPending]
  /\ UNCHANGED <<keys, rows, events, req, found, answer, history>>

Save(r) ==
  /\ Goto(r, "save", "commit")
  /\ tx' = [tx EXCEPT ![r] = @ \cup {"event"}]
  /\ UNCHANGED <<redis, rows, events, req, found, answer, history>>

Committed(r) ==
  /\ rows' = IF "payment" \in tx[r] THEN [rows EXCEPT ![r] = StatusPending] ELSE rows
  /\ events' = IF "event" \in tx[r] THEN events \cup {r} ELSE events

Commit(r) ==
  /\ Goto(r, "commit", "populate")
  /\ Committed(r)
  /\ tx' = [tx EXCEPT ![r] = {}]
  /\ UNCHANGED <<redis, req, found, answer, history>>

(* Mutant: no rollback.                                                    *)
TxFailsOpen(r) ==
  /\ pc[r] \in {"insert", "save", "commit"} /\ MayFail("db")
  /\ Respond(r, "error", None)
  /\ UNCHANGED <<redis, postgres, req, found, history>>

(* Any call of the transaction fails: it is rolled back, but a failed      *)
(* Commit may have taken effect.                                           *)
TxFails(r) ==
  /\ pc[r] \in {"insert", "save", "commit"} /\ MayFail("db")
  /\ \/ UNCHANGED <<rows, events>>
     \/ pc[r] = "commit" /\ Committed(r)
  /\ tx' = [tx EXCEPT ![r] = {}]
  /\ Respond(r, "error", None)
  /\ UNCHANGED <<redis, req, found, history>>

Populate(r) ==
  /\ pc[r] = "populate"
  /\ \/ cache' = [cache EXCEPT ![r] = StatusPending]
     \/ MayFail("redis") /\ UNCHANGED cache
  /\ Respond(r, "created", r)
  /\ UNCHANGED <<keys, postgres, req, found, history>>

(* The API process dies, or the client goes: nobody is answered, and an    *)
(* open transaction is rolled back.                                        *)
Abandon(r) ==
  /\ pc[r] \notin {"new", "done"} /\ MayFail("crash")
  /\ Respond(r, "error", None)
  /\ tx' = [tx EXCEPT ![r] = {}]
  /\ UNCHANGED <<redis, rows, events, req, found, history>>

-----------------------------------------------------------------------------
(* The worker: it moves a payment whose event was saved, and then puts the *)
(* status in the cache.                                                    *)
WorkerMoves(id) ==
  /\ id \in events
  /\ \E s \in Outcomes \cup {StatusProcessing} :
        /\ CanTransitionTo(rows[id], s)
        /\ rows' = [rows EXCEPT ![id] = s]
  /\ UNCHANGED <<redis, events, tx, req, pc, found, answer, history>>

WorkerCaches(id) ==
  /\ rows[id] \notin {Absent, StatusPending}
  /\ cache' = [cache EXCEPT ![id] = rows[id]]
  /\ UNCHANGED <<keys, postgres, req, pc, found, answer, history>>

(* Redis TTLs: REDIS_TTL on payments, 24 hours on keys.                    *)
ExpireCache(id) ==
  /\ cache[id] # Absent
  /\ cache' = [cache EXCEPT ![id] = Absent]
  /\ UNCHANGED <<keys, postgres, req, pc, found, answer, history>>

ExpireKey(key) ==
  /\ MayFail("keyTTL") /\ keys[key] # None
  /\ keys' = [keys EXCEPT ![key] = None]
  /\ lapsed' = lapsed \cup {key}
  /\ UNCHANGED <<cache, postgres, req, pc, found, answer, earlier>>

-----------------------------------------------------------------------------
Init ==
  /\ keys = [k \in Keys |-> None]
  /\ cache = [id \in Requests |-> Absent]
  /\ rows = [id \in Requests |-> Absent]
  /\ events = {}
  /\ tx = [r \in Requests |-> {}]
  /\ req = [r \in Requests |-> [key |-> None, body |-> "get"]]
  /\ pc = [r \in Requests |-> "new"]
  /\ found = [r \in Requests |-> [payment |-> None, status |-> Absent]]
  /\ answer = [r \in Requests |-> None]
  /\ earlier = [r \in Requests |-> {}]
  /\ lapsed = {}

Serve(r) ==
  \/ Acquire(r) \/ AcquireDuplicate(r) \/ AcquireFails(r) \/ GetKey(r)
  \/ CacheGet(r) \/ Select(r) \/ Fill(r)
  \/ Insert(r) \/ Save(r) \/ Commit(r) \/ TxFails(r) \/ Populate(r)
  \/ Abandon(r)

Next ==
  \/ \E r \in Requests :
        \/ \E key \in Keys, body \in Bodies : ArriveCreate(r, key, body)
        \/ \E id \in Requests \cup {None} : ArriveGet(r, id)
        \/ Serve(r)
  \/ \E id \in Requests : WorkerMoves(id) \/ WorkerCaches(id) \/ ExpireCache(id)
  \/ \E key \in Keys : ExpireKey(key)

Spec == Init /\ [][Next]_vars

-----------------------------------------------------------------------------
Labels == {"new", "acquire", "getKey", "cacheGet", "select", "fill", "insert",
           "save", "commit", "populate", "done"}

Answered(r, code) == answer[r] # None /\ answer[r].code = code
IsCreate(r) == req[r].body \in Bodies

(* Every variable keeps its type; a request is answered when it is done,   *)
(* and only its own transaction is open.                                   *)
TypeOK ==
  /\ keys \in [Keys -> Requests \cup {None}]
  /\ cache \in [Requests -> Statuses \cup {Absent}]
  /\ rows \in [Requests -> Statuses \cup {Absent}]
  /\ events \subseteq Requests
  /\ tx \in [Requests -> SUBSET {"payment", "event"}]
  /\ req \in [Requests -> [key : Keys \cup {None}, body : Bodies \cup {"get"}]]
  /\ pc \in [Requests -> Labels]
  /\ found \in [Requests -> [payment : Requests \cup {None}, status : Statuses \cup {Absent}]]
  /\ answer \in [Requests -> Response \cup {None}]
  /\ earlier \in [Requests -> SUBSET Requests]
  /\ lapsed \subseteq Keys
  /\ \A r \in Requests :
       /\ answer[r] # None <=> pc[r] = "done"
       /\ tx[r] # {} => pc[r] \in {"save", "commit"}

(* The transactional outbox: a payment is stored exactly when its event    *)
(* is, whatever fails (payment_service.go 116-134).                        *)
StoredWithEvent == \A id \in Requests : rows[id] # Absent <=> id \in events

(* "multiple submissions with the same key process only once" (domain/     *)
(* cache.go 17): two requests made payments under one key only if the key  *)
(* expired in the meantime.                                                *)
OncePerKey ==
  \A q, r \in Requests :
     /\ q # r /\ rows[q] # Absent /\ rows[r] # Absent
     /\ req[q].key = req[r].key
     => req[r].key \in lapsed

(* A payment is given to a client only after it was committed, and to one  *)
(* that sent its key only if the key is that of the request that made it.  *)
AnswersAreStored ==
  \A r \in Requests :
     answer[r] # None /\ answer[r].payment # None =>
       /\ rows[answer[r].payment] # Absent
       /\ IsCreate(r) => req[answer[r].payment].key = req[r].key

(* Once a client was given a payment, a later request with that key, or    *)
(* for that id, gets the same payment or a server error: no conflict, no   *)
(* 404, no second payment.                                                 *)
RepeatsGetThePayment ==
  \A r \in Requests : \A q \in earlier[r] :
     /\ Answered(q, "created") /\ answer[r] # None
     /\ IsCreate(r) /\ req[r].body # "unbound"
     /\ req[r].key = req[q].key /\ req[r].key \notin lapsed
     => \/ answer[r].code = "error"
        \/ answer[r] = answer[q]

(* A payment that its client was given is found by every later GET, in the *)
(* cache or in the row (payment_service.go 142-159).                       *)
CreatedIsFound ==
  \A r \in Requests : \A q \in earlier[r] :
     /\ Answered(q, "created") /\ pc[r] = "done"
     /\ IsGet(r) /\ found[r].payment = answer[q].payment
     => ~ Answered(r, "notFound")

(* A client never reads a payment further along than its row, nor settled  *)
(* otherwise, though fills and the worker's writes land in any order.      *)
CacheNeverAhead ==
  \A id \in Requests :
     /\ Rank(cache[id]) <= Rank(rows[id])
     /\ Rank(cache[id]) = Rank(rows[id]) => cache[id] = rows[id]

(* "Requisicoes repetidas retornam instantaneamente a resposta armazenada" *)
(* (README.md 19): a request repeated after the first was answered gets    *)
(* the same answer.                                                        *)
RepeatsGetTheAnswer ==
  \A r \in Requests : \A q \in earlier[r] :
     /\ answer[r] # None /\ IsCreate(r) /\ req[r] = req[q]
     => answer[r].code = answer[q].code
=============================================================================
