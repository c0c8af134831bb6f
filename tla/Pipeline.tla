------------------------------- MODULE Pipeline -------------------------------
(***************************************************************************)
(* The whole pipeline: PaymentService, OutboxProcessor and PaymentWorker   *)
(* over one Postgres, one Redis and one Kafka topic, from a client's       *)
(* request to a settled payment.                                           *)
(*                                                                         *)
(* The three modules are taken as they are.  What each of them leaves to   *)
(* its environment is here a step of another: the events the relay finds   *)
(* are those the service commits, the messages the worker fetches are      *)
(* those the relay publishes, and the worker that moves the rows and       *)
(* writes the cache under the service's readers is the real one.  An API   *)
(* process runs a relay and an HTTP server, which stop together.           *)
(***************************************************************************)
EXTENDS Payment, FiniteSets, Sequences

CONSTANTS NRequests,      \* bound: how many requests the clients send
          Asked,          \* bound: what they ask for, a body or "get"
          Keys, None,     \* as in PaymentService
          Apis,           \* API processes
          Limit,          \* as in OutboxProcessor
          Workers, Partitions, Corrupt,
          MaxLog,         \* as in PaymentWorker
          MaxStops,       \* bound: how often a process ends
          ServiceFaults, RelayFaults, WorkerFaults

(* A request, the payment it makes and the event of that payment.          *)
Requests == 1..NRequests

VARIABLES at,                                    \* the API each request goes to
          stops,                                 \* counts up to MaxStops
          keys, tx, req, request, found, answer, \* PaymentService
          earlier, lapsed,
          rows, cache,                           \* shared: Postgres, Redis
          outbox, relay, batch, cancelled,       \* OutboxProcessor
          log, committed, position, owner,       \* PaymentWorker
          worker, ctx, job, charges, outcomes, dlq

serviceVars == <<keys, tx, req, request, found, answer, earlier, lapsed>>
stores      == <<rows, cache>>
relayVars   == <<outbox, relay, batch, cancelled>>
workerVars  == <<committed, position, owner, worker, ctx, job, charges, outcomes, dlq>>
vars == <<at, stops, serviceVars, stores, relayVars, log, workerVars>>

(* The events in the table, and those that have reached the topic.         *)
Stored    == {e \in Requests : outbox[e].status # "ABSENT"}
Published == UNION {{log[p][i] : i \in DOMAIN log[p]} : p \in Partitions}

S == INSTANCE PaymentService WITH
       Outcomes <- Terminal, Faults <- ServiceFaults,
       events <- Stored, pc <- request

O == INSTANCE OutboxProcessor WITH
       Relays <- Apis, NEvents <- NRequests, Faults <- RelayFaults,
       published <- Published, pc <- relay

W == INSTANCE PaymentWorker WITH
       Payments <- Requests, Faults <- WorkerFaults, db <- rows, pc <- worker

(* What the three modules assume of their constants.                       *)
ASSUME PipelineAssumption ==
  /\ {NRequests, MaxLog, MaxStops} \subseteq Nat
  /\ Limit \in [Apis -> Nat \ {0}]
  /\ Corrupt \notin Requests
  /\ None \notin Requests \cup Keys \cup S!Response \cup Workers \cup W!Job
  /\ Asked \subseteq S!Bodies \cup {"get"}
  /\ ServiceFaults \subseteq {"redis", "db", "crash", "keyTTL"}
  /\ RelayFaults \subseteq {"db", "broker", "crash", "shutdown"}
  /\ WorkerFaults \subseteq W!FaultKinds

-----------------------------------------------------------------------------
(* The server accepts requests until the process is told to stop.          *)
Arrive(r) ==
  /\ O!Running(at[r])
  /\ UNCHANGED <<at, stops, stores, relayVars, log, workerVars>>
  /\ \/ \E key \in Keys, body \in Asked \ {"get"} : S!ArriveCreate(r, key, body)
     \/ "get" \in Asked /\ \E id \in Requests \cup {None} : S!ArriveGet(r, id)

(* A request is served, through srv.Shutdown too; when its process is gone *)
(* its client gets nothing.  The event is saved where the transaction      *)
(* commits.                                                                *)
Serve(r) ==
  /\ UNCHANGED <<at, stops, log, workerVars>>
  /\ \/ relay[at[r]] # "down" /\ (O!Save(r) \/ UNCHANGED relayVars) /\ S!Serve(r)
     \/ relay[at[r]] = "down" /\ UNCHANGED relayVars /\ S!Abandon(r)

(* A publish that succeeds puts the event on the topic, and one that fails *)
(* may have.                                                               *)
Publish(a) ==
  /\ relay[a] = "publish"
  /\ UNCHANGED <<at, stops, serviceVars, stores>>
  /\ \/ /\ \E p \in Partitions : W!Deliver(p, O!Current(a))
        /\ O!Publish(a) \/ O!PublishFails(a)
     \/ UNCHANGED <<log, workerVars>> /\ O!PublishFails(a)

Relay(a) ==
  \/ Publish(a)
  \/ /\ UNCHANGED <<at, stops, serviceVars, stores, log, workerVars>>
     /\ O!GetPending(a) \/ O!MarkProcessed(a) \/ O!MarkFailed(a) \/ O!MarkFails(a)

(* (The bound on the number of times that a process ends.)                 *)
Count(before, after) ==
  /\ stops' = IF before # "down" /\ after = "down" THEN stops + 1 ELSE stops
  /\ stops' <= MaxStops

(* An API process stops and starts; it starts with no open requests.       *)
Idle(a) == \A r \in Requests : at[r] = a => request[r] \in {"new", "done"}

ApiProcess(a) ==
  /\ UNCHANGED <<at, serviceVars, stores, log, workerVars>>
  /\ O!Cancel(a) \/ O!Exit(a) \/ (Idle(a) /\ O!Restart(a))
  /\ Count(relay[a], relay'[a])

Worker(w) ==
  /\ UNCHANGED <<at, serviceVars, relayVars>>
  /\ W!Process(w)
  /\ Count(worker[w], worker'[w])

Rebalance == UNCHANGED <<at, stops, serviceVars, relayVars>> /\ W!Rebalance

(* The TTLs of Redis.                                                      *)
Expire ==
  /\ UNCHANGED <<at, stops, relayVars, log, workerVars>>
  /\ \/ \E id \in Requests : S!ExpireCache(id)
     \/ \E key \in Keys : S!ExpireKey(key)

-----------------------------------------------------------------------------
Init ==
  /\ at \in [Requests -> Apis]
  /\ stops = 0
  /\ outbox = [e \in Requests |-> [status |-> "ABSENT", attempts |-> 0]]
  /\ log = [p \in Partitions |-> <<>>]
  /\ S!Init /\ O!Init /\ W!Init

Next ==
  \/ \E r \in Requests : Arrive(r) \/ Serve(r)
  \/ \E a \in Apis : Relay(a) \/ ApiProcess(a)
  \/ \E w \in Workers : Worker(w)
  \/ Rebalance \/ Expire

Spec == Init /\ [][Next]_vars

-----------------------------------------------------------------------------
(* The service's assumption about its environment, that a worker moves     *)
(* only payments with an event, along the transition table, and caches     *)
(* only what it has written, holds of the relay and one real worker.       *)
ServiceSpec == S!Spec

(* From the client's request to the settled row, each payment goes through *)
(* PaymentLifecycle (one worker).                                          *)
LifecycleSpec == W!LifecycleSpec

(* No client is charged twice under one key, unless the key lapsed, and no *)
(* payment twice (one worker).                                             *)
OneChargePerKey ==
  /\ W!ChargedOnce
  /\ \A q, r \in Requests :
        W!Charged(q) /\ W!Charged(r) /\ req[q].key = req[r].key
          => q = r \/ req[r].key \in lapsed

(* A message on the topic is that of a stored payment: the worker never    *)
(* finds that a payment does not exist (payment_worker.go 75-81).          *)
PublishedIsStored == \A e \in Published : rows[e] # Absent

(* No payment is lost between the processes: while its row is PENDING, its *)
(* event is still to be relayed or its message still to be handled, so a   *)
(* crash or a shutdown of either process, even one that drains requests    *)
(* after the relay has stopped, only delays it.  (As long as Postgres and  *)
(* the broker serve the relay and the worker: worker_skips and             *)
(* outbox_gives_up show what happens when they do not.)                    *)
OnItsWay ==
  \A id \in Stored : rows[id] = StatusPending =>
     \/ outbox[id].status = "PENDING"
     \/ \E p \in Partitions : \E i \in DOMAIN log[p] : log[p][i] = id /\ i > committed[p]
=============================================================================
