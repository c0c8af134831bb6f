---------------------------- MODULE PaymentWorker ----------------------------
(***************************************************************************)
(* The worker process: cmd/worker, the consumer loop of                    *)
(* internal/infrastructure/kafka/consumer.go and the handler               *)
(* PaymentWorker.ProcessEvent of internal/application/payment_worker.go.   *)
(*                                                                         *)
(* Workers are the members of one consumer group.  Each runs one           *)
(* goroutine: fetch a message, handle it, commit its offset.  Every call   *)
(* to Postgres, Redis, Kafka or the gateway is a step of its own, so a     *)
(* crash, a rebalance, a shutdown or another worker may come between two   *)
(* of them.  Postgres, Redis and Kafka are external.                       *)
(***************************************************************************)
EXTENDS Payment, Sequences

CONSTANTS Workers,     \* members of the consumer group
          Partitions,  \* partitions of the payments.created topic
          Payments,    \* payment ids
          Corrupt,     \* a message that does not unmarshal to a payment
          None,        \* no owner, no message
          MaxLog,      \* bound: messages per partition
          Faults       \* bound: the kinds of failure that may occur

FaultKinds == {"db", "cache", "broker", "gateway", "crash", "shutdown"}

VARIABLES db,         \* payments table: the status column, or Absent
          cache,      \* Redis payment:<id>: the cached status, or Absent
          log,        \* each partition of payments.created
          committed,  \* the group's committed offset in each partition
          position,   \* the offset the current owner has fetched up to
          owner,      \* the worker each partition is assigned to
          pc,         \* where each worker is
          ctx,        \* each worker's context: "live" or "cancelled"
          job,        \* the message in hand and the local variables
          charges,    \* approvals each worker got for each payment
          outcomes,   \* messages on payments.processed and payments.failed
          dlq         \* messages on payments.dlq

stores == <<db, cache>>
topic  == <<log, committed, position, owner>>
local  == <<pc, ctx, job>>
effects == <<charges, outcomes, dlq>>
vars == <<stores, topic, local, effects>>

MaxRetries == 3
Messages   == Payments \cup {Corrupt}
Job == [partition : Partitions, offset : Nat \ {0}, message : Messages,
        status : Statuses \cup {Absent}, attempt : 1..MaxRetries]
Labels == {"down", "fetch", "load", "claim", "claimed", "gateway", "backoff",
           "settle", "settled", "publish", "dlq", "commit"}

(* Labels at which the message in hand is a payment that was loaded.       *)
InHand == {"claim", "claimed", "gateway", "backoff", "settle", "settled", "publish"}

ASSUME WorkerAssumption ==
  /\ Corrupt \notin Payments
  /\ None \notin Workers \cup Job
  /\ MaxLog \in Nat
  /\ Faults \subseteq FaultKinds

(* What a publish to payments.processed or payments.failed carries.        *)
(* (The first is a mutant: anything but FAILED counts as processed.)       *)
OutcomeTopicByFailedOnly(s) == IF s = StatusFailed THEN "failed" ELSE "processed"
OutcomeTopic(s) == IF s = StatusApproved THEN "processed" ELSE "failed"
Outcomes == [topic : {"processed", "failed"}, payment : Payments,
             status : Statuses \cup {Absent}]

-----------------------------------------------------------------------------
(* A call with a cancelled context fails; any other may fail as Faults says. *)
CanSucceed(w)  == ctx[w] = "live"
MayFail(w, kind) == ctx[w] = "cancelled" \/ kind \in Faults

Goto(w, from, to) == pc[w] = from /\ pc' = [pc EXCEPT ![w] = to]

(* The loop turns to the next message: after a commit, or without one when *)
(* the handler returns an error.                                           *)
NextMessage(w) ==
  /\ pc'  = [pc EXCEPT ![w] = "fetch"]
  /\ job' = [job EXCEPT ![w] = None]
  /\ UNCHANGED ctx

-----------------------------------------------------------------------------
(* Mutant: ReadMessage, which commits the offset at once.                  *)
FetchCommits(w, p) ==
  /\ Goto(w, "fetch", "load")
  /\ ctx[w] = "live" /\ owner[p] = w
  /\ position[p] < Len(log[p])
  /\ position' = [position EXCEPT ![p] = @ + 1]
  /\ committed' = [committed EXCEPT ![p] = position[p] + 1]
  /\ job' = [job EXCEPT ![w] = [partition |-> p, offset |-> position[p] + 1,
                                message |-> log[p][position[p] + 1],
                                status |-> Absent, attempt |-> 1]]
  /\ UNCHANGED <<stores, log, owner, ctx, effects>>

(* Consumer.Start: FetchMessage moves the reader's position, whatever      *)
(* becomes of the message.                                                 *)
FetchMessage(w, p) ==
  /\ Goto(w, "fetch", "load")
  /\ ctx[w] = "live" /\ owner[p] = w
  /\ position[p] < Len(log[p])
  /\ position' = [position EXCEPT ![p] = @ + 1]
  /\ job' = [job EXCEPT ![w] = [partition |-> p, offset |-> position[p] + 1,
                                message |-> log[p][position[p] + 1],
                                status |-> Absent, attempt |-> 1]]
  /\ UNCHANGED <<stores, log, committed, owner, ctx, effects>>

(* ProcessEvent 1: a payload that does not unmarshal goes to the DLQ.      *)
RejectCorrupt(w) ==
  /\ job[w] # None /\ job[w].message = Corrupt
  /\ Goto(w, "load", "dlq")
  /\ UNCHANGED <<stores, topic, ctx, job, effects>>

(* Mutant: the error is swallowed and the offset committed.                *)
LoadFailsAndCommits(w) ==
  /\ job[w] # None /\ job[w].message # Corrupt
  /\ MayFail(w, "db")
  /\ Goto(w, "load", "commit")
  /\ UNCHANGED <<stores, topic, ctx, job, effects>>

(* ProcessEvent 2: GetByID fails with anything but ErrPaymentNotFound.     *)
LoadFails(w) ==
  /\ pc[w] = "load" /\ job[w].message # Corrupt
  /\ MayFail(w, "db")
  /\ NextMessage(w)
  /\ UNCHANGED <<stores, topic, effects>>

(* ProcessEvent 2-4: a missing payment goes to the DLQ, one that is not    *)
(* PENDING (or cannot move on) is skipped, and a PENDING one is moved to   *)
(* PROCESSING in memory.                                                   *)
LoadPayment(w) ==
  /\ pc[w] = "load" /\ job[w].message # Corrupt
  /\ CanSucceed(w)
  /\ LET s == db[job[w].message] IN
       \/ /\ s = Absent
          /\ Goto(w, "load", "dlq")
          /\ UNCHANGED job
       \/ /\ s # Absent
          /\ s # StatusPending \/ ~ CanTransitionTo(s, StatusProcessing)
          /\ Goto(w, "load", "commit")
          /\ UNCHANGED job
       \/ /\ s = StatusPending /\ CanTransitionTo(s, StatusProcessing)
          /\ Goto(w, "load", "claim")
          /\ job' = [job EXCEPT ![w].status = TransitionTo(s, StatusProcessing)]
  /\ UNCHANGED <<stores, topic, ctx, effects>>

(* updatePaymentState, the row: UPDATE ... WHERE id, whatever the row holds. *)
UpdateRow(w, from, to) ==
  /\ Goto(w, from, to)
  /\ CanSucceed(w)
  /\ db' = [db EXCEPT ![job[w].message] = job[w].status]
  /\ UNCHANGED <<cache, topic, ctx, job, effects>>

(* A failed UPDATE may have reached the row all the same.                  *)
RowMayHaveChanged(w) ==
  \/ db' = db
  \/ db' = [db EXCEPT ![job[w].message] = job[w].status]

(* updatePaymentState, the cache: a failure is logged and ignored.         *)
UpdateCache(w, from, to) ==
  /\ Goto(w, from, to)
  /\ \/ /\ CanSucceed(w)
        /\ cache' = [cache EXCEPT ![job[w].message] = job[w].status]
     \/ /\ MayFail(w, "cache")
        /\ UNCHANGED cache
  /\ UNCHANGED <<db, topic, ctx, job, effects>>

(* Mutants: the gateway is called before PROCESSING is in the row, because *)
(* the update is missing, or because its error is discarded.               *)
ClaimInMemory(w) ==
  /\ Goto(w, "claim", "claimed")
  /\ CanSucceed(w)
  /\ UNCHANGED <<stores, topic, ctx, job, effects>>

ClaimFailsUnnoticed(w) ==
  /\ Goto(w, "claim", "gateway")
  /\ MayFail(w, "db") /\ RowMayHaveChanged(w)
  /\ UNCHANGED <<cache, topic, ctx, job, effects>>

(* ProcessEvent 4: PROCESSING is written first; if that fails, the error   *)
(* is returned.                                                            *)
ClaimRow(w)   == UpdateRow(w, "claim", "claimed")
ClaimFails(w) ==
  /\ pc[w] = "claim"
  /\ MayFail(w, "db") /\ RowMayHaveChanged(w)
  /\ NextMessage(w)
  /\ UNCHANGED <<cache, topic, effects>>
ClaimCache(w) == UpdateCache(w, "claimed", "gateway")

(* ProcessEvent 5-6: the gateway answers and the payment is settled in     *)
(* memory.                                                                 *)
GatewayApproves(w) ==
  /\ Goto(w, "gateway", "settle")
  /\ CanSucceed(w)
  /\ charges' = [charges EXCEPT ![job[w].message][w] = @ + 1]
  /\ job' = [job EXCEPT ![w].status = TransitionTo(@, StatusApproved)]
  /\ UNCHANGED <<stores, topic, ctx, outcomes, dlq>>

(* Mutant: any answer without an error counts as an approval.              *)
GatewayRejectsAsApproved(w) ==
  /\ Goto(w, "gateway", "settle")
  /\ CanSucceed(w)
  /\ job' = [job EXCEPT ![w].status = TransitionTo(@, StatusApproved)]
  /\ UNCHANGED <<stores, topic, ctx, effects>>

GatewayRejects(w) ==
  /\ Goto(w, "gateway", "settle")
  /\ CanSucceed(w)
  /\ job' = [job EXCEPT ![w].status = TransitionTo(@, StatusRejected)]
  /\ UNCHANGED <<stores, topic, ctx, effects>>

(* Mutant: the retry bound is off by one.                                  *)
GatewayErrsOnceMore(w) ==
  /\ MayFail(w, "gateway")
  /\ job[w] # None /\ job[w].attempt <= MaxRetries
  /\ Goto(w, "gateway", "backoff")
  /\ UNCHANGED <<stores, topic, ctx, job, effects>>

(* The gateway or the circuit breaker returns an error: back off, or, at   *)
(* the last attempt, give up.                                              *)
GatewayErrs(w) ==
  /\ MayFail(w, "gateway")
  /\ \/ /\ job[w] # None /\ job[w].attempt < MaxRetries
        /\ Goto(w, "gateway", "backoff")
        /\ UNCHANGED job
     \/ /\ job[w] # None /\ job[w].attempt = MaxRetries
        /\ Goto(w, "gateway", "settle")
        /\ job' = [job EXCEPT ![w].status = TransitionTo(@, StatusFailed)]
  /\ UNCHANGED <<stores, topic, ctx, effects>>

(* Mutant: the attempt is not counted.                                     *)
BackoffForgetsAttempt(w) ==
  /\ Goto(w, "backoff", "gateway")
  /\ ctx[w] = "live"
  /\ UNCHANGED <<stores, topic, ctx, job, effects>>

BackoffElapses(w) ==
  /\ Goto(w, "backoff", "gateway")
  /\ ctx[w] = "live"
  /\ job' = [job EXCEPT ![w].attempt = @ + 1]
  /\ UNCHANGED <<stores, topic, ctx, effects>>

BackoffCancelled(w) ==
  /\ pc[w] = "backoff" /\ ctx[w] = "cancelled"
  /\ NextMessage(w)
  /\ UNCHANGED <<stores, topic, effects>>

(* Mutant: the cache is written although the row was not.                  *)
SettleFailsButCaches(w) ==
  /\ Goto(w, "settle", "settled")
  /\ MayFail(w, "db") /\ RowMayHaveChanged(w)
  /\ UNCHANGED <<cache, topic, ctx, job, effects>>

(* ProcessEvent 6: the error of this update is discarded.                  *)
SettleRow(w)   == UpdateRow(w, "settle", "settled")
SettleFails(w) ==
  /\ Goto(w, "settle", "publish")
  /\ MayFail(w, "db") /\ RowMayHaveChanged(w)
  /\ UNCHANGED <<cache, topic, ctx, job, effects>>
SettleCache(w) == UpdateCache(w, "settled", "publish")

(* publishOutcome: a failed publish is logged; the write may still arrive. *)
PublishOutcome(w) ==
  /\ job[w] # None
  /\ Goto(w, "publish", IF job[w].status = StatusFailed THEN "dlq" ELSE "commit")
  /\ \/ outcomes' = outcomes \cup {[topic   |-> OutcomeTopic(job[w].status),
                                    payment |-> job[w].message,
                                    status  |-> job[w].status]}
     \/ MayFail(w, "broker") /\ UNCHANGED outcomes
  /\ UNCHANGED <<stores, topic, ctx, job, charges, dlq>>

RouteToDLQ(w) ==
  /\ Goto(w, "dlq", "commit")
  /\ \/ dlq' = dlq \cup {job[w].message}
     \/ MayFail(w, "broker") /\ UNCHANGED dlq
  /\ UNCHANGED <<stores, topic, ctx, job, charges, outcomes>>

(* The handler returned nil.  CommitMessages sets the group's offset to     *)
(* this message's, even back from a later one; a failure is only logged.   *)
CommitMessage(w) ==
  /\ pc[w] = "commit"
  /\ committed' = [committed EXCEPT ![job[w].partition] = job[w].offset]
  /\ NextMessage(w)
  /\ UNCHANGED <<stores, log, position, owner, effects>>

CommitFails(w) ==
  /\ pc[w] = "commit"
  /\ MayFail(w, "broker")
  /\ NextMessage(w)
  /\ UNCHANGED <<stores, topic, effects>>

-----------------------------------------------------------------------------
(* SIGTERM cancels the worker's context and main returns without waiting   *)
(* for the goroutine, which runs on until the process is gone.             *)
Shutdown(w) ==
  /\ "shutdown" \in Faults
  /\ pc[w] # "down" /\ ctx[w] = "live"
  /\ ctx' = [ctx EXCEPT ![w] = "cancelled"]
  /\ UNCHANGED <<stores, topic, pc, job, effects>>

(* The process ends: after a shutdown, or by a crash.  Its partitions have *)
(* no owner until the group rebalances.                                    *)
Exit(w) ==
  /\ pc[w] # "down"
  /\ ctx[w] = "cancelled" \/ "crash" \in Faults
  /\ pc'  = [pc EXCEPT ![w] = "down"]
  /\ job' = [job EXCEPT ![w] = None]
  /\ owner' = [p \in Partitions |-> IF owner[p] = w THEN None ELSE owner[p]]
  /\ UNCHANGED <<stores, log, committed, position, ctx, effects>>

Restart(w) ==
  /\ Goto(w, "down", "fetch")
  /\ ctx' = [ctx EXCEPT ![w] = "live"]
  /\ UNCHANGED <<stores, topic, job, effects>>

(* The group assigns the partitions to running members, each reading on    *)
(* from the committed offset.  A handler that is running is not stopped.   *)
Rebalance ==
  /\ \E assignment \in [Partitions -> {w \in Workers : pc[w] # "down"}] :
        owner' = assignment
  /\ position' = committed
  /\ UNCHANGED <<stores, log, committed, local, effects>>

(* A message arrives on the topic; the same payment may arrive again.      *)
Deliver(p, m) ==
  /\ Len(log[p]) < MaxLog
  /\ log' = [log EXCEPT ![p] = Append(@, m)]
  /\ UNCHANGED <<stores, committed, position, owner, local, effects>>

(* The cache entry reaches its TTL.                                        *)
Expire(id) ==
  /\ cache[id] # Absent
  /\ cache' = [cache EXCEPT ![id] = Absent]
  /\ UNCHANGED <<db, topic, local, effects>>

-----------------------------------------------------------------------------
Init ==
  /\ db \in [Payments -> {Absent, StatusPending}]
  /\ cache \in [Payments -> {Absent, StatusPending}]
  /\ \A id \in Payments : db[id] = Absent => cache[id] = Absent
  /\ log = [p \in Partitions |-> <<>>]
  /\ committed = [p \in Partitions |-> 0]
  /\ position = [p \in Partitions |-> 0]
  /\ owner = [p \in Partitions |-> None]
  /\ pc = [w \in Workers |-> "fetch"]
  /\ ctx = [w \in Workers |-> "live"]
  /\ job = [w \in Workers |-> None]
  /\ charges = [id \in Payments |-> [w \in Workers |-> 0]]
  /\ outcomes = {}
  /\ dlq = {}

(* One step of ProcessEvent, or of the loop around it.                     *)
Handle(w) ==
  \/ RejectCorrupt(w) \/ LoadFails(w) \/ LoadPayment(w)
  \/ ClaimRow(w) \/ ClaimFails(w) \/ ClaimCache(w)
  \/ GatewayApproves(w) \/ GatewayRejects(w) \/ GatewayErrs(w)
  \/ BackoffElapses(w) \/ BackoffCancelled(w)
  \/ SettleRow(w) \/ SettleFails(w) \/ SettleCache(w)
  \/ PublishOutcome(w) \/ RouteToDLQ(w)
  \/ CommitMessage(w) \/ CommitFails(w)

Run(w) == Handle(w) \/ \E p \in Partitions : FetchMessage(w, p)

Process(w) == Run(w) \/ Shutdown(w) \/ Exit(w) \/ Restart(w)

Next ==
  \/ \E w \in Workers : Process(w)
  \/ Rebalance
  \/ \E p \in Partitions, m \in Messages : Deliver(p, m)
  \/ \E id \in Payments : Expire(id)

Spec == Init /\ [][Next]_vars

(* The worker goroutine keeps running, and a partition without a running   *)
(* owner is assigned to one.  Postgres and the broker, asked again and     *)
(* again, answer in the end, but nothing makes a worker ask again.         *)
Orphaned == \E p \in Partitions : \A w \in Workers : owner[p] = w => pc[w] = "down"

Fairness ==
  /\ \A w \in Workers :
       /\ WF_vars(Run(w))
       /\ SF_vars(LoadPayment(w)) /\ SF_vars(ClaimRow(w)) /\ SF_vars(CommitMessage(w))
  /\ WF_vars(Orphaned /\ Rebalance)

FairSpec == Spec /\ Fairness

-----------------------------------------------------------------------------
Charged(id) == \E w \in Workers : charges[id][w] > 0

(* Every variable keeps its type, a worker holds a message exactly while   *)
(* it is handling one, that of a payment past the load, and backs off only *)
(* when an attempt is left.                                                *)
TypeOK ==
  /\ db \in [Payments -> Statuses \cup {Absent}]
  /\ cache \in [Payments -> Statuses \cup {Absent}]
  /\ log \in [Partitions -> Seq(Messages)]
  /\ committed \in [Partitions -> Nat]
  /\ position \in [Partitions -> Nat]
  /\ owner \in [Partitions -> Workers \cup {None}]
  /\ pc \in [Workers -> Labels]
  /\ ctx \in [Workers -> {"live", "cancelled"}]
  /\ job \in [Workers -> Job \cup {None}]
  /\ charges \in [Payments -> [Workers -> Nat]]
  /\ outcomes \subseteq Outcomes
  /\ dlq \subseteq Messages
  /\ \A w \in Workers :
       /\ job[w] = None <=> pc[w] \in {"fetch", "down"}
       /\ pc[w] \in InHand => job[w].message \in Payments
       /\ pc[w] = "backoff" => job[w].attempt < MaxRetries

(* One member of the group never gets a second approval for a payment,     *)
(* through redeliveries, failed commits, crashes and restarts: the claim   *)
(* that precedes the gateway call is never undone (payment_worker.go 87,   *)
(* 103).  With one worker: no payment is charged twice.                    *)
ChargedOncePerWorker ==
  \A id \in Payments, w \in Workers : charges[id][w] <= 1

(* No payment is charged twice, by whichever members of the group.         *)
ChargedOnce ==
  \A id \in Payments, v, w \in Workers :
     charges[id][v] + (IF v = w THEN 0 ELSE charges[id][w]) <= 1

(* The message at the committed offset was dealt with: it is corrupt, its  *)
(* payment does not exist, or the payment has left PENDING for good.  Any  *)
(* number of workers, in any order (consumer.go 66-76).                    *)
Handled(m) == m \in Payments => db[m] # StatusPending

CommittedIsHandled ==
  \A p \in Partitions : committed[p] > 0 =>
     committed[p] <= Len(log[p]) /\ Handled(log[p][committed[p]])

(* An APPROVED that anyone can see, in the row, the cache or the processed *)
(* topic, is one the gateway gave, whichever workers raced.                *)
SeenApproved(id) ==
  \/ db[id] = StatusApproved
  \/ cache[id] = StatusApproved
  \/ \E o \in outcomes : o.payment = id /\ o.topic = "processed"

ApprovedIsCharged == \A id \in Payments : SeenApproved(id) => Charged(id)

(* One worker: what it tells the rest of the world agrees with the gateway *)
(* even when the row could not be written: a processed event is for a      *)
(* charged payment, a failed event or a dead letter for one that was not.  *)
OutcomesMatchGateway ==
  /\ \A o \in outcomes : (o.topic = "processed") <=> Charged(o.payment)
  /\ \A id \in dlq \cap Payments : ~ Charged(id)

(* One worker: a reader of the cache never sees a payment further along    *)
(* than its row, nor settled otherwise: the row is written first           *)
(* (payment_worker.go 176-182).                                            *)
CacheNeverAhead ==
  \A id \in Payments :
     /\ Rank(cache[id]) <= Rank(db[id])
     /\ Rank(cache[id]) = Rank(db[id]) => cache[id] = db[id]

(* One worker: the payments go through PaymentLifecycle, whatever fails.   *)
Lifecycle == INSTANCE PaymentLifecycle
               WITH status <- db, authorized <- {id \in Payments : Charged(id)}

LifecycleSpec == Lifecycle!Spec

(* What the proofs need of one worker, beyond the invariants above: what   *)
(* it has in hand is what it read at that offset; its claim stands while   *)
(* it talks to the gateway, with no approval yet; a status it goes on to   *)
(* write or announce is final, and APPROVED only after an approval.        *)
Working(w) == pc[w] \notin {"fetch", "down"}

JobInv(w) ==
  /\ Working(w) =>
       /\ job[w].offset <= Len(log[job[w].partition])
       /\ log[job[w].partition][job[w].offset] = job[w].message
  /\ pc[w] \in InHand => db[job[w].message] # Absent
  /\ pc[w] \in InHand \ {"claim"} => db[job[w].message] # StatusPending
  /\ pc[w] \in {"claim", "claimed", "gateway", "backoff"} =>
       job[w].status = StatusProcessing /\ charges[job[w].message][w] = 0
  /\ pc[w] \in {"settle", "settled", "publish"} =>
       /\ job[w].status \in Terminal
       /\ job[w].status = StatusApproved => charges[job[w].message][w] > 0
  /\ pc[w] \in {"dlq", "commit"} => Handled(job[w].message)

ChargedIsClaimed ==
  \A id \in Payments, w \in Workers :
     charges[id][w] > 0 => db[id] \notin {Absent, StatusPending}

(* The inductive invariant: a claim is written before the gateway is       *)
(* called and never taken back (payment_worker.go 103-113).                *)
WorkerInv ==
  /\ TypeOK
  /\ \A w \in Workers : JobInv(w)
  /\ ChargedIsClaimed
  /\ ChargedOncePerWorker
  /\ CommittedIsHandled
  /\ ApprovedIsCharged

(* The handler's error leaves the message to be read again ("Retry reading *)
(* this event from Kafka", payment_worker.go 83): a committed offset has   *)
(* no unhandled message behind it.                                         *)
NothingSkipped ==
  \A p \in Partitions : \A i \in 1..committed[p] : Handled(log[p][i])

InNoHands(id) == \A w \in Workers : Working(w) => job[w].message # id

(* A payment that the gateway rejected is sent to the DLQ like one that    *)
(* failed (README.md 69-73), by the time that the worker is done with it.  *)
RejectedIsDeadLettered ==
  \A o \in outcomes :
     o.status = StatusRejected /\ InNoHands(o.payment) => o.payment \in dlq

(* While the worker is left running, a payment whose message is on the     *)
(* topic settles in the end, or is stranded for good in one of two ways:   *)
(* its row is PROCESSING with nobody working on it (a shutdown or a        *)
(* database failure after the claim), or PENDING with all of its messages  *)
(* read and dropped (a database failure before it).                        *)
Delivered(id) ==
  \E p \in Partitions : \E i \in DOMAIN log[p] : log[p][i] = id

HalfDone(id) == db[id] = StatusProcessing /\ InNoHands(id)
PassedOver(id) ==
  /\ db[id] = StatusPending /\ InNoHands(id)
  /\ \A p \in Partitions : \A i \in DOMAIN log[p] : log[p][i] = id => i <= position[p]

SettlesOrIsStranded ==
  (\A w \in Workers : <>[](pc[w] # "down" /\ ctx[w] = "live"))
    => \A id \in Payments :
         Delivered(id) /\ db[id] # Absent
           ~> db[id] \in Terminal \/ [](HalfDone(id) \/ PassedOver(id))
=============================================================================
