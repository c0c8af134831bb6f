---------------------------- MODULE PipelineProofs ----------------------------
(***************************************************************************)
(* Proofs about Pipeline, for any requests, keys, API processes,           *)
(* partitions and kinds of failure, and one worker.  Each step of the      *)
(* pipeline is a step, or none, of each of the three parts, so the         *)
(* invariant of each part holds of the whole, and with them the            *)
(* assumption the service makes of its worker, the PaymentLifecycle of     *)
(* every payment and the one charge per key.                               *)
(***************************************************************************)
EXTENDS Pipeline, TLAPS

SP == INSTANCE PaymentServiceProofs WITH
        Outcomes <- Terminal, Faults <- ServiceFaults,
        events <- Stored, pc <- request

OP == INSTANCE OutboxProcessorProofs WITH
        Relays <- Apis, NEvents <- NRequests, Faults <- RelayFaults,
        published <- Published, pc <- relay

WP == INSTANCE SingleWorkerProofs WITH
        Payments <- Requests, Faults <- WorkerFaults, db <- rows, pc <- worker

USE PipelineAssumption
    DEF stores, serviceVars, relayVars, workerVars, Requests

(* The inductive invariant: that of each part, and that a dead letter is   *)
(* of a stored payment or corrupt.                                         *)
PipelineInv ==
  /\ SP!ServiceInv
  /\ OP!OutboxInv /\ OP!SavedInv
  /\ WP!OneInv
  /\ dlq \cap Requests \subseteq Stored

-----------------------------------------------------------------------------
(* The proof modules have the definitions of the modules they extend.      *)
(* The service.                                                            *)
LEMMA ServiceSame ==
  /\ S!Init => SP!Init
  /\ S!Next => SP!Next
  /\ UNCHANGED S!vars => UNCHANGED SP!vars
  /\ \A r \in Requests : S!Serve(r) => SP!Serve(r)
<1>1. UNCHANGED S!vars => UNCHANGED SP!vars
  BY DEF S!vars, S!redis, S!postgres, S!history, SP!vars, SP!redis, SP!postgres, SP!history
<1>2. S!Init => SP!Init
  BY DEF S!Init, SP!Init, S!Absent, SP!Absent
<1>3. ASSUME NEW r \in Requests, S!Serve(r) PROVE SP!Serve(r)
  BY <1>3 DEF
       S!Serve, S!Acquire, S!AcquireDuplicate, S!AcquireFails, S!GetKey, S!CacheGet,
       S!Select, S!Fill, S!Insert, S!Save, S!Commit, S!Committed, S!TxFails, S!Populate,
       S!Abandon, S!Goto, S!Respond, S!MayFail, S!Validate, S!IsGet, S!Hit, S!Miss,
       S!redis, S!postgres, S!history, S!Absent, S!StatusPending,
       SP!Serve, SP!Acquire, SP!AcquireDuplicate, SP!AcquireFails, SP!GetKey, SP!CacheGet,
       SP!Select, SP!Fill, SP!Insert, SP!Save, SP!Commit, SP!Committed, SP!TxFails,
       SP!Populate, SP!Abandon, SP!Goto, SP!Respond, SP!MayFail, SP!Validate, SP!IsGet,
       SP!Hit, SP!Miss, SP!redis, SP!postgres, SP!history, SP!Absent, SP!StatusPending
<1>4. S!Next => SP!Next
  BY <1>3 DEF S!Next, S!ArriveCreate, S!ArriveGet, S!WorkerMoves, S!WorkerCaches,
       S!ExpireCache, S!ExpireKey, S!Goto, S!Respond, S!MayFail, S!Bodies, S!redis,
       S!postgres, S!history, S!Absent, S!StatusPending, S!StatusProcessing,
       S!CanTransitionTo, S!Terminal, S!StatusApproved, S!StatusRejected, S!StatusFailed,
       SP!Next, SP!ArriveCreate, SP!ArriveGet, SP!WorkerMoves, SP!WorkerCaches,
       SP!ExpireCache, SP!ExpireKey, SP!Goto, SP!Respond, SP!MayFail, SP!Bodies, SP!redis,
       SP!postgres, SP!history, SP!Absent, SP!StatusPending, SP!StatusProcessing,
       SP!CanTransitionTo, SP!Terminal, SP!StatusApproved, SP!StatusRejected,
       SP!StatusFailed
<1> QED
  BY <1>1, <1>2, <1>3, <1>4

(* The relay.                                                              *)
LEMMA RelaySame ==
  /\ O!Init => OP!Init
  /\ O!Next => OP!Next
  /\ UNCHANGED O!vars => UNCHANGED OP!vars
  /\ \A a \in Apis : O!Current(a) = OP!Current(a)
  /\ \A a \in Apis : O!Run(a) \/ O!Cancel(a) \/ O!Exit(a) \/ O!Restart(a)
       => OP!Run(a) \/ OP!Cancel(a) \/ OP!Exit(a) \/ OP!Restart(a)
<1>1. UNCHANGED O!vars => UNCHANGED OP!vars
  BY DEF O!vars, OP!vars
<1>2. O!Init => OP!Init
  BY DEF O!Init, OP!Init, O!Events, OP!Events, O!NoEvents, OP!NoEvents
<1>3. \A a \in Apis : O!Current(a) = OP!Current(a)
  BY DEF O!Current, OP!Current
<1>4. \A X : O!Cardinality(X) = OP!Cardinality(X)
  BY Zenon DEF O!Cardinality, OP!Cardinality
<1>5. \A X, n : O!Oldest(X, n) = OP!Oldest(X, n)
  BY <1>4 DEF O!Oldest, OP!Oldest
<1>6. /\ \A e : O!Processed(e) = OP!Processed(e)
      /\ \A e, n : O!Failed(e, n) = OP!Failed(e, n)
  BY DEF O!Processed, O!Failed, O!MaxAttempts, OP!Processed, OP!Failed, OP!MaxAttempts
<1>7. ASSUME NEW a \in Apis, O!NextEvent(a) PROVE OP!NextEvent(a)
  BY <1>3, <1>7 DEF O!NextEvent, OP!NextEvent
<1>8. ASSUME NEW a \in Apis, O!Run(a) \/ O!Cancel(a) \/ O!Exit(a) \/ O!Restart(a)
      PROVE  OP!Run(a) \/ OP!Cancel(a) \/ OP!Exit(a) \/ OP!Restart(a)
  <2>1. O!GetPending(a) => OP!GetPending(a)
    BY <1>5 DEF O!GetPending, O!Pending, O!Events, O!Goto,
         OP!GetPending, OP!Pending, OP!Events, OP!Goto
  <2>2. O!GetsNothing(a) => OP!GetsNothing(a)
    BY DEF O!GetsNothing, O!Pending, O!Events, O!MayFail, O!vars,
         OP!GetsNothing, OP!Pending, OP!Events, OP!MayFail, OP!vars
  <2>3. O!Publish(a) => OP!Publish(a)
    BY <1>3 DEF O!Publish, O!Goto, OP!Publish, OP!Goto
  <2>4. O!PublishFails(a) => OP!PublishFails(a)
    BY <1>3 DEF O!PublishFails, O!Goto, O!MayFail, OP!PublishFails, OP!Goto, OP!MayFail
  <2>5. O!MarkProcessed(a) => OP!MarkProcessed(a)
    BY <1>3, <1>6, <1>7 DEF O!MarkProcessed, OP!MarkProcessed
  <2>6. O!MarkFailed(a) => OP!MarkFailed(a)
    BY <1>3, <1>6, <1>7 DEF O!MarkFailed, OP!MarkFailed
  <2>7. O!MarkFails(a) => OP!MarkFails(a)
    BY <1>3, <1>6, <1>7 DEF O!MarkFails, O!MayFail, OP!MarkFails, OP!MayFail
  <2>8. (O!Cancel(a) => OP!Cancel(a)) /\ (O!Exit(a) => OP!Exit(a))
        /\ (O!Restart(a) => OP!Restart(a))
    BY DEF O!Cancel, O!Exit, O!Restart, O!Goto, O!NoEvents,
         OP!Cancel, OP!Exit, OP!Restart, OP!Goto, OP!NoEvents
  <2> QED
    BY <1>8, <2>1, <2>2, <2>3, <2>4, <2>5, <2>6, <2>7, <2>8 DEF O!Run, OP!Run
<1>9. O!Next => OP!Next
  BY <1>8 DEF O!Next, O!Events, O!Save, OP!Next, OP!Events, OP!Save
<1> QED
  BY <1>1, <1>2, <1>3, <1>8, <1>9

(* The worker.                                                             *)
LEMMA WorkerSame ==
  /\ W!Init => WP!Init
  /\ W!Next => WP!Next
  /\ UNCHANGED W!vars => UNCHANGED WP!vars
  /\ \A w \in Workers : W!Process(w) => WP!Process(w)
<1>1. UNCHANGED W!vars => UNCHANGED WP!vars
  BY DEF W!vars, W!stores, W!topic, W!local, W!effects,
         WP!vars, WP!stores, WP!topic, WP!local, WP!effects
<1>2. W!Init => WP!Init
  BY DEF W!Init, WP!Init, W!Absent, WP!Absent, W!StatusPending, WP!StatusPending
<1>3. ASSUME NEW w \in Workers PROVE W!Process(w) => WP!Process(w)
  BY DEF W!Process, W!Run, W!Handle, W!RejectCorrupt, W!LoadFails, W!LoadPayment,
       W!ClaimRow, W!UpdateRow, W!ClaimFails, W!ClaimCache, W!UpdateCache,
       W!GatewayApproves, W!GatewayRejects, W!GatewayErrs, W!BackoffElapses,
       W!BackoffCancelled, W!SettleRow, W!SettleFails, W!SettleCache, W!PublishOutcome,
       W!RouteToDLQ, W!CommitMessage, W!CommitFails, W!FetchMessage, W!Shutdown, W!Exit,
       W!Restart, W!RowMayHaveChanged, W!NextMessage, W!topic, W!effects, W!stores,
       W!local, W!Goto, W!CanSucceed, W!MayFail, W!MaxRetries, W!TransitionTo,
       W!CanTransitionTo, W!OutcomeTopic, W!StatusPending, W!StatusProcessing,
       W!StatusApproved, W!StatusRejected, W!StatusFailed, W!Absent, W!Terminal,
       WP!Process, WP!Run, WP!Handle, WP!RejectCorrupt, WP!LoadFails, WP!LoadPayment,
       WP!ClaimRow, WP!UpdateRow, WP!ClaimFails, WP!ClaimCache, WP!UpdateCache,
       WP!GatewayApproves, WP!GatewayRejects, WP!GatewayErrs, WP!BackoffElapses,
       WP!BackoffCancelled, WP!SettleRow, WP!SettleFails, WP!SettleCache,
       WP!PublishOutcome, WP!RouteToDLQ, WP!CommitMessage, WP!CommitFails,
       WP!FetchMessage, WP!Shutdown, WP!Exit, WP!Restart, WP!RowMayHaveChanged,
       WP!NextMessage, WP!topic, WP!effects, WP!stores, WP!local, WP!Goto,
       WP!CanSucceed, WP!MayFail, WP!MaxRetries, WP!TransitionTo, WP!CanTransitionTo,
       WP!OutcomeTopic, WP!StatusPending, WP!StatusProcessing, WP!StatusApproved,
       WP!StatusRejected, WP!StatusFailed, WP!Absent, WP!Terminal
<1>4. W!Next => WP!Next
  BY <1>3 DEF W!Next, W!Rebalance, W!Deliver, W!Expire, W!Messages, W!stores, W!local,
       W!effects, W!topic, W!Absent,
       WP!Next, WP!Rebalance, WP!Deliver, WP!Expire, WP!Messages, WP!stores, WP!local,
       WP!effects, WP!topic, WP!Absent
<1> QED
  BY <1>1, <1>2, <1>3, <1>4

(* The sets of which the modules assume something.                         *)
LEMMA SameSets ==
  /\ W!Job = WP!Job /\ W!FaultKinds = WP!FaultKinds
  /\ S!Response = SP!Response /\ S!Bodies = SP!Bodies /\ SP!Terminal = Terminal
<1>1. W!Job = WP!Job
  BY DEF W!Job, W!Messages, W!MaxRetries, W!Statuses, W!Terminal, W!Absent, W!StatusPending,
         W!StatusProcessing, W!StatusApproved, W!StatusRejected, W!StatusFailed,
         WP!Job, WP!Messages, WP!MaxRetries, WP!Statuses, WP!Terminal, WP!Absent,
         WP!StatusPending, WP!StatusProcessing, WP!StatusApproved, WP!StatusRejected,
         WP!StatusFailed
<1> QED
  BY <1>1 DEF W!FaultKinds, WP!FaultKinds, S!Response, SP!Response, S!Codes, SP!Codes,
              S!Bodies, SP!Bodies, SP!Terminal, Terminal, SP!StatusApproved,
              SP!StatusRejected, SP!StatusFailed, StatusApproved, StatusRejected,
              StatusFailed

(* The statuses are the same everywhere.                                   *)
LEMMA SameNames ==
  /\ S!Absent = "ABSENT" /\ SP!Absent = "ABSENT" /\ WP!Absent = "ABSENT" /\ Absent = "ABSENT"
  /\ S!StatusPending = "PENDING" /\ SP!StatusPending = "PENDING"
  /\ WP!StatusPending = "PENDING"
  /\ S!StatusProcessing = "PROCESSING" /\ WP!StatusProcessing = "PROCESSING"
  /\ WP!Terminal = Terminal /\ S!Terminal = Terminal
  /\ SP!Statuses = WP!Statuses
  /\ \A s, t : S!CanTransitionTo(s, t) <=> WP!CanTransitionTo(s, t)
  /\ \A s, t : SP!Behind(s, t) =>
        WP!Rank(s) <= WP!Rank(t) /\ (WP!Rank(s) = WP!Rank(t) => s = t)
  BY DEF SP!Statuses, SP!Terminal, SP!StatusProcessing, SP!StatusApproved,
       SP!StatusRejected, SP!StatusFailed, WP!Statuses, SP!Behind, SP!Rank, WP!Rank,
       S!Absent, SP!Absent, WP!Absent, Absent, S!StatusPending, SP!StatusPending,
       WP!StatusPending, S!StatusProcessing, WP!StatusProcessing, S!StatusApproved,
       WP!StatusApproved, StatusApproved, S!StatusRejected, WP!StatusRejected,
       StatusRejected, S!StatusFailed, WP!StatusFailed, StatusFailed, S!Terminal,
       WP!Terminal, Terminal, S!CanTransitionTo, WP!CanTransitionTo

-----------------------------------------------------------------------------
(* The variables that the parts share.                                     *)
(* An event is stored when its row is; what reaches the topic is stored.   *)
LEMMA SharedVariables ==
  /\ OP!Saved = Stored /\ OP!Saved' = Stored'
  /\ UNCHANGED outbox => UNCHANGED Stored
  /\ UNCHANGED log => UNCHANGED Published
  /\ Stored \subseteq Requests
<1>1. OP!Saved = Stored /\ OP!Saved' = Stored'
  BY DEF OP!Saved, OP!Events, Stored
<1>2. UNCHANGED outbox => UNCHANGED Stored
  BY DEF Stored
<1>3. UNCHANGED log => UNCHANGED Published
  BY DEF Published
<1> QED
  BY <1>1, <1>2, <1>3 DEF Stored

(* The relay's own steps store nothing and forget nothing.                 *)
LEMMA RelayStores ==
  ASSUME PipelineInv, NEW a \in Apis, O!Run(a) \/ O!Cancel(a) \/ O!Exit(a) \/ O!Restart(a)
  PROVE  UNCHANGED Stored
<1>1. OP!Run(a) \/ OP!Cancel(a) \/ OP!Exit(a) \/ OP!Restart(a)
  BY RelaySame
<1>2. OP!Saved' = OP!Saved
  BY <1>1, OP!SavedByNoRelay DEF PipelineInv
<1> QED
  BY <1>2, SharedVariables

(* What the one worker does to a row is what the service expects of it.    *)
LEMMA WorkerServes ==
  ASSUME PipelineInv, WP!OneWorker, NEW w \in Workers, Worker(w)
  PROVE  \/ \E id \in Requests : S!WorkerMoves(id) \/ S!WorkerCaches(id)
         \/ UNCHANGED S!vars
<1>1. WP!Process(w) /\ UNCHANGED <<serviceVars, outbox, Stored>>
  BY WorkerSame, SharedVariables DEF Worker
<1>2. \/ UNCHANGED <<rows, cache>>
      \/ /\ cache' = cache
         /\ \E id \in Requests, s \in WP!Terminal \cup {WP!StatusProcessing} :
              WP!CanTransitionTo(rows[id], s) /\ rows' = [rows EXCEPT ![id] = s]
      \/ /\ rows' = rows
         /\ \E id \in Requests : /\ rows[id] \notin {WP!Absent, WP!StatusPending}
                                 /\ cache' = [cache EXCEPT ![id] = rows[id]]
  BY <1>1, WP!OneMoves, SameSets DEF PipelineInv
<1>3. CASE UNCHANGED <<rows, cache>>
  BY <1>1, <1>3 DEF S!vars, S!redis, S!postgres, S!history
<1>4. ASSUME NEW id \in Requests, NEW s \in WP!Terminal \cup {WP!StatusProcessing},
             cache' = cache, WP!CanTransitionTo(rows[id], s), rows' = [rows EXCEPT ![id] = s]
      PROVE  S!WorkerMoves(id)
  <2>1. rows[id] # SP!Absent
    BY <1>4, SameNames DEF WP!CanTransitionTo
  <2>2. id \in Stored
    BY <2>1 DEF PipelineInv, SP!ServiceInv, SP!StoredWithEvent
  <2>3. s \in Terminal \cup {S!StatusProcessing} /\ S!CanTransitionTo(rows[id], s)
    BY <1>4, SameNames
  <2> QED
    BY <1>1, <1>4, <2>2, <2>3 DEF S!WorkerMoves, S!redis, S!history
<1>5. ASSUME NEW id \in Requests, rows' = rows,
             rows[id] \notin {WP!Absent, WP!StatusPending},
             cache' = [cache EXCEPT ![id] = rows[id]]
      PROVE  S!WorkerCaches(id)
  BY <1>1, <1>5, SameNames DEF S!WorkerCaches, S!postgres, S!history
<1> QED
  BY <1>2, <1>3, <1>4, <1>5

(* Each step of the pipeline is one of the service, or none.               *)
LEMMA ServiceRefined ==
  ASSUME PipelineInv, WP!OneWorker, [Next]_vars
  PROVE  [S!Next]_(S!vars)
<1>1. ASSUME NEW r \in Requests, Arrive(r) PROVE S!Next
  BY <1>1 DEF Arrive, S!Next
<1>2. ASSUME NEW r \in Requests, Serve(r) PROVE S!Next
  BY <1>2 DEF Serve, S!Serve, S!Next
<1>3. ASSUME NEW a \in Apis, Relay(a) \/ ApiProcess(a) PROVE UNCHANGED S!vars
  <2>1. UNCHANGED <<serviceVars, stores>>
    BY <1>3 DEF Relay, Publish, ApiProcess
  <2>2. UNCHANGED Stored
    BY <1>3, RelayStores DEF Relay, Publish, ApiProcess, O!Run
  <2> QED
    BY <2>1, <2>2 DEF S!vars, S!redis, S!postgres, S!history
<1>4. ASSUME NEW w \in Workers, Worker(w) PROVE [S!Next]_(S!vars)
  BY <1>4, WorkerServes DEF S!Next
<1>5. CASE Rebalance \/ UNCHANGED vars
  <2>1. UNCHANGED <<serviceVars, outbox, rows, cache>>
    BY <1>5 DEF Rebalance, W!Rebalance, W!stores, vars
  <2> QED
    BY <2>1, SharedVariables DEF S!vars, S!redis, S!postgres, S!history
<1>6. CASE Expire
  BY <1>6 DEF Expire, S!Next
<1> QED
  BY <1>1, <1>2, <1>3, <1>4, <1>5, <1>6 DEF Next

(* Each step of the pipeline is one of the relays, or none.                *)
LEMMA RelayRefined ==
  ASSUME [Next]_vars
  PROVE  [O!Next]_(O!vars)
<1>1. ASSUME NEW r \in Requests, Arrive(r) PROVE UNCHANGED O!vars
  BY <1>1, SharedVariables DEF Arrive, O!vars
<1>2. ASSUME NEW r \in Requests, Serve(r) PROVE [O!Next]_(O!vars)
  <2>1. UNCHANGED Published /\ (O!Save(r) \/ UNCHANGED relayVars)
    BY <1>2, SharedVariables DEF Serve
  <2> QED
    BY <2>1 DEF O!Next, O!Events, O!vars
<1>3. ASSUME NEW a \in Apis, Relay(a) \/ ApiProcess(a) PROVE O!Next
  BY <1>3 DEF Relay, Publish, ApiProcess, O!Run, O!Next
<1>4. ASSUME NEW w \in Workers, Worker(w) PROVE UNCHANGED O!vars
  <2>1. UNCHANGED <<relayVars, log>>
    BY <1>4 DEF Worker, W!Process, W!Run, W!Handle, W!RejectCorrupt, W!LoadFails,
       W!LoadPayment, W!ClaimRow, W!UpdateRow, W!ClaimFails, W!ClaimCache, W!UpdateCache,
       W!GatewayApproves, W!GatewayRejects, W!GatewayErrs, W!BackoffElapses,
       W!BackoffCancelled, W!SettleRow, W!SettleFails, W!SettleCache, W!PublishOutcome,
       W!RouteToDLQ, W!CommitMessage, W!CommitFails, W!FetchMessage, W!Shutdown, W!Exit,
       W!Restart, W!topic
  <2> QED
    BY <2>1, SharedVariables DEF O!vars
<1>5. CASE Rebalance \/ Expire \/ UNCHANGED vars
  <2>1. UNCHANGED <<relayVars, log>>
    BY <1>5 DEF Rebalance, W!Rebalance, Expire, vars
  <2> QED
    BY <2>1, SharedVariables DEF O!vars
<1> QED
  BY <1>1, <1>2, <1>3, <1>4, <1>5 DEF Next

(* The invariants of the service and of the relay are kept.                *)
LEMMA PartsKept ==
  ASSUME PipelineInv, WP!OneWorker, [Next]_vars
  PROVE  /\ SP!ServiceInv'
         /\ OP!OutboxInv' /\ OP!SavedInv'
         /\ Stored \subseteq Stored'
<1>1. [SP!Next]_(SP!vars)
  BY ServiceRefined, ServiceSame
<1>2. SP!ServiceInv'
  BY <1>1, SP!ServiceStep, SameSets DEF PipelineInv
<1>3. [OP!Next]_(OP!vars)
  BY RelayRefined, RelaySame
<1>4. OP!OutboxInv' /\ OP!SavedInv' /\ OP!Saved \subseteq OP!Saved'
  BY <1>3, OP!OutboxStep, OP!SavedStep DEF PipelineInv
<1> QED
  BY <1>2, <1>4, SharedVariables

-----------------------------------------------------------------------------
(* The worker.                                                             *)
(* What is on the topic, or in hand, is a stored payment or corrupt.       *)
LEMMA TopicStored ==
  ASSUME PipelineInv
  PROVE  /\ Published \subseteq Stored
         /\ \A p \in Partitions : \A i \in DOMAIN log[p] : log[p][i] \in Stored
         /\ \A w \in Workers : worker[w] = "dlq" => job[w].message \in Stored
<1>1. Published \subseteq Stored
  BY SharedVariables DEF PipelineInv, OP!SavedInv
<1>2. \A p \in Partitions : \A i \in DOMAIN log[p] : log[p][i] \in Stored
  BY <1>1 DEF Published
<1>3. ASSUME NEW w \in Workers, worker[w] = "dlq" PROVE job[w].message \in Stored
  <2>1. WP!TypeOK /\ WP!JobInv(w) /\ WP!Working(w)
    BY <1>3 DEF PipelineInv, WP!OneInv, WP!WorkerInv, WP!Working, WP!TypeOK
  <2>2. /\ job[w].offset <= Len(log[job[w].partition])
        /\ log[job[w].partition][job[w].offset] = job[w].message
    BY <2>1 DEF WP!JobInv
  <2>3. job[w].partition \in Partitions /\ job[w].offset \in Nat \ {0}
    BY <2>1, WP!JobType, SameSets
  <2>4. log[job[w].partition] \in Seq(WP!Messages)
    BY <2>1, <2>3 DEF WP!TypeOK
  <2>5. job[w].offset \in DOMAIN log[job[w].partition]
    BY <2>2, <2>3, <2>4
  <2> QED
    BY <1>2, <2>2, <2>3, <2>5
<1> QED
  BY <1>1, <1>2, <1>3

(* Serving a request stores, at most, a payment that the worker has not    *)
(* seen yet.                                                               *)
LEMMA ServedWorker ==
  ASSUME PipelineInv, SP!ServiceInv', NEW r \in Requests, Serve(r)
  PROVE  WP!OneInv'
<1>1. UNCHANGED <<log, workerVars>> /\ SP!Serve(r)
  BY ServiceSame DEF Serve, S!Serve
<1>2. \/ UNCHANGED rows
      \/ rows[r] = SP!Absent /\ rows' = [rows EXCEPT ![r] = SP!StatusPending]
  BY <1>1, SP!ServeRows, SameSets DEF PipelineInv
<1>3. /\ rows \in [Requests -> WP!Statuses \cup {WP!Absent}]
      /\ rows' \in [Requests -> WP!Statuses \cup {WP!Absent}]
      /\ cache' \in [Requests -> WP!Statuses \cup {WP!Absent}]
  BY SameNames DEF PipelineInv, SP!ServiceInv, SP!TypeOK
<1>4. rows[r] = SP!Absent => r \notin Stored
  BY DEF PipelineInv, SP!ServiceInv, SP!StoredWithEvent
<1>5. \A id \in Requests : rows'[id] # rows[id] =>
         /\ rows[id] = WP!Absent /\ rows'[id] = WP!StatusPending
         /\ id \notin dlq
         /\ \A p \in Partitions : \A i \in DOMAIN log[p] : log[p][i] # id
  <2>1. \A id \in Requests : rows'[id] # rows[id] =>
           id = r /\ rows[id] = WP!Absent /\ rows'[id] = WP!StatusPending
    BY <1>2, <1>3, SameNames
  <2>2. rows[r] = WP!Absent =>
          /\ r \notin dlq
          /\ \A p \in Partitions : \A i \in DOMAIN log[p] : log[p][i] # r
    BY <1>4, TopicStored, SameNames DEF PipelineInv
  <2> QED
    BY <2>1, <2>2
<1>6. WP!CacheNeverAhead'
  BY SameNames DEF WP!CacheNeverAhead, SP!ServiceInv
<1>7. UNCHANGED <<WP!topic, WP!local, WP!effects>>
  BY <1>1 DEF WP!topic, WP!local, WP!effects
<1> QED
  BY <1>3, <1>5, <1>6, <1>7, WP!OneServed, SameSets DEF PipelineInv

(* Any other step is one of the worker, or none.                           *)
LEMMA WorkerRefined ==
  ASSUME PipelineInv, [Next]_vars
  PROVE  (\E r \in Requests : Serve(r)) \/ [W!Next]_(W!vars)
<1>1. ASSUME NEW r \in Requests, Arrive(r) PROVE UNCHANGED W!vars
  BY <1>1 DEF Arrive, W!vars, W!stores, W!topic, W!local, W!effects
<1>2. ASSUME NEW a \in Apis, Relay(a) PROVE [W!Next]_(W!vars)
  <2>1. CASE Publish(a)
    <3>1. CASE \E p \in Partitions : W!Deliver(p, O!Current(a))
      <4>1. OP!Current(a) \in OP!Events
        BY <2>1, OP!CurrentInBatch DEF Publish, PipelineInv, OP!OutboxInv
      <4>2. O!Current(a) \in W!Messages
        BY <4>1, RelaySame DEF OP!Events, W!Messages
      <4> QED
        BY <3>1, <4>2 DEF W!Next
    <3>2. CASE UNCHANGED <<log, workerVars>>
      BY <2>1, <3>2 DEF Publish, W!vars, W!stores, W!topic, W!local, W!effects
    <3> QED
      BY <2>1, <3>1, <3>2 DEF Publish
  <2>2. CASE UNCHANGED <<stores, log, workerVars>>
    BY <2>2 DEF W!vars, W!stores, W!topic, W!local, W!effects
  <2> QED
    BY <1>2, <2>1, <2>2 DEF Relay
<1>3. ASSUME NEW a \in Apis, ApiProcess(a) PROVE UNCHANGED W!vars
  BY <1>3 DEF ApiProcess, W!vars, W!stores, W!topic, W!local, W!effects
<1>4. ASSUME NEW w \in Workers, Worker(w) PROVE W!Next
  BY <1>4 DEF Worker, W!Next
<1>5. CASE Rebalance
  BY <1>5 DEF Rebalance, W!Next
<1>6. CASE Expire
  <2>1. CASE \E id \in Requests : S!ExpireCache(id)
    BY <1>6, <2>1 DEF Expire, S!ExpireCache, S!postgres, S!Absent, W!Next, W!Expire,
                      W!Absent, W!topic, W!local, W!effects
  <2>2. CASE \E key \in Keys : S!ExpireKey(key)
    BY <1>6, <2>2 DEF Expire, S!ExpireKey, S!postgres, W!vars, W!stores, W!topic,
                      W!local, W!effects
  <2> QED
    BY <1>6, <2>1, <2>2 DEF Expire
<1>7. CASE UNCHANGED vars
  BY <1>7 DEF vars, W!vars, W!stores, W!topic, W!local, W!effects
<1> QED
  BY <1>1, <1>2, <1>3, <1>4, <1>5, <1>6, <1>7 DEF Next

(* The worker's invariant is kept.                                         *)
LEMMA WorkerKept ==
  ASSUME PipelineInv, WP!OneWorker, [Next]_vars
  PROVE  WP!OneInv'
<1>1. ASSUME NEW r \in Requests, Serve(r) PROVE WP!OneInv'
  BY <1>1, PartsKept, ServedWorker
<1>2. ASSUME [W!Next]_(W!vars) PROVE WP!OneInv'
  <2>1. [WP!Next]_(WP!vars)
    BY <1>2, WorkerSame
  <2> QED
    BY <2>1, WP!OneInvStep, SameSets DEF PipelineInv
<1> QED
  BY <1>1, <1>2, WorkerRefined

(* Only a worker writes to the DLQ, and only what it has in hand.          *)
LEMMA DeadLetterStored ==
  ASSUME PipelineInv, [Next]_vars, Stored \subseteq Stored'
  PROVE  dlq' \cap Requests \subseteq Stored'
<1>1. ASSUME NEW w \in Workers, W!Process(w)
      PROVE  \/ dlq' = dlq
             \/ worker[w] = "dlq" /\ dlq' = dlq \cup {job[w].message}
  <2>1. CASE W!RouteToDLQ(w)
    BY <2>1 DEF W!RouteToDLQ, W!Goto
  <2>2. CASE \/ W!RejectCorrupt(w) \/ W!LoadFails(w) \/ W!LoadPayment(w)
             \/ W!ClaimRow(w) \/ W!ClaimFails(w) \/ W!ClaimCache(w)
             \/ W!SettleRow(w) \/ W!SettleFails(w) \/ W!SettleCache(w)
             \/ W!CommitMessage(w) \/ W!CommitFails(w)
             \/ W!Shutdown(w) \/ W!Exit(w) \/ W!Restart(w)
             \/ W!BackoffElapses(w) \/ W!BackoffCancelled(w)
             \/ W!GatewayRejects(w) \/ W!GatewayErrs(w)
             \/ \E p \in Partitions : W!FetchMessage(w, p)
    <3>1. UNCHANGED W!effects
      BY <2>2 DEF W!RejectCorrupt, W!LoadFails, W!LoadPayment, W!ClaimRow, W!UpdateRow,
           W!ClaimFails, W!ClaimCache, W!UpdateCache, W!SettleRow, W!SettleFails,
           W!SettleCache, W!CommitMessage, W!CommitFails, W!Shutdown, W!Exit, W!Restart,
           W!BackoffElapses, W!BackoffCancelled, W!GatewayRejects, W!GatewayErrs,
           W!FetchMessage
    <3> QED
      BY <3>1 DEF W!effects
  <2>3. CASE W!GatewayApproves(w) \/ W!PublishOutcome(w)
    BY <2>3 DEF W!GatewayApproves, W!PublishOutcome
  <2> QED
    BY <1>1, <2>1, <2>2, <2>3 DEF W!Process, W!Run, W!Handle
<1>2. \/ dlq' = dlq
      \/ \E w \in Workers : worker[w] = "dlq" /\ dlq' = dlq \cup {job[w].message}
  <2>1. CASE \E r \in Requests : Serve(r)
    BY <2>1 DEF Serve
  <2>2. CASE W!Next
    BY <1>1, <2>2 DEF W!Next, W!Rebalance, W!Deliver, W!Expire, W!effects
  <2>3. CASE UNCHANGED W!vars
    BY <2>3 DEF W!vars, W!effects
  <2> QED
    BY <2>1, <2>2, <2>3, WorkerRefined
<1> QED
  BY <1>2, TopicStored DEF PipelineInv

-----------------------------------------------------------------------------
(* The inductive invariant.                                                *)
LEMMA PipelineInit == Init => PipelineInv
<1> SUFFICES ASSUME Init PROVE PipelineInv
  OBVIOUS
<1>1. S!Init /\ O!Init /\ W!Init
  BY DEF Init
<1>2. SP!ServiceInv
  BY <1>1, ServiceSame, SP!ServiceInit, SameSets
<1>3. OP!OutboxInv
  BY <1>1, RelaySame, OP!OutboxInit
<1>4. OP!SavedInv
  BY <1>1, RelaySame DEF OP!Init, OP!NoEvents, OP!SavedInv
<1>5. WP!OneInv
  BY <1>1, WorkerSame, WP!OneInit, SameSets
<1>6. dlq = {}
  BY <1>1 DEF W!Init
<1> QED
  BY <1>2, <1>3, <1>4, <1>5, <1>6 DEF PipelineInv

LEMMA PipelineStep ==
  ASSUME PipelineInv, WP!OneWorker, [Next]_vars
  PROVE  PipelineInv'
  BY PartsKept, WorkerKept, DeadLetterStored DEF PipelineInv

(* The inductive invariants of the three parts hold together.              *)
THEOREM PipelineInvariance == WP!OneWorker => (Spec => []PipelineInv)
<1> SUFFICES ASSUME WP!OneWorker PROVE Spec => []PipelineInv
  OBVIOUS
<1>1. PipelineInv /\ [Next]_vars => PipelineInv'
  BY PipelineStep
<1> QED
  BY <1>1, PipelineInit, PTL DEF Spec

(* What the service assumes of the relay and the worker holds of the real  *)
(* ones, so that all that is proved of PaymentService holds here.          *)
THEOREM ServiceImplemented == WP!OneWorker => (Spec => ServiceSpec)
<1> SUFFICES ASSUME WP!OneWorker PROVE Spec => ServiceSpec
  OBVIOUS
<1>1. PipelineInv /\ [Next]_vars => [S!Next]_(S!vars)
  BY ServiceRefined
<1>2. Init => S!Init
  BY DEF Init
<1> QED
  BY <1>1, <1>2, PipelineInvariance, PTL DEF Spec, ServiceSpec, S!Spec

(* No message names a payment that does not exist: the event is committed  *)
(* with the row, and only committed events are relayed.                    *)
THEOREM TopicHasRows == WP!OneWorker => (Spec => []PublishedIsStored)
<1> SUFFICES ASSUME WP!OneWorker PROVE Spec => []PublishedIsStored
  OBVIOUS
<1>1. PipelineInv => PublishedIsStored
  BY TopicStored, SharedVariables, SameNames
     DEF PublishedIsStored, PipelineInv, SP!ServiceInv, SP!StoredWithEvent
<1> QED
  BY <1>1, PipelineInvariance, PTL

(* A client is charged once per key, from the idempotency key in Redis to  *)
(* the approval of the gateway, whatever crashes, is lost or repeated.     *)
THEOREM ChargedOncePerKey == WP!OneWorker => (Spec => []OneChargePerKey)
<1> SUFFICES ASSUME WP!OneWorker PROVE Spec => []OneChargePerKey
  OBVIOUS
<1>1. PipelineInv => W!ChargedOnce
  <2> SUFFICES ASSUME PipelineInv, NEW id \in Requests, NEW v \in Workers, NEW w \in Workers
               PROVE  charges[id][v] + (IF v = w THEN 0 ELSE charges[id][w]) <= 1
    BY DEF W!ChargedOnce
  <2>1. v = w
    BY DEF WP!OneWorker
  <2>2. charges[id][v] \in Nat /\ charges[id][v] <= 1
    <3>1. WP!TypeOK /\ WP!ChargedOncePerWorker
      BY DEF PipelineInv, WP!OneInv, WP!WorkerInv
    <3>2. charges \in [Requests -> [Workers -> Nat]]
      BY <3>1 DEF WP!TypeOK
    <3> QED
      BY <3>1, <3>2 DEF WP!ChargedOncePerWorker
  <2> QED
    BY <2>1, <2>2
<1>2. ASSUME PipelineInv, NEW q \in Requests, NEW r \in Requests,
             W!Charged(q), W!Charged(r), req[q].key = req[r].key, req[r].key \notin lapsed
      PROVE  q = r
  <2>1. \A id \in Requests : W!Charged(id) => rows[id] # SP!Absent
    BY <1>2, SameNames
       DEF W!Charged, WP!Charged, PipelineInv, WP!OneInv, WP!RowsInv, WP!StatusApproved
  <2>2. \A id \in Requests :
          rows[id] # SP!Absent /\ req[id].key \notin lapsed => keys[req[id].key] = id
    BY <1>2 DEF PipelineInv, SP!ServiceInv, SP!KeysInv
  <2> QED
    BY <1>2, <2>1, <2>2
<1>3. PipelineInv => OneChargePerKey
  BY <1>1, <1>2 DEF OneChargePerKey
<1> QED
  BY <1>3, PipelineInvariance, PTL

-----------------------------------------------------------------------------
(* The refinement of PaymentLifecycle, from the client's request on.       *)
(* The lifecycle is the same in both modules.                              *)
LEMMA SameLifecycle ==
  /\ Init => W!Lifecycle!Init
  /\ [WP!Lifecycle!Next]_(WP!Lifecycle!lifecycle)
       => [W!Lifecycle!Next]_(W!Lifecycle!lifecycle)
<1>1. \A id : WP!Charged(id) <=> W!Charged(id)
  BY DEF W!Charged, WP!Charged
<1>2. \A id : WP!Charged(id)' <=> W!Charged(id)'
  BY DEF W!Charged, WP!Charged
<1>3. [WP!Lifecycle!Next]_(WP!Lifecycle!lifecycle)
        => [W!Lifecycle!Next]_(W!Lifecycle!lifecycle)
  BY <1>1, <1>2 DEF W!Lifecycle!Next, W!Lifecycle!Create, W!Lifecycle!Accept,
       W!Lifecycle!Authorize, W!Lifecycle!Settle, W!Lifecycle!lifecycle,
       W!Lifecycle!Absent, W!Lifecycle!StatusPending, W!Lifecycle!StatusProcessing,
       W!Lifecycle!StatusApproved, W!Lifecycle!StatusRejected, W!Lifecycle!StatusFailed,
       W!Lifecycle!Terminal,
       WP!Lifecycle!Next, WP!Lifecycle!Create, WP!Lifecycle!Accept,
       WP!Lifecycle!Authorize, WP!Lifecycle!Settle, WP!Lifecycle!lifecycle,
       WP!Lifecycle!Absent, WP!Lifecycle!StatusPending, WP!Lifecycle!StatusProcessing,
       WP!Lifecycle!StatusApproved, WP!Lifecycle!StatusRejected,
       WP!Lifecycle!StatusFailed, WP!Lifecycle!Terminal
<1>4. Init => W!Lifecycle!Init
  BY DEF Init, W!Init, W!Charged, W!Lifecycle!Init, W!Absent, W!StatusPending,
         W!Lifecycle!Absent, W!Lifecycle!StatusPending
<1> QED
  BY <1>3, <1>4

(* Each step of the pipeline is one in the life of one payment, or none.   *)
LEMMA LifecycleStep ==
  ASSUME PipelineInv, WP!OneWorker, [Next]_vars
  PROVE  [W!Lifecycle!Next]_(W!Lifecycle!lifecycle)
<1>1. ASSUME NEW r \in Requests, Serve(r)
      PROVE  [W!Lifecycle!Next]_(W!Lifecycle!lifecycle)
  <2>1. UNCHANGED charges /\ SP!Serve(r)
    BY <1>1, ServiceSame DEF Serve, S!Serve
  <2>2. \/ UNCHANGED rows
        \/ rows[r] = SP!Absent /\ rows' = [rows EXCEPT ![r] = SP!StatusPending]
    BY <2>1, SP!ServeRows, SameSets DEF PipelineInv
  <2>3. {id \in Requests : W!Charged(id)}' = {id \in Requests : W!Charged(id)}
    BY <2>1 DEF W!Charged
  <2>4. CASE UNCHANGED rows
    BY <2>3, <2>4 DEF W!Lifecycle!lifecycle
  <2>5. CASE rows[r] = SP!Absent /\ rows' = [rows EXCEPT ![r] = SP!StatusPending]
    <3>1. W!Lifecycle!Create(r)
      BY <2>3, <2>5, SameNames
         DEF W!Lifecycle!Create, W!Lifecycle!Absent, W!Lifecycle!StatusPending
    <3> QED
      BY <3>1 DEF W!Lifecycle!Next
  <2> QED
    BY <2>2, <2>4, <2>5
<1>2. ASSUME [W!Next]_(W!vars)
      PROVE  [W!Lifecycle!Next]_(W!Lifecycle!lifecycle)
  <2>1. [WP!Next]_(WP!vars)
    BY <1>2, WorkerSame
  <2>2. [WP!Lifecycle!Next]_(WP!Lifecycle!lifecycle)
    BY <2>1, WP!LifecycleStep, SameSets DEF PipelineInv
  <2> QED
    BY <2>2, SameLifecycle
<1> QED
  BY <1>1, <1>2, WorkerRefined

(* From the commit of its row to its settlement each payment goes through  *)
(* PaymentLifecycle, with the API, the relays and the worker interleaved   *)
(* in any way.                                                             *)
THEOREM PipelineImplements == WP!OneWorker => (Spec => LifecycleSpec)
<1> SUFFICES ASSUME WP!OneWorker PROVE Spec => LifecycleSpec
  OBVIOUS
<1>1. PipelineInv /\ [Next]_vars => [W!Lifecycle!Next]_(W!Lifecycle!lifecycle)
  BY LifecycleStep
<1> QED
  BY <1>1, SameLifecycle, PipelineInvariance, PTL
     DEF Spec, LifecycleSpec, W!LifecycleSpec, W!Lifecycle!Spec

-----------------------------------------------------------------------------
(* No payment is lost on its way.                                          *)
(* Serving a request leaves handled what is handled.                       *)
LEMMA ServeHandled ==
  ASSUME PipelineInv, NEW r \in Requests, Serve(r)
  PROVE  WP!HandledStays
<1>1. UNCHANGED <<log, workerVars>> /\ SP!Serve(r)
  BY ServiceSame DEF Serve, S!Serve
<1>2. \/ UNCHANGED rows
      \/ rows[r] = SP!Absent /\ rows' = [rows EXCEPT ![r] = SP!StatusPending]
  BY <1>1, SP!ServeRows, SameSets DEF PipelineInv
<1>3. rows[r] = SP!Absent => r \notin Stored
  BY DEF PipelineInv, SP!ServiceInv, SP!StoredWithEvent
<1>4. ASSUME NEW p \in Partitions
      PROVE  Len(log[p]) \in Nat /\ DOMAIN log[p] = 1..Len(log[p])
  <2>1. log[p] \in Seq(WP!Messages)
    BY DEF PipelineInv, WP!OneInv, WP!WorkerInv, WP!TypeOK
  <2> QED
    BY <2>1
<1>5. ASSUME NEW p \in Partitions, NEW i \in 1..Len(log[p]), WP!Handled(log[p][i])
      PROVE  WP!StaysHandled(log[p][i])
  <2>1. log[p][i] \in Stored
    BY <1>4, TopicStored
  <2>2. UNCHANGED rows \/ (r # log[p][i] /\ rows' = [rows EXCEPT ![r] = SP!StatusPending])
    BY <1>2, <1>3, <2>1
  <2>3. rows \in [Requests -> SP!Statuses \cup {SP!Absent}]
    BY DEF PipelineInv, SP!ServiceInv, SP!TypeOK
  <2> QED
    BY <1>5, <2>2, <2>3 DEF WP!Handled, WP!StaysHandled
<1> QED
  BY <1>1, <1>4, <1>5 DEF WP!HandledStays

(* As long as Postgres answers the worker, no step makes it skip a message.*)
LEMMA OrderKept ==
  ASSUME PipelineInv, WP!OrderInv, "db" \notin WorkerFaults, [Next]_vars
  PROVE  WP!OrderInv'
<1>0. WP!WorkerInv
  BY DEF PipelineInv, WP!OneInv
<1>1. ASSUME NEW r \in Requests, Serve(r) PROVE WP!OrderInv'
  <2>1. UNCHANGED <<committed, position, owner, worker, ctx, job>>
    BY <1>1 DEF Serve
  <2> QED
    BY <1>0, <1>1, <2>1, ServeHandled, WP!OrderAside, SameSets
<1>2. ASSUME [W!Next]_(W!vars) PROVE WP!OrderInv'
  <2>1. [WP!Next]_(WP!vars)
    BY <1>2, WorkerSame
  <2> QED
    BY <1>0, <2>1, WP!OrderStep, SameSets
<1> QED
  BY <1>1, <1>2, WorkerRefined

(* Where the payment of a PENDING row is: its event is to be relayed, was  *)
(* given up after three attempts, or has a message that is not committed.  *)
OnItsWayOrGivenUp ==
  \A id \in Stored : rows[id] = StatusPending =>
     \/ outbox[id].status \in {"PENDING", "FAILED"}
     \/ \E p \in Partitions : \E i \in DOMAIN log[p] : log[p][i] = id /\ i > committed[p]

LEMMA WhereItIs == PipelineInv /\ WP!OrderInv => OnItsWayOrGivenUp
<1> SUFFICES ASSUME PipelineInv, WP!OrderInv, NEW id \in Stored, rows[id] = StatusPending,
                    outbox[id].status \notin {"PENDING", "FAILED"}
             PROVE  \E p \in Partitions : \E i \in DOMAIN log[p] :
                       log[p][i] = id /\ i > committed[p]
  BY DEF OnItsWayOrGivenUp
<1>1. id \in Requests /\ outbox[id].status = "PROCESSED"
  BY DEF Stored, PipelineInv, OP!OutboxInv, OP!TypeOK, OP!Row, OP!OutboxStatuses, OP!Events
<1>2. id \in Published
  BY <1>1 DEF PipelineInv, OP!OutboxInv, OP!ProcessedWasPublished, OP!Events
<1>p. PICK p \in Partitions : \E j \in DOMAIN log[p] : log[p][j] = id
  BY <1>2 DEF Published
<1>3. PICK i \in DOMAIN log[p] : log[p][i] = id
  BY <1>p
<1>4. i \in Nat \ {0} /\ committed[p] \in Nat
  <2>1. log[p] \in Seq(WP!Messages) /\ committed[p] \in Nat
    BY DEF PipelineInv, WP!OneInv, WP!WorkerInv, WP!TypeOK
  <2> QED
    BY <2>1
<1>5. i \notin 1..committed[p]
  <2>1. ~ WP!Handled(log[p][i])
    BY <1>1, <1>3 DEF WP!Handled, StatusPending, WP!StatusPending
  <2> QED
    BY <2>1 DEF WP!OrderInv, WP!NothingSkipped
<1> QED
  BY <1>3, <1>4, <1>5

(* An accepted payment whose row is PENDING is never lost between the      *)
(* processes, whatever crashes or is cancelled: as long as Postgres        *)
(* answers the worker, only the relay's giving up can strand it.           *)
THEOREM NoneLost ==
  WP!OneWorker /\ "db" \notin WorkerFaults => (Spec => []OnItsWayOrGivenUp)
<1> SUFFICES ASSUME WP!OneWorker, "db" \notin WorkerFaults PROVE Spec => []OnItsWayOrGivenUp
  OBVIOUS
<1>1. PipelineInv /\ WP!OrderInv /\ [Next]_vars => WP!OrderInv'
  BY OrderKept
<1>2. Init => WP!OrderInv
  BY WorkerSame, WP!OrderInit, SameSets DEF Init
<1> QED
  BY <1>1, <1>2, WhereItIs, PipelineInvariance, PTL DEF Spec

(* When the broker accepts every event, and the relays get no signal,      *)
(* nothing is given up, and the payment is always on its way, through the  *)
(* crashes of both processes and the relay's database failures.            *)
THEOREM AlwaysOnItsWay ==
  /\ WP!OneWorker
  /\ "db" \notin WorkerFaults
  /\ RelayFaults \cap {"broker", "shutdown"} = {}
  => (Spec => []OnItsWay)
<1> SUFFICES ASSUME WP!OneWorker, "db" \notin WorkerFaults,
                    RelayFaults \cap {"broker", "shutdown"} = {}
             PROVE  Spec => []OnItsWay
  OBVIOUS
<1>1. PipelineInv /\ OP!ServedInv /\ [Next]_vars => OP!ServedInv'
  <2> SUFFICES ASSUME PipelineInv, OP!ServedInv, [Next]_vars PROVE OP!ServedInv'
    OBVIOUS
  <2>1. [OP!Next]_(OP!vars)
    BY RelayRefined, RelaySame
  <2> QED
    BY <2>1, OP!ServedStep DEF PipelineInv
<1>2. Init => OP!ServedInv
  BY RelaySame, OP!ServedInit DEF Init
<1>3. OnItsWayOrGivenUp /\ OP!ServedInv => OnItsWay
  BY DEF OnItsWayOrGivenUp, OnItsWay, OP!ServedInv, OP!NoneGivenUp, OP!Events, Stored
<1> QED
  BY <1>1, <1>2, <1>3, NoneLost, PipelineInvariance, PTL DEF Spec
=============================================================================
