------------------------- MODULE PaymentWorkerProofs -------------------------
(***************************************************************************)
(* Proofs about PaymentWorker, for any workers, partitions and payments    *)
(* and any kinds of failure: TypeOK, then WorkerInv, the inductive         *)
(* invariant from which the safety properties of a group follow.           *)
(***************************************************************************)
EXTENDS PaymentWorker, TLAPS

USE DEF stores, topic, local, effects

-----------------------------------------------------------------------------
(* Types.                                                                  *)
LEMMA JobType ==
  ASSUME TypeOK, NEW w \in Workers, Working(w)
  PROVE  /\ job[w] \in Job
         /\ job[w].partition \in Partitions
         /\ job[w].offset \in Nat \ {0}
         /\ job[w].message \in Messages
         /\ job[w].status \in Statuses \cup {Absent}
         /\ job[w].attempt \in 1..MaxRetries
  BY DEF TypeOK, Working, Job

(* TransitionTo between statuses gives a status.                           *)
LEMMA TransitionType ==
  ASSUME NEW s \in Statuses \cup {Absent}, NEW t \in Statuses
  PROVE  TransitionTo(s, t) \in Statuses \cup {Absent}
  BY DEF TransitionTo

(* The statuses the worker moves a payment to are statuses.                *)
LEMMA StatusNames ==
  /\ StatusProcessing \in Statuses /\ StatusApproved \in Statuses
  /\ StatusRejected \in Statuses /\ StatusFailed \in Statuses
  BY DEF Statuses, Terminal

(* A step that changes a job's status leaves the rest of it alone.         *)
LEMMA NewStatus ==
  ASSUME TypeOK, NEW w \in Workers, Working(w), NEW s \in Statuses \cup {Absent},
         job' = [job EXCEPT ![w].status = s]
  PROVE  /\ job' \in [Workers -> Job \cup {None}]
         /\ job'[w] \in Job
         /\ job'[w].message = job[w].message /\ job'[w].status = s
         /\ job'[w].partition = job[w].partition /\ job'[w].offset = job[w].offset
         /\ \A v \in Workers \ {w} : job'[v] = job[v]
<1>1. job[w] \in Job
  BY JobType
<1>2. job'[w] = [job[w] EXCEPT !.status = s]
  BY DEF TypeOK
<1>3. job'[w] \in Job
  BY <1>1, <1>2 DEF Job
<1> QED
  BY <1>1, <1>2, <1>3 DEF TypeOK, Job

(* A step that writes no job and moves one pc keeps the types of both.     *)
LEMMA StatusStep ==
  ASSUME TypeOK, NEW w \in Workers, NEW to \in InHand, NEW t \in Statuses,
         Goto(w, "gateway", to),
         job' = [job EXCEPT ![w].status = TransitionTo(@, t)]
  PROVE  /\ pc' \in [Workers -> Labels]
         /\ job' \in [Workers -> Job \cup {None}]
         /\ \A v \in Workers : /\ job'[v] = None <=> pc'[v] \in {"fetch", "down"}
                               /\ pc'[v] \in InHand => job'[v].message \in Payments
         /\ \A v \in Workers \ {w} : job'[v] = job[v] /\ pc'[v] = pc[v]
<1>1. Working(w) /\ job[w].message \in Payments
  BY DEF Goto, Working, InHand, TypeOK
<1>2. TransitionTo(job[w].status, t) \in Statuses \cup {Absent}
  BY <1>1, JobType, TransitionType
<1>3. /\ job' \in [Workers -> Job \cup {None}]
      /\ job'[w] \in Job /\ job'[w].message = job[w].message
      /\ \A v \in Workers \ {w} : job'[v] = job[v]
  BY <1>1, <1>2, NewStatus
<1> QED
  BY <1>1, <1>3, WorkerAssumption DEF TypeOK, Goto, Labels, InHand

(* Every step keeps the types.                                             *)
LEMMA TypeStep ==
  ASSUME TypeOK, [Next]_vars
  PROVE  TypeOK'
<1> USE WorkerAssumption
<1>1. ASSUME NEW w \in Workers, RejectCorrupt(w) PROVE TypeOK'
  BY <1>1, JobType DEF TypeOK, RejectCorrupt, Goto, Working, InHand, Labels, Messages
<1>2. ASSUME NEW w \in Workers, LoadFails(w) PROVE TypeOK'
  BY <1>2, JobType DEF TypeOK, LoadFails, Goto, Working, InHand, Labels, Messages, NextMessage
<1>3. ASSUME NEW w \in Workers, ClaimRow(w) PROVE TypeOK'
  BY <1>3, JobType DEF TypeOK, ClaimRow, Goto, Working, InHand, Labels, Messages, UpdateRow
<1>4. ASSUME NEW w \in Workers, ClaimFails(w) PROVE TypeOK'
  BY <1>4, JobType DEF TypeOK, ClaimFails, Goto, Working, InHand, Labels, Messages, RowMayHaveChanged, NextMessage
<1>5. ASSUME NEW w \in Workers, ClaimCache(w) PROVE TypeOK'
  BY <1>5, JobType DEF TypeOK, ClaimCache, Goto, Working, InHand, Labels, Messages, UpdateCache
<1>6. ASSUME NEW w \in Workers, BackoffElapses(w) PROVE TypeOK'
  <2>1. Working(w) /\ pc[w] = "backoff" /\ job[w].attempt < MaxRetries
    BY <1>6 DEF BackoffElapses, Goto, Working, TypeOK
  <2>2. job[w] \in Job /\ job[w].attempt + 1 \in 1..MaxRetries
    BY <2>1, JobType DEF MaxRetries
  <2>3. job'[w] = [job[w] EXCEPT !.attempt = job[w].attempt + 1]
    BY <1>6 DEF BackoffElapses, TypeOK
  <2>4. job'[w] \in Job /\ job'[w].message = job[w].message
    BY <2>2, <2>3 DEF Job
  <2>5. job' \in [Workers -> Job \cup {None}] /\ \A v \in Workers \ {w} : job'[v] = job[v]
    BY <1>6, <2>4 DEF BackoffElapses, TypeOK
  <2> QED
    BY <1>6, <2>1, <2>4, <2>5 DEF TypeOK, BackoffElapses, Goto, InHand, Labels
<1>7. ASSUME NEW w \in Workers, BackoffCancelled(w) PROVE TypeOK'
  BY <1>7, JobType DEF TypeOK, BackoffCancelled, Goto, Working, InHand, Labels, Messages, NextMessage
<1>8. ASSUME NEW w \in Workers, SettleRow(w) PROVE TypeOK'
  BY <1>8, JobType DEF TypeOK, SettleRow, Goto, Working, InHand, Labels, Messages, UpdateRow
<1>9. ASSUME NEW w \in Workers, SettleFails(w) PROVE TypeOK'
  BY <1>9, JobType DEF TypeOK, SettleFails, Goto, Working, InHand, Labels, Messages, RowMayHaveChanged
<1>10. ASSUME NEW w \in Workers, SettleCache(w) PROVE TypeOK'
  BY <1>10, JobType DEF TypeOK, SettleCache, Goto, Working, InHand, Labels, Messages, UpdateCache
<1>11. ASSUME NEW w \in Workers, PublishOutcome(w) PROVE TypeOK'
  <2>1. Working(w) /\ job[w].message \in Payments
    BY <1>11 DEF PublishOutcome, Goto, Working, InHand, TypeOK
  <2>2. outcomes' \subseteq Outcomes
    BY <1>11, <2>1, JobType DEF PublishOutcome, TypeOK, Outcomes, OutcomeTopic
  <2> QED
    BY <1>11, <2>1, <2>2 DEF TypeOK, PublishOutcome, Goto, InHand, Labels
<1>12. ASSUME NEW w \in Workers, RouteToDLQ(w) PROVE TypeOK'
  BY <1>12, JobType DEF TypeOK, RouteToDLQ, Goto, Working, InHand, Labels, Messages
<1>13. ASSUME NEW w \in Workers, CommitMessage(w) PROVE TypeOK'
  BY <1>13, JobType DEF TypeOK, CommitMessage, Goto, Working, InHand, Labels, Messages, NextMessage
<1>14. ASSUME NEW w \in Workers, CommitFails(w) PROVE TypeOK'
  BY <1>14, JobType DEF TypeOK, CommitFails, Goto, Working, InHand, Labels, Messages, NextMessage
<1>15. ASSUME NEW w \in Workers, Shutdown(w) PROVE TypeOK'
  BY <1>15, JobType DEF TypeOK, Shutdown, Goto, Working, InHand, Labels, Messages
<1>16. ASSUME NEW w \in Workers, Exit(w) PROVE TypeOK'
  BY <1>16, JobType DEF TypeOK, Exit, Goto, Working, InHand, Labels, Messages
<1>17. ASSUME NEW w \in Workers, Restart(w) PROVE TypeOK'
  BY <1>17, JobType DEF TypeOK, Restart, Goto, Working, InHand, Labels, Messages
<1>20. ASSUME NEW w \in Workers, NEW p \in Partitions, FetchMessage(w, p) PROVE TypeOK'
  BY <1>20 DEF TypeOK, FetchMessage, Goto, Job, Labels, InHand, Messages, MaxRetries
<1>21. ASSUME NEW w \in Workers, LoadPayment(w) PROVE TypeOK'
  <2>1. Working(w) /\ job[w].message \in Payments
    BY <1>21, JobType DEF LoadPayment, Goto, Working, Messages
  <2>2. CASE UNCHANGED job
    BY <1>21, <2>1, <2>2 DEF TypeOK, LoadPayment, Goto, InHand, Labels
  <2>3. CASE Goto(w, "load", "claim") /\ job' = [job EXCEPT ![w].status = TransitionTo(db[job[w].message], StatusProcessing)]
    <3>1. TransitionTo(db[job[w].message], StatusProcessing) \in Statuses \cup {Absent}
      BY <2>1, TransitionType, StatusNames DEF TypeOK
    <3>2. /\ job' \in [Workers -> Job \cup {None}]
          /\ job'[w] \in Job /\ job'[w].message = job[w].message
          /\ \A v \in Workers \ {w} : job'[v] = job[v]
      BY <2>1, <2>3, <3>1, NewStatus
    <3> QED
      BY <1>21, <2>1, <2>3, <3>2 DEF TypeOK, LoadPayment, Goto, InHand, Labels
  <2> QED
    BY <1>21, <2>2, <2>3 DEF LoadPayment
<1>22. ASSUME NEW w \in Workers, GatewayApproves(w) PROVE TypeOK'
  <2>1. job[w].message \in Payments
    BY <1>22 DEF GatewayApproves, Goto, InHand, TypeOK
  <2>2. charges' \in [Payments -> [Workers -> Nat]]
    BY <1>22, <2>1 DEF GatewayApproves, TypeOK
  <2>3. "settle" \in InHand
    BY DEF InHand
  <2> QED
    BY <1>22, <2>2, <2>3, StatusStep, StatusNames DEF TypeOK, GatewayApproves, Goto
<1>23. ASSUME NEW w \in Workers, GatewayRejects(w) PROVE TypeOK'
  <2>1. "settle" \in InHand
    BY DEF InHand
  <2> QED
    BY <1>23, <2>1, StatusStep, StatusNames DEF TypeOK, GatewayRejects, Goto
<1>24. ASSUME NEW w \in Workers, GatewayErrs(w) PROVE TypeOK'
  <2>1. CASE Goto(w, "gateway", "backoff") /\ job[w].attempt < MaxRetries /\ UNCHANGED job
    BY <1>24, <2>1 DEF TypeOK, GatewayErrs, Goto, InHand, Labels
  <2>2. CASE /\ Goto(w, "gateway", "settle")
             /\ job' = [job EXCEPT ![w].status = TransitionTo(@, StatusFailed)]
    <3>1. "settle" \in InHand
      BY DEF InHand
    <3> QED
      BY <1>24, <2>2, <3>1, StatusStep, StatusNames DEF TypeOK, GatewayErrs, Goto
  <2> QED
    BY <1>24, <2>1, <2>2 DEF GatewayErrs
<1>25. ASSUME Rebalance PROVE TypeOK'
  BY <1>25 DEF TypeOK, Rebalance
<1>26. ASSUME NEW p \in Partitions, NEW m \in Messages, Deliver(p, m) PROVE TypeOK'
  BY <1>26 DEF TypeOK, Deliver
<1>27. ASSUME NEW id \in Payments, Expire(id) PROVE TypeOK'
  BY <1>27 DEF TypeOK, Expire
<1>28. CASE UNCHANGED vars
  BY <1>28 DEF vars, TypeOK
<1> QED
  BY <1>1, <1>2, <1>3, <1>4, <1>5, <1>6, <1>7, <1>8, <1>9, <1>10, <1>11, <1>12, <1>13, <1>14, <1>15, <1>16, <1>17, <1>20, <1>21, <1>22, <1>23, <1>24, <1>25, <1>26, <1>27, <1>28 DEF Next, Process, Run, Handle

(* Every variable keeps its type.                                          *)
THEOREM TypeCorrect == Spec => []TypeOK
<1>1. Init => TypeOK
  BY WorkerAssumption DEF Init, TypeOK, Labels, InHand, Messages, Statuses
<1>2. TypeOK /\ [Next]_vars => TypeOK'
  BY TypeStep
<1> QED
  BY <1>1, <1>2, PTL DEF Spec
-----------------------------------------------------------------------------
(* The safety of a group.  What a step may do to the shared state: rows    *)
(* are not removed and do not go back to PENDING, logs only grow, and      *)
(* approvals are not forgotten.                                            *)
RowsKeep ==
  \A id \in Payments :
     /\ db[id] # Absent => db'[id] # Absent
     /\ db[id] # StatusPending => db'[id] # StatusPending

LogsGrow ==
  \A p \in Partitions :
     /\ Len(log'[p]) >= Len(log[p])
     /\ \A i \in 1..Len(log[p]) : log'[p][i] = log[p][i]

ChargesKept(w) == \A id \in Payments : charges'[id][w] = charges[id][w]

(* The names of the statuses are distinct.                                 *)
LEMMA Names ==
  /\ StatusProcessing \notin {Absent, StatusPending}
  /\ \A s \in Terminal : s \notin {Absent, StatusPending, StatusProcessing}
  /\ StatusApproved \in Terminal /\ StatusRejected \in Terminal
  /\ StatusFailed \in Terminal
  /\ StatusRejected # StatusApproved /\ StatusFailed # StatusApproved
  /\ StatusProcessing # StatusApproved
  /\ StatusPending # Absent /\ StatusApproved # Absent /\ StatusPending # StatusApproved
  BY DEF Absent, StatusPending, StatusProcessing, StatusApproved, StatusRejected,
         StatusFailed, Terminal

(* The transitions the worker makes do change the status.                  *)
LEMMA Transitions ==
  /\ TransitionTo(StatusPending, StatusProcessing) = StatusProcessing
  /\ \A t \in Terminal : TransitionTo(StatusProcessing, t) = t
  /\ CanTransitionTo(StatusPending, StatusProcessing)
  BY DEF TransitionTo, CanTransitionTo

(* A worker the step does not touch keeps its invariant.                   *)
LEMMA JobFrame ==
  ASSUME TypeOK, NEW v \in Workers, JobInv(v),
         pc'[v] = pc[v], job'[v] = job[v], RowsKeep, LogsGrow, ChargesKept(v)
  PROVE  JobInv(v)'
<1>1. CASE ~ Working(v)
  BY <1>1 DEF JobInv, Working, InHand
<1>2. CASE Working(v)
  <2>1. /\ job[v].partition \in Partitions /\ job[v].offset \in Nat \ {0}
        /\ job[v].message \in Messages
    BY <1>2, JobType
  <2>3. Working(v)' => /\ (job[v].offset <= Len(log[job[v].partition]))'
                      /\ (log[job[v].partition][job[v].offset] = job[v].message)'
    BY <1>2, <2>1 DEF JobInv, LogsGrow, TypeOK
  <2>4. pc[v] \in InHand => job[v].message \in Payments
    BY DEF TypeOK
  <2>5. pc'[v] \in InHand =>
          /\ db'[job'[v].message] # Absent
          /\ pc'[v] # "claim" => db'[job'[v].message] # StatusPending
    BY <2>4 DEF JobInv, RowsKeep
  <2>6. /\ pc'[v] \in {"claim", "claimed", "gateway", "backoff"} =>
             job'[v].status = StatusProcessing /\ charges'[job'[v].message][v] = 0
        /\ pc'[v] \in {"settle", "settled", "publish"} =>
             /\ job'[v].status \in Terminal
             /\ job'[v].status = StatusApproved => charges'[job'[v].message][v] > 0
    BY <2>4 DEF JobInv, ChargesKept, InHand
  <2>7. pc'[v] \in {"dlq", "commit"} => Handled(job[v].message)'
    BY DEF JobInv, Handled, RowsKeep
  <2> QED
    BY <2>3, <2>5, <2>6, <2>7 DEF JobInv
<1> QED
  BY <1>1, <1>2

(* A step that leaves rows, cache, logs, offsets, approvals and outcomes   *)
(* alone need only answer for the workers it moves.                        *)
LEMMA QuietStep ==
  ASSUME WorkerInv, TypeOK', UNCHANGED <<db, cache, log, committed, charges, outcomes>>,
         \A v \in Workers : JobInv(v)' \/ (pc'[v] = pc[v] /\ job'[v] = job[v])
  PROVE  WorkerInv'
<1>1. RowsKeep /\ LogsGrow /\ \A v \in Workers : ChargesKept(v)
  BY DEF RowsKeep, LogsGrow, ChargesKept, WorkerInv, TypeOK
<1>2. \A v \in Workers : JobInv(v)'
  BY <1>1, JobFrame DEF WorkerInv
<1>3. ChargedIsClaimed' /\ ChargedOncePerWorker'
  BY DEF WorkerInv, ChargedIsClaimed, ChargedOncePerWorker
<1>4. CommittedIsHandled'
  BY DEF WorkerInv, CommittedIsHandled, Handled
<1>5. ApprovedIsCharged'
  BY DEF WorkerInv, ApprovedIsCharged, SeenApproved, Charged
<1> QED
  BY <1>2, <1>3, <1>4, <1>5 DEF WorkerInv

(* A worker between messages has nothing to answer for.                    *)
LEMMA IdleInv ==
  ASSUME NEW w \in Workers, ~ Working(w)'
  PROVE  JobInv(w)'
  BY DEF JobInv, Working, InHand

(* A step in which only w moves, by its own pc and job.                    *)
OnlyMoves(w) == \A v \in Workers \ {w} : pc'[v] = pc[v] /\ job'[v] = job[v]

(* The same for a step in which one worker moves.                          *)
LEMMA QuietMove ==
  ASSUME WorkerInv, TypeOK', UNCHANGED <<db, cache, log, committed, charges, outcomes>>,
         NEW w \in Workers, OnlyMoves(w), JobInv(w)'
  PROVE  WorkerInv'
  BY QuietStep DEF OnlyMoves

(* FetchMessage: the job is the message at the offset it names.            *)
LEMMA FetchInv ==
  ASSUME WorkerInv, TypeOK', NEW w \in Workers, NEW p \in Partitions, FetchMessage(w, p)
  PROVE  WorkerInv'
<1>1. OnlyMoves(w) /\ pc'[w] = "load"
  BY DEF OnlyMoves, FetchMessage, Goto, WorkerInv, TypeOK
<1>2. /\ job'[w].partition = p /\ job'[w].offset = position[p] + 1
      /\ job'[w].message = log[p][position[p] + 1]
  BY DEF FetchMessage, WorkerInv, TypeOK
<1>3. position[p] + 1 <= Len(log[p])
  BY DEF FetchMessage, WorkerInv, TypeOK
<1>4. JobInv(w)'
  BY <1>1, <1>2, <1>3 DEF JobInv, InHand, FetchMessage
<1> QED
  BY <1>1, <1>4, QuietMove DEF FetchMessage

(* RejectCorrupt: a corrupt message counts as handled.                     *)
LEMMA RejectCorruptInv ==
  ASSUME WorkerInv, TypeOK', NEW w \in Workers, RejectCorrupt(w)
  PROVE  WorkerInv'
<1>1. OnlyMoves(w) /\ pc[w] = "load" /\ pc'[w] = "dlq" /\ job'[w] = job[w]
  BY DEF OnlyMoves, RejectCorrupt, Goto, WorkerInv, TypeOK
<1>2. JobInv(w)'
  BY <1>1, WorkerAssumption DEF JobInv, Working, InHand, Handled, RejectCorrupt, WorkerInv
<1> QED
  BY <1>1, <1>2, QuietMove DEF RejectCorrupt

(* LoadPayment: a PENDING payment was never approved to this worker.       *)
LEMMA LoadPaymentInv ==
  ASSUME WorkerInv, TypeOK', NEW w \in Workers, LoadPayment(w)
  PROVE  WorkerInv'
<1>1. /\ OnlyMoves(w) /\ Working(w) /\ pc[w] = "load" /\ job[w].message \in Payments
      /\ UNCHANGED <<db, cache, log, committed, charges, outcomes>>
  BY JobType DEF OnlyMoves, LoadPayment, Goto, WorkerInv, TypeOK, Working, Messages
<1>2. CASE /\ Goto(w, "load", "dlq") \/ Goto(w, "load", "commit")
           /\ UNCHANGED job /\ db[job[w].message] # StatusPending
  <2>1. JobInv(w)'
    BY <1>1, <1>2 DEF JobInv, Goto, Working, InHand, Handled, WorkerInv, TypeOK
  <2> QED
    BY <1>1, <2>1, QuietMove
<1>3. CASE /\ Goto(w, "load", "claim") /\ db[job[w].message] = StatusPending
           /\ job' = [job EXCEPT ![w].status =
                                TransitionTo(db[job[w].message], StatusProcessing)]
  <2>1. /\ job'[w].message = job[w].message /\ job'[w].partition = job[w].partition
        /\ job'[w].offset = job[w].offset /\ job'[w].status = StatusProcessing
    BY <1>1, <1>3, NewStatus, Transitions, StatusNames DEF WorkerInv
  <2>2. charges[job[w].message][w] = 0
    BY <1>1, <1>3, Names DEF WorkerInv, ChargedIsClaimed, TypeOK
  <2>3. JobInv(w)'
    BY <1>1, <1>3, <2>1, <2>2, Names DEF JobInv, Goto, Working, InHand, WorkerInv, TypeOK
  <2> QED
    BY <1>1, <2>3, QuietMove
<1> QED
  BY <1>2, <1>3, Names, Transitions DEF LoadPayment, Goto

(* GatewayRejects: REJECTED is final and asks for no approval.             *)
LEMMA GatewayRejectsInv ==
  ASSUME WorkerInv, TypeOK', NEW w \in Workers, GatewayRejects(w)
  PROVE  WorkerInv'
<1>1. /\ OnlyMoves(w) /\ Working(w) /\ pc[w] = "gateway" /\ pc'[w] = "settle"
      /\ job[w].status = StatusProcessing
  BY JobType DEF OnlyMoves, GatewayRejects, Goto, WorkerInv, TypeOK, Working, JobInv
<1>2. /\ job'[w].message = job[w].message /\ job'[w].partition = job[w].partition
      /\ job'[w].offset = job[w].offset /\ job'[w].status = StatusRejected
  BY <1>1, NewStatus, Transitions, Names, StatusNames DEF WorkerInv, GatewayRejects
<1>3. JobInv(w)'
  BY <1>1, <1>2, Names DEF JobInv, Working, InHand, WorkerInv, GatewayRejects
<1> QED
  BY <1>1, <1>3, QuietMove DEF GatewayRejects

(* GatewayErrs: it backs off, or settles on FAILED.                        *)
LEMMA GatewayErrsInv ==
  ASSUME WorkerInv, TypeOK', NEW w \in Workers, GatewayErrs(w)
  PROVE  WorkerInv'
<1>1. /\ OnlyMoves(w) /\ Working(w) /\ pc[w] = "gateway"
      /\ job[w].status = StatusProcessing
  BY JobType DEF OnlyMoves, GatewayErrs, Goto, WorkerInv, TypeOK, Working, JobInv
<1>2. CASE pc'[w] = "backoff" /\ UNCHANGED job
  <2>1. JobInv(w)'
    BY <1>1, <1>2 DEF JobInv, Working, InHand, WorkerInv, GatewayErrs
  <2> QED
    BY <1>1, <2>1, QuietMove DEF GatewayErrs
<1>3. CASE /\ pc'[w] = "settle"
           /\ job' = [job EXCEPT ![w].status = TransitionTo(@, StatusFailed)]
  <2>1. /\ job'[w].message = job[w].message /\ job'[w].partition = job[w].partition
        /\ job'[w].offset = job[w].offset /\ job'[w].status = StatusFailed
    BY <1>1, <1>3, NewStatus, Transitions, Names, StatusNames DEF WorkerInv
  <2>2. JobInv(w)'
    BY <1>1, <1>3, <2>1, Names DEF JobInv, Working, InHand, WorkerInv, GatewayErrs
  <2> QED
    BY <1>1, <2>2, QuietMove DEF GatewayErrs
<1> QED
  BY <1>1, <1>2, <1>3 DEF GatewayErrs, Goto, WorkerInv, TypeOK

(* BackoffElapses: the next attempt starts like the last.                  *)
LEMMA BackoffElapsesInv ==
  ASSUME WorkerInv, TypeOK', NEW w \in Workers, BackoffElapses(w)
  PROVE  WorkerInv'
<1>1. OnlyMoves(w) /\ Working(w) /\ pc[w] = "backoff" /\ pc'[w] = "gateway"
  BY DEF OnlyMoves, BackoffElapses, Goto, WorkerInv, TypeOK, Working
<1>2. job[w] \in Job /\ job'[w] = [job[w] EXCEPT !.attempt = @ + 1]
  BY <1>1, JobType DEF BackoffElapses, WorkerInv, TypeOK
<1>3. /\ job'[w].message = job[w].message /\ job'[w].partition = job[w].partition
      /\ job'[w].offset = job[w].offset /\ job'[w].status = job[w].status
  BY <1>2 DEF Job
<1>4. JobInv(w)'
  BY <1>1, <1>3 DEF JobInv, Working, InHand, WorkerInv, BackoffElapses
<1> QED
  BY <1>1, <1>4, QuietMove DEF BackoffElapses

(* RouteToDLQ: the message stays handled.                                  *)
LEMMA RouteToDLQInv ==
  ASSUME WorkerInv, TypeOK', NEW w \in Workers, RouteToDLQ(w)
  PROVE  WorkerInv'
<1>1. /\ OnlyMoves(w) /\ pc[w] = "dlq" /\ pc'[w] = "commit" /\ job'[w] = job[w]
      /\ UNCHANGED <<db, cache, log, committed, charges, outcomes>>
  BY DEF OnlyMoves, RouteToDLQ, Goto, WorkerInv, TypeOK
<1>2. JobInv(w)'
  BY <1>1 DEF JobInv, Working, InHand, Handled, WorkerInv
<1> QED
  BY <1>1, <1>2, QuietMove

(* The steps after which w is between two messages, or gone.               *)
LEMMA LetGoInv ==
  ASSUME WorkerInv, TypeOK', NEW w \in Workers,
         \/ LoadFails(w) \/ BackoffCancelled(w) \/ CommitFails(w)
         \/ Exit(w) \/ Restart(w)
  PROVE  WorkerInv'
<1>1. /\ OnlyMoves(w) /\ pc'[w] \in {"fetch", "down"}
      /\ UNCHANGED <<db, cache, log, committed, charges, outcomes>>
  BY DEF OnlyMoves, LoadFails, BackoffCancelled, CommitFails, Exit, Restart, NextMessage,
         Goto, WorkerInv, TypeOK
<1>2. JobInv(w)'
  BY <1>1, IdleInv DEF Working
<1> QED
  BY <1>1, <1>2, QuietMove

(* The steps that move no worker.                                          *)
LEMMA AsideInv ==
  ASSUME WorkerInv, TypeOK', Rebalance \/ \E w \in Workers : Shutdown(w)
  PROVE  WorkerInv'
  BY QuietStep DEF Rebalance, Shutdown
(* The row the worker writes: never PENDING, and APPROVED only when it got *)
(* an approval.                                                            *)
Writes(w) == db' = db \/ db' = [db EXCEPT ![job[w].message] = job[w].status]

(* Writing the status in hand keeps payments claimed and handled.          *)
LEMMA RowWrite ==
  ASSUME WorkerInv, TypeOK', NEW w \in Workers, pc[w] \in {"claim", "settle"}, Writes(w),
         UNCHANGED <<log, charges>>
  PROVE  /\ RowsKeep /\ LogsGrow /\ \A v \in Workers : ChargesKept(v)
         /\ job[w].message \in Payments
         /\ job[w].status \notin {Absent, StatusPending}
         /\ \A id \in Payments :
              db'[id] = StatusApproved => db[id] = StatusApproved \/ Charged(id)
<1>1. JobInv(w) /\ Working(w) /\ job[w].message \in Payments
  BY DEF WorkerInv, Working, TypeOK, InHand
<1>2. /\ job[w].status \notin {Absent, StatusPending}
      /\ job[w].status = StatusApproved => charges[job[w].message][w] > 0
  BY <1>1, Names DEF JobInv
<1>3. RowsKeep
  BY <1>1, <1>2 DEF RowsKeep, Writes, WorkerInv, TypeOK
<1>4. LogsGrow /\ \A v \in Workers : ChargesKept(v)
  BY DEF LogsGrow, ChargesKept, WorkerInv, TypeOK
<1>5. \A id \in Payments : db'[id] = StatusApproved => db[id] = StatusApproved \/ Charged(id)
  BY <1>1, <1>2 DEF Writes, Charged, WorkerInv, TypeOK
<1> QED
  BY <1>1, <1>2, <1>3, <1>4, <1>5

(* Such a write, with the move of its worker, keeps the invariant.         *)
LEMMA RowStep ==
  ASSUME WorkerInv, TypeOK', NEW w \in Workers, pc[w] \in {"claim", "settle"}, Writes(w),
         UNCHANGED <<cache, log, committed, charges, outcomes>>, OnlyMoves(w), JobInv(w)'
  PROVE  WorkerInv'
<1>1. /\ RowsKeep /\ LogsGrow /\ \A v \in Workers : ChargesKept(v)
      /\ \A id \in Payments :
              db'[id] = StatusApproved => db[id] = StatusApproved \/ Charged(id)
  BY RowWrite
<1>2. \A v \in Workers : JobInv(v)'
  BY <1>1, JobFrame DEF WorkerInv, OnlyMoves
<1>3. ChargedIsClaimed' /\ ChargedOncePerWorker'
  BY <1>1 DEF WorkerInv, ChargedIsClaimed, ChargedOncePerWorker, RowsKeep
<1>4. CommittedIsHandled'
  BY <1>1 DEF WorkerInv, CommittedIsHandled, Handled, RowsKeep
<1>5. ApprovedIsCharged'
  BY <1>1 DEF WorkerInv, ApprovedIsCharged, SeenApproved, Charged
<1> QED
  BY <1>2, <1>3, <1>4, <1>5 DEF WorkerInv

(* A row written, at the claim or at the settlement.                       *)
LEMMA UpdateRowInv ==
  ASSUME WorkerInv, TypeOK', NEW w \in Workers, ClaimRow(w) \/ SettleRow(w)
  PROVE  WorkerInv'
<1>1. /\ OnlyMoves(w) /\ job'[w] = job[w] /\ Writes(w)
      /\ db' = [db EXCEPT ![job[w].message] = job[w].status]
      /\ \/ pc[w] = "claim" /\ pc'[w] = "claimed"
         \/ pc[w] = "settle" /\ pc'[w] = "settled"
      /\ UNCHANGED <<cache, log, committed, charges, outcomes>>
  BY DEF OnlyMoves, ClaimRow, SettleRow, UpdateRow, Goto, Writes, WorkerInv, TypeOK
<1>2. /\ job[w].message \in Payments /\ job[w].status \notin {Absent, StatusPending}
  BY <1>1, RowWrite
<1>3. db'[job[w].message] = job[w].status
  BY <1>1, <1>2 DEF WorkerInv, TypeOK
<1>4. JobInv(w)'
  BY <1>1, <1>2, <1>3 DEF JobInv, Working, InHand, WorkerInv
<1> QED
  BY <1>1, <1>4, RowStep

(* ClaimFails: the row may have been written all the same.                 *)
LEMMA ClaimFailsInv ==
  ASSUME WorkerInv, TypeOK', NEW w \in Workers, ClaimFails(w)
  PROVE  WorkerInv'
<1>1. /\ OnlyMoves(w) /\ Writes(w) /\ pc[w] = "claim" /\ pc'[w] = "fetch"
      /\ UNCHANGED <<cache, log, committed, charges, outcomes>>
  BY DEF OnlyMoves, ClaimFails, RowMayHaveChanged, NextMessage, Writes, WorkerInv, TypeOK
<1>2. JobInv(w)'
  BY <1>1, IdleInv DEF Working
<1> QED
  BY <1>1, <1>2, RowStep

(* SettleFails: the same, and the worker goes on.                          *)
LEMMA SettleFailsInv ==
  ASSUME WorkerInv, TypeOK', NEW w \in Workers, SettleFails(w)
  PROVE  WorkerInv'
<1>1. /\ OnlyMoves(w) /\ job'[w] = job[w] /\ Writes(w)
      /\ pc[w] = "settle" /\ pc'[w] = "publish"
      /\ UNCHANGED <<cache, log, committed, charges, outcomes>>
  BY DEF OnlyMoves, SettleFails, RowMayHaveChanged, Goto, Writes, WorkerInv, TypeOK
<1>2. RowsKeep /\ job[w].message \in Payments
  BY <1>1, RowWrite
<1>3. JobInv(w)'
  BY <1>1, <1>2 DEF JobInv, Working, InHand, WorkerInv, RowsKeep
<1> QED
  BY <1>1, <1>3, RowStep

(* The cache follows the row: an APPROVED it is given was approved.        *)
LEMMA CacheStep ==
  ASSUME WorkerInv, TypeOK', UNCHANGED <<db, log, committed, charges, outcomes>>,
         \A v \in Workers : JobInv(v)' \/ (pc'[v] = pc[v] /\ job'[v] = job[v]),
         \A id \in Payments :
            cache'[id] = StatusApproved => cache[id] = StatusApproved \/ Charged(id)
  PROVE  WorkerInv'
<1>1. RowsKeep /\ LogsGrow /\ \A v \in Workers : ChargesKept(v)
  BY DEF RowsKeep, LogsGrow, ChargesKept, WorkerInv, TypeOK
<1>2. \A v \in Workers : JobInv(v)'
  BY <1>1, JobFrame DEF WorkerInv
<1>3. ChargedIsClaimed' /\ ChargedOncePerWorker' /\ CommittedIsHandled'
  BY DEF WorkerInv, ChargedIsClaimed, ChargedOncePerWorker, CommittedIsHandled, Handled
<1>4. ApprovedIsCharged'
  BY DEF WorkerInv, ApprovedIsCharged, SeenApproved, Charged
<1> QED
  BY <1>2, <1>3, <1>4 DEF WorkerInv

(* A cache entry written, or not, after its row.                           *)
LEMMA UpdateCacheInv ==
  ASSUME WorkerInv, TypeOK', NEW w \in Workers, ClaimCache(w) \/ SettleCache(w)
  PROVE  WorkerInv'
<1>1. /\ OnlyMoves(w) /\ job'[w] = job[w] /\ Working(w) /\ job[w].message \in Payments
      /\ \/ pc[w] = "claimed" /\ pc'[w] = "gateway"
         \/ pc[w] = "settled" /\ pc'[w] = "publish"
      /\ UNCHANGED <<db, log, committed, charges, outcomes>>
  BY DEF OnlyMoves, ClaimCache, SettleCache, UpdateCache, Goto, WorkerInv, TypeOK, Working,
         InHand
<1>2. JobInv(w)'
  BY <1>1 DEF JobInv, Working, InHand, WorkerInv
<1>3. job[w].status = StatusApproved => Charged(job[w].message)
  BY <1>1, Names DEF JobInv, WorkerInv, Charged
<1>4. cache' = cache \/ cache' = [cache EXCEPT ![job[w].message] = job[w].status]
  BY DEF ClaimCache, SettleCache, UpdateCache
<1>5. \A id \in Payments :
        cache'[id] = StatusApproved => cache[id] = StatusApproved \/ Charged(id)
  BY <1>1, <1>3, <1>4 DEF WorkerInv, TypeOK
<1> QED
  BY <1>1, <1>2, <1>5, CacheStep DEF OnlyMoves

(* Expire: an absent entry shows no status.                                *)
LEMMA ExpireInv ==
  ASSUME WorkerInv, TypeOK', NEW id \in Payments, Expire(id)
  PROVE  WorkerInv'
<1>1. \A i \in Payments : cache'[i] = StatusApproved => cache[i] = StatusApproved
  BY Names DEF Expire, WorkerInv, TypeOK
<1> QED
  BY <1>1, CacheStep DEF Expire

(* GatewayApproves: the first approval this worker gets for the payment.   *)
LEMMA GatewayApprovesInv ==
  ASSUME WorkerInv, TypeOK', NEW w \in Workers, GatewayApproves(w)
  PROVE  WorkerInv'
<1> DEFINE m == job[w].message
<1>1. /\ OnlyMoves(w) /\ Working(w) /\ pc[w] = "gateway" /\ pc'[w] = "settle"
      /\ m \in Payments /\ JobInv(w)
  BY DEF OnlyMoves, GatewayApproves, Goto, WorkerInv, TypeOK, Working, InHand
<1>2. /\ job[w].status = StatusProcessing /\ charges[m][w] = 0
      /\ db[m] \notin {Absent, StatusPending}
  BY <1>1 DEF JobInv, InHand
<1>3. /\ job'[w].message = m /\ job'[w].partition = job[w].partition
      /\ job'[w].offset = job[w].offset /\ job'[w].status = StatusApproved
  BY <1>1, <1>2, NewStatus, Transitions, Names, StatusNames DEF WorkerInv, GatewayApproves
<1>4. /\ charges'[m][w] = 1
      /\ \A id \in Payments, v \in Workers :
           (id # m \/ v # w) => charges'[id][v] = charges[id][v]
  BY <1>1, <1>2 DEF GatewayApproves, WorkerInv, TypeOK
<1>5. RowsKeep /\ LogsGrow /\ \A v \in Workers \ {w} : ChargesKept(v)
  BY <1>4 DEF RowsKeep, LogsGrow, ChargesKept, GatewayApproves, WorkerInv, TypeOK
<1>6. \A v \in Workers \ {w} : JobInv(v)'
  BY <1>1, <1>5, JobFrame DEF WorkerInv, OnlyMoves
<1>7. JobInv(w)'
  BY <1>1, <1>2, <1>3, <1>4, Names DEF JobInv, Working, InHand, GatewayApproves
<1>8. ChargedIsClaimed' /\ ChargedOncePerWorker'
  BY <1>1, <1>2, <1>4 DEF WorkerInv, ChargedIsClaimed, ChargedOncePerWorker, GatewayApproves
<1>9. CommittedIsHandled'
  BY DEF WorkerInv, CommittedIsHandled, Handled, GatewayApproves
<1>10. \A id \in Payments : Charged(id) => Charged(id)'
  BY <1>2, <1>4 DEF Charged
<1>11. ApprovedIsCharged'
  BY <1>10 DEF WorkerInv, ApprovedIsCharged, SeenApproved, GatewayApproves
<1> QED
  BY <1>6, <1>7, <1>8, <1>9, <1>11 DEF WorkerInv

(* PublishOutcome: only an approved payment goes to the processed topic.   *)
LEMMA PublishOutcomeInv ==
  ASSUME WorkerInv, TypeOK', NEW w \in Workers, PublishOutcome(w)
  PROVE  WorkerInv'
<1>1. /\ OnlyMoves(w) /\ Working(w) /\ job'[w] = job[w] /\ job[w].message \in Payments
      /\ pc[w] = "publish" /\ pc'[w] \in {"dlq", "commit"}
      /\ UNCHANGED <<db, cache, log, committed, charges>>
  BY DEF OnlyMoves, PublishOutcome, Goto, WorkerInv, TypeOK, Working, InHand
<1>2. RowsKeep /\ LogsGrow /\ \A v \in Workers : ChargesKept(v)
  BY <1>1 DEF RowsKeep, LogsGrow, ChargesKept, WorkerInv, TypeOK
<1>3. JobInv(w)'
  BY <1>1 DEF JobInv, Working, InHand, Handled, WorkerInv
<1>4. \A v \in Workers : JobInv(v)'
  BY <1>1, <1>2, <1>3, JobFrame DEF WorkerInv, OnlyMoves
<1>5. ChargedIsClaimed' /\ ChargedOncePerWorker' /\ CommittedIsHandled'
  BY <1>1 DEF WorkerInv, ChargedIsClaimed, ChargedOncePerWorker, CommittedIsHandled, Handled
<1>6. job[w].status = StatusApproved => Charged(job[w].message)
  BY <1>1 DEF JobInv, WorkerInv, Charged
<1>7. \A o \in outcomes' : o.topic = "processed" => o \in outcomes \/ Charged(o.payment)
  BY <1>6 DEF PublishOutcome, OutcomeTopic
<1>8. ApprovedIsCharged'
  BY <1>1, <1>7 DEF WorkerInv, ApprovedIsCharged, SeenApproved, Charged
<1> QED
  BY <1>4, <1>5, <1>8 DEF WorkerInv

(* CommitMessage: the offset committed is that of a handled message.       *)
LEMMA CommitMessageInv ==
  ASSUME WorkerInv, TypeOK', NEW w \in Workers, CommitMessage(w)
  PROVE  WorkerInv'
<1>1. /\ OnlyMoves(w) /\ Working(w) /\ JobInv(w) /\ pc[w] = "commit" /\ pc'[w] = "fetch"
      /\ UNCHANGED <<db, cache, log, charges, outcomes>>
  BY DEF OnlyMoves, CommitMessage, NextMessage, WorkerInv, TypeOK, Working
<1>2. RowsKeep /\ LogsGrow /\ \A v \in Workers : ChargesKept(v)
  BY <1>1 DEF RowsKeep, LogsGrow, ChargesKept, WorkerInv, TypeOK
<1>3. JobInv(w)'
  BY <1>1, IdleInv DEF Working
<1>4. \A v \in Workers : JobInv(v)'
  BY <1>1, <1>2, <1>3, JobFrame DEF WorkerInv, OnlyMoves
<1>5. /\ job[w].offset <= Len(log[job[w].partition])
      /\ Handled(log[job[w].partition][job[w].offset])
  BY <1>1 DEF JobInv
<1>6. CommittedIsHandled'
  BY <1>1, <1>5, JobType DEF WorkerInv, CommittedIsHandled, Handled, CommitMessage, TypeOK
<1>7. ChargedIsClaimed' /\ ChargedOncePerWorker' /\ ApprovedIsCharged'
  BY <1>1 DEF WorkerInv, ChargedIsClaimed, ChargedOncePerWorker, ApprovedIsCharged,
              SeenApproved, Charged
<1> QED
  BY <1>4, <1>6, <1>7 DEF WorkerInv

(* Deliver: a longer log keeps the messages at the offsets in use.         *)
LEMMA DeliverInv ==
  ASSUME WorkerInv, TypeOK', NEW p \in Partitions, NEW m \in Messages, Deliver(p, m)
  PROVE  WorkerInv'
<1>1. LogsGrow
  BY DEF LogsGrow, Deliver, WorkerInv, TypeOK
<1>2. RowsKeep /\ \A v \in Workers : ChargesKept(v)
  BY DEF RowsKeep, ChargesKept, Deliver
<1>3. \A v \in Workers : JobInv(v)'
  BY <1>1, <1>2, JobFrame DEF WorkerInv, Deliver
<1>4. CommittedIsHandled'
  <2> SUFFICES ASSUME NEW q \in Partitions, committed[q] > 0
               PROVE  committed[q] <= Len(log'[q]) /\ Handled(log[q][committed[q]])'
    BY DEF CommittedIsHandled, Deliver
  <2>1. committed[q] \in 1..Len(log[q]) /\ Handled(log[q][committed[q]])
    BY DEF WorkerInv, CommittedIsHandled, TypeOK
  <2>2. log'[q][committed[q]] = log[q][committed[q]] /\ Len(log'[q]) >= Len(log[q])
    BY <1>1, <2>1 DEF LogsGrow
  <2>3. Len(log'[q]) \in Nat /\ Len(log[q]) \in Nat /\ committed[q] \in Nat
    BY DEF WorkerInv, TypeOK
  <2> QED
    BY <2>1, <2>2, <2>3 DEF Handled, Deliver
<1>5. ChargedIsClaimed' /\ ChargedOncePerWorker' /\ ApprovedIsCharged'
  BY DEF WorkerInv, ChargedIsClaimed, ChargedOncePerWorker, ApprovedIsCharged,
         SeenApproved, Charged, Deliver
<1> QED
  BY <1>3, <1>4, <1>5 DEF WorkerInv

-----------------------------------------------------------------------------
(* The invariant holds at the start.                                       *)
LEMMA InvInit == Init => WorkerInv
<1> SUFFICES ASSUME Init PROVE WorkerInv
  OBVIOUS
<1>1. TypeOK
  BY WorkerAssumption DEF Init, TypeOK, Labels, InHand, Messages, Statuses
<1>2. \A w \in Workers : JobInv(w)
  BY DEF Init, JobInv, Working, InHand
<1>3. ChargedIsClaimed /\ ChargedOncePerWorker /\ CommittedIsHandled
  BY DEF Init, ChargedIsClaimed, ChargedOncePerWorker, CommittedIsHandled
<1>4. ApprovedIsCharged
  BY Names DEF Init, ApprovedIsCharged, SeenApproved
<1> QED
  BY <1>1, <1>2, <1>3, <1>4 DEF WorkerInv

(* The invariant is inductive.                                             *)
LEMMA InvStep == WorkerInv /\ [Next]_vars => WorkerInv'
<1> SUFFICES ASSUME WorkerInv, [Next]_vars PROVE WorkerInv'
  OBVIOUS
<1>1. TypeOK'
  BY TypeStep DEF WorkerInv
<1>2. ASSUME NEW w \in Workers, Run(w) PROVE WorkerInv'
  BY <1>1, <1>2, FetchInv, RejectCorruptInv, LoadPaymentInv, GatewayRejectsInv,
     GatewayErrsInv, BackoffElapsesInv, RouteToDLQInv, LetGoInv, UpdateRowInv,
     ClaimFailsInv, SettleFailsInv, UpdateCacheInv, GatewayApprovesInv,
     PublishOutcomeInv, CommitMessageInv
     DEF Run, Handle
<1>3. ASSUME NEW w \in Workers, Shutdown(w) \/ Exit(w) \/ Restart(w) PROVE WorkerInv'
  BY <1>1, <1>3, AsideInv, LetGoInv
<1>4. CASE Rebalance
  BY <1>1, <1>4, AsideInv
<1>5. ASSUME NEW p \in Partitions, NEW m \in Messages, Deliver(p, m) PROVE WorkerInv'
  BY <1>1, <1>5, DeliverInv
<1>6. ASSUME NEW id \in Payments, Expire(id) PROVE WorkerInv'
  BY <1>1, <1>6, ExpireInv
<1>7. CASE UNCHANGED vars
  BY <1>1, <1>7, QuietStep DEF vars
<1> QED
  BY <1>2, <1>3, <1>4, <1>5, <1>6, <1>7 DEF Next, Process

(* The claim before the gateway call is never undone: WorkerInv holds.     *)
THEOREM Invariance == Spec => []WorkerInv
<1>1. Init => WorkerInv
  BY InvInit
<1>2. WorkerInv /\ [Next]_vars => WorkerInv'
  BY InvStep
<1> QED
  BY <1>1, <1>2, PTL DEF Spec

(* No member of the group is given two approvals of one payment, whatever  *)
(* crashes, redeliveries, failed commits and rebalances there are.         *)
THEOREM OncePerWorker == Spec => []ChargedOncePerWorker
<1>1. WorkerInv => ChargedOncePerWorker
  BY DEF WorkerInv
<1> QED
  BY <1>1, Invariance, PTL

(* Whatever is committed was dealt with.                                   *)
THEOREM CommitsAreHandled == Spec => []CommittedIsHandled
<1>1. WorkerInv => CommittedIsHandled
  BY DEF WorkerInv
<1> QED
  BY <1>1, Invariance, PTL

(* An APPROVED in the row, the cache or the processed topic was approved.  *)
THEOREM ApprovalsAreReal == Spec => []ApprovedIsCharged
<1>1. WorkerInv => ApprovedIsCharged
  BY DEF WorkerInv
<1> QED
  BY <1>1, Invariance, PTL

-----------------------------------------------------------------------------
(* No message is skipped as long as Postgres answers.                      *)
(* The message that w handles is at offset i of p.                         *)
At(w, p, i) == Working(w) /\ job[w].partition = p /\ job[w].offset = i

HandledUpTo(p, n) == \A i \in 1..n : Handled(log[p][i])

(* What is behind the committed offset, or behind the message in hand, is  *)
(* handled, and what the owner of a partition has read is handled or in    *)
(* its hands, until its context is cancelled and it reads no more.         *)
OrderInv ==
  /\ \A p \in Partitions : position[p] <= Len(log[p])
  /\ NothingSkipped
  /\ \A w \in Workers : Working(w) => HandledUpTo(job[w].partition, job[w].offset - 1)
  /\ \A p \in Partitions, w \in Workers : owner[p] = w =>
       /\ pc[w] # "down"
       /\ ctx[w] = "live" =>
            \A i \in 1..position[p] : Handled(log[p][i]) \/ At(w, p, i)

(* Every step keeps rows and logs.                                         *)
LEMMA RowsAndLogsKept ==
  ASSUME WorkerInv, [Next]_vars
  PROVE  RowsKeep /\ LogsGrow
<1>0. TypeOK' /\ TypeOK
  BY TypeStep DEF WorkerInv
<1>1. ASSUME NEW w \in Workers, ClaimRow(w) \/ ClaimFails(w) \/ SettleRow(w) \/ SettleFails(w)
      PROVE  RowsKeep /\ LogsGrow
  <2>1. pc[w] \in {"claim", "settle"} /\ Writes(w) /\ UNCHANGED <<log, charges>>
    BY <1>1 DEF ClaimRow, ClaimFails, SettleRow, SettleFails, UpdateRow,
                RowMayHaveChanged, Goto, Writes
  <2> QED
    BY <1>0, <2>1, RowWrite
<1>2. ASSUME NEW p \in Partitions, NEW m \in Messages, Deliver(p, m)
      PROVE  RowsKeep /\ LogsGrow
  BY <1>0, <1>2 DEF Deliver, RowsKeep, LogsGrow, TypeOK
<1>3. ASSUME UNCHANGED <<db, log>>
      PROVE  RowsKeep /\ LogsGrow
  BY <1>0, <1>3 DEF RowsKeep, LogsGrow, TypeOK
<1>4. ASSUME NEW w \in Workers,
             \/ RejectCorrupt(w) \/ LoadFails(w) \/ LoadPayment(w) \/ ClaimCache(w)
             \/ GatewayApproves(w) \/ GatewayRejects(w) \/ GatewayErrs(w)
             \/ BackoffElapses(w) \/ BackoffCancelled(w) \/ SettleCache(w)
             \/ PublishOutcome(w) \/ RouteToDLQ(w) \/ CommitMessage(w) \/ CommitFails(w)
             \/ Shutdown(w) \/ Exit(w) \/ Restart(w)
             \/ \E p \in Partitions : FetchMessage(w, p)
      PROVE  UNCHANGED <<db, log>>
  BY <1>4 DEF RejectCorrupt, LoadFails, LoadPayment, ClaimCache, GatewayApproves,
              GatewayRejects, GatewayErrs, BackoffElapses, BackoffCancelled, SettleCache,
              UpdateCache, PublishOutcome, RouteToDLQ, CommitMessage, CommitFails,
              Shutdown, Exit, Restart, FetchMessage
<1>5. CASE Rebalance \/ (\E id \in Payments : Expire(id)) \/ UNCHANGED vars
  <2>1. UNCHANGED <<db, log>>
    BY <1>5 DEF Rebalance, Expire, vars
  <2> QED
    BY <1>3, <2>1
<1> QED
  BY <1>1, <1>2, <1>3, <1>4, <1>5 DEF Next, Process, Run, Handle

(* What the order of the messages needs of a step: logs only grow, and     *)
(* what is handled stays so.                                               *)
StaysHandled(m) == m \in Payments => db'[m] # StatusPending

HandledStays ==
  \A p \in Partitions :
     /\ Len(log[p]) \in Nat /\ Len(log'[p]) \in Nat /\ Len(log[p]) <= Len(log'[p])
     /\ \A i \in 1..Len(log[p]) :
          log'[p][i] = log[p][i] /\ (Handled(log[p][i]) => StaysHandled(log[p][i]))

(* Each step of the group does this.                                       *)
LEMMA StepKeepsHandled ==
  ASSUME WorkerInv, [Next]_vars
  PROVE  HandledStays
<1>1. RowsKeep /\ LogsGrow /\ TypeOK /\ TypeOK'
  BY RowsAndLogsKept, TypeStep DEF WorkerInv
<1>2. \A p \in Partitions : Len(log[p]) \in Nat /\ Len(log'[p]) \in Nat
  BY <1>1 DEF TypeOK
<1> QED
  BY <1>1, <1>2 DEF HandledStays, RowsKeep, LogsGrow, Handled, StaysHandled

(* What OrderInv says of the messages is true of them after the step.      *)
LEMMA OrderFrame ==
  ASSUME WorkerInv, OrderInv, HandledStays
  PROVE  /\ \A p \in Partitions :
              /\ position[p] <= Len(log'[p])
              /\ \A i \in 1..committed[p] : StaysHandled(log'[p][i])
              /\ \A w \in Workers : owner[p] = w /\ ctx[w] = "live" =>
                   \A i \in 1..position[p] : StaysHandled(log'[p][i]) \/ At(w, p, i)
         /\ \A w \in Workers : Working(w) =>
              /\ job[w].partition \in Partitions /\ job[w].offset \in Nat \ {0}
              /\ job[w].offset <= Len(log'[job[w].partition])
              /\ \A i \in 1..(job[w].offset - 1) : StaysHandled(log'[job[w].partition][i])
              /\ Handled(job[w].message) =>
                   StaysHandled(log'[job[w].partition][job[w].offset])
<1>0. TypeOK
  BY DEF WorkerInv
<1>1. ASSUME NEW p \in Partitions
      PROVE  /\ position[p] \in Nat /\ committed[p] \in Nat
             /\ position[p] <= Len(log[p])
             /\ committed[p] <= Len(log[p])
             /\ Len(log[p]) \in Nat /\ Len(log'[p]) \in Nat /\ Len(log[p]) <= Len(log'[p])
  BY <1>0 DEF TypeOK, WorkerInv, CommittedIsHandled, OrderInv, HandledStays
<1>2. ASSUME NEW p \in Partitions, NEW i \in 1..Len(log[p]), Handled(log[p][i])
      PROVE  StaysHandled(log'[p][i])
  BY <1>2 DEF HandledStays
<1>3. ASSUME NEW p \in Partitions
      PROVE  /\ position[p] <= Len(log'[p])
             /\ \A i \in 1..committed[p] : StaysHandled(log'[p][i])
             /\ \A w \in Workers : owner[p] = w /\ ctx[w] = "live" =>
                  \A i \in 1..position[p] : StaysHandled(log'[p][i]) \/ At(w, p, i)
  <2>1. /\ \A i \in 1..committed[p] : i \in 1..Len(log[p])
        /\ \A i \in 1..position[p] : i \in 1..Len(log[p])
        /\ position[p] <= Len(log'[p])
    BY <1>1
  <2> QED
    BY <1>2, <2>1 DEF OrderInv, NothingSkipped
<1>4. ASSUME NEW w \in Workers, Working(w)
      PROVE  /\ job[w].partition \in Partitions /\ job[w].offset \in Nat \ {0}
             /\ job[w].offset <= Len(log'[job[w].partition])
             /\ \A i \in 1..(job[w].offset - 1) : StaysHandled(log'[job[w].partition][i])
             /\ Handled(job[w].message) =>
                  StaysHandled(log'[job[w].partition][job[w].offset])
  <2>1. /\ job[w].partition \in Partitions /\ job[w].offset \in Nat \ {0}
        /\ job[w].offset <= Len(log[job[w].partition])
        /\ log[job[w].partition][job[w].offset] = job[w].message
    BY <1>0, <1>4, JobType DEF WorkerInv, JobInv
  <2>p. PICK p \in Partitions : p = job[w].partition
    BY <2>1
  <2>2. /\ job[w].offset \in 1..Len(log[p])
        /\ job[w].offset <= Len(log'[p])
        /\ \A i \in 1..(job[w].offset - 1) : i \in 1..Len(log[p])
    BY <1>1, <2>1, <2>p
  <2>3. \A i \in 1..(job[w].offset - 1) : Handled(log[p][i])
    BY <1>4, <2>p DEF OrderInv, HandledUpTo
  <2> QED
    BY <1>2, <2>1, <2>p, <2>2, <2>3
<1> QED
  BY <1>3, <1>4

(* A step that leaves offsets, owners and jobs alone.                      *)
LEMMA OrderAside ==
  ASSUME WorkerInv, OrderInv, HandledStays,
         UNCHANGED <<committed, position, owner, pc, ctx, job>>
  PROVE  OrderInv'
<1>1. \A w \in Workers, p \in Partitions, i \in Nat : At(w, p, i)' <=> At(w, p, i)
  BY DEF At, Working
<1>2. \A p \in Partitions : position[p] \in Nat
  BY DEF WorkerInv, TypeOK
<1> QED
  BY <1>1, <1>2, OrderFrame
     DEF OrderInv, NothingSkipped, HandledUpTo, Handled, StaysHandled, Working

(* A step of one worker that commits nothing and reads nothing: it goes on *)
(* with its message, or drops one that is handled, or drops it with its    *)
(* context cancelled.                                                      *)
LEMMA OrderMove ==
  ASSUME WorkerInv, OrderInv, HandledStays, NEW w \in Workers, OnlyMoves(w),
         UNCHANGED <<committed, position, owner>>,
         \A v \in Workers \ {w} : ctx'[v] = ctx[v],
         pc[w] # "down", pc'[w] # "down",
         Working(w)' => /\ Working(w)
                        /\ job'[w].partition = job[w].partition
                        /\ job'[w].offset = job[w].offset,
         ctx'[w] = "live" => /\ ctx[w] = "live"
                             /\ Working(w)' \/ ~ Working(w) \/ Handled(job[w].message)
  PROVE  OrderInv'
<1>1. \A v \in Workers : Working(v)' =>
         /\ Working(v)
         /\ job'[v].partition = job[v].partition /\ job'[v].offset = job[v].offset
  BY DEF OnlyMoves, Working
<1>2. ASSUME NEW p \in Partitions, NEW v \in Workers, owner'[p] = v
      PROVE  /\ pc'[v] # "down"
             /\ ctx'[v] = "live" =>
                  \A i \in 1..position'[p] : Handled(log[p][i])' \/ At(v, p, i)'
  <2>1. owner[p] = v /\ pc'[v] # "down"
    BY <1>2 DEF OrderInv, OnlyMoves
  <2>2. SUFFICES ASSUME ctx'[v] = "live", NEW i \in 1..position[p]
                 PROVE  Handled(log[p][i])' \/ At(v, p, i)'
    BY <2>1
  <2>3. StaysHandled(log'[p][i]) \/ At(v, p, i)
    BY <2>1, <2>2, OrderFrame
  <2>4. ASSUME At(v, p, i) PROVE StaysHandled(log'[p][i]) \/ At(v, p, i)'
    <3>1. Working(v) /\ job[v].partition = p /\ job[v].offset = i
      BY <2>4 DEF At
    <3>2. CASE Working(v)'
      BY <1>1, <3>1, <3>2 DEF At
    <3>3. CASE ~ Working(v)'
      <4>1. v = w
        BY <3>1, <3>3 DEF OnlyMoves, Working
      <4> QED
        BY <2>2, <3>1, <3>3, <4>1, OrderFrame
    <3> QED
      BY <3>2, <3>3
  <2> QED
    BY <2>3, <2>4 DEF Handled, StaysHandled
<1>3. \A p \in Partitions : position'[p] <= Len(log'[p])
  BY OrderFrame
<1>4. NothingSkipped'
  BY OrderFrame DEF NothingSkipped, Handled, StaysHandled
<1>5. \A v \in Workers : Working(v)' => HandledUpTo(job[v].partition, job[v].offset - 1)'
  BY <1>1, OrderFrame DEF HandledUpTo, Handled, StaysHandled
<1> QED
  BY <1>2, <1>3, <1>4, <1>5 DEF OrderInv

(* The steps in which a worker stays with its message, without a commit.   *)
LEMMA OrderGoesOn ==
  ASSUME WorkerInv, OrderInv, HandledStays, NEW w \in Workers,
         \/ RejectCorrupt(w) \/ LoadPayment(w) \/ ClaimRow(w) \/ ClaimCache(w)
         \/ GatewayApproves(w) \/ GatewayRejects(w) \/ GatewayErrs(w)
         \/ BackoffElapses(w) \/ SettleRow(w) \/ SettleFails(w) \/ SettleCache(w)
         \/ PublishOutcome(w) \/ RouteToDLQ(w)
  PROVE  OrderInv'
<1>0. TypeOK
  BY DEF WorkerInv
<1>1. Working(w)
  BY DEF Working, RejectCorrupt, LoadPayment, ClaimRow, ClaimCache, UpdateRow,
         UpdateCache, GatewayApproves, GatewayRejects, GatewayErrs, BackoffElapses,
         SettleRow, SettleFails, SettleCache, PublishOutcome, RouteToDLQ, Goto
<1>2. job[w] \in Job
  BY <1>0, <1>1, JobType
<1>3. /\ pc' \in [Workers -> Labels] /\ pc'[w] \notin {"down", "fetch"}
      /\ \A v \in Workers \ {w} : pc'[v] = pc[v]
      /\ UNCHANGED <<committed, position, owner, ctx>>
  BY <1>0 DEF RejectCorrupt, LoadPayment, ClaimRow, ClaimCache, UpdateRow, UpdateCache,
         GatewayApproves, GatewayRejects, GatewayErrs, BackoffElapses, SettleRow,
         SettleFails, SettleCache, PublishOutcome, RouteToDLQ, Goto, TypeOK, Labels
<1>4. /\ \A v \in Workers \ {w} : job'[v] = job[v]
      /\ job'[w].partition = job[w].partition /\ job'[w].offset = job[w].offset
  <2>1. CASE UNCHANGED job
    BY <2>1
  <2>2. CASE \E s : job' = [job EXCEPT ![w].status = s]
    BY <1>0, <1>2, <2>2 DEF TypeOK, Job
  <2>3. CASE \E n : job' = [job EXCEPT ![w].attempt = n]
    BY <1>0, <1>2, <2>3 DEF TypeOK, Job
  <2> QED
    BY <2>1, <2>2, <2>3 DEF RejectCorrupt, LoadPayment, ClaimRow, ClaimCache, UpdateRow,
         UpdateCache, GatewayApproves, GatewayRejects, GatewayErrs, BackoffElapses,
         SettleRow, SettleFails, SettleCache, PublishOutcome, RouteToDLQ
<1> QED
  BY <1>1, <1>3, <1>4, OrderMove DEF OnlyMoves, Working

(* The steps in which a worker drops its message without a commit: it has  *)
(* handled it, or its context is cancelled, since Postgres does not fail.  *)
LEMMA OrderDrops ==
  ASSUME WorkerInv, OrderInv, HandledStays, "db" \notin Faults, NEW w \in Workers,
         \/ LoadFails(w) \/ ClaimFails(w) \/ BackoffCancelled(w) \/ CommitFails(w)
         \/ Shutdown(w)
  PROVE  OrderInv'
<1>0. TypeOK
  BY DEF WorkerInv
<1>1. /\ OnlyMoves(w) /\ pc[w] # "down" /\ pc'[w] # "down"
      /\ UNCHANGED <<committed, position, owner>>
      /\ \A v \in Workers \ {w} : ctx'[v] = ctx[v]
      /\ Working(w)' => Working(w) /\ job'[w] = job[w]
  BY <1>0 DEF OnlyMoves, LoadFails, ClaimFails, BackoffCancelled, CommitFails, Shutdown,
              NextMessage, Working, TypeOK
<1>2. CASE CommitFails(w)
  <2>1. Handled(job[w].message) /\ ctx' = ctx
    BY <1>2 DEF CommitFails, NextMessage, WorkerInv, JobInv
  <2> QED
    BY <1>1, <2>1, OrderMove
<1>3. CASE LoadFails(w) \/ ClaimFails(w) \/ BackoffCancelled(w) \/ Shutdown(w)
  <2>1. ctx'[w] # "live"
    BY <1>0, <1>3 DEF LoadFails, ClaimFails, BackoffCancelled, Shutdown, MayFail,
                      NextMessage, TypeOK
  <2> QED
    BY <1>1, <2>1, OrderMove
<1> QED
  BY <1>2, <1>3

(* FetchMessage: all before the next message is handled.                   *)
LEMMA OrderFetch ==
  ASSUME WorkerInv, OrderInv, HandledStays, NEW w \in Workers, NEW p \in Partitions,
         FetchMessage(w, p)
  PROVE  OrderInv'
<1>0. TypeOK
  BY DEF WorkerInv
<1>1. /\ OnlyMoves(w) /\ ~ Working(w) /\ pc'[w] = "load"
      /\ ctx[w] = "live" /\ owner[p] = w /\ position[p] < Len(log[p])
      /\ position' = [position EXCEPT ![p] = @ + 1]
      /\ UNCHANGED <<log, committed, owner, ctx>>
      /\ job'[w].partition = p /\ job'[w].offset = position[p] + 1
      /\ position[p] \in Nat
  BY <1>0 DEF OnlyMoves, FetchMessage, Goto, Working, TypeOK
<1>2. \A q \in Partitions : position'[q] = IF q = p THEN position[p] + 1 ELSE position[q]
  BY <1>0, <1>1 DEF TypeOK
<1>3. \A q \in Partitions : owner[q] = w =>
         \A i \in 1..position[q] : StaysHandled(log'[q][i])
  BY <1>1, OrderFrame DEF At
<1>4. \A q \in Partitions : position'[q] <= Len(log'[q])
  <2>1. Len(log[p]) \in Nat
    BY DEF HandledStays
  <2> QED
    BY <1>1, <1>2, <2>1, OrderFrame
<1>5. NothingSkipped'
  BY <1>1, OrderFrame DEF NothingSkipped, Handled, StaysHandled
<1>6. ASSUME NEW v \in Workers, Working(v)'
      PROVE  HandledUpTo(job[v].partition, job[v].offset - 1)'
  <2>1. CASE v = w
    BY <1>1, <1>3, <2>1 DEF HandledUpTo, Handled, StaysHandled
  <2>2. CASE v # w
    <3>1. Working(v) /\ job'[v] = job[v]
      BY <1>1, <1>6, <2>2 DEF OnlyMoves, Working
    <3> QED
      BY <3>1, OrderFrame DEF HandledUpTo, Handled, StaysHandled
  <2> QED
    BY <2>1, <2>2
<1>7. ASSUME NEW q \in Partitions, NEW v \in Workers, owner'[q] = v
      PROVE  /\ pc'[v] # "down"
             /\ ctx'[v] = "live" =>
                  \A i \in 1..position'[q] : Handled(log[q][i])' \/ At(v, q, i)'
  <2>1. CASE v = w
    <3>1. ASSUME NEW i \in 1..position'[q]
          PROVE  StaysHandled(log'[q][i]) \/ At(w, q, i)'
      <4>1. CASE i \in 1..position[q]
        BY <1>1, <1>3, <1>7, <2>1, <4>1
      <4>2. CASE i \notin 1..position[q]
        <5>1. q = p /\ i = position[p] + 1
          BY <1>1, <1>2, <3>1, <4>2
        <5> QED
          BY <1>1, <5>1 DEF At, Working
      <4> QED
        BY <4>1, <4>2
    <3> QED
      BY <1>1, <2>1, <3>1 DEF Handled, StaysHandled
  <2>2. CASE v # w
    <3>1. /\ owner[q] = v /\ pc'[v] # "down" /\ position'[q] = position[q]
          /\ \A i : At(v, q, i)' <=> At(v, q, i)
      BY <1>1, <1>2, <1>7, <2>2 DEF OrderInv, OnlyMoves, At, Working
    <3> QED
      BY <1>1, <3>1, OrderFrame DEF Handled, StaysHandled
  <2> QED
    BY <2>1, <2>2
<1> QED
  BY <1>4, <1>5, <1>6, <1>7 DEF OrderInv

(* CommitMessage: all up to the message, and the message itself, is        *)
(* handled.                                                                *)
LEMMA OrderCommit ==
  ASSUME WorkerInv, OrderInv, HandledStays, NEW w \in Workers, CommitMessage(w)
  PROVE  OrderInv'
<1>0. TypeOK
  BY DEF WorkerInv
<1>1. /\ OnlyMoves(w) /\ Working(w) /\ pc'[w] = "fetch"
      /\ committed' = [committed EXCEPT ![job[w].partition] = job[w].offset]
      /\ UNCHANGED <<position, owner, ctx>>
      /\ Handled(job[w].message)
  BY <1>0 DEF OnlyMoves, CommitMessage, NextMessage, Working, TypeOK, WorkerInv, JobInv
<1>p. PICK p \in Partitions : p = job[w].partition
  BY <1>1, OrderFrame
<1>2. \A i \in 1..job[w].offset : StaysHandled(log'[p][i])
  <2>1. job[w].offset \in Nat
    BY <1>1, OrderFrame
  <2>2. \A i \in 1..job[w].offset : i = job[w].offset \/ i \in 1..(job[w].offset - 1)
    BY <2>1
  <2> QED
    BY <1>1, <1>p, <2>2, OrderFrame
<1>3. NothingSkipped'
  <2>1. \A q \in Partitions :
          committed'[q] = IF q = p THEN job[w].offset ELSE committed[q]
    BY <1>0, <1>1, <1>p DEF TypeOK
  <2> QED
    BY <1>2, <2>1, OrderFrame DEF NothingSkipped, Handled, StaysHandled
<1>4. \A v \in Workers : Working(v)' => v # w /\ Working(v) /\ job'[v] = job[v]
  BY <1>1 DEF OnlyMoves, Working
<1>5. \A v \in Workers : Working(v)' => HandledUpTo(job[v].partition, job[v].offset - 1)'
  BY <1>4, OrderFrame DEF HandledUpTo, Handled, StaysHandled
<1>6. ASSUME NEW q \in Partitions, NEW v \in Workers, owner'[q] = v
      PROVE  /\ pc'[v] # "down"
             /\ ctx'[v] = "live" =>
                  \A i \in 1..position'[q] : Handled(log[q][i])' \/ At(v, q, i)'
  <2>1. owner[q] = v /\ pc'[v] # "down"
    BY <1>1, <1>6 DEF OrderInv, OnlyMoves
  <2>2. \A i : At(v, q, i) => At(v, q, i)' \/ (v = w /\ q = p /\ i = job[w].offset)
    BY <1>1, <1>p DEF At, OnlyMoves, Working
  <2>3. job[w].offset \in 1..job[w].offset
    BY <1>1, OrderFrame
  <2> QED
    BY <1>1, <1>2, <2>1, <2>2, <2>3, OrderFrame DEF Handled, StaysHandled
<1>7. \A q \in Partitions : position'[q] <= Len(log'[q])
  BY <1>1, OrderFrame
<1> QED
  BY <1>3, <1>5, <1>6, <1>7 DEF OrderInv

(* Exit, Restart and Rebalance: who owns a partition starts at the         *)
(* committed offset, and who has gone owns none.                           *)
LEMMA OrderMembership ==
  ASSUME WorkerInv, OrderInv, HandledStays,
         Rebalance \/ \E w \in Workers : Exit(w) \/ Restart(w)
  PROVE  OrderInv'
<1>0. TypeOK
  BY DEF WorkerInv
<1>1. /\ committed' = committed
      /\ \A p \in Partitions : position'[p] \in {position[p], committed[p]}
      /\ \A v \in Workers : Working(v)' => Working(v) /\ job'[v] = job[v]
  BY <1>0, WorkerAssumption DEF Rebalance, Exit, Restart, Goto, Working, TypeOK
<1>2. ASSUME NEW p \in Partitions, NEW v \in Workers, owner'[p] = v
      PROVE  /\ pc'[v] # "down"
             /\ ctx'[v] = "live" =>
                  \A i \in 1..position'[p] : Handled(log[p][i])' \/ At(v, p, i)'
  <2>1. CASE Rebalance
    <3>1. pc'[v] # "down" /\ position'[p] = committed[p]
      BY <1>2, <2>1 DEF Rebalance
    <3> QED
      BY <3>1, OrderFrame DEF Handled, StaysHandled
  <2>2. CASE \E w \in Workers : Exit(w) \/ Restart(w)
    <3>1. PICK w \in Workers : Exit(w) \/ Restart(w)
      BY <2>2
    <3>2. owner[p] = v /\ v # w /\ position' = position
      BY <1>0, <1>2, <3>1, WorkerAssumption DEF Exit, Restart, Goto, OrderInv, TypeOK
    <3>3. pc'[v] = pc[v] /\ ctx'[v] = ctx[v] /\ job'[v] = job[v]
      BY <1>0, <3>1, <3>2 DEF Exit, Restart, Goto, TypeOK
    <3>4. \A i : At(v, p, i)' <=> At(v, p, i)
      BY <3>3 DEF At, Working
    <3> QED
      BY <3>2, <3>3, <3>4, OrderFrame DEF OrderInv, Handled, StaysHandled
  <2> QED
    BY <2>1, <2>2
<1>3. \A p \in Partitions : position'[p] <= Len(log'[p])
  <2>1. ASSUME NEW p \in Partitions PROVE committed[p] <= Len(log'[p])
    <3>1. committed[p] \in Nat /\ committed[p] <= Len(log[p])
      BY <1>0 DEF WorkerInv, CommittedIsHandled, TypeOK
    <3>2. Len(log[p]) \in Nat /\ Len(log'[p]) \in Nat /\ Len(log[p]) <= Len(log'[p])
      BY DEF HandledStays
    <3> QED
      BY <3>1, <3>2
  <2> QED
    BY <1>1, <2>1, OrderFrame
<1>4. NothingSkipped'
  BY <1>1, OrderFrame DEF NothingSkipped, Handled, StaysHandled
<1>5. \A v \in Workers : Working(v)' => HandledUpTo(job[v].partition, job[v].offset - 1)'
  BY <1>1, OrderFrame DEF HandledUpTo, Handled, StaysHandled
<1> QED
  BY <1>2, <1>3, <1>4, <1>5 DEF OrderInv

(* As long as Postgres answers, the order is kept by every step.           *)
LEMMA OrderStep ==
  ASSUME WorkerInv, OrderInv, "db" \notin Faults, [Next]_vars
  PROVE  OrderInv'
<1>1. HandledStays
  BY StepKeepsHandled
<1>2. ASSUME NEW w \in Workers, Process(w) PROVE OrderInv'
  BY <1>1, <1>2, OrderGoesOn, OrderDrops, OrderFetch, OrderCommit, OrderMembership
     DEF Process, Run, Handle
<1>3. CASE Rebalance
  BY <1>1, <1>3, OrderMembership
<1>4. CASE \/ \E p \in Partitions, m \in Messages : Deliver(p, m)
           \/ \E id \in Payments : Expire(id)
           \/ UNCHANGED vars
  <2>1. UNCHANGED <<committed, position, owner, pc, ctx, job>>
    BY <1>4 DEF Deliver, Expire, vars
  <2> QED
    BY <1>1, <2>1, OrderAside
<1> QED
  BY <1>2, <1>3, <1>4 DEF Next

(* It holds of a group that starts.                                        *)
LEMMA OrderInit == Init => OrderInv
  BY WorkerAssumption DEF Init, OrderInv, NothingSkipped, Working

(* As long as Postgres answers, no message behind the committed offset is  *)
(* left unhandled, by any number of members, through crashes, shutdowns,   *)
(* rebalances and lost commits: worker_skips needs its database failure.   *)
THEOREM SkipsOnlyOnDbFailure == "db" \notin Faults => (Spec => []NothingSkipped)
<1> SUFFICES ASSUME "db" \notin Faults PROVE Spec => []NothingSkipped
  OBVIOUS
<1>1. WorkerInv /\ OrderInv /\ [Next]_vars => OrderInv'
  BY OrderStep
<1>2. OrderInv => NothingSkipped
  BY DEF OrderInv
<1> QED
  BY <1>1, <1>2, OrderInit, Invariance, PTL DEF Spec
=============================================================================
