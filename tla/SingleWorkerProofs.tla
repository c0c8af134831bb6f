-------------------------- MODULE SingleWorkerProofs --------------------------
(***************************************************************************)
(* Proofs about PaymentWorker when the consumer group has one member, for  *)
(* any partitions, payments and kinds of failure: what the worker tells    *)
(* the rest of the world agrees with the gateway and with the row, and the *)
(* payments go through PaymentLifecycle.  With two members neither holds,  *)
(* see the run worker_overlap.                                             *)
(***************************************************************************)
EXTENDS PaymentWorkerProofs

USE DEF stores, topic, local, effects

(* A group of at most one member: docker-compose.yml starts one, under a   *)
(* fixed container_name (111-115).                                         *)
OneWorker == \A v, w \in Workers : v = w

(* What is known of the payment in hand at each label: nobody else writes  *)
(* its row, and nothing was said of it before it was settled.              *)
RowInv(w) ==
  /\ pc[w] = "claim" => db[job[w].message] = StatusPending
  /\ pc[w] \in {"claimed", "gateway", "backoff", "settle"} =>
       db[job[w].message] = StatusProcessing
  /\ pc[w] = "settled" => db[job[w].message] = job[w].status
  /\ pc[w] = "publish" => db[job[w].message] \in {StatusProcessing, job[w].status}

Unsaid(id) == id \notin dlq /\ \A o \in outcomes : o.payment # id

SayInv(w) ==
  /\ pc[w] \in InHand => Unsaid(job[w].message)
  /\ pc[w] \in {"settle", "settled", "publish"} =>
       (job[w].status = StatusApproved <=> Charged(job[w].message))
  /\ pc[w] = "dlq" /\ job[w].message \in Payments => ~ Charged(job[w].message)

(* What is known of every payment: a charge is never recorded as another   *)
(* settlement, and what was announced or dead-lettered is not PENDING.     *)
RowsInv ==
  /\ \A id \in Payments : Charged(id) => db[id] \in {StatusProcessing, StatusApproved}
  /\ \A o \in outcomes : db[o.payment] \notin {Absent, StatusPending}
  /\ \A id \in dlq \cap Payments : db[id] # StatusPending

(* The inductive invariant.                                                *)
OneInv ==
  /\ WorkerInv
  /\ \A w \in Workers : RowInv(w) /\ SayInv(w)
  /\ RowsInv
  /\ OutcomesMatchGateway
  /\ CacheNeverAhead

-----------------------------------------------------------------------------
(* Statuses and workers.                                                   *)
(* What the worker writes over a status is further along than it.          *)
LEMMA Ranks ==
  /\ \A s \in Statuses \cup {Absent} :
       /\ Rank(s) <= Rank(s) /\ Rank(Absent) <= Rank(s)
       /\ Rank(s) = Rank(Absent) => s = Absent
       /\ Rank(s) <= Rank(StatusPending) => Rank(s) < Rank(StatusProcessing)
       /\ \A t \in Terminal : Rank(s) <= Rank(StatusProcessing) => Rank(s) < Rank(t)
       /\ Rank(s) \in 0..3
  BY DEF Rank, Statuses, Terminal, Absent, StatusPending, StatusProcessing,
         StatusApproved, StatusRejected, StatusFailed

(* An approval in a group of one is that worker's.                         *)
LEMMA ChargedByOne ==
  ASSUME OneWorker, TypeOK, NEW w \in Workers, NEW id \in Payments
  PROVE  Charged(id) <=> charges[id][w] # 0
<1>1. charges[id][w] \in Nat
  BY DEF TypeOK
<1> QED
  BY <1>1 DEF Charged, OneWorker

(* What is said of a payment in hand.                                      *)
LEMMA InHandFacts ==
  ASSUME OneWorker, OneInv, NEW w \in Workers, pc[w] \in InHand
  PROVE  /\ job[w].message \in Payments /\ Unsaid(job[w].message)
         /\ db[job[w].message] \in Statuses
         /\ pc[w] \in {"claim", "claimed", "gateway", "backoff"} =>
              ~ Charged(job[w].message) /\ job[w].status = StatusProcessing
         /\ pc[w] \in {"settle", "settled", "publish"} =>
              /\ job[w].status \in Terminal
              /\ job[w].status = StatusApproved <=> Charged(job[w].message)
<1>1. WorkerInv /\ TypeOK /\ JobInv(w) /\ RowInv(w) /\ SayInv(w)
  BY DEF OneInv, WorkerInv
<1>2. job[w].message \in Payments
  BY <1>1 DEF TypeOK
<1>3. db[job[w].message] \in Statuses
  BY <1>1, <1>2 DEF JobInv, TypeOK
<1> QED
  BY <1>1, <1>2, <1>3, ChargedByOne DEF JobInv, SayInv

(* The invariant after a step of the one worker.                           *)
LEMMA OneStep ==
  ASSUME OneWorker, WorkerInv', NEW w \in Workers, RowInv(w)', SayInv(w)', RowsInv',
         OutcomesMatchGateway', CacheNeverAhead'
  PROVE  OneInv'
  BY DEF OneInv, OneWorker

(* A step that leaves rows, cache, approvals and announcements alone need  *)
(* only answer for what is in hand.                                        *)
LEMMA OneQuiet ==
  ASSUME OneInv, WorkerInv', UNCHANGED <<db, cache, charges, outcomes, dlq>>,
         \A w \in Workers : RowInv(w)' /\ SayInv(w)'
  PROVE  OneInv'
<1>1. RowsInv'
  BY DEF OneInv, RowsInv, Charged
<1>2. OutcomesMatchGateway' /\ CacheNeverAhead'
  BY DEF OneInv, OutcomesMatchGateway, CacheNeverAhead, Charged
<1> QED
  BY <1>1, <1>2 DEF OneInv

(* The same, where the worker has nothing in hand afterwards, or nothing   *)
(* but a message that is not loaded yet or is done with.                   *)
LEMMA OneLetsGo ==
  ASSUME OneWorker, OneInv, WorkerInv', UNCHANGED <<db, cache, charges, outcomes, dlq>>,
         NEW w \in Workers, pc'[w] \notin InHand \cup {"dlq"}
  PROVE  OneInv'
<1>1. RowInv(w)' /\ SayInv(w)'
  BY DEF RowInv, SayInv, InHand
<1> QED
  BY <1>1, OneQuiet DEF OneWorker

-----------------------------------------------------------------------------
(* The steps of ProcessEvent.                                              *)
(* RejectCorrupt: nothing is said of a corrupt message.                    *)
LEMMA OneRejectCorrupt ==
  ASSUME OneWorker, OneInv, WorkerInv', NEW w \in Workers, RejectCorrupt(w)
  PROVE  OneInv'
<1>1. pc'[w] = "dlq" /\ job' = job /\ job[w].message \notin Payments
  BY WorkerAssumption DEF RejectCorrupt, Goto, OneInv, WorkerInv, TypeOK
<1>2. RowInv(w)' /\ SayInv(w)'
  BY <1>1 DEF RowInv, SayInv, InHand
<1> QED
  BY <1>2, OneQuiet DEF OneWorker, RejectCorrupt

(* LoadPayment: nothing was said of a payment that is PENDING, nor of one  *)
(* that does not exist.                                                    *)
LEMMA OneLoadPayment ==
  ASSUME OneWorker, OneInv, WorkerInv', NEW w \in Workers, LoadPayment(w)
  PROVE  OneInv'
<1>0. WorkerInv /\ TypeOK /\ RowsInv
  BY DEF OneInv, WorkerInv
<1>1. /\ Working(w) /\ pc[w] = "load" /\ job[w].message \in Payments
      /\ UNCHANGED <<db, cache, charges, outcomes, dlq>>
  BY <1>0, JobType DEF LoadPayment, Goto, TypeOK, Working, Messages
<1>2. CASE Goto(w, "load", "dlq") /\ db[job[w].message] = Absent /\ UNCHANGED job
  <2>1. pc'[w] = "dlq" /\ job' = job
    BY <1>0, <1>2 DEF Goto, TypeOK
  <2>2. ~ Charged(job[w].message) /\ \A o \in outcomes : o.payment # job[w].message
    BY <1>0, <1>1, <1>2, Names DEF RowsInv
  <2>3. RowInv(w)' /\ SayInv(w)'
    BY <1>1, <2>1, <2>2 DEF RowInv, SayInv, InHand, Charged
  <2> QED
    BY <1>1, <2>3, OneQuiet DEF OneWorker
<1>3. CASE Goto(w, "load", "commit")
  <2>1. pc'[w] = "commit"
    BY <1>0, <1>3 DEF Goto, TypeOK
  <2> QED
    BY <1>1, <2>1, OneLetsGo DEF InHand
<1>4. CASE /\ Goto(w, "load", "claim") /\ db[job[w].message] = StatusPending
           /\ job' = [job EXCEPT ![w].status =
                                TransitionTo(db[job[w].message], StatusProcessing)]
  <2>1. pc'[w] = "claim" /\ job'[w].message = job[w].message
    BY <1>0, <1>1, <1>4, NewStatus, Transitions, StatusNames DEF Goto, TypeOK
  <2>2. Unsaid(job[w].message)
    BY <1>0, <1>1, <1>4 DEF RowsInv, Unsaid
  <2>3. RowInv(w)' /\ SayInv(w)'
    BY <1>1, <1>4, <2>1, <2>2 DEF RowInv, SayInv, Unsaid
  <2> QED
    BY <1>1, <2>3, OneQuiet DEF OneWorker
<1> QED
  BY <1>2, <1>3, <1>4 DEF LoadPayment

(* What writing the row with the status in hand does.                      *)
LEMMA OneWrite ==
  ASSUME OneWorker, OneInv, WorkerInv', NEW w \in Workers, pc[w] \in {"claim", "settle"},
         Writes(w), UNCHANGED <<cache, charges, outcomes, dlq>>
  PROVE  RowsInv' /\ OutcomesMatchGateway' /\ CacheNeverAhead'
<1> DEFINE m == job[w].message
<1>0. WorkerInv /\ TypeOK /\ RowsInv /\ RowInv(w) /\ OutcomesMatchGateway /\ CacheNeverAhead
  BY DEF OneInv, WorkerInv
<1>1. /\ m \in Payments /\ Unsaid(m)
      /\ \/ /\ db[m] = StatusPending /\ job[w].status = StatusProcessing /\ ~ Charged(m)
         \/ /\ db[m] = StatusProcessing /\ job[w].status \in Terminal
            /\ job[w].status = StatusApproved <=> Charged(m)
  BY <1>0, InHandFacts DEF InHand, RowInv
<1>2. /\ db'[m] \in {db[m], job[w].status}
      /\ \A id \in Payments \ {m} : db'[id] = db[id]
      /\ \A id \in Payments : cache[id] \in Statuses \cup {Absent}
                              /\ db[id] \in Statuses \cup {Absent}
  BY <1>0, <1>1 DEF Writes, TypeOK
<1> HIDE DEF m
<1>3. RowsInv'
  <2>1. \A o \in outcomes : o.payment \in Payments /\ o.payment # m
    BY <1>0, <1>1 DEF Unsaid, TypeOK, Outcomes
  <2>2. m \notin dlq
    BY <1>1 DEF Unsaid
  <2> QED
    BY <1>0, <1>1, <1>2, <2>1, <2>2, Names DEF RowsInv, Charged
<1>4. OutcomesMatchGateway'
  BY <1>0 DEF OutcomesMatchGateway, Charged
<1>5. CacheNeverAhead'
  <2>1. /\ Rank(cache[m]) <= Rank(db[m])
        /\ Rank(cache[m]) = Rank(db[m]) => cache[m] = db[m]
    BY <1>0, <1>1 DEF CacheNeverAhead
  <2>2. db'[m] # db[m] => Rank(cache[m]) < Rank(db'[m])
    BY <1>1, <1>2, <2>1, Ranks
  <2>3. Rank(db'[m]) \in Nat /\ Rank(cache[m]) \in Nat
    BY DEF Rank
  <2>4. /\ Rank(cache[m]) <= Rank(db'[m])
        /\ Rank(cache[m]) = Rank(db'[m]) => cache[m] = db'[m]
    BY <2>1, <2>2, <2>3
  <2> QED
    BY <1>0, <1>2, <2>4 DEF CacheNeverAhead
<1> QED
  BY <1>3, <1>4, <1>5

(* ClaimRow and SettleRow: the row is written.                             *)
LEMMA OneUpdateRow ==
  ASSUME OneWorker, OneInv, WorkerInv', NEW w \in Workers, ClaimRow(w) \/ SettleRow(w)
  PROVE  OneInv'
<1>0. TypeOK /\ SayInv(w)
  BY DEF OneInv, WorkerInv
<1>1. /\ job' = job /\ Writes(w)
      /\ db' = [db EXCEPT ![job[w].message] = job[w].status]
      /\ \/ pc[w] = "claim" /\ pc'[w] = "claimed"
         \/ pc[w] = "settle" /\ pc'[w] = "settled"
      /\ UNCHANGED <<cache, charges, outcomes, dlq>>
  BY <1>0 DEF ClaimRow, SettleRow, UpdateRow, Goto, Writes, TypeOK
<1>2. /\ job[w].message \in Payments
      /\ pc[w] = "claim" => job[w].status = StatusProcessing
  BY <1>1, InHandFacts DEF InHand
<1>3. db'[job[w].message] = job[w].status
  BY <1>0, <1>1, <1>2 DEF TypeOK
<1>4. RowInv(w)'
  BY <1>1, <1>2, <1>3 DEF RowInv
<1>5. SayInv(w)'
  BY <1>0, <1>1 DEF SayInv, InHand, Unsaid, Charged
<1> QED
  BY <1>1, <1>4, <1>5, OneWrite, OneStep

(* ClaimFails and SettleFails: the row may have been written.              *)
LEMMA OneRowFails ==
  ASSUME OneWorker, OneInv, WorkerInv', NEW w \in Workers, ClaimFails(w) \/ SettleFails(w)
  PROVE  OneInv'
<1>0. TypeOK /\ SayInv(w) /\ RowInv(w)
  BY DEF OneInv, WorkerInv
<1>1. /\ Writes(w) /\ UNCHANGED <<cache, charges, outcomes, dlq>>
      /\ \/ pc[w] = "claim" /\ pc'[w] = "fetch"
         \/ pc[w] = "settle" /\ pc'[w] = "publish" /\ job' = job
  BY <1>0 DEF ClaimFails, SettleFails, RowMayHaveChanged, NextMessage, Goto, Writes, TypeOK
<1>2. job[w].message \in Payments
  BY <1>1, InHandFacts DEF InHand
<1>3. RowInv(w)'
  BY <1>0, <1>1, <1>2 DEF RowInv, Writes, TypeOK
<1>4. SayInv(w)'
  BY <1>0, <1>1 DEF SayInv, InHand, Unsaid, Charged
<1> QED
  BY <1>1, <1>3, <1>4, OneWrite, OneStep

(* ClaimCache and SettleCache: the cache is given what is in the row.      *)
LEMMA OneUpdateCache ==
  ASSUME OneWorker, OneInv, WorkerInv', NEW w \in Workers, ClaimCache(w) \/ SettleCache(w)
  PROVE  OneInv'
<1>0. /\ TypeOK /\ SayInv(w) /\ RowInv(w) /\ RowsInv
      /\ OutcomesMatchGateway /\ CacheNeverAhead
  BY DEF OneInv, WorkerInv
<1>1. /\ job' = job
      /\ \/ cache' = cache
         \/ cache' = [cache EXCEPT ![job[w].message] = job[w].status]
      /\ \/ pc[w] = "claimed" /\ pc'[w] = "gateway"
         \/ pc[w] = "settled" /\ pc'[w] = "publish"
      /\ UNCHANGED <<db, charges, outcomes, dlq>>
  BY <1>0 DEF ClaimCache, SettleCache, UpdateCache, Goto, TypeOK
<1>2. job[w].message \in Payments /\ job[w].status = db[job[w].message]
  BY <1>0, <1>1, InHandFacts DEF InHand, RowInv
<1>3. RowInv(w)' /\ SayInv(w)'
  BY <1>0, <1>1, <1>2 DEF RowInv, SayInv, InHand, Unsaid, Charged
<1>4. RowsInv' /\ OutcomesMatchGateway'
  BY <1>0, <1>1 DEF RowsInv, OutcomesMatchGateway, Charged
<1>5. CacheNeverAhead'
  <2>1. \A id \in Payments : cache'[id] = cache[id] \/ cache'[id] = db[id]
    BY <1>0, <1>1, <1>2 DEF TypeOK
  <2>2. \A id \in Payments : Rank(db[id]) <= Rank(db[id])
    BY <1>0, Ranks DEF TypeOK
  <2> QED
    BY <1>0, <1>1, <2>1, <2>2 DEF CacheNeverAhead
<1> QED
  BY <1>3, <1>4, <1>5, OneStep

(* Expire: an absent entry is behind every row.                            *)
LEMMA OneExpire ==
  ASSUME OneInv, WorkerInv', NEW id \in Payments, Expire(id)
  PROVE  OneInv'
<1>0. TypeOK /\ CacheNeverAhead
  BY DEF OneInv, WorkerInv
<1>1. UNCHANGED <<db, charges, outcomes, dlq, pc, job>>
  BY DEF Expire
<1>2. CacheNeverAhead'
  <2>1. \A i \in Payments : cache'[i] = cache[i] \/ cache'[i] = Absent
    BY <1>0 DEF Expire, TypeOK
  <2>2. \A i \in Payments : /\ Rank(Absent) <= Rank(db[i])
                            /\ Rank(Absent) = Rank(db[i]) => db[i] = Absent
    BY <1>0, Ranks DEF TypeOK
  <2> QED
    BY <1>0, <1>1, <2>1, <2>2 DEF CacheNeverAhead
<1>3. \A w \in Workers : RowInv(w)' /\ SayInv(w)'
  BY <1>1 DEF OneInv, RowInv, SayInv, Unsaid, Charged
<1>4. RowsInv' /\ OutcomesMatchGateway'
  BY <1>1 DEF OneInv, RowsInv, OutcomesMatchGateway, Charged
<1> QED
  BY <1>2, <1>3, <1>4 DEF OneInv

(* FetchMessage, the errors that end the handler, the commit, and the end  *)
(* and start of the process: the worker has no payment in hand.            *)
LEMMA OneEndsOrBegins ==
  ASSUME OneWorker, OneInv, WorkerInv', NEW w \in Workers,
         \/ \E p \in Partitions : FetchMessage(w, p)
         \/ LoadFails(w) \/ BackoffCancelled(w) \/ CommitMessage(w) \/ CommitFails(w)
         \/ Exit(w) \/ Restart(w)
  PROVE  OneInv'
<1>0. TypeOK
  BY DEF OneInv, WorkerInv
<1>1. /\ UNCHANGED <<db, cache, charges, outcomes, dlq>>
      /\ pc'[w] \in {"fetch", "load", "down"}
  BY <1>0 DEF FetchMessage, LoadFails, BackoffCancelled, CommitMessage, CommitFails,
              Exit, Restart, NextMessage, Goto, TypeOK
<1> QED
  BY <1>1, OneLetsGo DEF InHand

(* Shutdown, Rebalance and Deliver: what is in hand stays.                 *)
LEMMA OneAside ==
  ASSUME OneInv, WorkerInv', UNCHANGED <<db, cache, charges, outcomes, dlq, pc, job>>
  PROVE  OneInv'
<1>1. \A w \in Workers : RowInv(w)' /\ SayInv(w)'
  BY DEF OneInv, RowInv, SayInv, Unsaid, Charged
<1> QED
  BY <1>1, OneQuiet

(* GatewayRejects and GatewayErrs: the status in hand is final and not     *)
(* APPROVED, and nothing is approved.                                      *)
LEMMA OneRefused ==
  ASSUME OneWorker, OneInv, WorkerInv', NEW w \in Workers, GatewayRejects(w) \/ GatewayErrs(w)
  PROVE  OneInv'
<1>0. TypeOK /\ RowInv(w) /\ SayInv(w)
  BY DEF OneInv, WorkerInv
<1>1. /\ pc[w] = "gateway" /\ pc'[w] \in {"settle", "backoff"}
      /\ UNCHANGED <<db, cache, charges, outcomes, dlq>>
  BY <1>0 DEF GatewayRejects, GatewayErrs, Goto, TypeOK
<1>2. /\ job[w].status = StatusProcessing /\ ~ Charged(job[w].message)
      /\ Unsaid(job[w].message) /\ db[job[w].message] = StatusProcessing
  BY <1>0, <1>1, InHandFacts DEF InHand, RowInv, OneInv, WorkerInv, JobInv
<1>3. \/ pc'[w] = "backoff" /\ job' = job
      \/ /\ pc'[w] = "settle"
         /\ \/ job' = [job EXCEPT ![w].status = TransitionTo(@, StatusRejected)]
            \/ job' = [job EXCEPT ![w].status = TransitionTo(@, StatusFailed)]
  BY <1>0 DEF GatewayRejects, GatewayErrs, Goto, TypeOK
<1>4. /\ job'[w].message = job[w].message
      /\ pc'[w] = "settle" => job'[w].status \in {StatusRejected, StatusFailed}
  <2>1. Working(w)
    BY <1>1 DEF Working
  <2> QED
    BY <1>0, <1>2, <1>3, <2>1, NewStatus, Transitions, Names, StatusNames
<1>5. RowInv(w)'
  BY <1>1, <1>2, <1>3, <1>4 DEF RowInv
<1>6. SayInv(w)'
  BY <1>1, <1>2, <1>3, <1>4, Names DEF SayInv, InHand, Unsaid, Charged
<1> QED
  BY <1>1, <1>5, <1>6, OneQuiet DEF OneWorker

(* BackoffElapses: only the attempt is counted.                            *)
LEMMA OneTriesAgain ==
  ASSUME OneWorker, OneInv, WorkerInv', NEW w \in Workers, BackoffElapses(w)
  PROVE  OneInv'
<1>0. TypeOK /\ RowInv(w) /\ SayInv(w)
  BY DEF OneInv, WorkerInv
<1>1. /\ pc[w] = "backoff" /\ pc'[w] = "gateway"
      /\ UNCHANGED <<db, cache, charges, outcomes, dlq>>
  BY <1>0 DEF BackoffElapses, Goto, TypeOK
<1>2. job'[w].message = job[w].message
  <2>1. job[w] \in Job
    BY <1>0, <1>1, JobType DEF Working
  <2>2. job'[w] = [job[w] EXCEPT !.attempt = job[w].attempt + 1]
    BY <1>0 DEF BackoffElapses, TypeOK
  <2> QED
    BY <2>1, <2>2 DEF Job
<1>3. RowInv(w)' /\ SayInv(w)'
  BY <1>0, <1>1, <1>2 DEF RowInv, SayInv, InHand, Unsaid, Charged
<1> QED
  BY <1>1, <1>3, OneQuiet DEF OneWorker

(* GatewayApproves: the one approval of a payment of which nothing was     *)
(* said yet, and whose row is PROCESSING.                                  *)
LEMMA OneApproved ==
  ASSUME OneWorker, OneInv, WorkerInv', NEW w \in Workers, GatewayApproves(w)
  PROVE  OneInv'
<1>0. /\ TypeOK /\ RowInv(w) /\ SayInv(w) /\ RowsInv
      /\ OutcomesMatchGateway /\ CacheNeverAhead
  BY DEF OneInv, WorkerInv
<1>p. pc[w] = "gateway" /\ job[w].message \in Payments
  BY <1>0, InHandFacts DEF GatewayApproves, Goto, InHand
<1>m. PICK m \in Payments : m = job[w].message
  BY <1>p
<1>1. /\ pc'[w] = "settle" /\ UNCHANGED <<db, cache, outcomes, dlq>>
      /\ charges' = [charges EXCEPT ![m][w] = @ + 1]
  BY <1>0, <1>m DEF GatewayApproves, Goto, TypeOK
<1>2. /\ Unsaid(m) /\ db[m] = StatusProcessing
      /\ job[w].status = StatusProcessing
  BY <1>0, <1>p, <1>m, InHandFacts DEF InHand, RowInv, OneInv, WorkerInv, JobInv
<1>3. job'[w].message = m /\ job'[w].status = StatusApproved
  <2>1. Working(w)
    BY <1>p DEF Working
  <2>2. TransitionTo(job[w].status, StatusApproved) = StatusApproved
    BY <1>2, Transitions, Names
  <2>3. StatusApproved \in Statuses \cup {Absent}
    BY StatusNames
  <2> QED
    BY <1>0, <1>m, <2>1, <2>2, <2>3, NewStatus DEF GatewayApproves
<1>4. Charged(m)' /\ \A id \in Payments \ {m} : Charged(id)' = Charged(id)
  <2>1. charges[m][w] \in Nat /\ charges'[m][w] = charges[m][w] + 1
    BY <1>0, <1>1, <1>2 DEF TypeOK
  <2>2. \A id \in Payments \ {m} : charges'[id] = charges[id]
    BY <1>0, <1>1 DEF TypeOK
  <2>3. Charged(m)'
    BY <2>1 DEF Charged
  <2>4. ASSUME NEW id \in Payments \ {m} PROVE Charged(id)' = Charged(id)
    BY <2>2 DEF Charged
  <2> QED
    BY <2>3, <2>4
<1>5. RowInv(w)'
  BY <1>1, <1>2, <1>3 DEF RowInv
<1>6. SayInv(w)'
  BY <1>1, <1>2, <1>3, <1>4 DEF SayInv, InHand, Unsaid
<1>7. RowsInv'
  BY <1>0, <1>1, <1>2, <1>4 DEF RowsInv
<1>8. OutcomesMatchGateway'
  <2>1. \A o \in outcomes : o.payment \in Payments \ {m}
    BY <1>0, <1>2 DEF Unsaid, TypeOK, Outcomes
  <2>2. m \notin dlq
    BY <1>2 DEF Unsaid
  <2> QED
    BY <1>0, <1>1, <1>4, <2>1, <2>2 DEF OutcomesMatchGateway
<1>9. CacheNeverAhead'
  BY <1>0, <1>1 DEF CacheNeverAhead
<1> QED
  BY <1>5, <1>6, <1>7, <1>8, <1>9, OneStep

(* PublishOutcome: the first and only announcement of the payment, on the  *)
(* topic its approval calls for; a FAILED one goes on to the DLQ.          *)
LEMMA OneAnnounced ==
  ASSUME OneWorker, OneInv, WorkerInv', NEW w \in Workers, PublishOutcome(w)
  PROVE  OneInv'
<1> DEFINE m == job[w].message
           said == [topic |-> OutcomeTopic(job[w].status), payment |-> m,
                    status |-> job[w].status]
<1>0. /\ TypeOK /\ RowInv(w) /\ RowsInv /\ OutcomesMatchGateway /\ CacheNeverAhead
  BY DEF OneInv, WorkerInv
<1>1. /\ pc[w] = "publish" /\ job' = job
      /\ pc'[w] = IF job[w].status = StatusFailed THEN "dlq" ELSE "commit"
      /\ UNCHANGED <<db, cache, charges, dlq>>
      /\ outcomes' = outcomes \/ outcomes' = outcomes \cup {said}
  BY <1>0 DEF PublishOutcome, Goto, TypeOK
<1>2. /\ m \in Payments /\ Unsaid(m) /\ job[w].status \in Terminal
      /\ job[w].status = StatusApproved <=> Charged(m)
      /\ db[m] \in {StatusProcessing, job[w].status}
  BY <1>0, <1>1, InHandFacts DEF InHand, RowInv
<1>3. /\ said.payment = m /\ said.status = job[w].status
      /\ said.topic = "processed" <=> Charged(m)
  BY <1>2 DEF OutcomeTopic
<1>4. RowInv(w)'
  BY <1>1 DEF RowInv
<1>5. SayInv(w)'
  BY <1>1, <1>2, <1>3, Names DEF SayInv, InHand, Unsaid, Charged
<1> HIDE DEF m, said
<1>6. RowsInv'
  BY <1>0, <1>1, <1>2, <1>3, Names DEF RowsInv, Charged
<1>7. OutcomesMatchGateway'
  <2>1. m \notin dlq
    BY <1>2 DEF Unsaid
  <2> QED
    BY <1>0, <1>1, <1>3, <2>1 DEF OutcomesMatchGateway, Charged
<1>8. CacheNeverAhead'
  BY <1>0, <1>1 DEF CacheNeverAhead
<1> QED
  BY <1>4, <1>5, <1>6, <1>7, <1>8, OneStep

(* RouteToDLQ: a dead letter is corrupt or was not approved.               *)
LEMMA OneDeadLetter ==
  ASSUME OneWorker, OneInv, WorkerInv', NEW w \in Workers, RouteToDLQ(w)
  PROVE  OneInv'
<1> DEFINE m == job[w].message
<1>0. /\ TypeOK /\ JobInv(w) /\ SayInv(w) /\ RowsInv
      /\ OutcomesMatchGateway /\ CacheNeverAhead
  BY DEF OneInv, WorkerInv
<1>1. /\ pc[w] = "dlq" /\ pc'[w] = "commit" /\ job' = job
      /\ UNCHANGED <<db, cache, charges, outcomes>>
      /\ dlq' = dlq \/ dlq' = dlq \cup {m}
  BY <1>0 DEF RouteToDLQ, Goto, TypeOK
<1>2. m \in Payments => ~ Charged(m) /\ db[m] # StatusPending
  BY <1>0, <1>1 DEF SayInv, JobInv, Handled
<1>3. RowInv(w)' /\ SayInv(w)'
  BY <1>1 DEF RowInv, SayInv, InHand
<1> HIDE DEF m
<1>4. RowsInv'
  BY <1>0, <1>1, <1>2 DEF RowsInv, Charged
<1>5. OutcomesMatchGateway'
  <2>1. \A o \in outcomes : o.payment \in Payments
    BY <1>0 DEF TypeOK, Outcomes
  <2> QED
    BY <1>0, <1>1, <1>2, <2>1 DEF OutcomesMatchGateway, Charged
<1>6. CacheNeverAhead'
  BY <1>0, <1>1 DEF CacheNeverAhead
<1> QED
  BY <1>3, <1>4, <1>5, <1>6, OneStep

-----------------------------------------------------------------------------
(* The invariant holds at the start.                                       *)
LEMMA OneInit == Init => OneInv
<1> SUFFICES ASSUME Init PROVE OneInv
  OBVIOUS
<1>1. WorkerInv
  BY InvInit
<1>2. \A w \in Workers : RowInv(w) /\ SayInv(w)
  BY DEF Init, RowInv, SayInv, InHand
<1>3. \A id \in Payments : ~ Charged(id)
  BY DEF Init, Charged
<1>4. RowsInv /\ OutcomesMatchGateway
  BY <1>3 DEF Init, RowsInv, OutcomesMatchGateway
<1>5. CacheNeverAhead
  <2>1. Rank(Absent) = 0 /\ Rank(StatusPending) = 1
    BY Names DEF Rank
  <2>2. \A id \in Payments :
          /\ db[id] \in {Absent, StatusPending} /\ cache[id] \in {Absent, StatusPending}
          /\ db[id] = Absent => cache[id] = Absent
    BY DEF Init
  <2> QED
    BY <2>1, <2>2 DEF CacheNeverAhead
<1> QED
  BY <1>1, <1>2, <1>4, <1>5 DEF OneInv

(* With one worker the invariant is inductive.                             *)
LEMMA OneInvStep == OneWorker /\ OneInv /\ [Next]_vars => OneInv'
<1> SUFFICES ASSUME OneWorker, OneInv, [Next]_vars PROVE OneInv'
  OBVIOUS
<1>1. WorkerInv'
  BY InvStep DEF OneInv
<1>2. ASSUME NEW w \in Workers, Run(w) PROVE OneInv'
  BY <1>1, <1>2, OneRejectCorrupt, OneLoadPayment, OneUpdateRow, OneRowFails,
     OneUpdateCache, OneEndsOrBegins, OneRefused, OneTriesAgain, OneApproved,
     OneAnnounced, OneDeadLetter
     DEF Run, Handle
<1>3. ASSUME NEW w \in Workers, Exit(w) \/ Restart(w) PROVE OneInv'
  BY <1>1, <1>3, OneEndsOrBegins
<1>4. ASSUME NEW w \in Workers, Shutdown(w) PROVE OneInv'
  BY <1>1, <1>4, OneAside DEF Shutdown
<1>5. CASE Rebalance
  BY <1>1, <1>5, OneAside DEF Rebalance
<1>6. ASSUME NEW p \in Partitions, NEW m \in Messages, Deliver(p, m) PROVE OneInv'
  BY <1>1, <1>6, OneAside DEF Deliver
<1>7. ASSUME NEW id \in Payments, Expire(id) PROVE OneInv'
  BY <1>1, <1>7, OneExpire
<1>8. CASE UNCHANGED vars
  BY <1>1, <1>8, OneAside DEF vars
<1> QED
  BY <1>2, <1>3, <1>4, <1>5, <1>6, <1>7, <1>8 DEF Next, Process

(* One worker: the payment in hand is written by nobody else, and nothing  *)
(* is said of it before it is settled.                                     *)
THEOREM OneWorkerInvariance == OneWorker => (Spec => []OneInv)
<1> SUFFICES ASSUME OneWorker PROVE Spec => []OneInv
  OBVIOUS
<1>1. Init => OneInv
  BY OneInit
<1>2. OneInv /\ [Next]_vars => OneInv'
  BY OneInvStep
<1> QED
  BY <1>1, <1>2, PTL DEF Spec

(* One worker: what it announces and dead-letters agrees with the gateway, *)
(* even when the row could not be written (payment_worker.go 125-173).     *)
THEOREM OutcomesAreTrue == OneWorker => (Spec => []OutcomesMatchGateway)
<1>1. OneInv => OutcomesMatchGateway
  BY DEF OneInv
<1> QED
  BY <1>1, OneWorkerInvariance, PTL

(* One worker: a reader of the cache never sees a payment further along    *)
(* than its row, nor settled otherwise (payment_worker.go 176-182).        *)
THEOREM CacheBehindRow == OneWorker => (Spec => []CacheNeverAhead)
<1>1. OneInv => CacheNeverAhead
  BY DEF OneInv
<1> QED
  BY <1>1, OneWorkerInvariance, PTL

-----------------------------------------------------------------------------
(* What the worker and the API may do to the rows and the cache they share. *)
(* A worker moves a row along the transition table, or puts the row's      *)
(* status in the cache, or leaves both alone.                              *)
LEMMA OneMoves ==
  ASSUME OneWorker, OneInv, NEW w \in Workers, Process(w)
  PROVE  \/ UNCHANGED <<db, cache>>
         \/ /\ cache' = cache
            /\ \E id \in Payments, s \in Terminal \cup {StatusProcessing} :
                 CanTransitionTo(db[id], s) /\ db' = [db EXCEPT ![id] = s]
         \/ /\ db' = db
            /\ \E id \in Payments : /\ db[id] \notin {Absent, StatusPending}
                                    /\ cache' = [cache EXCEPT ![id] = db[id]]
<1>1. CASE ClaimRow(w) \/ ClaimFails(w) \/ SettleRow(w) \/ SettleFails(w)
  <2>1. /\ pc[w] \in {"claim", "settle"} /\ Writes(w) /\ cache' = cache
    BY <1>1 DEF ClaimRow, ClaimFails, SettleRow, SettleFails, UpdateRow,
                RowMayHaveChanged, Goto, Writes
  <2>2. /\ job[w].message \in Payments
        /\ job[w].status \in Terminal \cup {StatusProcessing}
        /\ CanTransitionTo(db[job[w].message], job[w].status)
    BY <2>1, InHandFacts DEF InHand, RowInv, OneInv, WorkerInv, JobInv, CanTransitionTo
  <2> QED
    BY <2>1, <2>2 DEF Writes
<1>2. CASE ClaimCache(w) \/ SettleCache(w)
  <2>1. /\ pc[w] \in {"claimed", "settled"} /\ db' = db
        /\ cache' = cache \/ cache' = [cache EXCEPT ![job[w].message] = job[w].status]
    BY <1>2 DEF ClaimCache, SettleCache, UpdateCache, Goto
  <2>2. /\ job[w].message \in Payments /\ job[w].status = db[job[w].message]
        /\ job[w].status \notin {Absent, StatusPending}
    BY <2>1, InHandFacts, Names DEF InHand, RowInv, OneInv, WorkerInv, JobInv
  <2> QED
    BY <2>1, <2>2
<1> QED
  BY <1>1, <1>2 DEF Process, Run, Handle, RejectCorrupt, LoadFails, LoadPayment,
       GatewayApproves, GatewayRejects, GatewayErrs, BackoffElapses, BackoffCancelled,
       PublishOutcome, RouteToDLQ, CommitMessage, CommitFails, Shutdown, Exit, Restart,
       FetchMessage

(* Rows may appear as PENDING, unless their payment is on the topic or in  *)
(* the DLQ already, and the cache may change, as long as it stays behind.  *)
LEMMA OneServed ==
  ASSUME OneInv, UNCHANGED <<topic, local, effects>>,
         db' \in [Payments -> Statuses \cup {Absent}],
         cache' \in [Payments -> Statuses \cup {Absent}],
         \A id \in Payments : db'[id] # db[id] =>
            /\ db[id] = Absent /\ db'[id] = StatusPending
            /\ id \notin dlq
            /\ \A p \in Partitions : \A i \in DOMAIN log[p] : log[p][i] # id,
         CacheNeverAhead'
  PROVE  OneInv'
<1>0. /\ WorkerInv /\ TypeOK /\ RowsInv /\ OutcomesMatchGateway
      /\ \A w \in Workers : JobInv(w) /\ RowInv(w) /\ SayInv(w)
  BY DEF OneInv, WorkerInv
<1>1. TypeOK'
  BY <1>0 DEF TypeOK
<1>2. /\ \A id \in Payments : db[id] # Absent => db'[id] = db[id]
      /\ \A id \in Payments : Charged(id)' = Charged(id)
  BY DEF Charged
<1>3. ASSUME NEW w \in Workers, Working(w)
      PROVE  job[w].message \in Payments => db'[job[w].message] = db[job[w].message]
  <2>1. /\ job[w].partition \in Partitions /\ job[w].offset \in DOMAIN log[job[w].partition]
        /\ log[job[w].partition][job[w].offset] = job[w].message
    <3>1. /\ job[w].offset <= Len(log[job[w].partition])
          /\ log[job[w].partition][job[w].offset] = job[w].message
      BY <1>0, <1>3 DEF JobInv
    <3>2. job[w].partition \in Partitions /\ job[w].offset \in Nat \ {0}
      BY <1>0, <1>3, JobType
    <3>3. log[job[w].partition] \in Seq(Messages)
      BY <1>0, <3>2 DEF TypeOK
    <3> QED
      BY <3>1, <3>2, <3>3
  <2> QED
    BY <2>1
<1>4. ASSUME NEW w \in Workers PROVE JobInv(w)' /\ RowInv(w)' /\ SayInv(w)'
  <2>1. CASE ~ Working(w)
    BY <2>1 DEF JobInv, RowInv, SayInv, Working, InHand
  <2>2. CASE Working(w)
    <3>1. job[w].message \in Payments => db'[job[w].message] = db[job[w].message]
      BY <1>3, <2>2
    <3>2. pc[w] \in InHand => job[w].message \in Payments
      BY <1>0 DEF TypeOK
    <3>3. JobInv(w)'
      BY <1>0, <3>1, <3>2 DEF JobInv, Handled, Working, InHand
    <3>4. RowInv(w)' /\ SayInv(w)'
      BY <1>0, <1>2, <3>1, <3>2 DEF RowInv, SayInv, InHand, Unsaid
    <3> QED
      BY <3>3, <3>4
  <2> QED
    BY <2>1, <2>2
<1>5. ChargedIsClaimed' /\ ChargedOncePerWorker'
  BY <1>0, <1>2 DEF WorkerInv, ChargedIsClaimed, ChargedOncePerWorker
<1>6. CommittedIsHandled'
  <2> SUFFICES ASSUME NEW p \in Partitions, committed[p] > 0
               PROVE  committed[p] <= Len(log[p]) /\ Handled(log[p][committed[p]])'
    BY DEF CommittedIsHandled
  <2>1. committed[p] <= Len(log[p]) /\ Handled(log[p][committed[p]])
    BY <1>0 DEF WorkerInv, CommittedIsHandled
  <2>2. committed[p] \in DOMAIN log[p]
    BY <1>0, <2>1 DEF TypeOK
  <2> QED
    BY <2>1, <2>2 DEF Handled
<1>7. ApprovedIsCharged'
  <2>1. \A id \in Payments : db'[id] = StatusApproved => db[id] = StatusApproved
    BY Names
  <2>2. \A id \in Payments : cache'[id] = StatusApproved => db'[id] = StatusApproved
    <3>1. \A id \in Payments : db'[id] \in Statuses \cup {Absent}
      OBVIOUS
    <3>2. \A s \in Statuses \cup {Absent} : Rank(s) <= Rank(StatusApproved)
      BY DEF Rank, Statuses, Terminal, Absent, StatusPending, StatusProcessing,
             StatusApproved, StatusRejected, StatusFailed
    <3>3. \A s \in Statuses \cup {Absent} : Rank(s) \in 0..3
      BY Ranks
    <3>4. StatusApproved \in Statuses
      BY StatusNames
    <3> QED
      BY <3>1, <3>2, <3>3, <3>4 DEF CacheNeverAhead
  <2> QED
    BY <1>0, <1>2, <2>1, <2>2 DEF WorkerInv, ApprovedIsCharged, SeenApproved
<1>8. WorkerInv'
  BY <1>1, <1>4, <1>5, <1>6, <1>7 DEF WorkerInv
<1>9. RowsInv'
  <2>1. \A o \in outcomes : o.payment \in Payments
    BY <1>0 DEF TypeOK, Outcomes
  <2> QED
    BY <1>0, <1>2, <2>1, Names DEF RowsInv
<1>10. OutcomesMatchGateway'
  BY <1>0 DEF OutcomesMatchGateway, Charged
<1> QED
  BY <1>4, <1>8, <1>9, <1>10 DEF OneInv

-----------------------------------------------------------------------------
(* The refinement of PaymentLifecycle.                                     *)
(* The statuses are the same in both modules.                              *)
LEMMA SameNames ==
  /\ Lifecycle!Absent = Absent /\ Lifecycle!StatusPending = StatusPending
  /\ Lifecycle!StatusProcessing = StatusProcessing
  /\ Lifecycle!StatusApproved = StatusApproved /\ Lifecycle!Terminal = Terminal
  BY DEF Lifecycle!Absent, Lifecycle!StatusPending, Lifecycle!StatusProcessing,
         Lifecycle!StatusApproved, Lifecycle!StatusRejected, Lifecycle!StatusFailed,
         Lifecycle!Terminal, Absent, StatusPending, StatusProcessing, StatusApproved,
         StatusRejected, StatusFailed, Terminal

(* A step that changes neither row nor approval is a stutter.              *)
LEMMA Stutters ==
  ASSUME UNCHANGED <<db, charges>>
  PROVE  UNCHANGED Lifecycle!lifecycle
  BY DEF Lifecycle!lifecycle, Charged

(* A row written by the worker is accepted, or settled as the gateway      *)
(* answered, or was so already.                                            *)
LEMMA WritesLifecycle ==
  ASSUME OneWorker, OneInv, NEW w \in Workers, pc[w] \in {"claim", "settle"},
         Writes(w), UNCHANGED charges
  PROVE  [Lifecycle!Next]_(Lifecycle!lifecycle)
<1>1. job[w].message \in Payments
  BY InHandFacts DEF InHand
<1>m. PICK m \in Payments : m = job[w].message
  BY <1>1
<1>2. \/ /\ db[m] = StatusPending /\ job[w].status = StatusProcessing
      \/ /\ db[m] = StatusProcessing /\ job[w].status \in Terminal
         /\ job[w].status = StatusApproved <=> Charged(m)
  BY <1>m, InHandFacts DEF InHand, RowInv, OneInv, WorkerInv, JobInv
<1>3. \A id \in Payments : Charged(id)' = Charged(id)
  BY DEF Charged
<1>4. CASE db' = db
  BY <1>4, Stutters
<1>5. CASE db' = [db EXCEPT ![m] = job[w].status]
  <2>1. CASE db[m] = StatusPending /\ job[w].status = StatusProcessing
    <3>1. Lifecycle!Accept(m)
      BY <1>3, <1>5, <2>1, SameNames DEF Lifecycle!Accept
    <3> QED
      BY <3>1 DEF Lifecycle!Next
  <2>2. CASE /\ db[m] = StatusProcessing /\ job[w].status \in Terminal
             /\ job[w].status = StatusApproved <=> Charged(m)
    <3>1. Lifecycle!Settle(m)
      BY <1>3, <1>5, <2>2, SameNames DEF Lifecycle!Settle
    <3> QED
      BY <3>1 DEF Lifecycle!Next
  <2> QED
    BY <1>2, <2>1, <2>2
<1> QED
  BY <1>m, <1>4, <1>5 DEF Writes

(* An approval comes while the payment is being processed.                 *)
LEMMA ApprovesLifecycle ==
  ASSUME OneWorker, OneInv, NEW w \in Workers, GatewayApproves(w)
  PROVE  [Lifecycle!Next]_(Lifecycle!lifecycle)
<1>0. TypeOK /\ RowInv(w)
  BY DEF OneInv, WorkerInv
<1>1. pc[w] = "gateway" /\ job[w].message \in Payments
  BY InHandFacts DEF GatewayApproves, Goto, InHand
<1>m. PICK m \in Payments : m = job[w].message
  BY <1>1
<1>2. db[m] = StatusProcessing /\ db' = db
  BY <1>0, <1>1, <1>m DEF RowInv, GatewayApproves
<1>3. Charged(m)' /\ \A id \in Payments \ {m} : Charged(id)' = Charged(id)
  <2>1. charges[m][w] \in Nat /\ charges'[m][w] = charges[m][w] + 1
    BY <1>0, <1>m DEF TypeOK, GatewayApproves
  <2>2. \A id \in Payments \ {m} : charges'[id] = charges[id]
    BY <1>0, <1>m DEF TypeOK, GatewayApproves
  <2> QED
    BY <2>1, <2>2 DEF Charged
<1>4. Lifecycle!Authorize(m)
  BY <1>2, <1>3, SameNames DEF Lifecycle!Authorize
<1> QED
  BY <1>4 DEF Lifecycle!Next

(* Every step of a single worker is one of PaymentLifecycle, or a stutter. *)
LEMMA LifecycleStep ==
  OneWorker /\ OneInv /\ [Next]_vars => [Lifecycle!Next]_(Lifecycle!lifecycle)
<1> SUFFICES ASSUME OneWorker, OneInv, [Next]_vars
             PROVE  [Lifecycle!Next]_(Lifecycle!lifecycle)
  OBVIOUS
<1>1. ASSUME NEW w \in Workers, ClaimRow(w) \/ ClaimFails(w) \/ SettleRow(w) \/ SettleFails(w)
      PROVE  [Lifecycle!Next]_(Lifecycle!lifecycle)
  <2>1. pc[w] \in {"claim", "settle"} /\ Writes(w) /\ UNCHANGED charges
    BY <1>1 DEF ClaimRow, ClaimFails, SettleRow, SettleFails, UpdateRow,
                RowMayHaveChanged, Goto, Writes
  <2> QED
    BY <2>1, WritesLifecycle
<1>2. ASSUME NEW w \in Workers, GatewayApproves(w)
      PROVE  [Lifecycle!Next]_(Lifecycle!lifecycle)
  BY <1>2, ApprovesLifecycle
<1>3. ASSUME NEW w \in Workers,
             \/ RejectCorrupt(w) \/ LoadFails(w) \/ LoadPayment(w) \/ ClaimCache(w)
             \/ GatewayRejects(w) \/ GatewayErrs(w) \/ BackoffElapses(w)
             \/ BackoffCancelled(w) \/ SettleCache(w) \/ PublishOutcome(w)
             \/ RouteToDLQ(w) \/ CommitMessage(w) \/ CommitFails(w)
             \/ Shutdown(w) \/ Exit(w) \/ Restart(w)
             \/ \E p \in Partitions : FetchMessage(w, p)
      PROVE  UNCHANGED <<db, charges>>
  BY <1>3 DEF RejectCorrupt, LoadFails, LoadPayment, ClaimCache, GatewayRejects,
              GatewayErrs, BackoffElapses, BackoffCancelled, SettleCache, UpdateCache,
              PublishOutcome, RouteToDLQ, CommitMessage, CommitFails, Shutdown, Exit,
              Restart, FetchMessage
<1>4. CASE \/ Rebalance \/ \E p \in Partitions, m \in Messages : Deliver(p, m)
           \/ \E id \in Payments : Expire(id)
           \/ UNCHANGED vars
  <2>1. UNCHANGED <<db, charges>>
    BY <1>4 DEF Rebalance, Deliver, Expire, vars
  <2> QED
    BY <2>1, Stutters
<1> QED
  BY <1>1, <1>2, <1>3, <1>4, Stutters DEF Next, Process, Run, Handle

(* One worker: the payments go through PaymentLifecycle, whatever crashes, *)
(* redeliveries and failed calls there are: accepted once, settled once,   *)
(* and APPROVED exactly when the gateway approved.                         *)
THEOREM Implements == OneWorker => (Spec => LifecycleSpec)
<1> SUFFICES ASSUME OneWorker PROVE Spec => LifecycleSpec
  OBVIOUS
<1>1. Init => Lifecycle!Init
  BY SameNames DEF Init, Lifecycle!Init, Charged
<1>2. OneInv /\ [Next]_vars => [Lifecycle!Next]_(Lifecycle!lifecycle)
  BY LifecycleStep
<1>3. Spec => []OneInv
  BY OneWorkerInvariance
<1> QED
  BY <1>1, <1>2, <1>3, PTL DEF Spec, LifecycleSpec, Lifecycle!Spec
=============================================================================
