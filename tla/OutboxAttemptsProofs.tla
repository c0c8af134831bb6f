------------------------- MODULE OutboxAttemptsProofs -------------------------
(***************************************************************************)
(* Proofs about what the attempts in a row mean: they never exceed the     *)
(* publishes that failed, for any number of relays, and they never fall if *)
(* there is one relay.                                                     *)
(***************************************************************************)
EXTENDS OutboxAttempts, OutboxProcessorProofs

(* What is in the row, what a relay has read, and what one that has failed *)
(* is about to write, are at most the failures so far.                     *)
CountInv ==
  /\ failures \in Attempts
  /\ outbox[Watched].attempts <= failures
  /\ \A r \in Relays : Watched \in DOMAIN batch[r] =>
       /\ batch[r][Watched] <= failures
       /\ pc[r] = "failed" /\ Current(r) = Watched => batch[r][Watched] + 1 <= failures

-----------------------------------------------------------------------------
(* A step without a failed publish keeps the failures, and each relay its  *)
(* part, if it reads no more than the row has and does not turn to a mark. *)
LEMMA CountFrame ==
  ASSUME CountInv, failures' = failures,
         outbox'[Watched].attempts <= failures,
         NEW r \in Relays,
         \A s \in Relays \ {r} : pc'[s] = pc[s] /\ batch'[s] = batch[s],
         Watched \in DOMAIN batch'[r] => batch'[r][Watched] <= failures,
         pc'[r] # "failed"
  PROVE  CountInv'
  BY DEF CountInv, Current

LEMMA CountSave ==
  ASSUME OutboxInv, CountInv, NEW e \in Events, Save(e), failures' = failures
  PROVE  CountInv'
<1>1. outbox'[Watched].attempts <= failures
  BY WatchedAssumption DEF OutboxInv, TypeOK, CountInv, Save, Attempts, MaxAttempts
<1> QED
  BY <1>1 DEF CountInv, Save, Current

LEMMA CountGetPending ==
  ASSUME OutboxInv, CountInv, NEW r \in Relays, GetPending(r), failures' = failures
  PROVE  CountInv'
<1>1. /\ outbox' = outbox /\ pc'[r] = "publish"
      /\ \A s \in Relays \ {r} : pc'[s] = pc[s] /\ batch'[s] = batch[s]
      /\ batch'[r] = [e \in Oldest(Pending, Limit[r]) |-> outbox[e].attempts]
  BY DEF GetPending, Goto, OutboxInv, TypeOK
<1>2. Watched \in DOMAIN batch'[r] => batch'[r][Watched] <= failures
  BY <1>1 DEF CountInv
<1>3. outbox'[Watched].attempts <= failures
  BY <1>1 DEF CountInv
<1> QED
  BY <1>1, <1>2, <1>3, CountFrame

LEMMA CountPublish ==
  ASSUME OutboxInv, CountInv, NEW r \in Relays, Publish(r), failures' = failures
  PROVE  CountInv'
<1>1. /\ outbox' = outbox /\ pc'[r] = "processed" /\ batch' = batch
      /\ \A s \in Relays \ {r} : pc'[s] = pc[s]
  BY DEF Publish, Goto, OutboxInv, TypeOK
<1>2. Watched \in DOMAIN batch'[r] => batch'[r][Watched] <= failures
  BY <1>1 DEF CountInv
<1>3. outbox'[Watched].attempts <= failures
  BY <1>1 DEF CountInv
<1> QED
  BY <1>1, <1>2, <1>3, CountFrame

(* A failed publish of Watched is one failure more, unless three are       *)
(* counted already, when a relay that still holds it has read fewer.       *)
LEMMA CountPublishFails ==
  ASSUME OutboxInv, CountInv, NEW r \in Relays, PublishFails(r),
         failures' = IF WatchedFails /\ failures < MaxAttempts THEN failures + 1 ELSE failures
  PROVE  CountInv'
<1>1. /\ outbox' = outbox /\ batch' = batch /\ pc[r] = "publish"
      /\ \A s \in Relays \ {r} : pc'[s] = pc[s]
  BY DEF PublishFails, Goto, OutboxInv, TypeOK
<1>2. failures \in 0..3 /\ failures' \in 0..3 /\ failures <= failures'
  BY DEF CountInv, Attempts, MaxAttempts
<1>3. \A s \in Relays : Current(s)' = Current(s)
  BY <1>1 DEF Current
<1>4. outbox'[Watched].attempts <= failures'
  <2>1. outbox[Watched].attempts \in Nat
    BY WatchedAssumption DEF OutboxInv, TypeOK, Row, Attempts, MaxAttempts
  <2> QED
    BY <1>1, <1>2, <2>1 DEF CountInv
<1>5. ASSUME NEW s \in Relays, Watched \in DOMAIN batch[s]
      PROVE  batch[s][Watched] \in 0..2 /\ batch[s][Watched] <= failures'
  <2>1. batch[s][Watched] \in 0..2
    BY <1>5 DEF OutboxInv, TypeOK, Attempts, MaxAttempts
  <2> QED
    BY <1>2, <1>5, <2>1 DEF CountInv
<1>6. ASSUME NEW s \in Relays, Watched \in DOMAIN batch[s],
             pc'[s] = "failed", Current(s) = Watched
      PROVE  batch[s][Watched] + 1 <= failures'
  <2>1. CASE s = r
    <3>1. WatchedFails
      BY <1>6, <2>1 DEF WatchedFails
    <3>2. failures' = IF failures < 3 THEN failures + 1 ELSE failures
      BY <3>1 DEF MaxAttempts
    <3>3. batch[s][Watched] \in 0..2 /\ batch[s][Watched] <= failures
      BY <1>5, <1>6 DEF CountInv
    <3> QED
      BY <1>2, <3>2, <3>3
  <2>2. CASE s # r
    <3>1. batch[s][Watched] + 1 <= failures
      BY <1>1, <1>6, <2>2 DEF CountInv
    <3>2. batch[s][Watched] \in 0..2
      BY <1>5, <1>6
    <3> QED
      BY <1>2, <3>1, <3>2
  <2> QED
    BY <2>1, <2>2
<1>7. failures' \in Attempts
  BY <1>2 DEF Attempts, MaxAttempts
<1> QED
  BY <1>1, <1>3, <1>4, <1>5, <1>6, <1>7 DEF CountInv

(* A mark writes no more attempts than its relay has failures to show.     *)
LEMMA CountMark ==
  ASSUME OutboxInv, CountInv, NEW r \in Relays,
         MarkProcessed(r) \/ MarkFailed(r) \/ MarkFails(r), failures' = failures
  PROVE  CountInv'
<1>1. NextEvent(r) /\ pc[r] \in {"processed", "failed"}
  BY DEF MarkProcessed, MarkFailed, MarkFails
<1>2. Current(r) \in DOMAIN batch[r] /\ Current(r) \in Events
  BY <1>1, CurrentInBatch DEF OutboxInv
<1>3. /\ pc'[r] # "failed"
      /\ \A s \in Relays \ {r} : pc'[s] = pc[s] /\ batch'[s] = batch[s]
      /\ Watched \in DOMAIN batch'[r] =>
           Watched \in DOMAIN batch[r] /\ batch'[r][Watched] = batch[r][Watched]
  BY <1>1 DEF NextEvent, OutboxInv, TypeOK
<1>4. outbox'[Watched].attempts <= failures
  <2>1. CASE outbox' = outbox
    BY <2>1 DEF CountInv
  <2>2. CASE outbox' = Processed(Current(r))
    BY <1>2, <2>2, WatchedAssumption DEF Processed, CountInv, OutboxInv, TypeOK, Row
  <2>3. CASE pc[r] = "failed" /\ outbox' = Failed(Current(r), batch[r][Current(r)] + 1)
    <3>1. CASE Current(r) = Watched
      <4>1. outbox'[Watched].attempts = batch[r][Watched] + 1
        BY <1>2, <2>3, <3>1 DEF Failed, OutboxInv, TypeOK
      <4> QED
        BY <1>2, <2>3, <3>1, <4>1 DEF CountInv
    <3>2. CASE Current(r) # Watched
      BY <1>2, <2>3, <3>2, WatchedAssumption DEF Failed, CountInv, OutboxInv, TypeOK
    <3> QED
      BY <3>1, <3>2
  <2> QED
    BY <2>1, <2>2, <2>3 DEF MarkProcessed, MarkFailed, MarkFails
<1>5. Watched \in DOMAIN batch'[r] => batch'[r][Watched] <= failures
  BY <1>3 DEF CountInv
<1> QED
  BY <1>3, <1>4, <1>5, CountFrame

(* A signal, an end and a start of a process.                              *)
LEMMA CountProcess ==
  ASSUME OutboxInv, CountInv, NEW r \in Relays, Cancel(r) \/ Exit(r) \/ Restart(r),
         failures' = failures
  PROVE  CountInv'
<1>1. CASE Cancel(r)
  BY <1>1 DEF Cancel, CountInv, Current
<1>2. CASE Exit(r) \/ Restart(r)
  <2>1. /\ outbox' = outbox /\ pc'[r] # "failed"
        /\ \A s \in Relays \ {r} : pc'[s] = pc[s] /\ batch'[s] = batch[s]
        /\ DOMAIN batch'[r] = {}
    BY <1>2 DEF Exit, Restart, Goto, NoEvents, OutboxInv, TypeOK
  <2>2. outbox'[Watched].attempts <= failures
    BY <2>1 DEF CountInv
  <2> QED
    BY <2>1, <2>2, CountFrame
<1> QED
  BY <1>1, <1>2

(* Only a failed publish is counted.                                       *)
LEMMA CountStep ==
  ASSUME OutboxInv, CountInv, [HistoryNext]_historyVars
  PROVE  CountInv'
<1>1. CASE UNCHANGED historyVars
  BY <1>1 DEF historyVars, vars, CountInv, Current
<1>2. CASE HistoryNext
  <2> DEFINE counted == IF WatchedFails /\ failures < MaxAttempts THEN failures + 1 ELSE failures
  <2>1. Next /\ failures' = counted
    BY <1>2 DEF HistoryNext
  <2>2. CASE ~ WatchedFails
    <3>1. failures' = failures
      BY <2>1, <2>2
    <3>2. ASSUME NEW e \in Events, Save(e) PROVE CountInv'
      BY <3>1, <3>2, CountSave
    <3>3. ASSUME NEW r \in Relays, Run(r) PROVE CountInv'
      <4>1. CASE GetsNothing(r)
        BY <3>1, <4>1 DEF GetsNothing, vars, CountInv, Current
      <4>2. CASE PublishFails(r)
        BY <2>1, <4>2, CountPublishFails
      <4> QED
        BY <3>1, <3>3, <4>1, <4>2, CountGetPending, CountPublish, CountMark DEF Run
    <3>4. ASSUME NEW r \in Relays, Cancel(r) \/ Exit(r) \/ Restart(r) PROVE CountInv'
      BY <3>1, <3>4, CountProcess
    <3> QED
      BY <2>1, <3>2, <3>3, <3>4 DEF Next
  <2>3. CASE WatchedFails
    BY <2>1, <2>3, CountPublishFails DEF WatchedFails
  <2> QED
    BY <2>2, <2>3
<1> QED
  BY <1>1, <1>2

LEMMA CountInit == HistoryInit => CountInv
<1> SUFFICES ASSUME HistoryInit PROVE CountInv
  OBVIOUS
<1>1. failures = 0 /\ outbox[Watched].attempts = 0
  BY WatchedAssumption DEF HistoryInit, Init
<1>2. \A r \in Relays : DOMAIN batch[r] = {}
  BY DEF HistoryInit, Init, NoEvents
<1> QED
  BY <1>1, <1>2 DEF CountInv, Attempts, MaxAttempts

-----------------------------------------------------------------------------
(* The history only watches: without it a behaviour is one of the relays.  *)
LEMMA HistoryWatches == HistorySpec => Spec
<1>1. HistoryInit => Init
  BY DEF HistoryInit
<1>2. [HistoryNext]_historyVars => [Next]_vars
  BY DEF HistoryNext, historyVars
<1> QED
  BY <1>1, <1>2, PTL DEF HistorySpec, Spec

(* No event is given up before three of its publishes have failed, for any *)
(* number of relays and events, whatever they read from each other's rows  *)
(* and whatever fails.                                                     *)
THEOREM NotGivenUpEarly == HistorySpec => []GivenUpForCause
<1>1. OutboxInv /\ CountInv => GivenUpForCause
  <2> SUFFICES ASSUME OutboxInv, CountInv, outbox[Watched].status = "FAILED"
               PROVE  failures = MaxAttempts
    BY DEF GivenUpForCause
  <2>1. outbox[Watched].attempts = 3
    BY WatchedAssumption DEF OutboxInv, AttemptsLeft, MaxAttempts
  <2> QED
    BY <2>1 DEF CountInv, Attempts, MaxAttempts
<1>2. OutboxInv /\ CountInv /\ [HistoryNext]_historyVars => CountInv'
  BY CountStep
<1> QED
  BY <1>1, <1>2, CountInit, HistoryWatches, OutboxInvariance, PTL DEF HistorySpec

-----------------------------------------------------------------------------
(* With one relay, what it has read is what the row has.                   *)
OneRelay == \A r, s \in Relays : r = s

ReadInv ==
  /\ \A r \in Relays : \A e \in DOMAIN batch[r] :
       outbox[e].status # "ABSENT" /\ outbox[e].attempts = batch[r][e]
  /\ \A e \in Events : outbox[e].status = "ABSENT" => outbox[e].attempts = 0

AttemptsNeverFall ==
  [][\A e \in Events : outbox[e].attempts <= outbox'[e].attempts]_vars

LEMMA ReadStep ==
  ASSUME OneRelay, OutboxInv, ReadInv, [Next]_vars
  PROVE  /\ ReadInv'
         /\ \A e \in Events : outbox[e].attempts <= outbox'[e].attempts
<1> DEFINE Kept == \A e \in Events : outbox[e].attempts <= outbox'[e].attempts
<1>1. \A e \in Events : outbox[e].attempts \in Nat
  BY DEF OutboxInv, TypeOK, Row, Attempts, MaxAttempts
<1>2. \A r \in Relays : DOMAIN batch[r] \subseteq Events
  BY DEF OutboxInv, TypeOK
<1>3. ASSUME NEW e \in Events, Save(e) PROVE ReadInv' /\ Kept
  <2>1. /\ batch' = batch /\ outbox[e].status = "ABSENT" /\ outbox'[e].attempts = 0
        /\ \A f \in Events \ {e} : outbox'[f] = outbox[f]
    BY <1>3 DEF Save, OutboxInv, TypeOK
  <2>2. \A r \in Relays : e \notin DOMAIN batch[r]
    BY <2>1 DEF ReadInv
  <2>3. \A f \in Events : f = e \/ outbox'[f] = outbox[f]
    BY <2>1
  <2>4. outbox'[e].status = "PENDING"
    BY <1>3 DEF Save, OutboxInv, TypeOK
  <2>5. Kept
    BY <1>1, <2>1, <2>3 DEF ReadInv
  <2>6. ReadInv'
    BY <1>2, <2>1, <2>2, <2>3, <2>4 DEF ReadInv
  <2> QED
    BY <2>5, <2>6
<1>4. CASE UNCHANGED <<outbox, batch>>
  BY <1>1, <1>4 DEF ReadInv
<1>5. ASSUME NEW r \in Relays, GetPending(r) PROVE ReadInv' /\ Kept
  <2>1. /\ outbox' = outbox /\ \A s \in Relays : s = r
        /\ batch'[r] = [e \in Oldest(Pending, Limit[r]) |-> outbox[e].attempts]
        /\ Oldest(Pending, Limit[r]) \subseteq Pending
    BY <1>5 DEF GetPending, Oldest, OneRelay, OutboxInv, TypeOK
  <2>2. \A e \in Pending : outbox[e].status # "ABSENT"
    BY DEF Pending
  <2> QED
    BY <1>1, <2>1, <2>2 DEF ReadInv
<1>6. ASSUME NEW r \in Relays, NextEvent(r), pc[r] \in {"processed", "failed"},
             outbox' = outbox \/ outbox' = Processed(Current(r))
               \/ outbox' = Failed(Current(r), batch[r][Current(r)] + 1)
      PROVE  ReadInv' /\ Kept
  <2>1. Current(r) \in Events /\ Current(r) \in DOMAIN batch[r]
    BY <1>6, CurrentInBatch DEF OutboxInv
  <2>2. PICK c \in Events : c = Current(r)
    BY <2>1
  <2>3. /\ \A s \in Relays : s = r
        /\ DOMAIN batch'[r] = DOMAIN batch[r] \ {c}
        /\ \A e \in DOMAIN batch[r] \ {c} : batch'[r][e] = batch[r][e]
    BY <1>6, <2>2 DEF NextEvent, OneRelay, OutboxInv, TypeOK
  <2>4. \A f \in Events \ {c} : outbox'[f] = outbox[f]
    BY <1>6, <2>2 DEF Processed, Failed, OutboxInv, TypeOK
  <2>5. outbox[c].status # "ABSENT" /\ outbox[c].attempts = batch[r][c]
    BY <2>1, <2>2 DEF ReadInv
  <2>6. /\ outbox'[c].status # "ABSENT"
        /\ outbox[c].attempts <= outbox'[c].attempts
    <3>1. CASE outbox' = outbox
      BY <1>1, <2>5, <3>1
    <3>2. CASE outbox' = Processed(c)
      <4>1. outbox'[c] = [outbox[c] EXCEPT !.status = "PROCESSED"]
        BY <3>2 DEF Processed, OutboxInv, TypeOK
      <4> QED
        BY <1>1, <4>1 DEF OutboxInv, TypeOK, Row
    <3>3. CASE outbox' = Failed(c, batch[r][c] + 1)
      <4>1. outbox'[c] = [status |-> IF batch[r][c] + 1 >= MaxAttempts THEN "FAILED" ELSE "PENDING",
                          attempts |-> batch[r][c] + 1]
        BY <3>3 DEF Failed, OutboxInv, TypeOK
      <4> QED
        BY <1>1, <2>5, <4>1
    <3> QED
      BY <1>6, <2>2, <3>1, <3>2, <3>3
  <2>7. \A f \in Events : f = c \/ outbox'[f] = outbox[f]
    BY <2>4
  <2>8. Kept
    BY <1>1, <2>6, <2>7
  <2>9. ReadInv'
    BY <1>2, <2>3, <2>6, <2>7 DEF ReadInv
  <2> QED
    BY <2>8, <2>9
<1>7. ASSUME NEW r \in Relays, Exit(r) PROVE ReadInv' /\ Kept
  <2>1. outbox' = outbox /\ \A s \in Relays : DOMAIN batch'[s] \subseteq {}
    BY <1>7 DEF Exit, NoEvents, OneRelay, OutboxInv, TypeOK
  <2> QED
    BY <1>1, <2>1 DEF ReadInv
<1>8. ASSUME NEW r \in Relays, Run(r) \/ Cancel(r) \/ Exit(r) \/ Restart(r)
      PROVE  ReadInv' /\ Kept
  <2>1. CASE GetPending(r)
    BY <1>5, <2>1
  <2>2. CASE MarkProcessed(r) \/ MarkFailed(r) \/ MarkFails(r)
    BY <1>6, <2>2 DEF MarkProcessed, MarkFailed, MarkFails
  <2>3. CASE Exit(r)
    BY <1>7, <2>3
  <2> QED
    BY <1>4, <1>8, <2>1, <2>2, <2>3 DEF Run, GetsNothing, vars, Publish, PublishFails, Cancel, Restart
<1>9. CASE UNCHANGED vars
  BY <1>4, <1>9 DEF vars
<1> QED
  BY <1>3, <1>8, <1>9 DEF Next

(* With one relay, MarkFailed "increments the attempts"                    *)
(* (outbox_repository.go 112): they never fall, through crashes, failed    *)
(* marks and restarts.                                                     *)
THEOREM OneRelayCounts == OneRelay => (Spec => AttemptsNeverFall)
<1> SUFFICES ASSUME OneRelay PROVE Spec => AttemptsNeverFall
  OBVIOUS
<1>1. Init => ReadInv
  BY DEF Init, ReadInv, NoEvents
<1>2. OutboxInv /\ ReadInv /\ [Next]_vars => ReadInv'
  BY ReadStep
<1>3. OutboxInv /\ ReadInv /\ [Next]_vars
        => [\A e \in Events : outbox[e].attempts <= outbox'[e].attempts]_vars
  BY ReadStep
<1> QED
  BY <1>1, <1>2, <1>3, OutboxInvariance, PTL DEF Spec, AttemptsNeverFall
=============================================================================
