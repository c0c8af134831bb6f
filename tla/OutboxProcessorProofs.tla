------------------------ MODULE OutboxProcessorProofs ------------------------
(***************************************************************************)
(* Proofs about OutboxProcessor, for any number of relays and events and   *)
(* any kinds of failure: what the rows say of the events, and who may      *)
(* still write the row of a settled one.                                   *)
(***************************************************************************)
EXTENDS OutboxProcessor, FiniteSetTheorems, TLAPS

(* A relay between a publish and its mark has its event on the topic.      *)
PublishedInHand == \A r \in Relays : pc[r] = "processed" => Current(r) \in published

(* A row is FAILED at three attempts and PENDING below: what a poll reads   *)
(* can be counted up once more.                                            *)
AttemptsLeft ==
  \A e \in Events :
     /\ outbox[e].status = "FAILED"  => outbox[e].attempts = MaxAttempts
     /\ outbox[e].status = "PENDING" => outbox[e].attempts < MaxAttempts

(* The inductive invariant.                                                *)
OutboxInv ==
  /\ TypeOK
  /\ PublishedInHand
  /\ ProcessedWasPublished
  /\ AttemptsLeft

-----------------------------------------------------------------------------
(* A set of events has an oldest one.                                      *)
LEMMA OldestExists ==
  ASSUME NEW S \in SUBSET Events, S # {}
  PROVE  \E e \in S : \A f \in S : e <= f
<1>1. S \subseteq Nat
  BY OutboxAssumption DEF Events
<1>2. \E e \in S : \A f \in S : ~ (<<f, e>> \in OpToRel(<, Nat))
  BY <1>1, NatLessThanWellFounded, WFMin
<1>3. PICK e \in S : \A f \in S : ~ (<<f, e>> \in OpToRel(<, Nat))
  BY <1>2
<1>4. ASSUME NEW f \in S PROVE e <= f
  <2>1. e \in Nat /\ f \in Nat
    BY <1>1
  <2>2. f < e => <<f, e>> \in OpToRel(<, Nat)
    BY <2>1 DEF OpToRel
  <2>3. ~ (f < e)
    BY <1>3, <2>2, Zenon
  <2> QED
    BY <2>1, <2>3
<1> QED
  BY <1>4

(* A poll with something pending finds something.                          *)
LEMMA OldestNonEmpty ==
  ASSUME NEW S \in SUBSET Events, S # {}, NEW n \in Nat \ {0}
  PROVE  Oldest(S, n) # {} /\ Oldest(S, n) \subseteq S
<1>1. PICK e \in S : \A f \in S : e <= f
  BY OldestExists
<1>2. ASSUME NEW f \in S PROVE ~ (f < e)
  BY <1>1, OutboxAssumption DEF Events
<1>3. Cardinality({f \in S : f < e}) < n
  <2>1. {f \in S : f < e} = {}
    BY <1>2
  <2> QED
    BY <2>1, FS_EmptySet
<1> QED
  BY <1>3 DEF Oldest

(* A relay with a batch is at an event of it.                              *)
LEMMA CurrentInBatch ==
  ASSUME TypeOK, NEW r \in Relays, pc[r] \in {"publish", "processed", "failed"}
  PROVE  /\ Current(r) \in DOMAIN batch[r] /\ Current(r) \in Events
         /\ batch[r][Current(r)] \in 0..2
<1>1. DOMAIN batch[r] \in SUBSET Events /\ DOMAIN batch[r] # {}
  BY DEF TypeOK
<1>2. \E e \in DOMAIN batch[r] : \A f \in DOMAIN batch[r] : e <= f
  BY <1>1, OldestExists
<1>3. Current(r) \in DOMAIN batch[r]
  BY <1>2 DEF Current
<1> QED
  BY <1>1, <1>3 DEF TypeOK, Attempts, MaxAttempts

-----------------------------------------------------------------------------
(* One lemma per kind of write to a row, and one for the end of a turn.    *)
LEMMA ProcessedRow ==
  ASSUME OutboxInv, NEW e \in published, outbox' = Processed(e), published' = published
  PROVE  /\ outbox' \in [Events -> Row]
         /\ ProcessedWasPublished' /\ AttemptsLeft'
<1>1. e \in Events
  BY DEF OutboxInv, TypeOK
<1>2. /\ outbox' \in [Events -> Row]
      /\ outbox'[e].status = "PROCESSED"
      /\ \A f \in Events \ {e} : outbox'[f] = outbox[f]
  BY <1>1 DEF OutboxInv, TypeOK, Processed, Row, OutboxStatuses
<1> QED
  BY <1>1, <1>2 DEF OutboxInv, ProcessedWasPublished, AttemptsLeft

LEMMA FailedRow ==
  ASSUME OutboxInv, NEW e \in Events, NEW n \in 1..3,
         outbox' = Failed(e, n), published' = published
  PROVE  /\ outbox' \in [Events -> Row]
         /\ ProcessedWasPublished' /\ AttemptsLeft'
<1>1. /\ outbox' \in [Events -> Row]
      /\ outbox'[e] = [status |-> IF n >= 3 THEN "FAILED" ELSE "PENDING", attempts |-> n]
      /\ \A f \in Events \ {e} : outbox'[f] = outbox[f]
  BY DEF OutboxInv, TypeOK, Failed, Row, OutboxStatuses, Attempts, MaxAttempts
<1>2. \A f \in Events : f = e \/ outbox'[f] = outbox[f]
  BY <1>1
<1>3. ProcessedWasPublished'
  BY <1>1, <1>2 DEF OutboxInv, ProcessedWasPublished
<1>4. AttemptsLeft'
  BY <1>1, <1>2 DEF OutboxInv, AttemptsLeft, MaxAttempts
<1> QED
  BY <1>1, <1>3, <1>4

(* The parts of TypeOK about one relay.                                    *)
LEMMA NextEventTypes ==
  ASSUME TypeOK, NEW r \in Relays, pc[r] \in {"publish", "processed", "failed"},
         NextEvent(r), outbox' \in [Events -> Row]
  PROVE  TypeOK'
<1> DEFINE rest == DOMAIN batch[r] \ {Current(r)}
<1>1. /\ DOMAIN batch' = Relays
      /\ DOMAIN batch'[r] = rest
      /\ \A e \in rest : batch'[r][e] = batch[r][e]
      /\ \A s \in Relays \ {r} : batch'[s] = batch[s]
  BY DEF TypeOK, NextEvent
<1>2. /\ pc' \in [Relays -> {"wait", "publish", "processed", "failed", "down"}]
      /\ pc'[r] = IF rest = {} THEN "wait" ELSE "publish"
      /\ \A s \in Relays \ {r} : pc'[s] = pc[s]
  BY DEF TypeOK, NextEvent
<1>3. published' = published /\ cancelled' = cancelled
  BY DEF NextEvent
<1> QED
  BY <1>1, <1>2, <1>3 DEF TypeOK

(* The others' events stay as they are, and are on the topic if they were. *)
LEMMA InHandFrame ==
  ASSUME OutboxInv, NEW r \in Relays,
         \A s \in Relays \ {r} : pc'[s] = pc[s] /\ batch'[s] = batch[s],
         published \subseteq published',
         pc'[r] = "processed" => Current(r)' \in published'
  PROVE  PublishedInHand'
  BY DEF OutboxInv, PublishedInHand, Current

-----------------------------------------------------------------------------
(* A turn that ends with a row written and nothing published.              *)
LEMMA MarkInv ==
  ASSUME OutboxInv, NEW r \in Relays, pc[r] \in {"processed", "failed"}, NextEvent(r),
         outbox' \in [Events -> Row], ProcessedWasPublished', AttemptsLeft'
  PROVE  OutboxInv'
<1>1. TypeOK'
  BY NextEventTypes DEF OutboxInv
<1>2. /\ published' = published
      /\ pc'[r] # "processed"
      /\ \A s \in Relays \ {r} : pc'[s] = pc[s] /\ batch'[s] = batch[s]
  BY DEF OutboxInv, TypeOK, NextEvent
<1>3. PublishedInHand'
  BY <1>2, InHandFrame
<1> QED
  BY <1>1, <1>3 DEF OutboxInv

LEMMA MarkProcessedInv ==
  ASSUME OutboxInv, NEW r \in Relays, MarkProcessed(r)
  PROVE  OutboxInv'
<1>1. Current(r) \in published
  BY DEF OutboxInv, PublishedInHand, MarkProcessed
<1>2. published' = published /\ outbox' = Processed(Current(r))
  BY DEF MarkProcessed, NextEvent
<1> QED
  BY <1>1, <1>2, ProcessedRow, MarkInv DEF MarkProcessed

LEMMA MarkFailedInv ==
  ASSUME OutboxInv, NEW r \in Relays, MarkFailed(r)
  PROVE  OutboxInv'
<1>1. Current(r) \in Events /\ batch[r][Current(r)] + 1 \in 1..3
  BY CurrentInBatch DEF OutboxInv, MarkFailed
<1>2. published' = published /\ outbox' = Failed(Current(r), batch[r][Current(r)] + 1)
  BY DEF MarkFailed, NextEvent
<1> QED
  BY <1>1, <1>2, FailedRow, MarkInv DEF MarkFailed

(* A mark that fails is a mark, or none.                                   *)
LEMMA MarkFailsInv ==
  ASSUME OutboxInv, NEW r \in Relays, MarkFails(r)
  PROVE  OutboxInv'
<1>1. published' = published /\ NextEvent(r) /\ pc[r] \in {"processed", "failed"}
  BY DEF MarkFails, NextEvent
<1>2. CASE outbox' = outbox
  <2>1. outbox' \in [Events -> Row] /\ ProcessedWasPublished' /\ AttemptsLeft'
    BY <1>1, <1>2 DEF OutboxInv, TypeOK, ProcessedWasPublished, AttemptsLeft
  <2> QED
    BY <1>1, <2>1, MarkInv
<1>3. CASE pc[r] = "processed" /\ outbox' = Processed(Current(r))
  <2>1. Current(r) \in published
    BY <1>3 DEF OutboxInv, PublishedInHand
  <2> QED
    BY <1>1, <1>3, <2>1, ProcessedRow, MarkInv
<1>4. CASE pc[r] = "failed" /\ outbox' = Failed(Current(r), batch[r][Current(r)] + 1)
  <2>1. Current(r) \in Events /\ batch[r][Current(r)] + 1 \in 1..3
    BY <1>4, CurrentInBatch DEF OutboxInv
  <2> QED
    BY <1>1, <1>4, <2>1, FailedRow, MarkInv
<1> QED
  BY <1>2, <1>3, <1>4 DEF MarkFails

(* A step that writes no row and takes none from the topic.                *)
LEMMA RowsKept ==
  ASSUME OutboxInv, outbox' = outbox, published \subseteq published'
  PROVE  ProcessedWasPublished' /\ AttemptsLeft'
  BY DEF OutboxInv, ProcessedWasPublished, AttemptsLeft

LEMMA GetPendingInv ==
  ASSUME OutboxInv, NEW r \in Relays, GetPending(r)
  PROVE  OutboxInv'
<1>1. /\ Oldest(Pending, Limit[r]) # {}
      /\ Oldest(Pending, Limit[r]) \subseteq Pending /\ Pending \subseteq Events
  <2>1. Limit[r] \in Nat \ {0}
    BY OutboxAssumption
  <2> QED
    BY <2>1, OldestNonEmpty DEF GetPending, Pending
<1>2. \A e \in Pending : outbox[e].attempts \in Attempts \ {MaxAttempts}
  BY DEF OutboxInv, TypeOK, AttemptsLeft, Pending, Row, Attempts, MaxAttempts
<1>3. /\ DOMAIN batch' = Relays
      /\ batch'[r] = [e \in Oldest(Pending, Limit[r]) |-> outbox[e].attempts]
      /\ \A s \in Relays \ {r} : batch'[s] = batch[s]
  BY DEF GetPending, OutboxInv, TypeOK
<1>4. /\ pc' \in [Relays -> {"wait", "publish", "processed", "failed", "down"}]
      /\ pc'[r] = "publish" /\ \A s \in Relays \ {r} : pc'[s] = pc[s]
      /\ outbox' = outbox /\ published' = published /\ cancelled' = cancelled
  BY DEF GetPending, Goto, OutboxInv, TypeOK
<1>5. TypeOK'
  BY <1>1, <1>2, <1>3, <1>4 DEF OutboxInv, TypeOK
<1>6. PublishedInHand'
  BY <1>3, <1>4, InHandFrame
<1> QED
  BY <1>4, <1>5, <1>6, RowsKept DEF OutboxInv

LEMMA PublishInv ==
  ASSUME OutboxInv, NEW r \in Relays, Publish(r) \/ PublishFails(r)
  PROVE  OutboxInv'
<1>1. pc[r] = "publish" /\ outbox' = outbox /\ batch' = batch /\ cancelled' = cancelled
  BY DEF Publish, PublishFails, Goto
<1>2. Current(r) \in Events /\ Current(r)' = Current(r)
  BY <1>1, CurrentInBatch DEF OutboxInv, Current
<1>3. /\ published \subseteq published' /\ published' \subseteq Events
      /\ pc'[r] = "processed" => Current(r) \in published'
      /\ pc'[r] \in {"processed", "failed"} /\ pc' = [pc EXCEPT ![r] = pc'[r]]
  BY <1>2 DEF Publish, PublishFails, Goto, OutboxInv, TypeOK
<1>4. TypeOK'
  BY <1>1, <1>3 DEF OutboxInv, TypeOK
<1>5. PublishedInHand'
  BY <1>1, <1>2, <1>3, InHandFrame DEF OutboxInv, TypeOK
<1> QED
  BY <1>1, <1>3, <1>4, <1>5, RowsKept DEF OutboxInv

LEMMA SaveInv ==
  ASSUME OutboxInv, NEW e \in Events, Save(e)
  PROVE  OutboxInv'
<1>1. /\ outbox' \in [Events -> Row]
      /\ outbox'[e] = [status |-> "PENDING", attempts |-> 0]
      /\ \A f \in Events \ {e} : outbox'[f] = outbox[f]
      /\ UNCHANGED <<published, pc, batch, cancelled>>
  BY DEF Save, OutboxInv, TypeOK, Row, OutboxStatuses, Attempts, MaxAttempts
<1>2. \A f \in Events : f = e \/ outbox'[f] = outbox[f]
  BY <1>1
<1>3. ProcessedWasPublished'
  BY <1>1, <1>2 DEF OutboxInv, ProcessedWasPublished
<1>4. AttemptsLeft'
  BY <1>1, <1>2 DEF OutboxInv, AttemptsLeft, MaxAttempts
<1>5. TypeOK' /\ PublishedInHand'
  BY <1>1 DEF OutboxInv, TypeOK, PublishedInHand, Current
<1> QED
  BY <1>3, <1>4, <1>5 DEF OutboxInv

(* A signal, an end and a start of a process.                              *)
LEMMA ProcessInv ==
  ASSUME OutboxInv, NEW r \in Relays, Cancel(r) \/ Exit(r) \/ Restart(r)
  PROVE  OutboxInv'
<1>1. /\ outbox' = outbox /\ published' = published
      /\ \A s \in Relays \ {r} : pc'[s] = pc[s] /\ batch'[s] = batch[s]
  BY DEF Cancel, Exit, Restart, Goto, OutboxInv, TypeOK
<1>2. TypeOK'
  BY <1>1 DEF Cancel, Exit, Restart, Goto, OutboxInv, TypeOK, NoEvents
<1>3. PublishedInHand'
  <2>1. CASE Cancel(r)
    BY <2>1 DEF Cancel, OutboxInv, PublishedInHand, Current
  <2>2. CASE Exit(r) \/ Restart(r)
    BY <1>1, <2>2, InHandFrame DEF Exit, Restart, Goto, OutboxInv, TypeOK
  <2> QED
    BY <2>1, <2>2
<1> QED
  BY <1>1, <1>2, <1>3, RowsKept DEF OutboxInv

(* The invariant holds at the start, and every step keeps it.              *)
LEMMA OutboxInit == Init => OutboxInv
  BY DEF Init, OutboxInv, TypeOK, PublishedInHand, ProcessedWasPublished, AttemptsLeft,
         NoEvents, Row, Attempts, MaxAttempts

LEMMA OutboxStep == OutboxInv /\ [Next]_vars => OutboxInv'
<1> SUFFICES ASSUME OutboxInv, [Next]_vars PROVE OutboxInv'
  OBVIOUS
<1>1. ASSUME NEW e \in Events, Save(e) PROVE OutboxInv'
  BY <1>1, SaveInv
<1>2. CASE UNCHANGED vars
  BY <1>2 DEF vars, OutboxInv, TypeOK, PublishedInHand, Current,
              ProcessedWasPublished, AttemptsLeft
<1>3. ASSUME NEW r \in Relays, Run(r) PROVE OutboxInv'
  BY <1>2, <1>3, GetPendingInv, PublishInv, MarkProcessedInv, MarkFailedInv, MarkFailsInv
     DEF Run, GetsNothing
<1>4. ASSUME NEW r \in Relays, Cancel(r) \/ Exit(r) \/ Restart(r) PROVE OutboxInv'
  BY <1>4, ProcessInv
<1> QED
  BY <1>1, <1>2, <1>3, <1>4 DEF Next

(* Who may still write a row that is settled, for one step.                *)
LEMMA SettledStep ==
  ASSUME OutboxInv, [Next]_vars, NEW e \in Events, Settled(e)
  PROVE  /\ Holders(e)' \subseteq Holders(e)
         /\ Holders(e) = {} => outbox'[e] = outbox[e]
<1>1. e \notin Pending
  BY DEF Settled, Pending
<1>2. ASSUME NEW d \in Events, Save(d)
      PROVE  batch' = batch /\ outbox'[e] = outbox[e]
  BY <1>2 DEF Save, Settled, OutboxInv, TypeOK
<1>3. ASSUME NEW r \in Relays, GetPending(r)
      PROVE  /\ outbox' = outbox
             /\ \A s \in Relays : e \in DOMAIN batch'[s] => e \in DOMAIN batch[s]
  <2>1. Oldest(Pending, Limit[r]) \subseteq Pending
    BY DEF Oldest
  <2> QED
    BY <1>1, <1>3, <2>1 DEF GetPending, OutboxInv, TypeOK
<1>4. ASSUME NEW r \in Relays, MarkProcessed(r) \/ MarkFailed(r) \/ MarkFails(r)
      PROVE  /\ \A s \in Relays : e \in DOMAIN batch'[s] => e \in DOMAIN batch[s]
             /\ r \notin Holders(e) => outbox'[e] = outbox[e]
  <2>1. NextEvent(r) /\ Current(r) \in DOMAIN batch[r]
    BY <1>4, CurrentInBatch DEF MarkProcessed, MarkFailed, MarkFails, OutboxInv
  <2>2. \A s \in Relays : e \in DOMAIN batch'[s] => e \in DOMAIN batch[s]
    BY <2>1 DEF NextEvent, OutboxInv, TypeOK
  <2>3. e # Current(r) => outbox'[e] = outbox[e]
    BY <1>4 DEF MarkProcessed, MarkFailed, MarkFails, Processed, Failed, OutboxInv, TypeOK
  <2> QED
    BY <2>1, <2>2, <2>3 DEF Holders
<1>5. ASSUME NEW r \in Relays,
             GetsNothing(r) \/ Publish(r) \/ PublishFails(r) \/ Cancel(r) \/ Exit(r) \/ Restart(r)
      PROVE  /\ outbox' = outbox
             /\ \A s \in Relays : e \in DOMAIN batch'[s] => e \in DOMAIN batch[s]
  BY <1>5 DEF GetsNothing, vars, Publish, PublishFails, Cancel, Exit, Restart,
              NoEvents, OutboxInv, TypeOK
<1>6. CASE UNCHANGED vars
  BY <1>6 DEF vars, Holders
<1> QED
  BY <1>2, <1>3, <1>4, <1>5, <1>6 DEF Next, Run, Holders

(* A relay only ever holds, and publishes, events that were saved.         *)
Saved == {e \in Events : outbox[e].status # "ABSENT"}

SavedInv ==
  /\ \A r \in Relays : DOMAIN batch[r] \subseteq Saved
  /\ published \subseteq Saved

(* No relay saves an event or unsaves one.                                 *)
LEMMA SavedByNoRelay ==
  ASSUME OutboxInv, NEW r \in Relays, Run(r) \/ Cancel(r) \/ Exit(r) \/ Restart(r), SavedInv
  PROVE  Saved' = Saved
<1>1. CASE UNCHANGED outbox
  BY <1>1 DEF Saved
<1>2. CASE MarkProcessed(r) \/ MarkFailed(r) \/ MarkFails(r)
  <2>1. Current(r) \in Saved /\ Current(r) \in Events
    BY <1>2, CurrentInBatch DEF MarkProcessed, MarkFailed, MarkFails, OutboxInv, SavedInv
  <2>2. PICK e \in Saved : e = Current(r)
    BY <2>1
  <2>3. /\ \A f \in Events \ {e} : outbox'[f] = outbox[f]
        /\ outbox'[e].status # "ABSENT"
    BY <1>2, <2>2 DEF MarkProcessed, MarkFailed, MarkFails, Processed, Failed, Saved,
                      OutboxInv, TypeOK, Row
  <2> QED
    BY <2>2, <2>3 DEF Saved
<1> QED
  BY <1>1, <1>2 DEF Run, GetPending, GetsNothing, vars, Publish, PublishFails, Cancel, Exit,
                    Restart

(* What is held and published stays saved.                                 *)
LEMMA SavedStep ==
  ASSUME OutboxInv, [Next]_vars, SavedInv
  PROVE  SavedInv' /\ Saved \subseteq Saved'
<1>1. ASSUME NEW d \in Events, Save(d)
      PROVE  SavedInv' /\ Saved \subseteq Saved'
  BY <1>1 DEF Save, SavedInv, Saved, OutboxInv, TypeOK
<1>2. ASSUME NEW r \in Relays, Run(r) \/ Cancel(r) \/ Exit(r) \/ Restart(r)
      PROVE  SavedInv' /\ Saved' = Saved
  <2>1. Saved' = Saved
    BY <1>2, SavedByNoRelay
  <2>2. \A s \in Relays : DOMAIN batch'[s] \subseteq DOMAIN batch[s] \cup Pending
    <3>1. CASE GetPending(r)
      <4>1. Oldest(Pending, Limit[r]) \subseteq Pending
        BY DEF Oldest
      <4> QED
        BY <3>1, <4>1 DEF GetPending, OutboxInv, TypeOK
    <3>2. CASE NextEvent(r)
      BY <3>2 DEF NextEvent, OutboxInv, TypeOK
    <3>3. CASE Exit(r)
      BY <3>3 DEF Exit, NoEvents, OutboxInv, TypeOK
    <3>4. CASE UNCHANGED batch
      BY <3>4
    <3> QED
      BY <1>2, <3>1, <3>2, <3>3, <3>4 DEF Run, GetsNothing, vars, Publish, PublishFails,
           MarkProcessed, MarkFailed, MarkFails, Cancel, Restart
  <2>3. Pending \subseteq Saved
    BY DEF Pending, Saved
  <2>4. published' \subseteq published \cup Saved
    <3>1. pc[r] = "publish" => Current(r) \in Saved
      BY CurrentInBatch DEF OutboxInv, SavedInv
    <3> QED
      BY <1>2, <3>1 DEF Run, GetPending, GetsNothing, vars, Publish, PublishFails, Goto,
                        MarkProcessed, MarkFailed, MarkFails, NextEvent, Cancel, Exit, Restart
  <2> QED
    BY <2>1, <2>2, <2>3, <2>4 DEF SavedInv
<1>3. CASE UNCHANGED vars
  BY <1>3 DEF vars, SavedInv, Saved
<1> QED
  BY <1>1, <1>2, <1>3 DEF Next

-----------------------------------------------------------------------------
(* The inductive invariant holds of every behaviour.                       *)
THEOREM OutboxInvariance == Spec => []OutboxInv
  BY OutboxInit, OutboxStep, PTL DEF Spec

(* Every variable of the relays keeps its type.                            *)
THEOREM OutboxTypes == Spec => []TypeOK
<1>1. OutboxInv => TypeOK
  BY DEF OutboxInv
<1> QED
  BY <1>1, OutboxInvariance, PTL

(* A row is PROCESSED only if its message reached the topic, for any       *)
(* number of relays and events and whatever fails.                         *)
THEOREM MarkedAfterPublish == Spec => []ProcessedWasPublished
<1>1. OutboxInv => ProcessedWasPublished
  BY DEF OutboxInv
<1> QED
  BY <1>1, OutboxInvariance, PTL

(* No relay takes a settled event up again, and its row is left alone once *)
(* its last holder is through.                                             *)
THEOREM SettledStays == Spec => SettledIsFinal
<1>1. ASSUME OutboxInv, [Next]_vars
      PROVE  [\A e \in Events : Settled(e) =>
                /\ Holders(e)' \subseteq Holders(e)
                /\ Holders(e) = {} => outbox'[e] = outbox[e]]_vars
  BY <1>1, SettledStep
<1> QED
  BY <1>1, OutboxInvariance, PTL DEF Spec, SettledIsFinal

(* With a broker that accepts what it is given, and no signal, no relay    *)
(* ever counts a failed attempt.                                           *)
NoneGivenUp == \A e \in Events : outbox[e].status # "FAILED"

ServedInv ==
  /\ cancelled = {}
  /\ \A r \in Relays : pc[r] # "failed"
  /\ NoneGivenUp

LEMMA ServedStep ==
  ASSUME OutboxInv, ServedInv, Faults \cap {"broker", "shutdown"} = {}, [Next]_vars
  PROVE  ServedInv'
<1>1. ASSUME NEW e \in Events, Save(e) PROVE ServedInv'
  BY <1>1 DEF Save, ServedInv, NoneGivenUp, OutboxInv, TypeOK
<1>2. ASSUME NEW r \in Relays, Run(r) \/ Cancel(r) \/ Exit(r) \/ Restart(r)
      PROVE  ServedInv'
  <2>1. CASE GetPending(r) \/ Publish(r)
    BY <1>2, <2>1 DEF GetPending, Publish, Goto, ServedInv, NoneGivenUp, OutboxInv, TypeOK
  <2>2. CASE MarkProcessed(r) \/ MarkFailed(r) \/ MarkFails(r)
    <3>1. pc[r] = "processed" /\ NextEvent(r)
      BY <2>2 DEF MarkProcessed, MarkFailed, MarkFails, ServedInv
    <3>2. outbox' \in {outbox, Processed(Current(r))}
      BY <2>2, <3>1 DEF MarkProcessed, MarkFailed, MarkFails
    <3>3. cancelled' = {} /\ \A s \in Relays : pc'[s] # "failed"
      BY <3>1 DEF NextEvent, ServedInv, OutboxInv, TypeOK
    <3>4. Current(r) \in Events
      BY <3>1, CurrentInBatch DEF OutboxInv
    <3>5. NoneGivenUp'
      BY <3>2, <3>4 DEF Processed, ServedInv, NoneGivenUp, OutboxInv, TypeOK, Row
    <3> QED
      BY <3>3, <3>5 DEF ServedInv
  <2>3. CASE Exit(r) \/ Restart(r)
    BY <2>3 DEF Exit, Restart, Goto, ServedInv, NoneGivenUp, OutboxInv, TypeOK
  <2>4. CASE GetsNothing(r)
    BY <2>4 DEF GetsNothing, vars, ServedInv, NoneGivenUp
  <2>5. ~ PublishFails(r) /\ ~ Cancel(r)
    BY DEF PublishFails, Cancel, MayFail, ServedInv
  <2> QED
    BY <1>2, <2>1, <2>2, <2>3, <2>4, <2>5 DEF Run
<1>3. CASE UNCHANGED vars
  BY <1>3 DEF vars, ServedInv, NoneGivenUp
<1> QED
  BY <1>1, <1>2, <1>3 DEF Next

LEMMA ServedInit == Init => ServedInv
  BY DEF Init, ServedInv, NoneGivenUp

(* An event is given up only for the broker's failures or a signal: no     *)
(* failure of Postgres and no crash makes it FAILED, whatever relays race. *)
(* outbox_gives_up needs its broker.                                       *)
THEOREM GivesUpOnlyOnBroker ==
  Faults \cap {"broker", "shutdown"} = {} => (Spec => []NoneGivenUp)
<1> SUFFICES ASSUME Faults \cap {"broker", "shutdown"} = {} PROVE Spec => []NoneGivenUp
  OBVIOUS
<1>1. OutboxInv /\ ServedInv /\ [Next]_vars => ServedInv'
  BY ServedStep
<1>2. ServedInv => NoneGivenUp
  BY DEF ServedInv
<1> QED
  BY <1>1, <1>2, ServedInit, OutboxInvariance, PTL DEF Spec
=============================================================================
