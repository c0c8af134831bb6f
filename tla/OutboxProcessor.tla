--------------------------- MODULE OutboxProcessor ---------------------------
(***************************************************************************)
(* The transactional outbox: the outbox_events table of                    *)
(* internal/infrastructure/postgres/outbox_repository.go and the polling   *)
(* loop of internal/application/outbox_processor.go, which every API       *)
(* process runs (cmd/api/main.go 121-125).                                 *)
(*                                                                         *)
(* A relay polls the oldest pending events, and for each of them, in       *)
(* order, publishes and then marks the row.  Publishing and marking are    *)
(* separate steps, nothing locks the rows, and the attempts a failure      *)
(* writes are those read by the poll, plus one.                            *)
(***************************************************************************)
EXTENDS Naturals, FiniteSets

CONSTANTS Relays,   \* API processes, each running one processor
          NEvents,  \* bound: how many events are ever saved
          Limit,    \* each processor's events per poll (10 in cmd/api/main.go)
          Faults    \* bound: the kinds of failure that may occur

ASSUME OutboxAssumption ==
  /\ NEvents \in Nat
  /\ Limit \in [Relays -> Nat \ {0}]
  /\ Faults \subseteq {"db", "broker", "crash", "shutdown"}

VARIABLES outbox,     \* the row of each event
          published,  \* the events that reached their Kafka topic
          pc,         \* where each relay is
          batch,      \* the events each relay polled and has not finished,
                      \* with the attempts it read
          cancelled   \* the relays whose context is cancelled

(* A relay between two polls holds no events.                              *)
NoEvents == [e \in {} |-> 0]

vars == <<outbox, published, pc, batch, cancelled>>

(* Events are numbered by created_at, the order of GetPending.             *)
Events == 1..NEvents

MaxAttempts == 3
Attempts == 0..MaxAttempts
OutboxStatuses == {"PENDING", "PROCESSED", "FAILED"}
Row == [status : OutboxStatuses \cup {"ABSENT"}, attempts : Attempts]

(* (The first is a mutant: all that is not PROCESSED is polled.)           *)
Unprocessed == {e \in Events : outbox[e].status \in {"PENDING", "FAILED"}}
Pending == {e \in Events : outbox[e].status = "PENDING"}
Oldest(S, n) == {e \in S : Cardinality({f \in S : f < e}) < n}

(* The event a relay is at: the oldest left in its batch.                  *)
Current(r) == CHOOSE e \in DOMAIN batch[r] : \A f \in DOMAIN batch[r] : e <= f

Goto(r, from, to) == pc[r] = from /\ pc' = [pc EXCEPT ![r] = to]
MayFail(r, kind) == r \in cancelled \/ kind \in Faults

-----------------------------------------------------------------------------
(* OutboxRepository.Save, committed with its payment.  created_at is taken *)
(* before the commit, so an older event may appear after a newer one.      *)
Save(e) ==
  /\ outbox[e].status = "ABSENT"
  /\ outbox' = [outbox EXCEPT ![e] = [status |-> "PENDING", attempts |-> 0]]
  /\ UNCHANGED <<published, pc, batch, cancelled>>

(* A tick: GetPending.                                                     *)
GetPending(r) ==
  /\ r \notin cancelled
  /\ Pending # {}
  /\ Goto(r, "wait", "publish")
  /\ batch' = [batch EXCEPT ![r] = [e \in Oldest(Pending, Limit[r]) |-> outbox[e].attempts]]
  /\ UNCHANGED <<outbox, published, cancelled>>

(* With nothing pending, or an error, the relay waits for the next tick.   *)
GetsNothing(r) ==
  /\ pc[r] = "wait" /\ r \notin cancelled
  /\ Pending = {} \/ MayFail(r, "db")
  /\ UNCHANGED vars

Publish(r) ==
  /\ Goto(r, "publish", "processed")
  /\ published' = published \cup {Current(r)}
  /\ UNCHANGED <<outbox, batch, cancelled>>

(* Mutant: a publish that fails is taken for one that succeeded.           *)
PublishFailsUnnoticed(r) ==
  /\ MayFail(r, "broker")
  /\ Goto(r, "publish", "processed")
  /\ UNCHANGED <<outbox, published, batch, cancelled>>

(* An error from the broker, after which the message may exist or not.     *)
PublishFails(r) ==
  /\ MayFail(r, "broker")
  /\ Goto(r, "publish", "failed")
  /\ published' \in {published, published \cup {Current(r)}}
  /\ UNCHANGED <<outbox, batch, cancelled>>

(* The loop goes on to the next event of the batch, or waits for a tick.   *)
NextEvent(r) ==
  LET rest == DOMAIN batch[r] \ {Current(r)} IN
  /\ batch' = [batch EXCEPT ![r] = [e \in rest |-> batch[r][e]]]
  /\ pc' = [pc EXCEPT ![r] = IF rest = {} THEN "wait" ELSE "publish"]
  /\ UNCHANGED <<published, cancelled>>

Processed(e) == [outbox EXCEPT ![e].status = "PROCESSED"]

MarkProcessed(r) ==
  /\ pc[r] = "processed" /\ r \notin cancelled
  /\ outbox' = Processed(Current(r))
  /\ NextEvent(r)

(* The row MarkFailed writes.  Mutants: it gives up one attempt late or    *)
(* early, or forgets to count.                                             *)
FailedOneLate(e, attempts) ==
  [outbox EXCEPT ![e] =
     [status   |-> IF attempts > MaxAttempts THEN "FAILED" ELSE "PENDING",
      attempts |-> attempts]]

FailedOneEarly(e, attempts) ==
  [outbox EXCEPT ![e] =
     [status   |-> IF attempts >= MaxAttempts - 1 THEN "FAILED" ELSE "PENDING",
      attempts |-> attempts]]

FailedButRetried(e, attempts) ==
  [outbox EXCEPT ![e] = [status |-> "PENDING", attempts |-> 0]]

Failed(e, attempts) ==
  [outbox EXCEPT ![e] =
     [status   |-> IF attempts >= MaxAttempts THEN "FAILED" ELSE "PENDING",
      attempts |-> attempts]]

MarkFailed(r) ==
  /\ pc[r] = "failed" /\ r \notin cancelled
  /\ outbox' = Failed(Current(r), batch[r][Current(r)] + 1)
  /\ NextEvent(r)

(* Either UPDATE fails, applied or not; the error is logged.               *)
MarkFails(r) ==
  /\ MayFail(r, "db")
  /\ \/ pc[r] = "processed" /\ outbox' \in {outbox, Processed(Current(r))}
     \/ pc[r] = "failed"
        /\ outbox' \in {outbox, Failed(Current(r), batch[r][Current(r)] + 1)}
  /\ NextEvent(r)

(* outboxCancel: every later call of the relay fails, and the loop ends at *)
(* the next tick.                                                          *)
Cancel(r) ==
  /\ "shutdown" \in Faults
  /\ pc[r] # "down" /\ r \notin cancelled
  /\ cancelled' = cancelled \cup {r}
  /\ UNCHANGED <<outbox, published, pc, batch>>

(* The API process ends: main returns without waiting for the relay.       *)
Exit(r) ==
  /\ pc[r] # "down"
  /\ r \in cancelled \/ "crash" \in Faults
  /\ pc' = [pc EXCEPT ![r] = "down"]
  /\ batch' = [batch EXCEPT ![r] = NoEvents]
  /\ UNCHANGED <<outbox, published, cancelled>>

Restart(r) ==
  /\ Goto(r, "down", "wait")
  /\ cancelled' = cancelled \ {r}
  /\ UNCHANGED <<outbox, published, batch>>

-----------------------------------------------------------------------------
Init ==
  /\ outbox = [e \in Events |-> [status |-> "ABSENT", attempts |-> 0]]
  /\ published = {}
  /\ pc = [r \in Relays |-> "wait"]
  /\ batch = [r \in Relays |-> NoEvents]
  /\ cancelled = {}

Run(r) ==
  \/ GetPending(r) \/ GetsNothing(r) \/ Publish(r) \/ PublishFails(r)
  \/ MarkProcessed(r) \/ MarkFailed(r) \/ MarkFails(r)

Next ==
  \/ \E e \in Events : Save(e)
  \/ \E r \in Relays : Run(r) \/ Cancel(r) \/ Exit(r) \/ Restart(r)

Spec == Init /\ [][Next]_vars

(* The ticker keeps ticking, and Postgres, asked again and again, accepts  *)
(* a mark in the end.  Nothing is assumed of the broker.                   *)
Fairness ==
  \A r \in Relays :
     WF_vars(Run(r)) /\ SF_vars(MarkProcessed(r) \/ MarkFailed(r))

FairSpec == Spec /\ Fairness

-----------------------------------------------------------------------------
(* Every variable keeps its type, and a relay holds a batch exactly while  *)
(* it is working through one, of events with an attempt left.              *)
TypeOK ==
  /\ outbox \in [Events -> Row]
  /\ published \subseteq Events
  /\ pc \in [Relays -> {"wait", "publish", "processed", "failed", "down"}]
  /\ DOMAIN batch = Relays
  /\ \A r \in Relays :
       /\ DOMAIN batch[r] \subseteq Events
       /\ \A e \in DOMAIN batch[r] : batch[r][e] \in Attempts \ {MaxAttempts}
       /\ DOMAIN batch[r] = {} <=> pc[r] \in {"wait", "down"}
  /\ cancelled \subseteq Relays

(* A row is PROCESSED only if its message reached the topic, whatever is   *)
(* lost, repeated or done by two relays at once.                           *)
ProcessedWasPublished ==
  \A e \in Events : outbox[e].status = "PROCESSED" => e \in published

(* A relay may still hold an event that another one has settled, with the *)
(* attempts it read before, and its MarkFailed may even reopen the row.    *)
(* But no relay takes a settled event up again, and once the last one that *)
(* holds it is through, its row is never written again.                    *)
Settled(e) == outbox[e].status \in {"PROCESSED", "FAILED"}
Holders(e) == {r \in Relays : e \in DOMAIN batch[r]}

SettledIsFinal ==
  [][\A e \in Events : Settled(e) =>
       /\ Holders(e)' \subseteq Holders(e)
       /\ Holders(e) = {} => outbox'[e] = outbox[e]]_vars

(* However the broker behaves, as long as one relay is left running, every *)
(* saved event is settled in the end, and stays settled: relays with stale *)
(* attempts do not reopen it for ever.                                     *)
Running(r) == pc[r] # "down" /\ r \notin cancelled

SettlesForGood ==
  (\E r \in Relays : <>[]Running(r))
    => \A e \in Events : outbox[e].status = "PENDING" ~> []Settled(e)

(* "at-least-once delivery" (README.md 22): no event is given up before it *)
(* has reached its topic.                                                  *)
NeverLost ==
  \A e \in Events : outbox[e].status = "FAILED" => e \in published
=============================================================================
