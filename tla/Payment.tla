------------------------------- MODULE Payment -------------------------------
(***************************************************************************)
(* The payment entity of internal/domain/payment.go: its statuses and the  *)
(* transition table, which the other modules share.                        *)
(***************************************************************************)
EXTENDS Naturals

StatusPending    == "PENDING"
StatusProcessing == "PROCESSING"
StatusApproved   == "APPROVED"
StatusRejected   == "REJECTED"
StatusFailed     == "FAILED"

Terminal == {StatusApproved, StatusRejected, StatusFailed}
Statuses == {StatusPending, StatusProcessing} \cup Terminal

(* No row in Postgres, or no entry in Redis: not a status of the code.     *)
Absent == "ABSENT"

(* The switch of CanTransitionTo: terminal and unknown statuses go nowhere. *)
CanTransitionTo(from, to) ==
  \/ from = StatusPending    /\ to \in {StatusProcessing, StatusFailed}
  \/ from = StatusProcessing /\ to \in Terminal

(* TransitionTo leaves the entity as it was when it returns                *)
(* ErrInvalidStatus, and the worker ignores that error.                    *)
TransitionTo(from, to) == IF CanTransitionTo(from, to) THEN to ELSE from

(* How far along its life a payment is.                                    *)
Rank(s) == CASE s = Absent           -> 0
             [] s = StatusPending    -> 1
             [] s = StatusProcessing -> 2
             [] OTHER                -> 3
=============================================================================
