--------------------------- MODULE PaymentLifecycle ---------------------------
(***************************************************************************)
(* What processing promises for each payment, whatever broker, cache,      *)
(* crashes and retries lie underneath.  A stored payment is accepted once, *)
(* the gateway approves it at most while it is being processed, and it     *)
(* settles once, with the status the gateway's answer calls for.  A        *)
(* settled payment never changes.  PaymentWorker implements this when the  *)
(* consumer group has one member.                                          *)
(***************************************************************************)
EXTENDS Payment

CONSTANT Payments

VARIABLES status,     \* the status of each payment, or Absent
          authorized  \* the payments the gateway has approved

lifecycle == <<status, authorized>>

Init ==
  /\ status \in [Payments -> {Absent, StatusPending}]
  /\ authorized = {}

Create(id) ==
  /\ status[id] = Absent
  /\ status' = [status EXCEPT ![id] = StatusPending]
  /\ UNCHANGED authorized

Accept(id) ==
  /\ status[id] = StatusPending
  /\ status' = [status EXCEPT ![id] = StatusProcessing]
  /\ UNCHANGED authorized

Authorize(id) ==
  /\ status[id] = StatusProcessing
  /\ authorized' = authorized \cup {id}
  /\ UNCHANGED status

(* Approved exactly when the gateway approved: no charge is recorded as a  *)
(* failure, and no failure as a charge.                                    *)
Settle(id) ==
  /\ status[id] = StatusProcessing
  /\ \E s \in Terminal :
        /\ (s = StatusApproved) <=> (id \in authorized)
        /\ status' = [status EXCEPT ![id] = s]
  /\ UNCHANGED authorized

Next == \E id \in Payments :
          Create(id) \/ Accept(id) \/ Authorize(id) \/ Settle(id)

Spec == Init /\ [][Next]_lifecycle
=============================================================================
