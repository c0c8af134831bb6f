---------------------------- MODULE OutboxAttempts ----------------------------
(***************************************************************************)
(* OutboxProcessor with a history of what its rows do not tell: how often  *)
(* the publish of one event has failed, whichever relay tried.  The        *)
(* attempts in the row are only what the last MarkFailed wrote there.  A   *)
(* failure whose mark was lost is not in them, and with two relays a mark  *)
(* with attempts that were read before the other's lowers them.            *)
(***************************************************************************)
EXTENDS OutboxProcessor

CONSTANT Watched  \* the event whose failures are counted: any one

ASSUME WatchedAssumption == Watched \in Events

VARIABLE failures  \* history: the failed publishes of Watched, up to MaxAttempts

historyVars == <<vars, failures>>

WatchedFails == \E r \in Relays : PublishFails(r) /\ Current(r) = Watched

HistoryInit == Init /\ failures = 0

HistoryNext ==
  /\ Next
  /\ failures' = IF WatchedFails /\ failures < MaxAttempts THEN failures + 1 ELSE failures

HistorySpec == HistoryInit /\ [][HistoryNext]_historyVars

HistoryFairSpec == HistorySpec /\ Fairness

-----------------------------------------------------------------------------
(* An event is given up only after three of its publishes have failed:     *)
(* neither two relays that count the same failure, nor attempts that are   *)
(* stale, nor a mark that is applied though it reported an error, uses up  *)
(* an attempt that was not made (outbox_processor.go 77,                   *)
(* outbox_repository.go 115).  The converse does not hold: a lost or stale *)
(* mark lets the relays fail more often before they give up.               *)
GivenUpForCause ==
  outbox[Watched].status = "FAILED" => failures = MaxAttempts
=============================================================================
