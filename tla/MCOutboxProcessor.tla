-------------------------- MODULE MCOutboxProcessor --------------------------
(* Small instances of OutboxProcessor for TLC.  One relay polls one event  *)
(* at a time, so that its polls leave events behind, and the other two, so *)
(* that its batches have an event behind the first.                        *)
EXTENDS OutboxAttempts, TLC

CONSTANT r1

OneOrTwo   == [r \in Relays |-> IF r = r1 THEN 1 ELSE 2]
AllFaults  == {"db", "broker", "crash", "shutdown"}
BrokerOnly == {"broker"}
=============================================================================
