------------------------------ MODULE MCPipeline ------------------------------
(* A small instance of Pipeline for TLC.                                   *)
EXTENDS Pipeline, TLC

GoodOnly   == {"good"}
OnePerPoll == [a \in Apis |-> 1]
ApiFaults  == {"db", "crash"}
SignalOnly == {"shutdown"}
CrashOnly  == {"crash"}
=============================================================================
