-------------------------- MODULE MCCircuitBreaker --------------------------
(* The breaker with the settings of the code, in ticks of 500 ms, for TLC. *)
EXTENDS CircuitBreaker

Seconds(n) == 2 * n
FiveSeconds == Seconds(5)
TenSeconds  == Seconds(10)
=============================================================================
