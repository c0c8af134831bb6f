--------------------------- MODULE MCPaymentService ---------------------------
(* Small instances of PaymentService for TLC.                              *)
EXTENDS PaymentService, TLC

Symmetry   == Permutations(Requests)
OneOutcome == {StatusApproved}
AllFaults  == {"redis", "db", "crash", "keyTTL"}
NoFaults   == {}
===============================================================================
