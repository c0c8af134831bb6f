--------------------------- MODULE MCPaymentWorker ---------------------------
(***************************************************************************)
(* Small instances of PaymentWorker for TLC.  They differ in the number of *)
(* workers and in Faults, the kinds of failure let loose.                  *)
(***************************************************************************)
EXTENDS PaymentWorker, TLC

(* Sound for invariants: no operator tells two workers apart.              *)
Symmetry == Permutations(Workers)

AllFaults    == FaultKinds
GroupFaults  == {"db", "shutdown"}
DbFaults     == {"db"}
NoFaults     == {}
=============================================================================
