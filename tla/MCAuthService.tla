--------------------------- MODULE MCAuthService ---------------------------
(* A small instance of AuthService for TLC.  The long password is p1 with  *)
(* more behind its 72 bytes.                                               *)
EXTENDS AuthService, TLC

CONSTANTS p1, p2, short, empty, long

MCPasswords == {p1, p2, short, empty, long}
MCFirst72   == [p \in MCPasswords |-> IF p = long THEN p1 ELSE p]

Symmetry  == Permutations(Requests)
AllFaults == {"db"}
=============================================================================
