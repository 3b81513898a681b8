--------------------------- MODULE MCRemoteAttempt ---------------------------
(* Instances of RemoteAttempt for TLC. *)
EXTENDS RemoteAttempt, TLC

CONSTANTS r1, r2, a1, d1

TwoRequests == {r1, r2}
OneAttempt  == {a1}
OnlyDir     == a1 :> d1

Symmetry == Permutations(Requests) \cup Permutations(Prints)

=============================================================================
