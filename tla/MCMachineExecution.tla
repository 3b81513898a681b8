-------------------------- MODULE MCMachineExecution --------------------------
(* Instances of MachineExecution for TLC. *)
EXTENDS MachineExecution, TLC

CallSymmetry == Permutations(Calls)
Symmetry     == CallSymmetry \cup Permutations(Attempts) \cup Permutations(Stamps)

\* All but the answers: no step depends on one that was given before.
Unanswered == <<call, ledger, remote, torn, finished, clock>>

\* Nor does one depend on the state in a record, which is for the answers, or on the exit
\* code of a submission but where it is confirmed what became of it.
Stateless(record) == IF record = None THEN None ELSE [record EXCEPT !.state = "registered"]
Decisive ==
    <<[r \in Calls |-> IF At(r, "confirm") THEN call[r] ELSE [call[r] EXCEPT !.exit = FALSE]],
      [a \in Attempts |-> Stateless(ledger[a])], remote, torn, finished, clock>>

=============================================================================
