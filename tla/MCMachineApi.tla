---------------------------- MODULE MCMachineApi ----------------------------
(* An instance of MachineApi for TLC.                                       *)
EXTENDS MachineApi, TLC

CONSTANTS r1, r2

\* What the treatments make of a Desired Output is checked by BrowserFlow.
Si == [elements |-> <<"Si">>, most |-> "Si", dim |-> "3", guesses |-> {}, constrained |-> FALSE]

Asked(text, cpus) ==
    [structure |-> Si, text |-> text, name |-> "custom",
     workflow |-> Workflow(DESIRED_OUTPUTS.energy_only, Absent), cpus |-> cpus]

Energy    == Asked("POSCAR", 1)
Commented == Asked("POSCAR with a comment", 1)
Large     == Asked("POSCAR", 2)

\* A change of the runtime's files and, from the restart on, of the policy; and one of the
\* packages.
Version(policy, packages, manifest) == [policy |-> policy, packages |-> packages, manifest |-> manifest]
SomeVersions == <<Version(1, 1, 1), Version(2, 1, 2), Version(1, 2, 1)>>

Entry(principal, id, scopes, enabled) ==
    [principal |-> principal, id |-> id, secret |-> id, scopes |-> scopes, enabled |-> enabled]
Header(id, secret) == [id |-> id, secret |-> secret]

\* Alice may submit and Bob may not; Alice's old token is disabled; and two files that are refused.
SomeFiles ==
    {<<Entry("alice", "a", {"read", "plan", "prepare", "submit"}, TRUE),
       Entry("alice", "old", {"submit"}, FALSE),
       Entry("bob", "b", {"read", "prepare"}, TRUE)>>,
     <<Entry("bob", "b", {"submit", "everything"}, TRUE)>>,
     <<Entry("bob", "b", {"submit"}, TRUE), Entry("alice", "b", {"submit"}, TRUE)>>}

Digest(body, version) == compute_plan_digest(PlanOf(body, Absent, version.policy, version))

PutOf(id, kind, body, version) ==
    [header |-> Header(id, id), kind |-> kind, body |-> body, expected |-> Digest(body, version)]

GetOf(id) == [header |-> Header(id, id), kind |-> "get", body |-> Absent, expected |-> Absent]

SomeRequests ==
    {PutOf("a", "submit", Energy, SomeVersions[1]), PutOf("a", "submit", Energy, SomeVersions[2]),
     PutOf("a", "prepare", Energy, SomeVersions[1]), PutOf("a", "submit", Commented, SomeVersions[1]),
     PutOf("a", "submit", Large, SomeVersions[1]), PutOf("b", "submit", Energy, SomeVersions[1]),
     PutOf("b", "prepare", Energy, SomeVersions[1]), PutOf("old", "submit", Energy, SomeVersions[1]),
     GetOf("a"), GetOf("b"),
     [PutOf("b", "prepare", Energy, SomeVersions[1]) EXCEPT !.header.id = "a"]}

ApiSymmetry == Permutations(Calls) \cup Permutations(Stamps)

\* All but what no step depends on: the answers, and the state of a record, which is for them;
\* the exit code of a submission but where it is confirmed what became of it; a plan once
\* something is prepared from it; who asked, once it was carried out; and, as one attempt
\* fills no cap, whether its job has ended.
Kept(record) ==
    IF record = None THEN None ELSE [record EXCEPT !.state = "registered", !.terminal = FALSE]
Seen(r) ==
    CASE At(r, "confirm")         -> call[r]
      [] At(r, "store_scheduler") -> [call[r] EXCEPT !.seen = None, !.exit = FALSE]
      [] OTHER                    -> [call[r] EXCEPT !.exit = FALSE]
Planned(r)    == \E pc \in {"bind", "register", "read_remote", "prepare_remote"} : At(r, pc)
CarriedOut(r) ==
    \E pc \in {"record", "confirm", "release", "record_lookup", "scheduler", "store_scheduler"} : At(r, pc)
Decisive ==
    <<[r \in Calls |-> Seen(r)], [a \in Attempts |-> Kept(ledger[a])], remote, torn, clock,
      installed, running, upgrades, bound, prepared,
      [r \in Calls |-> IF Planned(r) THEN plan[r] ELSE None],
      [r \in Calls |-> IF CarriedOut(r) THEN None ELSE ask[r]]>>
=============================================================================
