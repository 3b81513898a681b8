--------------------------- MODULE AttemptLifecycle ---------------------------
(***************************************************************************)
(* What a submission attempt promises, without requests, locks or files:   *)
(* it is prepared, committed to one sbatch, and either becomes a job or,   *)
(* when it is certain that it did not, is prepared again.  Whoever carries *)
(* it out can be misled about an attempt by what it reads of it; of that   *)
(* attempt, and of no other, nothing is promised from then on.             *)
(***************************************************************************)
EXTENDS Naturals

CONSTANT Attempts

VARIABLES
    phase,      \* attempt -> absent, prepared, committed or recorded
    accepted,   \* attempt -> number of jobs SLURM accepted for it
    misled      \* the attempts whose state was lost track of

Phases == {"absent", "prepared", "committed", "recorded"}

LifecycleTypeOK ==
    /\ phase \in [Attempts -> Phases]
    /\ accepted \in [Attempts -> Nat]
    /\ misled \subseteq Attempts
    /\ \A a \in Attempts \ misled : accepted[a] <= 1

Move(a, from, to) == phase[a] \in from /\ phase' = [phase EXCEPT ![a] = to]

\* All files of the attempt are in its run directory.
Prepared(a) == Move(a, {"absent", "prepared"}, "prepared") /\ UNCHANGED <<accepted, misled>>

\* From here on sbatch may run, and the prepared files are frozen.
Commit(a) == Move(a, {"prepared"}, "committed") /\ UNCHANGED <<accepted, misled>>

\* SLURM accepts the job: once.
AcceptJob(a) ==
    /\ phase[a] = "committed" /\ accepted[a] = 0
    /\ accepted' = [accepted EXCEPT ![a] = 1]
    /\ UNCHANGED <<phase, misled>>

\* SLURM is known to have refused.
Refuse(a) ==
    /\ accepted[a] = 0
    /\ Move(a, {"committed"}, "prepared")
    /\ UNCHANGED <<accepted, misled>>

\* The job is known and recorded; nothing follows.
Record(a) ==
    /\ accepted[a] = 1
    /\ Move(a, {"committed"}, "recorded")
    /\ UNCHANGED <<accepted, misled>>

\* What is read of the attempt is not what is so.
LoseTrack(a) == misled' = misled \cup {a} /\ UNCHANGED <<phase, accepted>>

\* Anything may follow, for this attempt alone.
Stray(a) ==
    /\ a \in misled
    /\ phase' \in [Attempts -> Phases] /\ accepted' \in [Attempts -> Nat]
    /\ \A b \in Attempts \ {a} : phase'[b] = phase[b] /\ accepted'[b] = accepted[b]
    /\ UNCHANGED misled

LifecycleInit ==
    /\ phase = [a \in Attempts |-> "absent"]
    /\ accepted = [a \in Attempts |-> 0]
    /\ misled = {}

LifecycleNext ==
    \E a \in Attempts : \/ Prepared(a) \/ Commit(a) \/ AcceptJob(a) \/ Refuse(a) \/ Record(a)
                        \/ LoseTrack(a) \/ Stray(a)

LifecycleSpec == LifecycleInit /\ [][LifecycleNext]_<<phase, accepted, misled>>

=============================================================================
