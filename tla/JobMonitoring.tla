----------------------------- MODULE JobMonitoring -----------------------------
(***************************************************************************)
(* Monitoring of a submitted job (backend/monitoring.py, query_job of      *)
(* backend/paramiko_remote.py): once its record is matched, scontrol,      *)
(* squeue and, when there is need, sacct are asked one after the other     *)
(* while the job goes on; their three answers become one summary.          *)
(*                                                                         *)
(* Of the states the code takes for a failure some need not end a job: it  *)
(* is stopped and goes on, or waits again after it lost its node.          *)
(*                                                                         *)
(* SLURM is external.  Its controller forgets a job some time after its    *)
(* end, its accounting follows late and may forget too, and each command   *)
(* may fail, which reads as an empty answer.                               *)
(***************************************************************************)
EXTENDS Naturals

CONSTANTS
    MaxRequeues,    \* bound: how often SLURM puts the job back in the queue
    None            \* no answer, no state

ASSUME BoundAssumption == MaxRequeues \in Nat

VARIABLES
    job,        \* the state of the job
    requeues,   \* how often it was put back
    interrupted, \* was it ever in a state of failure it may go on from?
    controller, \* does the controller still know the job?
    accounting, \* the state accounting shows
    query,      \* the monitoring call: where it is, and the answers so far
    summary,    \* what the last call told
    terminal    \* scheduler.terminal of the ledger

slurm == <<job, requeues, interrupted, controller, accounting>>
vars  == <<slurm, query, summary, terminal>>

-----------------------------------------------------------------------------
(* The summary of a state and an exit code.                                *)

PENDING_STATES == {"PENDING", "REQUEUED"}
RUNNING_STATES == {"RUNNING", "COMPLETING"}
FAILURE_STATES == {"BOOT_FAIL", "FAILED", "CANCELLED", "DEADLINE", "TIMEOUT", "OUT_OF_MEMORY",
                   "NODE_FAIL", "PREEMPTED", "REVOKED", "SPECIAL_EXIT", "STOPPED"}

\* The failures a job may go on from, and the states it does not leave.
Interruptions == {"BOOT_FAIL", "NODE_FAIL", "PREEMPTED", "SPECIAL_EXIT", "STOPPED"}
EndStates     == {"COMPLETED"} \cup (FAILURE_STATES \ Interruptions)
States        == PENDING_STATES \cup RUNNING_STATES \cup {"COMPLETED"} \cup FAILURE_STATES

ASSUME NoneAssumption == None \notin States \cup {"0:0", "1:0", "SUCCESS", "FAILURE"}

\* The exit code accounting shows with a state: SLURM ends a job at its walltime
\* with exit code 0:0.
ExitOf(state) == IF state = None THEN None ELSE IF state = "FAILED" THEN "1:0" ELSE "0:0"

\* (Faulty: the exit code decides before the state does.)
ClassifyByExit(state, exit) ==
    CASE exit = "1:0"                  -> "FAILURE"
      [] exit = "0:0" /\ state \notin PENDING_STATES \cup RUNNING_STATES -> "SUCCESS"
      [] state \in PENDING_STATES      -> "PENDING"
      [] state \in RUNNING_STATES      -> "RUNNING"
      [] OTHER                         -> "UNKNOWN"

\* classify_slurm_state
Classify(state, exit) ==
    CASE state \in PENDING_STATES                           -> "PENDING"
      [] state \in RUNNING_STATES                           -> "RUNNING"
      [] state = "COMPLETED" /\ exit \in {None, "0:0"}      -> "SUCCESS"
      [] state \in FAILURE_STATES                           -> "FAILURE"
      [] OTHER -> IF exit \notin {None, "0:0"} THEN "FAILURE" ELSE "UNKNOWN"

\* The first answer there is: of squeue, of scontrol, of sacct.
StateOf(q) ==
    IF q.squeue # None THEN q.squeue ELSE IF q.scontrol # None THEN q.scontrol ELSE q.sacct

\* remote_job_status_from_slurm_outputs
SummaryOf(q) == Classify(StateOf(q), ExitOf(q.sacct))

-----------------------------------------------------------------------------
(* SLURM.                                                                  *)

Start ==
    /\ job \in PENDING_STATES
    /\ job' = "RUNNING"
    /\ UNCHANGED <<requeues, interrupted, controller, accounting, query, summary, terminal>>

\* The job is stopped, its node fails or does not boot, it is preempted, or it is put back
\* and held.
Interrupt ==
    /\ job \in PENDING_STATES \cup {"RUNNING"}
    /\ job' \in Interruptions /\ interrupted' = TRUE
    /\ UNCHANGED <<requeues, controller, accounting, query, summary, terminal>>

\* It goes on, unless it ends there.
Resume ==
    /\ job = "STOPPED"
    /\ job' = "RUNNING"
    /\ UNCHANGED <<requeues, interrupted, controller, accounting, query, summary, terminal>>

\* It waits again, interrupted or, at a user's request, while it runs.
Requeue ==
    /\ job \in {"RUNNING"} \cup Interruptions /\ controller /\ requeues < MaxRequeues
    /\ job' \in PENDING_STATES /\ requeues' = requeues + 1
    /\ UNCHANGED <<interrupted, controller, accounting, query, summary, terminal>>

\* The job script has ended or was ended, or the job is cancelled while it waits.
End ==
    /\ \/ job = "RUNNING"    /\ job' = "COMPLETING"
       \/ job = "COMPLETING" /\ job' \in EndStates
       \/ job \in PENDING_STATES \cup {"STOPPED"} /\ job' \in {"CANCELLED", "DEADLINE", "REVOKED"}
    /\ UNCHANGED <<requeues, interrupted, controller, accounting, query, summary, terminal>>

\* The controller forgets a job that has ended, if only because it was not put back.
Purge ==
    /\ job \in EndStates \cup (Interruptions \ {"STOPPED"}) /\ controller
    /\ controller' = FALSE
    /\ UNCHANGED <<job, requeues, interrupted, accounting, query, summary, terminal>>

\* Accounting catches up, or its retention has passed.  It shows the job as it was
\* last queued: sacct is not asked for duplicates.
Account ==
    /\ \/ accounting' = job /\ accounting # job
       \/ accounting = job /\ ~controller /\ accounting' = None
    /\ UNCHANGED <<job, requeues, interrupted, controller, query, summary, terminal>>

-----------------------------------------------------------------------------
(* A monitoring call.                                                      *)

NoQuery == [pc |-> "idle", scontrol |-> None, squeue |-> None, sacct |-> None]

\* What the call tells; a failed one leaves what the ledger knows.
Tell(result) ==
    /\ query' = NoQuery
    /\ summary' = result
    /\ terminal' = IF result = "failed" THEN terminal ELSE result \in {"SUCCESS", "FAILURE"}

\* monitor_submitted_job: the call fails where the job's record does not name the
\* attempt or cannot be read, and without a slot or a connection; else it asks.
Monitor ==
    /\ query.pc = "idle"
    /\ \/ Tell("failed")
       \/ query' = [query EXCEPT !.pc = "scontrol"] /\ UNCHANGED <<summary, terminal>>
    /\ UNCHANGED slurm

\* A command raises an error only when the connection fails.
Lost == query.pc \in {"scontrol", "squeue", "sacct"} /\ Tell("failed") /\ UNCHANGED slurm

AskScontrol ==
    /\ query.pc = "scontrol"
    /\ \E answer \in {None} \cup (IF controller THEN {job} ELSE {}) :
          query' = [query EXCEPT !.pc = "squeue", !.scontrol = answer]
    /\ UNCHANGED <<slurm, summary, terminal>>

\* squeue shows a job that has not ended; accounting is asked when squeue says
\* nothing, or scontrol that the job has ended.
AskSqueue ==
    LET seen(answer) == [query EXCEPT !.squeue = answer] IN
    /\ query.pc = "squeue"
    /\ \E answer \in {None} \cup ({job} \ EndStates) :
          IF answer = None \/ SummaryOf(seen(answer)) \in {"SUCCESS", "FAILURE"}
          THEN /\ query' = [seen(answer) EXCEPT !.pc = "sacct"]
               /\ UNCHANGED <<summary, terminal>>
          ELSE Tell(SummaryOf(seen(answer)))
    /\ UNCHANGED slurm

AskSacct ==
    /\ query.pc = "sacct"
    /\ \E answer \in {None, accounting} : Tell(SummaryOf([query EXCEPT !.sacct = answer]))
    /\ UNCHANGED slurm

-----------------------------------------------------------------------------
Init ==
    /\ job = "PENDING" /\ requeues = 0 /\ interrupted = FALSE
    /\ controller = TRUE /\ accounting = None
    /\ query = NoQuery
    /\ summary = None
    /\ terminal = FALSE

Slurm == Start \/ Interrupt \/ Resume \/ Requeue \/ End \/ Purge \/ Account
Ask   == AskScontrol \/ AskSqueue \/ AskSacct

Next == Slurm \/ Monitor \/ Lost \/ Ask

Spec == Init /\ [][Next]_vars

-----------------------------------------------------------------------------
(* Properties.                                                             *)

TypeOK ==
    /\ job \in States /\ accounting \in States \cup {None}
    /\ requeues \in 0..MaxRequeues /\ controller \in BOOLEAN /\ interrupted \in BOOLEAN
    /\ query \in [pc : {"idle", "scontrol", "squeue", "sacct"}, scontrol : States \cup {None},
                  squeue : States \cup {None}, sacct : States \cup {None}]
    /\ summary \in {"PENDING", "RUNNING", "SUCCESS", "FAILURE", "UNKNOWN", "failed", None}
    /\ terminal \in BOOLEAN

\* A success that is told is the end of the job, however far apart the three answers were
\* given: results are loaded by it.  A failure, which makes room under the cap of active
\* jobs, is the end it had, or one of the states it may have gone on from since.
ToldEndIsTrue ==
    /\ summary = "SUCCESS" => job = "COMPLETED"
    /\ summary = "FAILURE" => job \in FAILURE_STATES \/ interrupted
    /\ terminal => job \in EndStates \/ interrupted

-----------------------------------------------------------------------------
(* The inductive invariant behind them.                                    *)

\* What a call has heard so far, and what accounting shows, is of the job: an end
\* among it is the end the job had, and an interruption one it has or had.
AnswersAreTrue ==
    /\ \A heard \in {accounting, query.scontrol, query.squeue} :
          /\ heard \in EndStates => heard = job
          /\ heard \in Interruptions => interrupted
    /\ job \in Interruptions => interrupted
    /\ query.sacct = None

MonitoringInv ==
    /\ TypeOK
    /\ AnswersAreTrue
    /\ ToldEndIsTrue

=============================================================================
