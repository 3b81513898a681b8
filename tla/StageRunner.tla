------------------------------ MODULE StageRunner ------------------------------
(***************************************************************************)
(* The runner on POWER (backend/execution.py): the stages of a flow run    *)
(* one after the other, each in a directory of its own.  Artifacts are     *)
(* handed from one directory to the next only by flows with a policy for   *)
(* it, which BMD does not build; that is left out.                         *)
(*                                                                         *)
(* A job may answer with a flow of its own, of new jobs (one of replace,   *)
(* detour and addition), which _run runs at once, by calling itself:       *)
(* `stack` holds the calls.                                                *)
(* jobflow gives the jobs of a flow in an order of their dependencies,     *)
(* each with its parents; the jobs themselves are VASP, and any answer.    *)
(* PowerJob is the process that runs it, and may be started again.         *)
(***************************************************************************)
EXTENDS Naturals, Sequences, SequencesExt

CONSTANTS
    Stages,     \* the jobs of the flow, in the order they are run
    Parents,    \* job -> the jobs whose output it refers to
    Tolerant,   \* jobs whose on_missing_references is not ERROR
    Diversion   \* job -> the flow it may answer with, << >> when it may not

Jobs == ToSet(Stages) \cup UNION {ToSet(Diversion[j]) : j \in ToSet(Stages)}

\* Of the jobs of a flow, each comes once, after those it refers to.
IsFlow(flow) ==
    /\ flow \in Seq(Jobs) /\ IsInjective(flow)
    /\ \A i \in DOMAIN flow : \A p \in Parents[flow[i]] : \E h \in 1..(i - 1) : flow[h] = p

\* The flows that jobs answer with have no jobs in common.
ASSUME FlowAssumption ==
    /\ DOMAIN Diversion = Jobs /\ DOMAIN Parents = Jobs
    /\ Tolerant \subseteq Jobs
    /\ IsFlow(Stages) /\ \A j \in Jobs : IsFlow(Diversion[j])
    /\ \A j \in Jobs : ToSet(Diversion[j]) \cap ToSet(Stages) = {}
    /\ \A j, k \in Jobs : j # k => ToSet(Diversion[j]) \cap ToSet(Diversion[k]) = {}

VARIABLES
    stack,      \* calls of _run: a flow, the next index, and is a response bad?
    pc,         \* "next" job, "run" it, or what the run came to
    stopped,    \* stopped_parents
    errored,
    stop,       \* stop_jobflow
    ran,        \* jobs that were run, in their order
    answered    \* jobs that returned a response

runner == <<stack, pc, stopped, errored, stop, ran, answered>>

Call == Last(stack)
Job  == Call.flow[Call.at]

Frame(flow) == [flow |-> flow, at |-> 1, bad |-> FALSE]

\* (Faulty: only the last response decides.)
AndForgetOthers(frame, isBad) == [frame EXCEPT !.at = @ + 1, !.bad = isBad]

\* The next job of a call, and whether one of its jobs had no response.
AndThen(frame, isBad) == [frame EXCEPT !.at = @ + 1, !.bad = @ \/ isBad]

\* The call goes on with its next job.
Continue(isBad) == stack' = [stack EXCEPT ![Len(stack)] = AndThen(@, isBad)]

-----------------------------------------------------------------------------
(* One turn of the loop of _run, and _run_job.                             *)

\* The directory of the stage is there, or is made; the run fails when it cannot be.
EnterDirectory ==
    /\ pc = "next" /\ stack # << >> /\ Call.at <= Len(Call.flow)
    /\ pc' \in {"run", "failed"}
    /\ UNCHANGED <<stack, stopped, errored, stop, ran, answered>>

\* The whole run is over, job or no job: the call returns False.
SkipAll ==
    /\ pc = "run" /\ stop
    /\ stack' = [stack EXCEPT ![Len(stack)] = [AndThen(@, TRUE) EXCEPT !.at = Len(Call.flow) + 1]]
    /\ pc' = "next"
    /\ UNCHANGED <<stopped, errored, stop, ran, answered>>

\* (Faulty: a stopped job stays the next one.)
SkipStoppedAgain ==
    /\ pc = "run" /\ ~stop /\ Parents[Job] \cap stopped # {}
    /\ stopped' = stopped \cup {Job}
    /\ pc' = "next"
    /\ UNCHANGED <<stack, errored, stop, ran, answered>>

SkipStopped ==
    /\ pc = "run" /\ ~stop /\ Parents[Job] \cap stopped # {}
    /\ stopped' = stopped \cup {Job}
    /\ Continue(TRUE) /\ pc' = "next"
    /\ UNCHANGED <<errored, stop, ran, answered>>

\* (Faulty: a job that is skipped does not stop those that depend on it.)
SkipErroredAlone ==
    /\ pc = "run" /\ ~stop /\ Parents[Job] \cap stopped = {}
    /\ Parents[Job] \cap errored # {} /\ Job \notin Tolerant
    /\ Continue(TRUE) /\ pc' = "next"
    /\ UNCHANGED <<stopped, errored, stop, ran, answered>>

SkipErrored ==
    /\ pc = "run" /\ ~stop /\ Parents[Job] \cap stopped = {}
    /\ Parents[Job] \cap errored # {} /\ Job \notin Tolerant
    /\ errored' = errored \cup {Job}
    /\ Continue(TRUE) /\ pc' = "next"
    /\ UNCHANGED <<stopped, stop, ran, answered>>

Runs == /\ pc = "run" /\ ~stop /\ Parents[Job] \cap stopped = {}
        /\ Parents[Job] \cap errored = {} \/ Job \in Tolerant
        /\ ran' = Append(ran, Job)

\* The job raises an exception.
JobFails ==
    /\ Runs
    /\ errored' = errored \cup {Job}
    /\ Continue(TRUE) /\ pc' = "next"
    /\ UNCHANGED <<stopped, stop, answered>>

\* The job responds: with its output, or also to stop its children or everything,
\* or with another flow, which runs now.
JobResponds ==
    /\ Runs
    /\ answered' = answered \cup {Job}
    /\ \E stopChildren \in BOOLEAN :
          /\ stopped' = IF stopChildren THEN stopped \cup {Job} ELSE stopped
          /\ \/ /\ stop' = TRUE
                /\ stack' = [stack EXCEPT ![Len(stack)] =
                                [AndThen(@, TRUE) EXCEPT !.at = Len(Call.flow) + 1]]
             \/ Continue(FALSE) /\ UNCHANGED stop
             \/ /\ Diversion[Job] # << >>
                /\ stack' = Append(stack, Frame(Diversion[Job])) /\ UNCHANGED stop
    /\ pc' = "next"
    /\ UNCHANGED errored

\* A call of _run returns; a job whose flow did not finish has no response.
Finish ==
    /\ pc = "next" /\ stack # << >> /\ Call.at > Len(Call.flow)
    /\ IF Len(stack) = 1
       THEN /\ stack' = << >>
            /\ pc' = IF Call.bad THEN "failed" ELSE "done"
       ELSE /\ stack' = [Front(stack) EXCEPT ![Len(stack) - 1] = AndThen(@, Call.bad)]
            /\ UNCHANGED pc
    /\ UNCHANGED <<stopped, errored, stop, ran, answered>>

-----------------------------------------------------------------------------
RunnerInit ==
    /\ stack = <<Frame(Stages)>>
    /\ pc = "next"
    /\ stopped = {} /\ errored = {} /\ stop = FALSE
    /\ ran = << >> /\ answered = {}

\* A new process knows nothing of the run before.
RunnerRestart ==
    /\ stack' = <<Frame(Stages)>>
    /\ pc' = "next"
    /\ stopped' = {} /\ errored' = {} /\ stop' = FALSE
    /\ ran' = << >> /\ answered' = {}

RunnerNext ==
    \/ EnterDirectory
    \/ SkipAll \/ SkipStopped \/ SkipErrored
    \/ JobFails \/ JobResponds
    \/ Finish

-----------------------------------------------------------------------------
(* Properties.                                                             *)

\* "An unsuccessful stage fails the workflow and no dependent stage runs"
\* (docs/calculation_architecture.md): a job runs after its parents have, in this very
\* run, except where its references may be missing.
NoDependentStageRuns ==
    \A j \in ToSet(ran) : j \in Tolerant \/ Parents[j] \subseteq answered \ stopped

\* JOBFLOW_LOCAL_DONE, and so the exit status of the job, is true: every stage and
\* every flow a stage asked for has run and responded.
DoneMeansAllRan ==
    pc = "done" => ToSet(Stages) \subseteq answered /\ ToSet(ran) \subseteq answered /\ ~stop

-----------------------------------------------------------------------------
(* The inductive invariant behind them.                                    *)

RunnerTypeOK ==
    /\ stack \in Seq([flow : Seq(Jobs), at : Nat \ {0}, bad : BOOLEAN])
    /\ pc \in {"next", "run", "failed", "done"}
    /\ pc = "run" => stack # << >> /\ Call.at <= Len(Call.flow)
    /\ ran \in Seq(Jobs) /\ answered \subseteq Jobs /\ stopped \subseteq Jobs /\ errored \subseteq Jobs
    /\ stop \in BOOLEAN

\* The jobs whose turn has come, but for those that were skipped because all is over.
Decided == answered \cup stopped \cup errored

Ran == ToSet(ran)

\* The outermost call is of the stages, each other one of the flow that a job asked
\* for; that job, which its call is still at, has answered.
CallsAreNested ==
    /\ \A k \in DOMAIN stack :
          /\ IF k = 1 THEN stack[k].flow = Stages ELSE \E j \in Ran : stack[k].flow = Diversion[j]
          /\ k < Len(stack) =>
                stack[k].at \in DOMAIN stack[k].flow /\ stack[k].flow[stack[k].at] \in answered
    /\ \A k, l \in DOMAIN stack : k # l => ToSet(stack[k].flow) \cap ToSet(stack[l].flow) = {}

\* A job whose turn is to come: of the innermost call, or after that of the job it is at.
IsPending(k, i) == i > stack[k].at \/ (i = stack[k].at /\ k = Len(stack))

\* No job has its turn twice, and none out of turn.
TurnsComeOnce ==
    /\ \A k \in DOMAIN stack : \A i \in DOMAIN stack[k].flow :
          IsPending(k, i) => stack[k].flow[i] \notin Decided
    /\ \A j \in Decided : j \in ToSet(Stages) \/ \E p \in Ran : j \in ToSet(Diversion[p])
    /\ ~stop => \A k \in DOMAIN stack : \A i \in DOMAIN stack[k].flow :
                    i < stack[k].at => stack[k].flow[i] \in Decided
    /\ answered \subseteq Ran /\ Ran \subseteq answered \cup errored

\* What went wrong is remembered by the calls until the run has failed.
BadIsRemembered ==
    /\ \A k \in DOMAIN stack : \A i \in DOMAIN stack[k].flow :
          ~stack[k].bad /\ i < stack[k].at => stack[k].flow[i] \in answered
    /\ stop \/ ~(Ran \subseteq answered) => pc = "failed" \/ \E k \in DOMAIN stack : stack[k].bad
    /\ stack = << >> => pc \in {"failed", "done"}
    /\ DoneMeansAllRan

RunnerInv ==
    /\ RunnerTypeOK
    /\ CallsAreNested
    /\ TurnsComeOnce
    /\ NoDependentStageRuns
    /\ BadIsRemembered

=============================================================================
