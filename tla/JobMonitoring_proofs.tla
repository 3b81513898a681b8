------------------------- MODULE JobMonitoring_proofs -------------------------
(***************************************************************************)
(* Theorems on JobMonitoring, for any number of requeues: the end that is  *)
(* told of a job is the end it had, or one it was put back from.           *)
(*                                                                         *)
(* The ends of a job are final, so an end among the answers of a call is   *)
(* the end of the job, however long ago it was given; an interruption      *)
(* among them is one the job had at some time; and a summary that says     *)
(* success or failure rests on such an answer (ClassifiedEnds).            *)
(***************************************************************************)
EXTENDS JobMonitoring, TLAPS

Ends == {"SUCCESS", "FAILURE"}

\* The states SLURM's steps name, and that a missing answer is none of them.
LEMMA StatesOfJobs ==
    /\ {"RUNNING", "COMPLETING"} \cup PENDING_STATES \subseteq States \ EndStates
    /\ {"RUNNING", "COMPLETING", "PENDING"} \cap Interruptions = {}
    /\ PENDING_STATES \cap Interruptions = {} /\ "PENDING" \in PENDING_STATES
    /\ {"CANCELLED", "DEADLINE", "REVOKED"} \subseteq EndStates
    /\ EndStates \subseteq States /\ FAILURE_STATES \subseteq EndStates \cup Interruptions
    /\ Interruptions \subseteq States \ EndStates /\ "STOPPED" \in Interruptions
    /\ "COMPLETED" \in EndStates /\ "FAILED" \in EndStates \cap FAILURE_STATES
    /\ EndStates \subseteq FAILURE_STATES \cup {"COMPLETED"}
    /\ None \notin States
<1>1. None \notin States
  BY NoneAssumption
<1> QED
  BY <1>1 DEF States, EndStates, PENDING_STATES, RUNNING_STATES, FAILURE_STATES, Interruptions

\* classify_slurm_state says SUCCESS of a completed job only, and FAILURE of a state of
\* failure, or of an exit code that only accounting's FAILED comes with.
LEMMA ClassifiedEnds ==
    ASSUME NEW state \in States \cup {None}, NEW shown \in States \cup {None}
    PROVE  LET told == Classify(state, ExitOf(shown)) IN
           /\ told \in {"PENDING", "RUNNING", "SUCCESS", "FAILURE", "UNKNOWN"}
           /\ told = "SUCCESS" => state = "COMPLETED"
           /\ told = "FAILURE" => state \in FAILURE_STATES \/ shown = "FAILED"
           /\ shown = "FAILED" /\ state = "FAILED" => told = "FAILURE"
  BY BoundAssumption, NoneAssumption
     DEF Classify, ExitOf, States, PENDING_STATES, RUNNING_STATES, FAILURE_STATES

\* What is heard is of the job: its end, or an interruption it has or had.
IsOfJob(heard) ==
    /\ heard \in States \cup {None}
    /\ heard \in EndStates => heard = job
    /\ heard \in Interruptions => interrupted

\* What a call tells is true when all it heard is.
LEMMA TrueSummary ==
    ASSUME NEW q,
           IsOfJob(q.scontrol), IsOfJob(q.squeue), IsOfJob(q.sacct), job \in States
    PROVE  /\ SummaryOf(q) \in {"PENDING", "RUNNING", "SUCCESS", "FAILURE", "UNKNOWN"}
           /\ SummaryOf(q) = "SUCCESS" => job = "COMPLETED"
           /\ SummaryOf(q) = "FAILURE" => job \in FAILURE_STATES \/ interrupted
<1>1. IsOfJob(StateOf(q))
  BY DEF StateOf
<1> QED
  BY <1>1, StatesOfJobs, ClassifiedEnds DEF SummaryOf, IsOfJob

-----------------------------------------------------------------------------
(* The invariant.                                                          *)

LEMMA InitMonitoringInv == Init => MonitoringInv
<1> SUFFICES ASSUME Init PROVE MonitoringInv
  OBVIOUS
<1>1. NoQuery \in [pc : {"idle", "scontrol", "squeue", "sacct"}, scontrol : States \cup {None},
                  squeue : States \cup {None}, sacct : States \cup {None}]
  BY DEF NoQuery
<1>2. TypeOK
  <2>1. job \in States /\ accounting \in States \cup {None} /\ requeues \in 0..MaxRequeues
    BY StatesOfJobs, BoundAssumption DEF Init
  <2>2. controller \in BOOLEAN /\ interrupted \in BOOLEAN /\ terminal \in BOOLEAN
    BY Zenon DEF Init
  <2> QED
    BY <1>1, <2>1, <2>2 DEF Init, TypeOK
<1>3. AnswersAreTrue
  BY StatesOfJobs DEF Init, AnswersAreTrue, NoQuery
<1>4. ToldEndIsTrue
  <2>1. None # "SUCCESS" /\ None # "FAILURE"
    BY NoneAssumption
  <2> QED
    BY <2>1 DEF Init, ToldEndIsTrue
<1> QED
  BY <1>2, <1>3, <1>4 DEF Init, MonitoringInv

\* A step of SLURM: an end is final, and accounting shows no other.
LEMMA SlurmStep == ASSUME MonitoringInv, Slurm PROVE MonitoringInv'
<1>1. UNCHANGED <<query, summary, terminal>>
  BY DEF Slurm, Start, Interrupt, Resume, Requeue, End, Purge, Account
<1>2. /\ job' \in States /\ accounting' \in States \cup {None}
      /\ requeues' \in 0..MaxRequeues /\ controller' \in BOOLEAN /\ interrupted' \in BOOLEAN
  <2>1. job' \in States /\ accounting' \in States \cup {None}
    BY StatesOfJobs DEF Slurm, Start, Interrupt, Resume, Requeue, End, Purge, Account, MonitoringInv, TypeOK
  <2>2. requeues' \in 0..MaxRequeues
    BY BoundAssumption DEF Slurm, Start, Interrupt, Resume, Requeue, End, Purge, Account, MonitoringInv, TypeOK
  <2>3. controller' \in BOOLEAN /\ interrupted' \in BOOLEAN
    BY Zenon DEF Slurm, Start, Interrupt, Resume, Requeue, End, Purge, Account, MonitoringInv, TypeOK
  <2> QED
    BY <2>1, <2>2, <2>3
<1>3. job \in EndStates => job' = job
  BY StatesOfJobs DEF Slurm, Start, Interrupt, Resume, Requeue, End, Purge, Account
<1>4. accounting' \in EndStates => accounting' = job'
  BY <1>3, StatesOfJobs
     DEF Slurm, Start, Interrupt, Resume, Requeue, End, Purge, Account, MonitoringInv, AnswersAreTrue
<1>5. /\ interrupted => interrupted'
      /\ job' \in Interruptions => interrupted'
      /\ accounting' \in Interruptions => interrupted'
  BY StatesOfJobs
     DEF Slurm, Start, Interrupt, Resume, Requeue, End, Purge, Account, MonitoringInv, AnswersAreTrue
<1> QED
  BY <1>1, <1>2, <1>3, <1>4, <1>5, StatesOfJobs
     DEF MonitoringInv, TypeOK, AnswersAreTrue, ToldEndIsTrue

\* A call that ends and tells the truth, or fails.
LEMMA TellStep ==
    ASSUME MonitoringInv, UNCHANGED slurm, NEW told, Tell(told),
           told \in {"PENDING", "RUNNING", "SUCCESS", "FAILURE", "UNKNOWN", "failed"},
           told = "SUCCESS" => job = "COMPLETED",
           told = "FAILURE" => job \in FAILURE_STATES \/ interrupted
    PROVE  MonitoringInv'
<1>1. /\ query' = NoQuery /\ summary' = told
      /\ terminal' = IF told = "failed" THEN terminal ELSE told \in Ends
      /\ UNCHANGED <<job, requeues, interrupted, controller, accounting>>
  BY DEF Tell, Ends, slurm
<1>2. TypeOK'
  <2>1. NoQuery \in [pc : {"idle", "scontrol", "squeue", "sacct"}, scontrol : States \cup {None},
                      squeue : States \cup {None}, sacct : States \cup {None}]
    BY DEF NoQuery
  <2>2. terminal' \in BOOLEAN
    <3>1. CASE told = "failed"
      BY <1>1, <3>1 DEF MonitoringInv, TypeOK
    <3>2. CASE told # "failed"
      <4>1. terminal' = (told \in Ends)
        BY <1>1, <3>2
      <4>2. (told \in Ends) \in BOOLEAN
        OBVIOUS
      <4> QED
        BY <4>1, <4>2, Zenon
    <3> QED
      BY <3>1, <3>2
  <2>3. /\ job' \in States /\ accounting' \in States \cup {None}
        /\ requeues' \in 0..MaxRequeues /\ controller' \in BOOLEAN /\ interrupted' \in BOOLEAN
    BY <1>1 DEF MonitoringInv, TypeOK
  <2> QED
    BY <1>1, <2>1, <2>2, <2>3 DEF TypeOK
<1>3. AnswersAreTrue'
  BY <1>1, StatesOfJobs DEF MonitoringInv, AnswersAreTrue, NoQuery
<1>4. ToldEndIsTrue'
  BY <1>1, StatesOfJobs DEF MonitoringInv, AnswersAreTrue, ToldEndIsTrue, Ends
<1> QED
  BY <1>2, <1>3, <1>4 DEF MonitoringInv

\* A call that goes on, with a true answer.
LEMMA HearStep ==
    ASSUME MonitoringInv, UNCHANGED <<slurm, summary, terminal>>,
           query' \in [pc : {"idle", "scontrol", "squeue", "sacct"}, scontrol : States \cup {None},
                       squeue : States \cup {None}, sacct : States \cup {None}],
           query'.sacct = None,
           \A heard \in {query'.scontrol, query'.squeue} : IsOfJob(heard)
    PROVE  MonitoringInv'
  BY DEF MonitoringInv, TypeOK, AnswersAreTrue, ToldEndIsTrue, slurm, IsOfJob

LEMMA MonitorStep == ASSUME MonitoringInv, Monitor PROVE MonitoringInv'
<1>1. CASE Tell("failed")
  BY <1>1, TellStep DEF Monitor
<1>2. CASE query' = [query EXCEPT !.pc = "scontrol"] /\ UNCHANGED <<summary, terminal>>
  BY <1>2, HearStep DEF Monitor, MonitoringInv, TypeOK, AnswersAreTrue, IsOfJob
<1> QED
  BY <1>1, <1>2 DEF Monitor

LEMMA LostStep == ASSUME MonitoringInv, Lost PROVE MonitoringInv'
  BY TellStep DEF Lost

LEMMA AskStep == ASSUME MonitoringInv, Ask PROVE MonitoringInv'
<1>1. /\ IsOfJob(None) /\ IsOfJob(job) /\ IsOfJob(accounting) /\ job \in States
      /\ IsOfJob(query.scontrol) /\ IsOfJob(query.squeue) /\ query.sacct = None
  BY StatesOfJobs DEF IsOfJob, MonitoringInv, TypeOK, AnswersAreTrue
<1>2. CASE AskScontrol
  <2>1. PICK answer \in {None, job} :
           query' = [query EXCEPT !.pc = "squeue", !.scontrol = answer]
    BY <1>2 DEF AskScontrol
  <2>2. /\ query' \in [pc : {"idle", "scontrol", "squeue", "sacct"}, scontrol : States \cup {None},
                       squeue : States \cup {None}, sacct : States \cup {None}]
        /\ query'.sacct = None
        /\ query'.scontrol = answer /\ query'.squeue = query.squeue
    BY <2>1 DEF MonitoringInv, TypeOK, AnswersAreTrue
  <2>3. UNCHANGED <<slurm, summary, terminal>>
    BY <1>2 DEF AskScontrol
  <2> QED
    BY <1>1, <2>2, <2>3, HearStep
<1>3. CASE AskSqueue
  <2>1. PICK answer \in {None} \cup ({job} \ EndStates) :
           LET heard == [query EXCEPT !.squeue = answer] IN
           \/ query' = [heard EXCEPT !.pc = "sacct"] /\ UNCHANGED <<summary, terminal>>
           \/ Tell(SummaryOf(heard))
    BY <1>3 DEF AskSqueue
  <2> DEFINE heard == [query EXCEPT !.squeue = answer]
  <2>2. UNCHANGED slurm /\ IsOfJob(answer) /\ answer \in States \cup {None}
    BY <1>1, <1>3 DEF AskSqueue
  <2>3. /\ heard.scontrol = query.scontrol /\ heard.squeue = answer /\ heard.sacct = None
        /\ [heard EXCEPT !.pc = "sacct"] \in
              [pc : {"idle", "scontrol", "squeue", "sacct"}, scontrol : States \cup {None},
               squeue : States \cup {None}, sacct : States \cup {None}]
        /\ [heard EXCEPT !.pc = "sacct"].scontrol = query.scontrol
        /\ [heard EXCEPT !.pc = "sacct"].squeue = answer
        /\ [heard EXCEPT !.pc = "sacct"].sacct = None
    BY <2>2 DEF MonitoringInv, TypeOK, AnswersAreTrue
  <2> HIDE DEF heard
  <2>4. CASE query' = [heard EXCEPT !.pc = "sacct"] /\ UNCHANGED <<summary, terminal>>
    BY <1>1, <2>2, <2>3, <2>4, HearStep
  <2>5. CASE Tell(SummaryOf(heard))
    BY <1>1, <2>2, <2>3, <2>5, TrueSummary, TellStep
  <2> QED
    BY <2>1, <2>4, <2>5 DEF heard
<1>4. CASE AskSacct
  <2>1. PICK answer \in {None, accounting} : Tell(SummaryOf([query EXCEPT !.sacct = answer]))
    BY <1>4 DEF AskSacct
  <2> DEFINE heard == [query EXCEPT !.sacct = answer]
  <2>2. /\ heard.scontrol = query.scontrol /\ heard.squeue = query.squeue /\ heard.sacct = answer
        /\ Tell(SummaryOf(heard)) /\ IsOfJob(answer) /\ UNCHANGED slurm
    BY <1>1, <1>4, <2>1 DEF AskSacct, MonitoringInv, TypeOK
  <2> HIDE DEF heard
  <2> QED
    BY <1>1, <2>2, TrueSummary, TellStep
<1> QED
  BY <1>2, <1>3, <1>4 DEF Ask

LEMMA MonitoringInvIsInductive == MonitoringInv /\ [Next]_vars => MonitoringInv'
<1> SUFFICES ASSUME MonitoringInv, [Next]_vars PROVE MonitoringInv'
  OBVIOUS
<1>1. CASE UNCHANGED vars
  BY <1>1 DEF vars, slurm, MonitoringInv, TypeOK, AnswersAreTrue, ToldEndIsTrue
<1> QED
  BY <1>1, SlurmStep, MonitorStep, LostStep, AskStep DEF Next

-----------------------------------------------------------------------------
(* The theorems.                                                           *)

\* What a call has heard of a job, what it tells and what the ledger keeps of it are true,
\* in every state: monitor_submitted_job, query_job and _refresh_scheduler.
THEOREM MonitoringIsSafe == Spec => []MonitoringInv
  BY InitMonitoringInv, MonitoringInvIsInductive, PTL DEF Spec

\* Every variable keeps its type; the summary is one of the five or a failed call.
THEOREM TypeCorrect == Spec => []TypeOK
<1>1. MonitoringInv => TypeOK
  BY DEF MonitoringInv
<1> QED
  BY <1>1, MonitoringIsSafe, PTL

\* A success that query_job tells is the end of the job, and a failure, also the one that
\* scheduler.terminal keeps, its end or an interruption it had.
THEOREM EndsAreTrue == Spec => []ToldEndIsTrue
<1>1. MonitoringInv => ToldEndIsTrue
  BY DEF MonitoringInv
<1> QED
  BY <1>1, MonitoringIsSafe, PTL

=============================================================================
