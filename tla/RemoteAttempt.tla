---------------------------- MODULE RemoteAttempt ----------------------------
(***************************************************************************)
(* The submission-attempt protocol of backend/paramiko_remote.py.          *)
(*                                                                         *)
(* A request is one call of ParamikoRemoteRunner.submit made by the web    *)
(* service: Prepare (dry_run=True) or Submit (dry_run=False) of one        *)
(* attempt.  Requests of any number of threads and worker processes        *)
(* interleave; all they share is on POWER:                                 *)
(*                                                                         *)
(*   state   logs/submission_attempts/<attempt>.json, written in place     *)
(*   lock    <attempt>.lock, taken by mkdir and given back by rmdir        *)
(*   files   what Prepare uploads to the run directory, and the script     *)
(*   records logs/job_<id>.json, the best-effort job record                *)
(*   jobs, orphan   what SLURM made of the sbatch commands                 *)
(*                                                                         *)
(* Every remote command is one step, because another request can run       *)
(* between any two.  A command may fail, lose its answer, or never be      *)
(* issued because the service died; none of these has a bound.             *)
(***************************************************************************)
EXTENDS Naturals, FiniteSets

CONSTANTS
    Requests,       \* concurrent calls of submit
    Attempts,       \* submission-attempt UUIDs
    Dirs,           \* run directories
    RunDir,         \* the run directory each attempt was specified with
    Prints,         \* calculation metadata, as its fingerprint tells it apart
    Provs,          \* provenance (source commit and runtime manifest) of a spec
    NoSpec,         \* nothing uploaded yet
    TornFile,       \* a partly written upload
    MaxMisreads,    \* bound: how often a lost exit status is taken for an answer, per attempt
    AmbiguousExit   \* may it be that of sbatch, besides those of `test -f`?

ASSUME ConstantsAssumption ==
    /\ RunDir \in [Attempts -> Dirs]
    /\ MaxMisreads \in Nat
    /\ AmbiguousExit \in BOOLEAN
    /\ Prints # {} /\ Provs # {}

\* What a request was given: the submission specification it acts for.
Specs == [att : Attempts, print : Prints, prov : Provs]

ASSUME NoSpecAssumption == NoSpec \notin Specs /\ TornFile \notin Specs /\ NoSpec # TornFile

VARIABLES
    pc,        \* where each request stands
    spec,      \* its submission specification
    opened,    \* has it truncated the state file it is about to write?
    answer,    \* what SLURM did with the sbatch it is waiting for
    result,    \* how the call ended
    state,     \* attempt -> state file
    lock,      \* attempt -> does the lock directory exist?
    files,     \* run directory -> what Prepare last uploaded, by part
    records,   \* attempt -> was a job record written?
    jobs,      \* attempt -> number of jobs SLURM accepted
    orphan,    \* attempt -> is an sbatch running that nobody waits for?
    misreads,  \* attempt -> history: how many lost exit statuses were taken for answers
    guessed    \* attempt -> history: was one of them that of an sbatch?

local  == <<pc, spec, opened, answer, result>>
faults == <<misreads, guessed>>
remote == <<state, lock, files, records, jobs, orphan, faults>>
vars   == <<pc, spec, opened, answer, result, state, lock, files, records, jobs, orphan,
            misreads, guessed>>

-----------------------------------------------------------------------------
(* The state file: the state it names, the specification whose metadata    *)
(* and provenance it holds, and whether it parses.                         *)

States == {"absent", "PREPARED", "SUBMITTING", "SUBMITTED"}
StateFiles == [st : States, by : Specs \cup {NoSpec}, whole : BOOLEAN]

Parts == {"submission_json", "runtime", "preflight", "script"}

\* The steps that write the state file, and what they write.
WriteSteps == {"write_prepared", "mark", "revert", "keep", "record"}

\* (Faulty: an uncertain sbatch is recorded as refused.)
WrittenByRefused(step) ==
    CASE step \in {"write_prepared", "revert", "keep"} -> "PREPARED"
      [] step = "mark" -> "SUBMITTING" [] step = "record" -> "SUBMITTED"

WrittenBy(step) ==
    CASE step \in {"write_prepared", "revert"} -> "PREPARED"
      [] step \in {"mark", "keep"}             -> "SUBMITTING"
      [] step = "record"                       -> "SUBMITTED"

\* The steps that prepare the run directory, in order.
UploadSteps == {"upload_json", "upload_runtime", "preflight", "upload_script"}
PartOf(step) ==
    CASE step = "upload_json"    -> "submission_json"
      [] step = "upload_runtime" -> "runtime"
      [] step = "preflight"      -> "preflight"
      [] step = "upload_script"  -> "script"
\* (Faulty: the sbatch script is forgotten.)
AfterUploadNoScript(step) ==
    CASE step = "upload_json"    -> "upload_runtime"
      [] step = "upload_runtime" -> "preflight"
      [] step \in {"preflight", "upload_script"} -> "state_recheck"

AfterUpload(step) ==
    CASE step = "upload_json"    -> "upload_runtime"
      [] step = "upload_runtime" -> "preflight"
      [] step = "preflight"      -> "upload_script"
      [] step = "upload_script"  -> "state_recheck"

PrepareSteps == {"owner_check", "prepare_check", "prepare_claim", "owner_recheck",
                 "prepare_recheck", "state_recheck", "write_prepared"} \cup UploadSteps
SubmitSteps  == {"submit_read", "submit_claim", "submit_recheck", "mark", "sbatch", "await",
                 "revert", "keep", "record", "wait", "job_record"}
Steps        == {"idle", "release"} \cup PrepareSteps \cup SubmitSteps

Results == {"none", "prepared", "job", "not_prepared", "in_progress", "already_submitted",
            "mismatch", "refused", "uncertain", "error", "crashed"}

Goto(r, step)    == pc' = [pc EXCEPT ![r] = step]
Outcome(r, x)    == result' = [result EXCEPT ![r] = x]
\* Leave the call with a result or an exception.
Return(r, x)     == Goto(r, "idle") /\ Outcome(r, x)
\* Leave through the `finally` or `except` clause that gives the lock back.
ReleaseWith(r, x) == Goto(r, "release") /\ Outcome(r, x)

-----------------------------------------------------------------------------
(* Reading the state file.  `is_file` is `test -f`, and a test that could  *)
(* not be carried out reads like a missing file.                           *)

\* What reading it can come to.
Seen == States \cup {"torn", "mismatch"}

\* What the reader concludes from the file it found.
Found(r) ==
    LET file == state[spec[r].att] IN
    IF file.st = "absent" THEN "absent"
    ELSE IF ~file.whole THEN "torn"
    ELSE IF file.by.print # spec[r].print THEN "mismatch"
    ELSE file.st

Misread(a) == misreads[a] < MaxMisreads /\ misreads' = [misreads EXCEPT ![a] = @ + 1]

\* The reader sees `seen`; a misread is counted.
Reads(r, seen) ==
    \/ seen = Found(r) /\ UNCHANGED misreads
    \/ seen = "absent" /\ Found(r) # "absent" /\ Misread(spec[r].att)

\* How a state Prepare cannot accept ends the call.
PrepareRefusal(seen) ==
    CASE seen = "mismatch"  -> "mismatch"
      [] seen = "SUBMITTED" -> "already_submitted"
      [] OTHER              -> "in_progress"

-----------------------------------------------------------------------------
(* A call begins.                                                          *)

Begin(r, s, step) ==
    /\ pc[r] = "idle"
    /\ Goto(r, step)
    /\ spec' = [spec EXCEPT ![r] = s]
    /\ Outcome(r, "none")
    /\ UNCHANGED <<opened, answer, remote>>

BeginPrepare(r) == \E s \in Specs : Begin(r, s, "owner_check")
BeginSubmit(r)  == \E s \in Specs : Begin(r, s, "submit_read")

-----------------------------------------------------------------------------
(* Prepare.                                                                *)

\* _require_run_directory_owned_by_attempt: before the claim and again under it.
RequireRunDirectoryOwned(r) ==
    LET json == files[RunDir[spec[r].att]]["submission_json"]
        mine == json = NoSpec \/ json.att = spec[r].att
    IN
    /\ pc[r] \in {"owner_check", "owner_recheck"}
    /\ \/ /\ IF mine THEN UNCHANGED misreads ELSE Misread(spec[r].att)
          /\ Goto(r, IF pc[r] = "owner_check" THEN "prepare_check" ELSE "prepare_recheck")
          /\ UNCHANGED result
       \/ /\ ~mine /\ UNCHANGED misreads
          /\ IF pc[r] = "owner_check" THEN Return(r, "mismatch") ELSE ReleaseWith(r, "mismatch")
    /\ UNCHANGED <<spec, opened, answer, state, lock, files, records, jobs, orphan, guessed>>

\* _require_preparable_submission_attempt, after the owner check.
RequirePreparable(r) ==
    /\ pc[r] \in {"prepare_check", "prepare_recheck"}
    /\ \E seen \in Seen :
        /\ Reads(r, seen)
        /\ \/ /\ seen \in {"absent", "PREPARED"}
              /\ Goto(r, IF pc[r] = "prepare_check" THEN "prepare_claim" ELSE "upload_json")
              /\ UNCHANGED result
           \/ /\ seen \notin {"absent", "PREPARED"} /\ pc[r] = "prepare_check"
              /\ Return(r, PrepareRefusal(seen))
           \/ /\ seen \notin {"absent", "PREPARED"} /\ pc[r] = "prepare_recheck"
              /\ ReleaseWith(r, PrepareRefusal(seen))
    /\ UNCHANGED <<spec, opened, answer, state, lock, files, records, jobs, orphan, guessed>>

\* _claim_submission_attempt: mkdir.  It also reads as lost when it failed for
\* another reason, or made the directory and its exit status was lost.
\* (Faulty: mkdir -p, and a `finally` that releases a claim it does not have.)
ClaimsAnyway(a)        == lock' = [lock EXCEPT ![a] = TRUE]
ClaimIsLostReleased(a) == lock' = [lock EXCEPT ![a] = FALSE]

Claims(a)      == ~lock[a] /\ lock' = [lock EXCEPT ![a] = TRUE]
ClaimIsLost(a) == lock' \in {lock, [lock EXCEPT ![a] = TRUE]}

\* (Faulty: what was checked before the claim is not checked again under it.)
ClaimForPreparationUnchecked(r) ==
    /\ pc[r] = "prepare_claim"
    /\ \/ Claims(spec[r].att)      /\ Goto(r, "upload_json") /\ UNCHANGED result
       \/ ClaimIsLost(spec[r].att) /\ Return(r, "in_progress")
    /\ UNCHANGED <<spec, opened, answer, state, files, records, jobs, orphan, faults>>

\* _claim_submission_attempt_for_preparation never waits.
ClaimForPreparation(r) ==
    /\ pc[r] = "prepare_claim"
    /\ \/ Claims(spec[r].att)      /\ Goto(r, "owner_recheck") /\ UNCHANGED result
       \/ ClaimIsLost(spec[r].att) /\ Return(r, "in_progress")
    /\ UNCHANGED <<spec, opened, answer, state, files, records, jobs, orphan, faults>>

\* _prepare_submission_files: submission.json, the runtime package with
\* run_job.py, the runtime preflight, and the sbatch script last.
Upload(r) ==
    LET d == RunDir[spec[r].att] IN
    /\ pc[r] \in UploadSteps
    /\ pc[r] = "preflight" => files[d]["runtime"] # TornFile
    /\ files' = [files EXCEPT ![d][PartOf(pc[r])] =
                    IF pc[r] = "preflight" THEN files[d]["runtime"] ELSE spec[r]]
    /\ Goto(r, AfterUpload(pc[r]))
    /\ UNCHANGED <<spec, opened, answer, result, state, lock, records, jobs, orphan, faults>>

\* A preparation step fails.  Only submission.json is replaced atomically; a
\* failed upload of anything else may leave a partly written file behind, and
\* a step can also fail in its verification, after the file arrived.
UploadFails(r) ==
    LET d == RunDir[spec[r].att] IN
    /\ pc[r] \in UploadSteps
    /\ \/ UNCHANGED files
       \/ /\ pc[r] \in {"upload_runtime", "upload_script"}
          /\ files' = [files EXCEPT ![d][PartOf(pc[r])] = TornFile]
       \/ /\ pc[r] # "preflight"
          /\ files' = [files EXCEPT ![d][PartOf(pc[r])] = spec[r]]
    /\ ReleaseWith(r, "error")
    /\ UNCHANGED <<spec, opened, answer, state, lock, records, jobs, orphan, faults>>

\* (Faulty: the state is not read again before PREPARED is written.)
RecheckStateSkipped(r) ==
    /\ pc[r] = "state_recheck"
    /\ Goto(r, "write_prepared")
    /\ UNCHANGED <<spec, opened, answer, result, remote>>

\* _write_prepared_submission_attempt_state reads the state once more.
RecheckState(r) ==
    /\ pc[r] = "state_recheck"
    /\ \E seen \in Seen :
        /\ Reads(r, seen)
        /\ \/ seen \in {"absent", "PREPARED"}      /\ Goto(r, "write_prepared") /\ UNCHANGED result
           \/ seen \in {"SUBMITTING", "SUBMITTED"} /\ ReleaseWith(r, "prepared")
           \/ seen \in {"torn", "mismatch"}        /\ ReleaseWith(r, PrepareRefusal(seen))
    /\ UNCHANGED <<spec, opened, answer, state, lock, files, records, jobs, orphan, guessed>>

-----------------------------------------------------------------------------
(* Submit.                                                                 *)

\* _require_existing_submission_attempt, before the claim.  From here on the
\* call carries the provenance it read, not the one of its own specification.
ReadAttempt(r) ==
    /\ pc[r] = "submit_read"
    /\ \E seen \in Seen :
        /\ Reads(r, seen)
        /\ \/ seen = "absent"     /\ Return(r, "not_prepared") /\ UNCHANGED spec
           \/ seen = "torn"       /\ Return(r, "in_progress")  /\ UNCHANGED spec
           \/ seen = "mismatch"   /\ Return(r, "mismatch")     /\ UNCHANGED spec
           \/ seen = "SUBMITTED"  /\ Return(r, "job")          /\ UNCHANGED spec
           \/ seen = "SUBMITTING" /\ Goto(r, "wait")           /\ UNCHANGED <<spec, result>>
           \/ /\ seen = "PREPARED" /\ Goto(r, "submit_claim")
              /\ spec' = [spec EXCEPT ![r].prov = state[spec[r].att].by.prov]
              /\ UNCHANGED result
    /\ UNCHANGED <<opened, answer, state, lock, files, records, jobs, orphan, guessed>>

\* (Faulty: the state read before the claim is relied on under it.)
ClaimForSubmissionUnchecked(r) ==
    /\ pc[r] = "submit_claim"
    /\ \/ Claims(spec[r].att)      /\ Goto(r, "mark")
       \/ ClaimIsLost(spec[r].att) /\ Goto(r, "wait")
    /\ UNCHANGED <<spec, opened, answer, result, state, files, records, jobs, orphan, faults>>

\* Whoever loses the mkdir waits for the winner.
ClaimForSubmission(r) ==
    /\ pc[r] = "submit_claim"
    /\ \/ Claims(spec[r].att)      /\ Goto(r, "submit_recheck")
       \/ ClaimIsLost(spec[r].att) /\ Goto(r, "wait")
    /\ UNCHANGED <<spec, opened, answer, result, state, files, records, jobs, orphan, faults>>

\* The state is read again under the lock.  The call that finds SUBMITTED
\* returns from inside the `try` block and leaves the lock directory behind.
RereadUnderLock(r) ==
    /\ pc[r] = "submit_recheck"
    /\ \E seen \in Seen :
        /\ Reads(r, seen)
        /\ \/ seen = "absent"                 /\ ReleaseWith(r, "not_prepared")
           \/ seen \in {"torn", "SUBMITTING"} /\ ReleaseWith(r, "in_progress")
           \/ seen = "mismatch"               /\ ReleaseWith(r, "mismatch")
           \/ seen = "SUBMITTED"              /\ Return(r, "job")
           \/ seen = "PREPARED"               /\ Goto(r, "mark") /\ UNCHANGED result
    /\ UNCHANGED <<spec, opened, answer, state, lock, files, records, jobs, orphan, guessed>>

\* submit_batch issues sbatch; the command is running on the login node.
IssueSbatch(r) ==
    /\ pc[r] = "sbatch"
    /\ Goto(r, "await")
    /\ answer' = [answer EXCEPT ![r] = "running"]
    /\ UNCHANGED <<spec, opened, result, remote>>

\* sbatch exits 0 with a job ID, or exits non-zero.  `run` takes every non-zero
\* exit status for a refusal, also the -1 of a channel that closed without one;
\* only where AmbiguousExit allows it is there an sbatch behind that.
HearFromSbatch(r) ==
    /\ pc[r] = "await"
    /\ \/ /\ answer[r] = "accepted" /\ UNCHANGED faults
          /\ Goto(r, "record") /\ Outcome(r, "job")
       \/ /\ answer[r] = "refused" /\ UNCHANGED faults
          /\ Goto(r, "revert") /\ Outcome(r, "refused")
       \/ /\ answer[r] # "refused" /\ AmbiguousExit
          /\ Misread(spec[r].att) /\ guessed' = [guessed EXCEPT ![spec[r].att] = TRUE]
          /\ Goto(r, "revert") /\ Outcome(r, "refused")
    /\ orphan' = [orphan EXCEPT ![spec[r].att] = @ \/ answer[r] = "running"]
    /\ answer' = [answer EXCEPT ![r] = "none"]
    /\ UNCHANGED <<spec, opened, state, lock, files, records, jobs>>

\* The command timed out, the transport broke, or its output had no job ID.
\* An sbatch that is still running runs on.
LoseSbatch(r) ==
    LET a == spec[r].att IN
    /\ \/ pc[r] = "sbatch" /\ UNCHANGED orphan
       \/ /\ pc[r] = "await"
          /\ orphan' = [orphan EXCEPT ![a] = @ \/ answer[r] = "running"]
    /\ Goto(r, "keep") /\ Outcome(r, "uncertain")
    /\ answer' = [answer EXCEPT ![r] = "none"]
    /\ UNCHANGED <<spec, opened, state, lock, files, records, jobs, faults>>

\* (Faulty: polling without a deadline, and an answer for any committed state.)
WaitForever(r) ==
    /\ pc[r] = "wait"
    /\ \/ Found(r) = "SUBMITTED" /\ Return(r, "job")
       \/ Found(r) = "mismatch"  /\ Return(r, "mismatch")
    /\ UNCHANGED <<spec, opened, answer, remote>>
WaitForAnyState(r) ==
    /\ pc[r] = "wait"
    /\ \/ Found(r) \in {"SUBMITTING", "SUBMITTED"} /\ Return(r, "job")
       \/ Return(r, "in_progress")
    /\ UNCHANGED <<spec, opened, answer, remote>>

\* _wait_for_submission_attempt_resolution polls until SUBMITTED, an unreadable
\* or foreign state, or its deadline.
WaitForResolution(r) ==
    /\ pc[r] = "wait"
    /\ \/ Found(r) = "SUBMITTED" /\ Return(r, "job")
       \/ Found(r) = "mismatch"  /\ Return(r, "mismatch")
       \/ Return(r, "in_progress")
    /\ UNCHANGED <<spec, opened, answer, remote>>

\* _write_remote_job_record, atomic and best-effort.
WriteJobRecord(r) ==
    /\ pc[r] = "job_record"
    /\ Goto(r, "idle")
    /\ \/ records' = [records EXCEPT ![spec[r].att] = TRUE]
       \/ UNCHANGED records
    /\ UNCHANGED <<spec, opened, answer, result, state, lock, files, jobs, orphan, faults>>

-----------------------------------------------------------------------------
(* Writing the state file, and giving the lock back.                       *)

\* put_text opens the file for writing, which truncates it ...
OpenState(r) ==
    LET a == spec[r].att IN
    /\ pc[r] \in WriteSteps /\ ~opened[r]
    /\ opened' = [opened EXCEPT ![r] = TRUE]
    /\ state' = [state EXCEPT ![a] = [st |-> WrittenBy(pc[r]), by |-> spec[r], whole |-> FALSE]]
    /\ UNCHANGED <<pc, spec, answer, result, lock, files, records, jobs, orphan, faults>>

\* ... and closes it complete.
CompleteState(r) ==
    LET a == spec[r].att IN
    /\ pc[r] \in WriteSteps /\ opened[r]
    /\ opened' = [opened EXCEPT ![r] = FALSE]
    /\ state' = [state EXCEPT ![a].whole = TRUE]
    /\ \/ pc[r] = "write_prepared"       /\ ReleaseWith(r, "prepared")
       \/ pc[r] = "mark"                 /\ Goto(r, "sbatch") /\ UNCHANGED result
       \/ pc[r] = "keep"                 /\ Return(r, "uncertain")
       \/ pc[r] \in {"revert", "record"} /\ Goto(r, "release") /\ UNCHANGED result
    /\ UNCHANGED <<spec, answer, lock, files, records, jobs, orphan, faults>>

\* put_text raises: before it opened the file, with the file incomplete, or
\* after the content was complete (the chmod that follows failed).  Prepare and
\* the SUBMITTING mark give the lock back; a revert and a repeated mark keep it;
\* a failed record is swallowed, and keeps it.
FailState(r) ==
    LET a == spec[r].att IN
    /\ pc[r] \in WriteSteps
    /\ \/ UNCHANGED state
       \/ opened[r] /\ state' = [state EXCEPT ![a].whole = TRUE]
    /\ opened' = [opened EXCEPT ![r] = FALSE]
    /\ \/ pc[r] \in {"write_prepared", "mark"} /\ ReleaseWith(r, "error")
       \/ pc[r] \in {"revert", "keep"}         /\ Return(r, "error")
       \/ pc[r] = "record"                     /\ Goto(r, "job_record") /\ UNCHANGED result
    /\ UNCHANGED <<spec, answer, lock, files, records, jobs, orphan, faults>>

\* _release_submission_attempt_claim: rmdir, whose failure is ignored.
Release(r) ==
    LET a == spec[r].att IN
    /\ pc[r] = "release"
    /\ \/ lock' = [lock EXCEPT ![a] = FALSE]
       \/ UNCHANGED lock
    /\ Goto(r, IF result[r] = "job" THEN "job_record" ELSE "idle")
    /\ UNCHANGED <<spec, opened, answer, result, state, files, records, jobs, orphan, faults>>

-----------------------------------------------------------------------------
(* Faults, and SLURM.                                                      *)

\* A remote command of a read or a claim raises.  A mkdir whose answer is lost
\* may have made the directory.
LoseConnection(r) ==
    /\ \/ /\ pc[r] \in {"owner_check", "prepare_check", "submit_read", "wait"}
          /\ Return(r, "error") /\ UNCHANGED lock
       \/ /\ pc[r] \in {"prepare_claim", "submit_claim"}
          /\ Return(r, "error")
          /\ ClaimIsLost(spec[r].att)
       \/ /\ pc[r] \in {"owner_recheck", "prepare_recheck", "state_recheck", "submit_recheck"}
          /\ ReleaseWith(r, "error") /\ UNCHANGED lock
    /\ UNCHANGED <<spec, opened, answer, state, files, records, jobs, orphan, faults>>

\* The service process dies: nothing is cleaned up on POWER, and an sbatch it
\* started keeps running.
Crash(r) ==
    LET a == spec[r].att IN
    /\ pc[r] # "idle"
    /\ Return(r, "crashed")
    /\ opened' = [opened EXCEPT ![r] = FALSE]
    /\ answer' = [answer EXCEPT ![r] = "none"]
    /\ orphan' = [orphan EXCEPT ![a] = @ \/ answer[r] = "running"]
    /\ UNCHANGED <<spec, state, lock, files, records, jobs, faults>>

\* SLURM decides on an sbatch command somebody waits for, or nobody does.
Accept(a) == jobs' = [jobs EXCEPT ![a] = @ + 1]

DecideSbatch(r) ==
    /\ pc[r] = "await" /\ answer[r] = "running"
    /\ \/ Accept(spec[r].att) /\ answer' = [answer EXCEPT ![r] = "accepted"]
       \/ UNCHANGED jobs      /\ answer' = [answer EXCEPT ![r] = "refused"]
    /\ UNCHANGED <<pc, spec, opened, result, state, lock, files, records, orphan, faults>>

DecideOrphan(a) ==
    /\ orphan[a]
    /\ orphan' = [orphan EXCEPT ![a] = FALSE]
    /\ Accept(a) \/ UNCHANGED jobs
    /\ UNCHANGED <<local, state, lock, files, records, faults>>

-----------------------------------------------------------------------------
Init ==
    /\ pc = [r \in Requests |-> "idle"]
    /\ spec = [r \in Requests |-> NoSpec]
    /\ opened = [r \in Requests |-> FALSE]
    /\ answer = [r \in Requests |-> "none"]
    /\ result = [r \in Requests |-> "none"]
    /\ state = [a \in Attempts |-> [st |-> "absent", by |-> NoSpec, whole |-> TRUE]]
    /\ lock = [a \in Attempts |-> FALSE]
    /\ files = [d \in Dirs |-> [p \in Parts |-> NoSpec]]
    /\ records = [a \in Attempts |-> FALSE]
    /\ jobs = [a \in Attempts |-> 0]
    /\ orphan = [a \in Attempts |-> FALSE]
    /\ misreads = [a \in Attempts |-> 0]
    /\ guessed = [a \in Attempts |-> FALSE]

PrepareStep(r) ==
    \/ RequireRunDirectoryOwned(r) \/ RequirePreparable(r) \/ ClaimForPreparation(r)
    \/ Upload(r) \/ UploadFails(r) \/ RecheckState(r)

SubmitStep(r) ==
    \/ ReadAttempt(r) \/ ClaimForSubmission(r) \/ RereadUnderLock(r)
    \/ IssueSbatch(r) \/ HearFromSbatch(r) \/ LoseSbatch(r)
    \/ WaitForResolution(r) \/ WriteJobRecord(r)

WriteStep(r) == OpenState(r) \/ CompleteState(r) \/ FailState(r) \/ Release(r)

\* What the service does by itself once a call has begun.
Step(r) == PrepareStep(r) \/ SubmitStep(r) \/ WriteStep(r)

Next ==
    \/ \E r \in Requests : BeginPrepare(r) \/ BeginSubmit(r) \/ Step(r)
                           \/ LoseConnection(r) \/ Crash(r) \/ DecideSbatch(r)
    \/ \E a \in Attempts : DecideOrphan(a)

Spec == Init /\ [][Next]_vars

\* Requests run in server threads, so a call that has begun takes its next step;
\* and every remote command ends, by its answer or by its timeout.
FairSpec == Spec /\ \A r \in Requests : WF_vars(Step(r))

-----------------------------------------------------------------------------
(* Properties.                                                             *)

Files == [Parts -> Specs \cup {NoSpec, TornFile}]

\* Every variable stays within the values the code can give it.
TypeOK ==
    /\ pc \in [Requests -> Steps]
    /\ spec \in [Requests -> Specs \cup {NoSpec}]
    /\ opened \in [Requests -> BOOLEAN]
    /\ answer \in [Requests -> {"none", "running", "accepted", "refused"}]
    /\ result \in [Requests -> Results]
    /\ state \in [Attempts -> StateFiles]
    /\ lock \in [Attempts -> BOOLEAN]
    /\ files \in [Dirs -> Files]
    /\ records \in [Attempts -> BOOLEAN]
    /\ jobs \in [Attempts -> Nat]
    /\ orphan \in [Attempts -> BOOLEAN]
    /\ misreads \in [Attempts -> 0..MaxMisreads]
    /\ guessed \in [Attempts -> BOOLEAN]

\* The steps between a successful mkdir and the rmdir.
UnderLock == {"owner_recheck", "prepare_recheck", "state_recheck", "write_prepared",
              "submit_recheck", "mark", "sbatch", "await", "revert", "keep", "record",
              "release"} \cup UploadSteps

Holds(r, a) == pc[r] \in UnderLock /\ spec[r].att = a

\* "The attempt claim keeps Prepare and Submit from interleaving": whatever
\* fails or dies, no two calls ever work on one attempt, and the lock
\* directory exists as long as one does.
ClaimIsExclusive ==
    \A a \in Attempts : \A r \in Requests : Holds(r, a) =>
        /\ lock[a]
        /\ \A q \in Requests : Holds(q, a) => q = r

\* What the protocol cannot do without: that at most one lost exit status of the attempt
\* was taken for an answer, and that it was not that of its sbatch.
Trusted(a) == misreads[a] <= 1 /\ ~guessed[a]

\* docs/machine_api.md, without a condition: one attempt produces at most one sbatch job.
AtMostOneJob == \A a \in Attempts : jobs[a] <= 1

\* The promise of the protocol: an attempt never gets a second SLURM job, however
\* Submit calls are repeated, overlapped, timed out or cut off, unless its exit statuses
\* were misread twice, or that of sbatch was.  Misreads of another attempt do no harm.
OneJobUnlessMisread == \A a \in Attempts : Trusted(a) => jobs[a] <= 1

\* Once SLURM may hold a job for an attempt, its state file says so (also while
\* that file is torn): it never reads PREPARED or disappears again, so that no
\* later call can take the attempt for one that was not submitted, as long as the
\* protocol can trust what it reads of this attempt.
JobsAreMarked ==
    \A a \in Attempts : Trusted(a) /\ (jobs[a] > 0 \/ orphan[a]) =>
        state[a].st \in {"SUBMITTING", "SUBMITTED"}

\* A call that answers with a job, a SUBMITTED state and a job record each
\* stand for a job SLURM accepted.
JobsAreReal ==
    /\ \A r \in Requests : result[r] = "job" => jobs[spec[r].att] > 0
    /\ \A a \in Attempts : state[a].st = "SUBMITTED" \/ records[a] => jobs[a] > 0

\* Every attempt was specified with a run directory of its own.
OwnDirs == \A a, b \in Attempts : RunDir[a] = RunDir[b] => a = b

\* From SUBMITTING on, nothing of the execution package in the attempt's run
\* directory is replaced (docs/run_records.md, Authority), unless a `test -f` of this
\* attempt was misread: one is enough here, that of the state under Prepare's lock.
PackageIsFrozen ==
    [][\A a \in Attempts :
            misreads[a] = 0 /\ state[a].st \in {"SUBMITTING", "SUBMITTED"} =>
                files'[RunDir[a]] = files[RunDir[a]]]_vars

\* What a state file is written about is in the run directory: Prepare writes
\* PREPARED last, so that every part was uploaded before, by the same attempt and
\* for the same calculation metadata.  Only a Prepare repeated in vain may have
\* left a part torn, and only one that misread a `test -f` may have replaced a part.
PreparedFilesArePresent ==
    \A a \in Attempts : misreads[a] = 0 /\ state[a].st # "absent" =>
        \A part \in Parts : LET content == files[RunDir[a]][part] IN
            \/ content = TornFile /\ part # "submission_json"
            \/ content # NoSpec /\ content.att = a /\ content.print = state[a].by.print

\* Every call returns: polling has a deadline, and nobody waits for a lock.
CallsReturn == \A r \in Requests : pc[r] # "idle" ~> pc[r] = "idle"

\* Claimed by docs/provenance.md: a prepared attempt has already passed the check,
\* so the package in its run directory is the one its preflight ran.
PreparedPassedPreflight ==
    \A a \in Attempts : state[a].st = "PREPARED" /\ state[a].whole /\ ~lock[a] =>
        files[RunDir[a]]["preflight"] = files[RunDir[a]]["runtime"]

-----------------------------------------------------------------------------
(* The inductive invariant behind the safety properties: what a call at    *)
(* each step relies on, and what the claim preserves for it.               *)

MayHoldJob(a) == jobs[a] > 0 \/ orphan[a]

\* A call works on a specification, writes only where it opened the file, and
\* has an answer to wait for only where it waits.
CallsAreWellFormed ==
    \A r \in Requests :
        /\ pc[r] # "idle" => spec[r] \in Specs
        /\ opened[r] => pc[r] \in WriteSteps
        /\ answer[r] # "none" <=> pc[r] = "await"
        /\ result[r] = "job" => spec[r] \in Specs

\* A state file names the specification it was written for.
StatesAreAttributed ==
    \A a \in Attempts : state[a].st # "absent" => state[a].by \in Specs

\* A Prepare under the lock works on an attempt no Submit has marked: if it has, one
\* misread has led the Prepare here, and the second check of the state stops it unless
\* that is misread as well.
PrepareIsBeforeCommit ==
    \A r \in Requests : LET a == spec[r].att IN
        /\ pc[r] \in UploadSteps \cup {"state_recheck"} =>
              state[a].st \in {"absent", "PREPARED"} \/ misreads[a] >= 1
        /\ pc[r] = "write_prepared" => state[a].st \in {"absent", "PREPARED"} \/ ~Trusted(a)

\* What a Submit under the lock knows of its attempt at each of its steps: of its state
\* file, because of the claim ...
SubmitKnows(r, a) ==
    /\ pc[r] = "mark" => state[a].st \in {"PREPARED", "SUBMITTING"}
    /\ pc[r] = "mark" /\ opened[r] => state[a].st = "SUBMITTING"
    /\ pc[r] \in {"sbatch", "await", "keep"} => state[a].st = "SUBMITTING"
    /\ pc[r] = "revert" => state[a].st \in {"SUBMITTING", "PREPARED"}
    /\ pc[r] = "record" => state[a].st \in {"SUBMITTING", "SUBMITTED"} /\ result[r] = "job"
    /\ pc[r] = "job_record" => result[r] = "job"

\* ... and of its jobs, as long as the state file can be trusted.
SubmitKnowsJobs(r, a) ==
    /\ pc[r] \in {"mark", "sbatch", "revert"} => ~MayHoldJob(a)
    /\ pc[r] = "await" => ~orphan[a] /\ jobs[a] = IF answer[r] = "accepted" THEN 1 ELSE 0

SubmitsAreInformed ==
    \A r \in Requests : LET a == spec[r].att IN
        SubmitKnows(r, a) /\ (pc[r] # "idle" /\ Trusted(a) => SubmitKnowsJobs(r, a))

\* A running sbatch nobody waits for is the only one, and made no job yet.
OrphansAreAlone == \A a \in Attempts : Trusted(a) /\ orphan[a] => jobs[a] = 0

\* Whoever has an answer of SLURM, or records one, has a job.
JobsAreKnown ==
    \A r \in Requests :
        /\ answer[r] = "accepted" => jobs[spec[r].att] > 0
        /\ pc[r] \in {"record", "job_record"} => result[r] = "job"

ProtocolInv ==
    /\ TypeOK
    /\ CallsAreWellFormed
    /\ StatesAreAttributed
    /\ ClaimIsExclusive
    /\ PrepareIsBeforeCommit
    /\ SubmitsAreInformed
    /\ OrphansAreAlone
    /\ OneJobUnlessMisread
    /\ JobsAreMarked
    /\ JobsAreReal
    /\ JobsAreKnown

\* The parts a Prepare has behind it.
UploadedBefore(step) ==
    CASE step = "upload_runtime" -> {"submission_json"}
      [] step = "preflight"      -> {"submission_json", "runtime"}
      [] step = "upload_script"  -> {"submission_json", "runtime", "preflight"}
      [] step \in {"state_recheck", "write_prepared"} -> Parts
      [] OTHER -> {}

Preparing == UploadSteps \cup {"state_recheck", "write_prepared"}
Committing == {"mark", "sbatch", "await", "revert", "keep", "record"}

\* What a call under the lock has uploaded is its own, and a state file it found there
\* is about the same calculation.
UploadsAreOwn ==
    \A r \in Requests : LET a == spec[r].att IN
        /\ pc[r] \in Preparing /\ misreads[a] = 0 =>
              \A part \in UploadedBefore(pc[r]) : files[RunDir[a]][part] = spec[r]
        /\ pc[r] \in Preparing \cup Committing /\ misreads[a] = 0 =>
              state[a].st = "absent" \/ state[a].by.print = spec[r].print

PackageInv == UploadsAreOwn /\ PreparedFilesArePresent

-----------------------------------------------------------------------------
(* The abstract attempt this protocol implements.                          *)

PhaseOf == [absent |-> "absent", PREPARED |-> "prepared",
            SUBMITTING |-> "committed", SUBMITTED |-> "recorded"]

Lifecycle == INSTANCE AttemptLifecycle WITH
    phase    <- [a \in Attempts |-> PhaseOf[state[a].st]],
    accepted <- jobs,
    misled   <- {a \in Attempts : ~Trusted(a)}

\* The protocol does to each attempt only what AttemptLifecycle allows: one job, and no way
\* back from it, until misread exit statuses make it lose track of that attempt.
ImplementsLifecycle == Lifecycle!LifecycleSpec

=============================================================================
