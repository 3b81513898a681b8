-------------------------------- MODULE PowerJob --------------------------------
(***************************************************************************)
(* One submission attempt from the code of the web service to the stages   *)
(* that run on POWER: what Prepare uploads (backend/submission.py), what   *)
(* Submit records of it, and the job that SLURM starts, perhaps again,     *)
(* which checks the package and the environment before it runs the flow    *)
(* (StageRunner).  Meanwhile the service may be upgraded file by file, and *)
(* files and packages on POWER may change.                                 *)
(***************************************************************************)
EXTENDS StageRunner, RuntimeGuard

CONSTANTS
    Foreign,        \* a file that is not one of the package
    Late,           \* modules that the stages import
    Upgraded,       \* modules that an upgrade changes
    MaxChanges,     \* changes on POWER
    MaxRuns         \* times SLURM starts the job

ASSUME JobAssumption ==
    /\ {"execution", "workflows"} \subseteq Modules /\ Late \subseteq Modules /\ Upgraded \subseteq Modules
    /\ Foreign \notin Modules /\ MaxChanges \in Nat /\ MaxRuns \in Nat
    /\ Absent \notin [run : Nat, status : {"passed", "failed"},
                      packages : [Packages -> {1, 2, Absent}], updates : BOOLEAN]

VARIABLES
    checkout,       \* the backend files of the service: file -> version
    prepare,        \* the Prepare that is under way: [step, provenance, manifest of the upload]
    read,           \* Absent, or the provenance Submit read
    state,          \* the state file of the attempt: [phase, provenance]
    job,            \* Absent, or the provenance in the record of the job
    package,        \* the package directory
    launcher,       \* the manifest in run_job.py
    torn,           \* has a Prepare that uploaded not been recorded, or too late for Submit?
    environment,    \* the scientific packages on POWER
    changes,
    step,           \* where the job is
    run,            \* the number of the run
    record,         \* runtime_environment.json
    loaded          \* module -> the bytes that were executed

service == <<checkout, prepare, read, state, job, torn>>
disk    == <<package, launcher>>
power   == <<environment, changes>>
guard   == <<step, run, record, loaded>>
vars    == <<runner, service, disk, power, guard>>

Edited == 3    \* bytes of no version of the service

NoRequest == [step |-> "none", provenance |-> Absent, manifest |-> Absent]
NoFiles   == [f \in {} |-> Absent]

PreparedStack == Stack([p \in Packages |-> 1], FALSE)
\* Each package as prepared, in another version, or missing.
Stacks == [packages : [Packages -> {1, 2, Absent}], updates : BOOLEAN]

-----------------------------------------------------------------------------
(* The service.                                                            *)

\* The checkout is upgraded under the running service, one file at a time; an upgrade
\* after Submit reaches nothing of the attempt.
Upgrade(f) ==
    /\ state.phase # "submitted" /\ checkout[f] = 1 /\ checkout' = [checkout EXCEPT ![f] = 2]
    /\ UNCHANGED <<runner, prepare, read, state, job, torn, disk, power, guard>>

\* A request builds the specification, with the manifest of the package as it is now.
Specify ==
    /\ prepare = NoRequest /\ state.phase # "submitted"
    /\ prepare' = [NoRequest EXCEPT !.step = "specified",
                        !.provenance = runtime_package_manifest_for_sources(checkout)]
    /\ UNCHANGED <<runner, checkout, read, state, job, torn, disk, power, guard>>

Abandon == prepare' = NoRequest /\ UNCHANGED <<checkout, read, state, job>>

\* (Faulty: the package is uploaded as it is, whatever was recorded.)
UploadsAnyway(recorded, sources) == TRUE

\* The package did not change since the specification.
MayUpload(recorded, sources) == recorded = runtime_package_manifest_for_sources(sources)

\* The one snapshot that is uploaded; other files of the directory stay.
UploadPackage ==
    /\ prepare.step = "specified"
    /\ IF MayUpload(prepare.provenance, checkout)
       THEN /\ package' = [f \in Modules \cup DOMAIN package |->
                              IF f \in Modules THEN Uploaded(checkout)[f] ELSE package[f]]
            /\ prepare' = [prepare EXCEPT !.step = "package",
                               !.manifest = runtime_package_manifest_for_sources(checkout)]
            /\ UNCHANGED <<checkout, read, state, job>>
       ELSE Abandon /\ UNCHANGED package
    /\ UNCHANGED <<runner, torn, launcher, power, guard>>

\* run_job.py has the manifest of that snapshot.
UploadLauncher ==
    /\ prepare.step = "package"
    /\ launcher' = prepare.manifest
    /\ prepare' = [prepare EXCEPT !.step = "launcher"]
    /\ UNCHANGED <<runner, checkout, read, state, job, torn, package, power, guard>>

\* Run on POWER as the job will be.
Preflight ==
    /\ prepare.step = "launcher"
    /\ bmd_runtime_package_problems(package, launcher) = {}
    /\ prepare' = [prepare EXCEPT !.step = "checked"]
    /\ UNCHANGED <<runner, checkout, read, state, job, torn, disk, power, guard>>

\* When Submit read the state before, it has the provenance of an earlier Prepare.
MarkPrepared ==
    /\ prepare.step = "checked"
    /\ state' = [phase |-> "prepared", provenance |-> prepare.provenance]
    /\ torn' = (read # Absent)
    /\ prepare' = NoRequest
    /\ UNCHANGED <<runner, checkout, read, job, disk, power, guard>>

\* A Prepare fails at any step; a preparation before it stays recorded.
PrepareFails ==
    /\ prepare.step \in {"specified", "package", "launcher", "checked"}
    /\ Abandon
    /\ torn' = (torn \/ (prepare.step # "specified" /\ state.phase = "prepared"))
    /\ UNCHANGED <<runner, disk, power, guard>>

ReadState ==
    /\ state.phase = "prepared" /\ read = Absent
    /\ read' = state.provenance
    /\ UNCHANGED <<runner, checkout, prepare, state, job, torn, disk, power, guard>>

\* The provenance that was prepared, not that of the request that submits.
Recorded(prepared) == prepared

\* The claim excludes a Prepare that is uploading; one that has not begun is refused.
Submit ==
    /\ read # Absent /\ state.phase = "prepared" /\ prepare.step \in {"none", "specified"}
    /\ state' = [state EXCEPT !.phase = "submitted"]
    /\ job' = Recorded(read)
    /\ read' = Absent /\ prepare' = NoRequest
    /\ UNCHANGED <<runner, checkout, torn, disk, power, guard>>

-----------------------------------------------------------------------------
(* Changes on POWER, MaxChanges of them, from the first preparation on: of *)
(* the package, and of the environment.                                    *)

MayChange == state.phase # "absent" /\ changes < MaxChanges

EditFile(f) ==
    /\ MayChange /\ f \in DOMAIN package
    /\ package' \in
         {[package EXCEPT ![f] = Entry("file", Edited)], [package EXCEPT ![f].kind = "link"],
          [g \in DOMAIN package \ {f} |-> package[g]]}
    /\ changes' = changes + 1
    /\ UNCHANGED <<runner, service, launcher, environment, guard>>

AddFile ==
    /\ MayChange /\ Foreign \notin DOMAIN package
    /\ package' = [f \in DOMAIN package \cup {Foreign} |->
                      IF f = Foreign THEN Entry("file", Edited) ELSE package[f]]
    /\ changes' = changes + 1
    /\ UNCHANGED <<runner, service, launcher, environment, guard>>

ChangeEnvironment ==
    /\ MayChange
    /\ environment' \in Stacks \ {environment}
    /\ changes' = changes + 1
    /\ UNCHANGED <<runner, service, disk, guard>>

-----------------------------------------------------------------------------
(* The job.                                                                *)

Outside == UNCHANGED <<service, disk, power>>

Exit == step' = "ended" /\ UNCHANGED <<runner, run, record, loaded>>

\* SLURM starts the job, or starts it again after a run that was cut off.
Start ==
    /\ state.phase = "submitted" /\ step = "off" /\ run < MaxRuns
    /\ run' = run + 1 /\ step' = "verify" /\ loaded' = NoFiles
    /\ RunnerRestart
    /\ UNCHANGED record /\ Outside

Kill ==
    /\ step \notin {"off", "ended"}
    /\ step' = "off"
    /\ UNCHANGED <<runner, run, record, loaded>> /\ Outside

Verify ==
    /\ step = "verify"
    /\ IF bmd_runtime_package_problems(package, launcher) = {}
       THEN step' = "import" /\ UNCHANGED <<runner, run, record, loaded>>
       ELSE Exit
    /\ Outside

\* A module is executed once; a name that is loaded is not loaded again.
Executes(f) ==
    loaded' = [g \in DOMAIN loaded \cup {f} |-> IF g \in DOMAIN loaded THEN loaded[g] ELSE package[f].bytes]

Import(f, next) ==
    IF Loads(package, launcher, f)
    THEN Executes(f) /\ step' = next /\ UNCHANGED <<runner, run, record>>
    ELSE Exit

ImportExecution == step = "import" /\ Import("execution", "parity") /\ Outside

\* The record first, and then the exception.
EnforceEnvironment ==
    /\ step = "parity"
    /\ record' = runtime_environment_record(run, prepared_runtime_parity(PreparedStack), environment)
    /\ step' = IF record'.status = "passed" THEN "build" ELSE "ended"
    /\ UNCHANGED <<runner, run, loaded>> /\ Outside

BuildFlow == step = "build" /\ Import("workflows", "stages") /\ Outside

\* A stage imports another module; when it cannot, the stage fails.
LateImport ==
    /\ step = "stages" /\ Runs
    /\ \E f \in Late \ DOMAIN loaded :
          IF Loads(package, launcher, f)
          THEN Executes(f) /\ JobResponds
          ELSE JobFails /\ UNCHANGED loaded
    /\ UNCHANGED <<step, run, record>> /\ Outside

\* The exit status is that of the flow.
RunStages ==
    /\ step = "stages"
    /\ RunnerNext
    /\ step' = IF pc' \in {"failed", "done"} THEN "ended" ELSE step
    /\ UNCHANGED <<run, record, loaded>> /\ Outside

JobStep ==
    \/ Verify \/ ImportExecution \/ EnforceEnvironment \/ BuildFlow
    \/ LateImport \/ RunStages

-----------------------------------------------------------------------------
Init ==
    /\ RunnerInit
    /\ checkout = [f \in Modules |-> 1]
    /\ prepare = NoRequest /\ read = Absent
    /\ state = [phase |-> "absent", provenance |-> Absent]
    /\ job = Absent /\ torn = FALSE
    /\ package = NoFiles /\ launcher = NoFiles
    /\ environment = PreparedStack /\ changes = 0
    /\ step = "off" /\ run = 0 /\ record = Absent /\ loaded = NoFiles

Next ==
    \/ \E f \in Upgraded : Upgrade(f)
    \/ \E f \in Modules : EditFile(f)
    \/ Specify \/ UploadPackage \/ UploadLauncher \/ Preflight \/ MarkPrepared \/ PrepareFails
    \/ ReadState \/ Submit
    \/ AddFile \/ ChangeEnvironment
    \/ Start \/ Kill \/ JobStep

\* The process goes on: VASP ends, with an answer or an exception, and the allocation
\* ends at the walltime.
Spec == Init /\ [][Next]_vars /\ WF_vars(JobStep)

-----------------------------------------------------------------------------
(* Properties.                                                             *)

\* docs/provenance.md: what runs is what was uploaded, byte for byte, whenever it is
\* imported: what a file becomes after the check is never executed.
OnlyUploadedCodeRuns ==
    \A f \in DOMAIN loaded : f \in DOMAIN launcher /\ Sha(loaded[f]) = launcher[f]

\* No stage runs, in this run, unless the environment of this very run passed: the
\* versions of the preparation and settings that leave the inputs alone, and the record
\* on disk says so.
NothingRunsUnchecked ==
    ran # << >> =>
        /\ record # Absent /\ record.run = run /\ record.status = "passed"
        /\ record.packages = PreparedStack.packages /\ ~record.updates
        /\ {"execution", "workflows"} \subseteq DOMAIN loaded

\* The record of the job describes the code that the job runs, but for a Prepare that
\* uploaded and failed, or that came between the two looks of Submit.
ProvenanceIsWhatRuns ==
    state.phase = "submitted" /\ ~torn => job = launcher

\* A run comes to an end.
RunEnds == (step = "stages") ~> (step \in {"off", "ended"})

-----------------------------------------------------------------------------
(* The inductive invariant behind them.                                    *)

JobTypeOK ==
    /\ prepare = [step |-> prepare.step, provenance |-> prepare.provenance, manifest |-> prepare.manifest]
    /\ prepare.step \in {"none", "specified", "package", "launcher", "checked"}
    /\ state = [phase |-> state.phase, provenance |-> state.provenance]
    /\ state.phase \in {"absent", "prepared", "submitted"}
    /\ environment \in Stacks
    /\ step \in {"off", "verify", "import", "parity", "build", "stages", "ended"}
    /\ run \in Nat

\* Once the attempt is submitted nothing is uploaded for it, and nothing runs before.
SubmittedIsFinal ==
    IF state.phase = "submitted" THEN prepare = NoRequest
    ELSE step = "off" /\ loaded = NoFiles /\ ran = << >>

\* The job does what it does in this order, in every run.
ChecksComeFirst ==
    /\ step \in {"verify", "import", "parity", "build"} => ran = << >>
    /\ step \in {"parity", "build", "stages"} => "execution" \in DOMAIN loaded
    /\ step \in {"build", "stages"} =>
          /\ record # Absent /\ record.run = run /\ record.status = "passed"
          /\ record.packages = PreparedStack.packages /\ ~record.updates
    /\ step = "stages" => "workflows" \in DOMAIN loaded

\* What was uploaded is what was specified, what is recorded as prepared is what is
\* uploaded, and Submit has read what is recorded.
ProvenanceIsFollowed ==
    /\ prepare.step \in {"package", "launcher", "checked"} => prepare.manifest = prepare.provenance
    /\ prepare.step \in {"launcher", "checked"} => launcher = prepare.manifest
    /\ ~torn => /\ state.phase = "prepared" /\ prepare.step \in {"none", "specified"} => state.provenance = launcher
                /\ read # Absent => read = state.provenance

JobInv ==
    /\ JobTypeOK
    /\ SubmittedIsFinal
    /\ OnlyUploadedCodeRuns
    /\ ChecksComeFirst
    /\ NothingRunsUnchecked
    /\ ProvenanceIsFollowed
    /\ ProvenanceIsWhatRuns

=============================================================================
