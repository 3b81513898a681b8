# BMD Compute in TLA+

BMD Compute is a web service that plans DFT calculations, prepares them on the cluster
POWER over SSH, submits them to SLURM, watches the jobs and shows their results.  This
directory holds TLA+ models of its stateful parts and of how it plans a calculation, TLC
runs that check them on small instances, and TLAPS proofs of what matters most for every
instance.  Line references are to the repository (`docs/...`, `backend/...`,
`compute_api/...`).

- [Inventory](#inventory)
- [Modules and how they correspond to the code](#modules)
- [Runs: what each shows, bounds, fairness](#runs)
- [Proofs](#proofs)
- [Where the code and its documents disagree](#disagreements)
- [Plan](#plan)
- [Not modelled](#not-modelled)

## Inventory

One process (Uvicorn, one worker) serves two front ends: the browser pages of `main.py` and
the machine API of `compute_api/`.  Their handlers run in a thread pool.  Everything that
lasts is outside the process: the ledger and the tokens file (beside the service), the run
directories, attempt states and job records (on POWER), and SLURM.

| component | state | operations | interacts with | hard about it | correct when |
|---|---|---|---|---|---|
| remote attempt protocol (`paramiko_remote.py`, `remote_preparation.py`, `remote_submission.py`) | on POWER, per attempt: state file, lock directory, run directory, job record | Prepare, Submit, reading the state | SLURM by `sbatch`; both front ends | every SSH command may fail or lose its answer; the service may die between any two; calls of several threads and processes on one attempt | at most one job per attempt; what was submitted is what was prepared; a submission is never forgotten |
| machine API execution (`compute_api/execution.py`) and ledger (`compute_api/ledger.py`) | a record per attempt: binding, timestamp, state, reservation, scheduler | PUT (prepare, submit), GET | remote attempt protocol, monitoring, planner | locked sections with remote calls in between; requests on the same attempt; caps over all attempts; retries and upgrades | caps hold; the ledger says of POWER only what is so; what is submitted is what was asked for |
| authentication (`compute_api/auth.py`, `tokens.py`) and router | the tokens file, read at each request | authenticate, authorize, dispatch | execution | one bad entry disables the file | only a principal with the scope acts, and on its own attempts |
| plans and digests (`plan_digest.py`, `projection.py`, `canonical.py`) | none | plan, digest, fingerprint | scientific resolution, execution | a PUT is planned again, by other code than the plan that was shown | a digest identifies the calculation, a fingerprint the attempt |
| SSH operation limiter (`remote_runtime.py`) | semaphore, counters | slot, snapshot | every remote call | exceptions at any point, busy callers | slots are neither lost nor exceeded |
| job monitoring (`monitoring.py`, `query_job`) | none | monitor a job | SLURM commands, job record, ledger | three commands at three times, each may fail; SLURM forgets | a success that is told is the end, a failure an end or an interruption |
| results loading (`results.py`) | LRU cache, job index | load, look up, store | limiter, monitoring, remote parser | lookups of several threads with remote calls in between | bounded, indexed, only successes |
| browser routes (`main.py`), signed identity (`submission.py`), page (`index.html`) | none in the service: the calculation and a signed token travel through the page | analyze, build, prepare, submit, refresh, resume | planner, remote protocol, monitoring | pages of several tabs, used out of order or twice; restarts and upgrades between them | a submit belongs to what was prepared, and that to what was built |
| scientific resolution (`backend/calculations/`) | none | request and structure to plan | planner | rules and tables that interact | every treatment is applied or accounted for |
| workflows and stages (`workflows.py`, `generated_inputs.py`, `vasp_stage_definitions.py`, `theory_policy.py`) | none | stages of a request, INCAR layers, flow | preview and runner | two ways to write a calculation, two builders of each input, layers that overwrite each other | what is shown is what runs |
| stage runner (`execution.py`, on POWER inside the job) | directories, stopped and errored jobs | run a flow | jobflow, VASP | partial failure, nested flows, a job started again | no stage after a failed one; success is success of all |
| runtime package guard, environment parity (`runtime_package*.py`, `runtime_environment.py`, `provenance.py`) | manifest of the package, record of the run | upload, preflight, check at start and at import | Prepare, Submit, job | files change between check and use, upgrades under a running service | only uploaded code runs, in the environment of the preparation |
| records (`run_records.py`) | none | validate job and submission records | monitoring, results | versions, missing fields | what is accepted is complete |
| phonon plans (`backend/phonons/`) | none | displacement plan, records | nothing calls them yet | | |

`PROJECT.json` lists every component with its sources and status, and every hazard at its
line with the properties aimed at it.

## Modules

| module | models | built on | proofs |
|---|---|---|---|
| `AttemptLifecycle` | what an attempt promises, abstractly | | |
| `RemoteAttempt` | the protocol on POWER | implements `AttemptLifecycle` | `RemoteAttempt_proofs` |
| `MachineExecution` | PUT and GET over the ledger | attempts of `AttemptLifecycle` | `MachineExecution_proofs` |
| `MachineApi` | tokens, plans, digests, retries, upgrades | `MachineExecution`, `SubmissionPlan` | `MachineApi_proofs` |
| `RemoteSlots` | the limiter and the connections in it | | `ResultsCache_proofs` |
| `ResultsCache` | loading results through the cache, on a connection in a slot | `RemoteSlots` | `ResultsCache_proofs` |
| `JobMonitoring` | a monitoring call against SLURM | | `JobMonitoring_proofs` |
| `CalculationRegistry` | what a calculation may ask for, in both of its notations | | |
| `StageInputs` | the INCAR layers of a stage | `CalculationRegistry` | |
| `WorkflowBuild` | preview and flow of a request | `StageInputs` | `WorkflowBuild_proofs` |
| `ScientificResolution` | treatments of a Desired Output | `CalculationRegistry` | |
| `SubmissionPlan` | from a request to a submission specification | `ScientificResolution` | |
| `BrowserFlow` | the browser routes, pages and tokens | `SubmissionPlan`, `AttemptLifecycle` | `BrowserFlow_proofs` |
| `RuntimeGuard` | package manifest and environment parity | | |
| `StageRunner` | `_run_locally_with_stage_directories` | | |
| `PowerJob` | an attempt's package from the service to the run | `StageRunner`, `RuntimeGuard` | `PowerJob_proofs` |
| `MCRemoteAttempt`, `MCMachineExecution`, `MCMachineApi`, `MCWorkflowBuild`, `MCBrowserFlow`, `MCPowerJob` | instances for TLC | | |

The composition is by contract.  `RemoteAttempt` is proved to implement `AttemptLifecycle`;
`MachineExecution` and `BrowserFlow` move their attempts on POWER by exactly its steps, so
what is checked there needs no state files; `MachineExecution` has attempts that are lost track
of (`astray`), `BrowserFlow` has not: its properties speak of requests that are not misled.  What `RemoteAttempt` needs from its callers,
that attempts have run directories of their own (`OwnDirs`), is what `MachineExecution`
proves of the timestamps it hands out (`StampsAreUnique`); the browser does not give it, see
[below](#disagreements).  `MachineExecution` takes from `JobMonitoring` what
a told end means (`ToldEndIsTrue`, proved as `EndsAreTrue`): that SLURM has shown the job in a
state the code takes for an end, which is its `finished`.  Each step of `MachineApi` is a step
of `MachineExecution` of which it says which answer the request gets, so by construction every
theorem on the ledger holds of the whole API; `ResultsCache` takes its slots by the steps of
`RemoteSlots`, which is proved.

**RemoteAttempt.**  A *request* is one call of `submit()` with a specification: an attempt, a
fingerprint of its calculation metadata and a provenance.  `pc` names the remote command it
is about to issue; there is one action per command (or per group of commands that no other
request can tell apart), and a request can lose its connection or die with the service before
each.  The state file is `state[a]`: the state it names, the specification it was written for,
and whether it is whole, because `put_text` truncates and then writes.  `mkdir` of the lock
directory (`ClaimForPreparation`, `ClaimForSubmission`), `rmdir` (`Release`) and `sbatch`
(`IssueSbatch`, `DecideSbatch`, `HearFromSbatch`) are steps of their own.  A run directory
holds, for each part Prepare uploads, the specification it came from, nothing, or a torn
file.  `Misread` is a lost exit status: paramiko gives -1, and `is_file` takes every
non-zero status for "no"; `MaxMisreads` bounds how often per attempt, `AmbiguousExit` says
whether it may be the one of `sbatch`.  `misreads` and `guessed` are the histories of both,
attempt by attempt: the promises are made to an attempt that is `Trusted` (at most one
misread, none of `sbatch`), or to one without a misread, and one attempt's misreads never
cost another anything.  `AttemptLifecycle` has a step for it: an attempt that is lost track of
(`LoseTrack`) may do anything from then on, and the others go on as before.

**MachineExecution.**  A call runs `execute_attempt` (PUT) or `lookup_attempt` (GET).  Each
section under `ledger.locked()` is one step, each remote operation another.  `ExecutionError` is
an answer: the call returns.  The clock counts units of which the window is a multiple.  Several
code paths store a state that was read earlier (`_record_remote_state`, `_refresh_scheduler`);
the state that was read is `seen` of the call.  One principal is modelled because every count
is filtered by principal.  What an answer depends on beyond the ledger (plans, digests) is a
choice here and decided by `MachineApi`.  `torn` are records whose file was created
(`O_EXCL`) and not written: a crash in between leaves it empty, and every PUT that has to read
all records then answers `ledger_unavailable` until somebody removes it.  `Strays` are the
attempts whose state on POWER may be misread (`Readings`) or whose `sbatch` may be misjudged
by its lost exit status, and that the browser may prepare and submit under the same ID
(`PrepareElsewhere`, `SubmitElsewhere`, `HearElsewhere`).  One misread does no harm; that
Prepare itself misreads more than once is one step (`StartOver`).  An attempt is `astray` from
the moment it was started over, misjudged, submitted by the browser, or lost its reservation
to one request while another submitted by it (`StillUsed`); the limits are kept by all other
attempts.  `finished[a]` says that SLURM has shown a job of the attempt in a state the code
takes for an end, which need not be the last one (see `JobMonitoring`).

**MachineApi.**  `ArriveFrom` authenticates a request against one of the tokens files
(`load_token_entries`: one bad entry and no entry counts) and asks for the scope of its kind.
`BindAttempt` plans the request with the policy in memory and the packages installed, stamped
with the timestamp of the attempt's record when there is one, and compares digest and
fingerprint (`Fits`).  `prepared[a]` is what the state file on POWER was written about.
`Upgrade` replaces what is installed, `Restart` what runs.  Attempts of one ID at a time are
enough (`OneAttemptAssumption`): only the caps, which `MachineExecution` checks, relate two.
What the browser prepares and submits under the ID is not this service's (`ours`), and
`SubmittedAsPlanned` speaks of what is; that a browser misreads twice what this service wrote
and starts it over is left to `MachineExecution`.

**RemoteSlots.**  `connected_remote_runner` is a context manager inside
`RemoteOperationLimiter.slot`: acquiring the semaphore, counting in, creating and connecting
the runner, closing, counting out and releasing are six steps, with other threads in between.
A close that fails is swallowed (`remote_runtime.py:171-175`) and the slot given back all the
same: the connection moves from `open` to `left`, and the limit is one on `open`.

**ResultsCache.**  `load_results_for_completed_job`, with and without a submission: index
lookup, cache lookup, connection in a slot, second lookup, parsing, leaving the slot,
storing.  The index and the cache are read in two locked sections, as in the code.  `used`
is a history variable.

**JobMonitoring.**  `query_job` asks `scontrol`, `squeue` and, when `squeue` is silent or the
job ended, `sacct`; each answer may be missing.  The failures are all those of
`FAILURE_PREFIXES`, among them the `Interruptions`, which need not be the end of a job: it is
stopped and goes on, or is put back after it was preempted or lost its node.  A call that tells
one of them tells a terminal FAILURE, the ledger keeps it, and the job that goes on no longer
counts as active: `ToldEndIsTrue` says what such an answer does mean, and `RunningWithinCap`
counts accordingly.  States that are classified alike and from which nothing else follows
(those of waiting and of running jobs) are abstracted to two of each.  The comparison of the
job's record with the attempt (`monitoring.py:331`, `_authenticated_job_record`) is one choice
to fail.  Exit codes are those SLURM shows with them, 0:0 also for a job ended
at its walltime.  SLURM is external: it may requeue a job, forgets it in its controller and,
later, in its accounting.  Assumed: `sacct` without `--duplicates` shows the job as it was
last queued, and a job that was never put back keeps its end.

**CalculationRegistry, StageInputs, WorkflowBuild.**  A calculation is written as a purpose,
a theory and modifiers, or as stages; each notation has its own table of what is supported,
and they convert into each other.  The tables are the code's, entry by entry.  INCAR
settings are functions from keys to values, with the keys that two layers may both write;
the order of the layers (`RelaxGenerator`, `StaticGenerator`, `DosGenerator`,
`BandGenerator`) is the code's.  The keys of DFT+U are kept as one, which is sound because
the code writes and removes them together.  `WorkflowBuild` accepts a request, previews each
stage, and builds the flow as POWER does; `build_atomate2_flow_for_spec` is the older
builder of a calculation spec.

**ScientificResolution, SubmissionPlan.**  A structure is what the rules tell apart: its
elements, bonds, charge-balanced assignments and constraints.  An element stands for its
class of the code's tables.  `resolve_default_treatments` applies each consideration to the
stages that take its modifier and records what was omitted and why.
`create_submission_spec` is what both front ends make of a request, Bad when any of the
checks refuses it.

**BrowserFlow.**  A page holds what its forms carry: the workflow, the specification, the
token, and whether it offers Prepare, Submit or Refresh.  `Post` builds the calculation
again from the page, as the routes do.  On POWER, Prepare is three steps (claim, upload,
mark) and Submit three (commit, `sbatch`, record); each may fail, and an answer may not
reach the tab.  `Restart` drops the requests under way, may change the secret of the tokens
and the version of the runtime, and leaves what is on POWER, locks included.

**RuntimeGuard, StageRunner, PowerJob.**  A directory is a function from files to their kind
and bytes, a manifest a function to digests.  `PowerJob` follows the package from the
checkout, which may be upgraded one file at a time, over manifest, upload, launcher,
preflight and Submit to the job that SLURM starts, perhaps twice; then the check of the
package, imports that are hashed again, the environment with its record, and the stages.
In `StageRunner`, `stack` holds the calls of `_run`, and `stopped`, `errored` and `stop` are
the closure's variables.  What a job does is any of: exception, response, `stop_children`,
`stop_jobflow`, a diversion.  A stage directory is made or the run fails
(`EnterDirectory`).  The artifacts a policy may hand from one stage to the next
(`execution.py:333-345`) are left out: no flow the service builds has such a policy
(`workflows.py:265-271`, methodology.md:213).  Of `replace`, `detour` and `addition`, at most one is given.

## Runs

| run | question | bounds, and why they are enough |
|---|---|---|
| `RemoteAttempt` | the safety of the protocol, the inductive invariant, the refinement | two requests on one attempt, each repeated without end, two fingerprints, two misread exit statuses, that of `sbatch` among them, so that the attempt can lose the trust of every property: interference is between two calls, and leftovers (lock, torn file, orphaned `sbatch`) outlast their makers |
| `RemoteAttemptMisread` | do misread exit statuses get a trusted attempt a second job, and does every call return? | `MaxMisreads = 2`, also of `sbatch`; weak fairness of each request's own steps: each remote command has a timeout, polling has a deadline; nothing is assumed of SLURM, of the other requests or of lock holders |
| `RemoteAttemptAmbiguous` | a documented claim that fails, see below | the least instance that shows it |
| `MachineExecution` | is the ledger real, and is every job counted, when states are misread and the browser uses the same ID? | two requests, one attempt that may stray, a clock of two values: what may go wrong is between two requests and the browser on one attempt |
| `MachineExecutionCaps` | unique timestamps, final submissions, running jobs within the cap, caps per rolling window | two requests, two attempts, two timestamps, with refusals, and caps of one: the cap is met by the second attempt; three clock values, so that counts enter and leave the window; a PUT without submit is left out (`Kinds`), as it does to the ledger what one with submit does that dies before it reserves |
| `MachineApi` | is what is submitted what was asked for, and is a retry recognised? | two calls, one attempt that may be misread and that the browser may use, two timestamps, a principal with and one without the scope, a disabled token and two refused files; two texts of one structure, one request over the CPU limit; three versions that differ in policy, packages and files, one upgrade |
| `JobMonitoring` | is a told end real? | two requeues, so an answer may be from before the last of them; every state of `FAILURE_PREFIXES` |
| `ResultsCache` | bounded, indexed, LRU, failures not kept, slots given back, calls return | three jobs in a cache of two (four in the code): every store may evict; two threads and one slot, so one waits; weak fairness of each load: connections, commands and the parser have timeouts, and a thread that waits for the semaphore times out |
| `WorkflowBuild` | do preview and flow agree, and both notations; do layers undo each other; can a stage read what it restarts from? | every purpose, theory and set of modifiers; every old name and desired output; workflows of up to three stages (restarts look one stage back); each key written by at least two layers |
| `BrowserFlow` | is what is submitted what was prepared, and that what was built and accounted for? | two tabs, one attempt, two seconds, one restart with or without a new secret and a new runtime; six structures, one of each kind the rules tell apart; two desired outputs, two custom workflows |
| `BrowserFlowCustom` | a documented claim that fails, see below | one tab |
| `PowerJob` | what code runs, where and after what; does the run end? | three modules, one of them upgraded and one imported late; one change on POWER at any moment; two starts; three stages in a chain, the first of which may ask for a flow of two; weak fairness of the job: VASP ends or the allocation does |

The runs of `MachineExecution` and `MachineApi` look at states without what no later step
depends on: the answers that were given (`VIEW Unanswered`) and, in the two larger ones, a few
local variables and fields that are not read again (`VIEW Decisive`, in the MC modules; in
`MCMachineApi` also whether a job has ended, since one attempt meets no cap there).  Action properties are checked on
every step all the same.

Deadlock is checked in all runs but those of `BrowserFlow`, `WorkflowBuild` and `PowerJob`,
which model one calculation that ends.

Action properties: `PackageIsFrozen`, `SubmittedIsFinal`, `RetriesAreRecognised`, and the
refinement `ImplementsLifecycle`.  Liveness: `CallsReturn`, `LoadsReturn`, `RunEnds`.  Every
property of a passing run has a mutant: a faulty variant of an action or helper (the
definitions marked "Faulty") under which TLC finds the property violated.

Some properties carve out a case, which is named in them: `JobsAreWhatWasShown` speaks of
attempts whose Build had a second of its own (`HasOwnSecond`), `PreparedIsWhatWasBuilt` of
workflows that keep their name (`KeepsItsName`), `ProvenanceIsWhatRuns` of attempts without a
Prepare that failed after its upload or overtook a Submit (`torn`), `PreviewIsWhatRuns` of
INCAR settings that do not make a PBE stage hybrid, `OneJobUnlessMisread` and `JobsAreMarked`
of attempts that are `Trusted`, `PackageIsFrozen` and `PreparedFilesArePresent` of attempts
without a misread, `JobsAreCounted`, `RunningWithinCap` and `WindowsAreRespected` (its
reservations) of attempts that are not `astray`, `ConnectionsWithinLimit` of connections no
close failed on.  `PreparedFilesArePresent` also allows for parts a repeated Prepare left torn
or changed.  `PreviewIsWhatRuns` compares the settings of the generators; what later stages
take from the structure they are given differs by design (methodology.md:215-229).
`FailuresAreNotKept` and `CacheIsIndexed` say nothing of an entry that is evicted between the
two looks at the cache; that the load then goes to POWER and returns is `LoadsReturn`.

## Proofs

TLAPS checks these for every value of the constants, with the assumptions named in the
modules.

**RemoteAttempt_proofs.**  `TypeCorrect` (`TypeOK`), then `ProtocolIsSafe`: `ProtocolInv` is
inductive, for any number of misread exit statuses, those of `sbatch` included.  The
conditions stand in the properties, attempt by attempt: what is said of an attempt's jobs and
marks is said while it is `Trusted`.  One misread `test -f` is survived because a Prepare
looks twice under its claim (`PrepareIsBeforeCommit`), and a Submit that misreads finds the
attempt missing and stops.  `OneJobUnlessMisread` is not inductive alone: a
second `sbatch` is excluded because a Submit in `mark` or `sbatch` holds the claim, knows
that the attempt cannot hold a job, and nobody else can make it so.  `ProtocolInv`
therefore adds who holds the claim (`ClaimIsExclusive`), what a Prepare under the claim may
assume (`PrepareIsBeforeCommit`), what a Submit knows at each step (`SubmitsAreInformed`),
and that an orphaned `sbatch` is alone (`OrphansAreAlone`).  The proof goes by action, and
one lemma (`OthersStayInformed`) says that a step of one request under a claim leaves the
knowledge of the others alone.  From it follow `OneJobPerAttempt`, `ClaimsAreExclusive`,
`JobsStayMarked`, `PackageStaysFrozen` (under `OwnDirs`; a single misread is enough to lose
it, so it speaks of attempts without one) and `ProtocolImplementsLifecycle`: initial states
map to initial states, and each step to a step or a stutter of `AttemptLifecycle`, where an
attempt that is no longer trusted is one that was lost track of.

`JobsAreNeverMadeUp` has no hypothesis: also with misread exit statuses nothing names a job
that SLURM did not accept.  Its invariant adds that a request only carries a job id, or a
SUBMITTED state it read, of an attempt that has a job (`JobsAreKnown`), which lasts because
jobs are never taken back.  `PackagesArePresent` assumes `OwnDirs`, for attempts without a misread.
`PackageInv` adds what a Prepare has uploaded so far (`UploadsAreOwn`: the parts before its
step are of its own specification, whole), so that the state file it writes last finds all of
them; a Prepare repeated over a PREPARED attempt is of the same calculation, and one that
finds another refuses before its first upload.

**MachineExecution_proofs.**  `LedgerIsSafe`: `LedgerInv` is inductive.  `RecordsAreReal`
needs that what a call has seen of POWER is still true when it stores it
(`CallsAreInformed`): a recorded phase is final, an accepted job stays accepted, an ended job
stays ended.  From it: `TypeCorrect`, `AttemptsHaveOwnTimestamps`, `TheLedgerIsReal` and the
action property `SubmissionsStay`.

`NewAttemptsAreLimited` holds with refusals and crashes (`CreationInv`): a window that
reaches the present holds only attempts that `Register` counts under the lock, because no
record is of the future, and a window that is over gets none.  The other limits hold with
refusals, misreads and browsers for the attempts that are not `astray`, and only for those
(`MachineExecutionRefused`, below): `LimitsInv` is inductive.  A call in `submit` has a
reservation, and the attempt of every submission a call has seen has or had one
(`SubmittersAreReserved`); a reservation is given back by a refusal only, and one that is in
use then makes the attempt astray; what has a job or an `sbatch` that may be one is committed
on POWER, and what is committed is reserved (`CommittedIsReserved`), so each job is counted
(`JobsAreCounted`).
A reservation is made only where both counts have room: the active count is at least that of
the reservations whose jobs have not ended (`LiveWithinCap`), because the ledger is never
ahead of POWER (`RecordsAreReal`), and the count of the window at least that of any window
that reaches the present (`RecordsAreTimed`).  From it: `JobsAreOnTheLedger`,
`JobsAreLimited`, `WindowsAreLimited`.

**JobMonitoring_proofs.**  `MonitoringInv` is inductive.  `ToldEndIsTrue` alone is not: a call
may summarise an answer it was given long before.  The invariant adds that an end among the
answers, or in accounting, is the end the job had, and an interruption one it has or had
(`AnswersAreTrue`); it lasts because an end is final and a history does not shrink.
`ClassifiedEnds` says which answers `classify_slurm_state` takes for an end.  From it:
`TypeCorrect`, `EndsAreTrue`.  Two assumptions carry it: the constants' (`None` is no state),
and SLURM's as modelled, an end is final and accounting shows no other.

**ResultsCache_proofs.**  First the limiter: `SlotInv` of `RemoteSlots` is inductive for any
finite set of callers and any limit; the cardinalities of the callers holding, counted and
open change by one with a step (`CountChanges`).  From it: `NoSlotIsLost`,
`ConnectionsStayWithinLimit` (of connections no close failed on), `SnapshotsAreTrue`.  Then its caller: a load takes its slot by the steps of `RemoteSlots`
(`StepsOfSlots`), so `LoadsUseSlots`, and with it what is proved there
(`LoadsLoseNoSlot`, `LoadsStayWithinLimit`).  `NoFailureIsKept` needs what a call carries
between parsing and storing: a success in its hands is of outputs that were complete, and
outputs stay complete (`KeptInv`).  `CacheStaysIndexed` is about sequences: the history of
uses, each job once and the last used last, has the cache as its end of at most the size
(`OrderInv`).  A use moves its job to the end of both; a store beyond the size drops the first
of the cache, which is the least recently used of its end; and the index leads to exactly the
jobs with an entry, since both change in one locked section.

**PowerJob_proofs.**  `RunnerIsSafe`: `RunnerInv` of `StageRunner` is inductive, for any flow
and any flows the jobs answer with.  The stack is needed: no job has its turn twice
(`TurnsComeOnce`), the jobs before the turn of a call were all decided, each call but the
innermost waits at a job that has answered (`CallsAreNested`), and a bad response stays known
to some call until the run fails (`BadIsRemembered`).  From it: `DependentsWait`, `DoneIsTrue`.
`FlowAssumption` is what jobflow gives: the jobs of a flow come once
each and after their parents, and the flow a job answers with brings new jobs.  A `replace` by
a job with the UUID of the replaced one is not covered; the flows of the service have none.
`JobIsSafe`: `JobInv` is inductive for any modules, upgrades, changes and starts.
`OnlyUploadedCodeRuns` is inductive with the types, since a module is hashed when it is
executed; `NothingRunsUnchecked` needs the order of the checks in a run (`ChecksComeFirst`);
`ProvenanceIsWhatRuns` needs that what a Prepare uploads is what it specified, and what Submit
records is what it read of that (`ProvenanceIsFollowed`), and that after Submit nothing is
uploaded (`SubmittedIsFinal`).  `JobAssumption` only says that the named modules exist and
that no record is `Absent`.

**MachineApi_proofs.**  Every step of the API is one of `MachineExecution` or leaves its
variables, by construction, so `LedgerInv` holds here too (a lemma).
`SubmissionsAreAsPlanned`: `ApiInv` is inductive.  The argument follows a PUT: once it is
bound, its plan has the digest of the record (`CallFits`); a record never changes what it is
bound to; what was prepared on POWER for a record is of its digest and is not prepared as
anything else (`AttemptFits`); so what a call sees matching still matches at `sbatch`.
`RetriesStand` adds `PlansAreReal`: each record was made from a plan of its request and its
own timestamp by some version of the service.  Planning the same request again with that
timestamp gives the same digest and fingerprint as long as the policy and the packages that
the digest names are those of the service (`SamePlanAgain`), whatever the files are; so the
retry fits.

**BrowserFlow_proofs.**  `BrowserIsSafe`: `BrowserInv` is inductive, for any tabs, structures,
desired outputs, custom workflows, seconds and restarts.  `JobsAreWhatWasShown` needs what a
request knows while it has the lock (`CallIsInformed`): nobody else has it
(`LocksAreExclusive`), what it marks as prepared is what it uploaded, and what it submits is
what was prepared.  `PreparedIsWhatWasBuilt` needs that a form which is sent back builds
the same calculation: the workflow of a page that offers Prepare is the one that was built
(`PageIsTrue`), building it again gives the built specification (`BuildIsStable`), and
another version of the runtime changes nothing in it but the version
(`UpgradesKeepTheCalculation`).  Two attempts whose Builds differ in the second have different
run directories (`DirectoriesDiffer`), so no upload touches the other's.  The proof goes by
action; `PagesAreSafe` and `StepsAreSafe` say once what a new page, or a step of one request
on POWER, leaves true of everyone else.
`PowerChecksWhatWasPrepared` is a statement on what `create_submission_spec` builds and is
carried along by `CheckedInv`: only the DFT+U treatment freezes a U, and it leaves a record
that is numbered by the stage it was made for (`FrozenUIsRecorded`, `RecordsAreNumbered`).
`TreatmentsAreAccounted` is on the same carried statement: `StagesAreResolved` gives a stage
of a resolved Desired Output as the stage of its table with the considerations it takes
(`StageOf`), each set by its own modifier; from there `StagesAreAccounted` and
`WhatIsToldIsTrue` compare it with what the record and the page say.  That BMD Compute never
refuses a Desired Output of its own (`DesiredOutputsAreBuilt`) needs that what a treatment may
add (`MayTake`) leaves each stage admissible and the purpose of the workflow recognised.
`BrowserAssumption` says that entered workflows have stages without options of their own, and
`NoValueAssumption` that `Bad` and `Absent`, which stand for a refusal and for None, are no
names, records or stages.

**WorkflowBuild_proofs.**  `WorkflowIsSafe`: `WorkflowInv` is inductive.  It says that the
stages are those of the request and valid, that a refusal has a reason, and that each preview
and each job is the one of its stage; a step adds the next.  The rest is about the stages of a
valid workflow.  The INCAR layers are followed key by key: for each layer a lemma says which
keys it leaves (`Keeps`) and what it makes of the others (`Says`), and from these what the
settings of a stage tell of +U, SOC and the functional (`UIsTold`, `SocIsTold`,
`HybridIsTold`) in whatever order the layers of its type come.  That gives
`TreatmentsArrive`; `RestartsFindTheirDensity` adds that the static settings of two stages of one
theory agree on the hybrid switch and the cutoff whatever their treatments (`StaticsAgree`), and `ShownMeansRun` that without SOC nothing depends on the structure.
`SpecsAreOne` compares the tables: the stages of a supported calculation are valid
(`CalculationsAreWorkflows`) and become it again (`CalculationsComeBack`), stages that stand for
a calculation stand for a supported one (`StagesOfCalculations`), and the function of each
purpose makes the same jobs (`BuildersAgree`).
Three assumptions carry it.  `RequestAssumption` gives types.  `NoValueAssumption` says that
`Bad` and `Absent` are no calculation and no stages.  `GivenAssumption` says that the settings
that come with a request do not themselves decide the functional's correction, the algorithm,
+U, SOC or `ICHARG`, nor switch a hybrid off; the service brings no settings at all
(`main.py:988`), so it is about other callers of the builders, and without it the code lets
such settings win or lose by layer.

Only model-checked: liveness, which is out of the prover's reach.

## Disagreements

Each is a configuration with which TLC finds the claim violated by the code as modelled.
The first two are runs of `PROJECT.json`, which quotes the claims; the configurations of the
others are kept beside them.

| configuration | property | claim | what happens |
|---|---|---|---|
| `RemoteAttemptAmbiguous` | `AtMostOneJob` | machine_api.md:275, at most one `sbatch` | a lost exit status (-1) of `sbatch` counts as its refusal |
| `BrowserFlowCustom` | `CustomWorkflowsAreStable` | methodology.md:40, Custom workflows are never changed automatically | a page names a Custom workflow of the shape of a Desired Output after it, and Prepare builds the Desired Output |
| `RemoteAttemptPreflight` | `PreparedPassedPreflight` | provenance.md:61, a prepared attempt has passed the check | a repeated Prepare that fails leaves PREPARED over its new package |
| `MachineExecutionRefused` | `AllRunningWithinCap` | machine_api.md:300, at most 2 active jobs | one request releases the reservation another submits with |
| `MachineExecutionLeaks` | `RefusedIsReleased` | machine_api.md:284, a refusal releases the reservation | it is `uncertain` by then, and stays |
| `BrowserFlowRefresh` | `RefreshIsAccepted` | architecture.md, Refresh only asks the scheduler | Refresh validates the workflow on the page as one a user entered, and refuses the frozen DFT+U of a treated Desired Output |
| `BrowserFlowShared` | `SubmittedRunsAreImmutable` | remote.py, a submitted run directory is immutable | two Builds of one second name one directory, and two Prepares that have both passed the owner check upload to it |

Smaller ones were met on the way.  The submitted state records the provenance Submit read
before it held the claim (`paramiko_remote.py:1112`), and a Prepare that fails after its
upload leaves the record of an earlier one: both are `torn` in `PowerJob`.  A nested flow
numbers its directories from 0 again (`execution.py:296`); no flow the service builds asks
for one.  The git commit in the provenance is cached by the process, so after an upgrade
without a restart it is older than the manifest beside it.  A remote state or a scheduler
answer that was read earlier is stored over a later one, so a submitted attempt may read
`prepared` and a finished job active until the next refresh (`execution.py:286`, `:449`);
the theorems say what survives this.  A reservation is counted when it was made, also when
it is used later (`execution.py:354`).  A Submit that finds the attempt submitted under its
claim leaves the lock directory behind (`paramiko_remote.py:1100`), and two PUTs of a new
attempt may both prepare it; both are harmless.  A ledger record is created "atomically"
(machine_api.md:244) in two steps, so that a crash between them leaves a file that stops
every later registration and reservation (`ledger.py:176-197`); nothing is exceeded by it.

## Plan

Done: every module above, and the proofs named.

Every safety property that a passing run checks is stated by a theorem.  Next: the
configurations of the table above for which no run is kept.

## Not modelled

Rendering and parsing of VASP files and pages, numerical work of pymatgen (the bonds of a
structure, k-points, phonon displacements), and the text of input files and scripts have
neither state nor order.  The decoding of job and submission records is a choice of the
model.  Phonon plans are numerical work that nothing calls yet; their stage type is refused,
which is modelled.  Connection set-up (host keys, keepalive, proxies) is a connection that is
made or fails.  Of the limiter, the `busy_rejections` statistic is left out; of the API, the
endpoints that only read, and schemas and canonical JSON.
