------------------------------- MODULE BrowserFlow -------------------------------
(***************************************************************************)
(* The browser routes (main.py, templates/index.html) and the identity of  *)
(* a submission (backend/submission.py).  The server keeps nothing between *)
(* requests: a page carries the structure, the workflow and a signed       *)
(* identity, and Prepare and Submit build the calculation again from them. *)
(* What holds a calculation together is on POWER: an attempt is prepared   *)
(* and submitted as AttemptLifecycle promises (RemoteAttempt is the        *)
(* protocol that keeps the promise), with the fingerprint of what was      *)
(* prepared, in a run directory named after the second of the Build.  No   *)
(* request is misled here about an attempt: RemoteAttempt and              *)
(* MachineExecution have those.                                            *)
(*                                                                         *)
(* Two tabs may show pages of one attempt, an answer may be lost on its    *)
(* way to the tab, and the server may be restarted or upgraded.            *)
(***************************************************************************)
EXTENDS SubmissionPlan, AttemptLifecycle, FiniteSets, TLC

CONSTANTS
    Tabs,
    Structures,    \* of which each behaviour takes one
    Outputs,       \* the desired outputs asked for
    Customs,       \* the stages entered for a Custom workflow
    MaxClock,      \* seconds
    MaxRestarts

ASSUME BrowserAssumption ==
    /\ Outputs \subseteq DOMAIN DESIRED_OUTPUTS
    /\ \A stages \in Customs : stages # << >> /\ \A i \in DOMAIN stages : stages[i].options = NoOptions
    /\ IsFiniteSet(Attempts) /\ Attempts = 1..Cardinality(Attempts)
    /\ MaxClock \in Nat /\ MaxRestarts \in Nat

\* Bad and Absent are no values of their own: no name, no record and no stages.
ASSUME NoValueAssumption ==
    /\ Bad # Absent /\ Absent \notin DOMAIN DESIRED_OUTPUTS \cup {"custom", "dftd3-bj"}
    /\ \A o \in DOMAIN DESIRED_OUTPUTS : Workflow(DESIRED_OUTPUTS[o], o) \notin {Absent, Bad}
    /\ \A p \in Purposes, t \in Theories, ms \in SUBSET Modifiers : CalculationSpec(p, t, ms) # Bad
    /\ \A m \in Structures : LET evaluation == evaluate_dft_u(m) IN
          /\ evaluation # Absent
          /\ evaluation.decision = "apply" => evaluation.parameters \notin {Absent, Bad}
    /\ \A m \in Structures, o \in DOMAIN DESIRED_OUTPUTS :
          LET stages     == resolved_stages(m, DESIRED_OUTPUTS[o])
              resolution == Resolution(m, DESIRED_OUTPUTS[o])
              treatments == automatic_treatments(m, [stages |-> stages, resolution |-> resolution])
          IN  /\ stages # Bad /\ resolution \notin {Absent, Bad}
              /\ Absent \notin prepared_dft_u_record(m, stages)
              /\ Specification(stages, o, 0, 1, treatments) # Bad

VARIABLES
    material,   \* the structure
    clock,
    server,     \* [restarts, secret, version]; version is that of the scientific runtime
    keeps,      \* the identity secret is configured, and survives a restart
    built,      \* attempt -> the page its Build answered, for those that were built
    tab,        \* tab -> the page it shows
    call,       \* tab -> the request the server works on for it
    lock,       \* the attempts whose lock directory exists
    prints,     \* attempt -> what its state file was written about
    files,      \* run directory -> the attempt and the calculation in it
    records     \* attempt -> Absent, or the calculation in the record of its job

remote == <<lock, prints, files, records, phase, accepted, misled>>
vars == <<material, clock, server, keeps, built, tab, call, remote>>

-----------------------------------------------------------------------------
(* Workflows in forms and pages.                                           *)

default_workflow_spec == Workflow(DESIRED_OUTPUTS.energy_only, "energy_only")

\* The name a page gives a workflow: its recipe when there is one, or that of the
\* desired output with these types and theories.
selected_workflow_context(w) ==
    IF w.recipe \in DOMAIN DESIRED_OUTPUTS \cup {"custom"} THEN w.recipe
    ELSE desired_output_from_workflow_spec(w.stages)

\* The stage editor reads no options back from its cards.
readStages(stages) == [i \in DOMAIN stages |-> [stages[i] EXCEPT !.options = NoOptions]]

-----------------------------------------------------------------------------
(* Identity.                                                               *)

create_submission_identity_token(attempt, stamp) ==
    [attempt |-> attempt, stamp |-> stamp, secret |-> server.secret]

TokenIsValid(token) == token # Absent /\ token.secret = server.secret

\* (Faulty: the fingerprint leaves out the runtime the calculation was prepared for.)
submission_attempt_fingerprint_without_parity(spec) == [spec EXCEPT !.version = 0]

submission_attempt_fingerprint(spec) == spec

\* The run is named after its kind of workflow and the second of its Build.
FlowSuffix(stages) ==
    LET SuffixOf(spec) ==
            CASE spec = Absent -> "custom_workflow"
              [] spec # Absent /\ spec.purpose = "relax" /\ "ions_only" \notin spec.modifiers -> ""
              [] spec # Absent /\ spec.purpose = "static" /\ spec.theory = "hse06" -> "hse_static"
              [] OTHER -> LegacyName(spec)
    IN  SuffixOf(calculation_spec_from_workflow_spec(stages))

run_dir(spec) == <<FlowSuffix(spec.stages), spec.stamp>>

Holder(dir) == IF dir \in DOMAIN files THEN files[dir].attempt ELSE Absent

-----------------------------------------------------------------------------
(* Pages.                                                                  *)

Page(w, spec, token, prepared, job) ==
    [workflow |-> w, spec |-> spec, token |-> token, prepared |-> prepared, job |-> job]

\* An error answers with a page to build from, and nothing more.
ErrorPage(w) == Page(w, Absent, Absent, FALSE, 0)

\* The forms to prepare, submit and refresh.
OffersPrepare(page) == page.spec # Absent /\ page.job = 0
OffersSubmit(page)  == OffersPrepare(page) /\ page.prepared
OffersRefresh(page) == page.token # Absent /\ page.job # 0

Idle == [step |-> "idle", attempt |-> 0, spec |-> Absent, page |-> Absent]

Show(t, page)  == tab' = [tab EXCEPT ![t] = page]
Goto(t, step)  == call' = [call EXCEPT ![t].step = step]

\* The server is done with the request; the page reaches the tab, or is lost.
Answer(t, page) ==
    /\ call' = [call EXCEPT ![t] = Idle]
    /\ tab' \in {tab, [tab EXCEPT ![t] = page]}

Unlock(a) == lock' = lock \ {a}

With(f, x, value) == [y \in DOMAIN f \cup {x} |-> IF y = x THEN value ELSE f[y]]

-----------------------------------------------------------------------------
(* Building.                                                               *)

Init ==
    /\ LifecycleInit
    /\ material \in Structures
    /\ keeps \in BOOLEAN
    /\ clock = 0
    /\ server = [restarts |-> 0, secret |-> 0, version |-> 1]
    /\ built = [a \in {} |-> Absent]
    /\ tab = [t \in Tabs |-> ErrorPage(default_workflow_spec)]
    /\ call = [t \in Tabs |-> Idle]
    /\ lock = {}
    /\ prints = [a \in Attempts |-> Absent]
    /\ files = [d \in {} |-> Absent]
    /\ records = [a \in Attempts |-> Absent]

\* Parsing the structure, going home or pasting another one: nothing is kept.
Analyze(t) ==
    /\ call[t] = Idle
    /\ Show(t, ErrorPage(default_workflow_spec))
    /\ UNCHANGED <<material, clock, server, keeps, built, call, remote>>

\* A new attempt, of this second.
BuildFrom(t, name, json) ==
    LET unused == Attempts \ DOMAIN built
    IN  /\ call[t] = Idle /\ unused # {}
        /\ \E w \in {workflow_spec_from_form(name, json)} :
           \E spec \in {create_submission_spec(material, name, w, clock, server.version)} :
              IF spec = Bad
              THEN Show(t, ErrorPage(IF w = Bad THEN default_workflow_spec ELSE w)) /\ UNCHANGED built
              ELSE \E a \in unused :
                      /\ \A b \in unused : a <= b
                      /\ LET page == Page(Workflow(spec.stages, w.recipe), spec,
                                          create_submission_identity_token(a, clock), FALSE, 0)
                         IN  Show(t, page) /\ built' = With(built, a, page)
        /\ UNCHANGED <<material, clock, server, keeps, call, remote>>

BuildDesired(t) == \E o \in Outputs : BuildFrom(t, o, Workflow(DESIRED_OUTPUTS[o], o))

\* Stages entered from nothing, or those the page shows.
BuildCustom(t) ==
    \E stages \in Customs \cup {readStages(tab[t].workflow.stages)} :
        BuildFrom(t, "custom", Workflow(stages, Absent))

-----------------------------------------------------------------------------
(* Preparing and submitting: the calculation is built again from the page, *)
(* with the identity the server signed.                                    *)

\* (Faulty: the calculation is stamped when it is built again.)
RebuiltNow(name, w, token) ==
    IF TokenIsValid(token) THEN create_submission_spec(material, name, w, clock, server.version) ELSE Bad

Rebuilt(name, w, token) ==
    IF TokenIsValid(token) THEN create_submission_spec(material, name, w, token.stamp, server.version) ELSE Bad

\* The page that answers, of the calculation as it was built again.
Answering(page, spec, prepared, job) ==
    Page(Workflow(spec.stages, spec.recipe), spec,
         create_submission_identity_token(page.token.attempt, spec.stamp), prepared, job)

\* A refused form answers with the workflow as it was requested.
Post(t, step) ==
    LET page == tab[t] IN
    /\ call[t] = Idle
    /\ \E name \in {selected_workflow_context(page.workflow)} :
       \E w \in {workflow_spec_from_form(name, page.workflow)} :
       \E spec \in {Rebuilt(name, w, page.token)} :
          IF spec # Bad
          THEN /\ call' = [call EXCEPT ![t] = [step |-> step, attempt |-> page.token.attempt,
                                               spec |-> spec, page |-> page]]
               /\ UNCHANGED tab
          ELSE /\ Show(t, ErrorPage(IF TokenIsValid(page.token) /\ w # Bad THEN w ELSE default_workflow_spec))
               /\ UNCHANGED call
    /\ UNCHANGED <<material, clock, server, keeps, built, remote>>

PostPrepare(t) == OffersPrepare(tab[t]) /\ Post(t, "claim")
PostSubmit(t)  == OffersSubmit(tab[t])  /\ Post(t, "read")

PrepareSteps == {"claim", "upload", "mark"}
SubmitSteps  == {"read", "sbatch", "record"}

PreparedPage(t)  == Answering(call[t].page, call[t].spec, TRUE, 0)
FailedPage(t)    == Answering(call[t].page, call[t].spec, call[t].step \in SubmitSteps, 0)
SubmittedPage(t) == Answering(call[t].page, call[t].spec, TRUE, call[t].attempt)

At(t, step) == call[t].step = step /\ UNCHANGED <<material, clock, server, keeps, built>>

\* What POWER holds about the attempt was written about this calculation.
Matches(t) == prints[call[t].attempt] = submission_attempt_fingerprint(call[t].spec)

\* The run directory is not another attempt's, and the attempt is new or prepared
\* with the same calculation; its lock is taken.
MayPrepare(t) ==
    LET a == call[t].attempt
    IN  /\ Holder(run_dir(call[t].spec)) \in {Absent, a}
        /\ a \notin lock
        /\ \/ phase[a] = "absent"
           \/ phase[a] = "prepared" /\ Matches(t)

ClaimForPreparation(t) ==
    /\ At(t, "claim")
    /\ IF MayPrepare(t)
       THEN lock' = lock \cup {call[t].attempt} /\ Goto(t, "upload") /\ UNCHANGED tab
       ELSE Answer(t, FailedPage(t)) /\ UNCHANGED lock
    /\ UNCHANGED <<prints, files, records, phase, accepted, misled>>

Upload(t) ==
    /\ At(t, "upload")
    /\ files' = With(files, run_dir(call[t].spec), [attempt |-> call[t].attempt, spec |-> call[t].spec])
    /\ Goto(t, "mark")
    /\ UNCHANGED <<tab, lock, prints, records, phase, accepted, misled>>

MarkPrepared(t) ==
    /\ At(t, "mark")
    /\ Prepared(call[t].attempt)
    /\ prints' = [prints EXCEPT ![call[t].attempt] = submission_attempt_fingerprint(call[t].spec)]
    /\ Unlock(call[t].attempt)
    /\ Answer(t, PreparedPage(t))
    /\ UNCHANGED <<files, records>>

\* A step on POWER fails before sbatch was run.
RemoteFails(t) ==
    /\ \E step \in {"claim", "upload", "mark", "read"} : At(t, step)
    /\ IF call[t].step \in {"upload", "mark"} THEN Unlock(call[t].attempt) ELSE UNCHANGED lock
    /\ Answer(t, FailedPage(t))
    /\ UNCHANGED <<prints, files, records, phase, accepted, misled>>

\* The attempt was submitted before, or is while Submit waits for another request.
AlreadySubmitted(t) ==
    /\ At(t, "read") /\ Matches(t) /\ phase[call[t].attempt] = "recorded"
    /\ Answer(t, SubmittedPage(t))
    /\ UNCHANGED remote

\* Nothing was prepared, or something else was; or another request has the attempt, or
\* it was committed and nobody knows to what end, until the wait is over.
RefuseSubmit(t) ==
    /\ At(t, "read")
    /\ \/ ~Matches(t)
       \/ phase[call[t].attempt] \in {"absent", "committed"}
       \/ phase[call[t].attempt] = "prepared" /\ call[t].attempt \in lock
    /\ Answer(t, FailedPage(t))
    /\ UNCHANGED remote

CommitSubmit(t) ==
    /\ At(t, "read") /\ Matches(t) /\ call[t].attempt \notin lock
    /\ Commit(call[t].attempt)
    /\ lock' = lock \cup {call[t].attempt}
    /\ Goto(t, "sbatch")
    /\ UNCHANGED <<tab, prints, files, records>>

RunSbatch(t) ==
    /\ At(t, "sbatch")
    /\ AcceptJob(call[t].attempt)
    /\ Goto(t, "record")
    /\ UNCHANGED <<tab, lock, prints, files, records>>

\* SLURM refused; or its answer did not come, and the attempt stays committed and locked.
SbatchFails(t) ==
    /\ At(t, "sbatch")
    /\ \/ Refuse(call[t].attempt) /\ Unlock(call[t].attempt)
       \/ AcceptJob(call[t].attempt) /\ UNCHANGED lock
       \/ UNCHANGED <<phase, accepted, misled, lock>>
    /\ Answer(t, FailedPage(t))
    /\ UNCHANGED <<prints, files, records>>

\* The state file, and then the record of the job with the calculation of the request:
\* the answer has the job even when neither can be written.
Finish(t) ==
    LET a == call[t].attempt
    IN  /\ At(t, "record")
        /\ \/ Record(a) /\ Unlock(a)
           \/ UNCHANGED <<phase, accepted, misled, lock>>
        /\ records' \in {records, [records EXCEPT ![a] = call[t].spec]}
        /\ Answer(t, SubmittedPage(t))
        /\ UNCHANGED <<prints, files>>

-----------------------------------------------------------------------------
(* Monitoring.  Only the record of the job on POWER, when it belongs to    *)
(* the attempt of the token, says what the job is.                         *)

Refresh(t) ==
    LET page == tab[t] IN
    /\ call[t] = Idle /\ OffersRefresh(page)
    /\ \E w \in {workflow_spec_from_form(Absent, page.workflow)} :
       \/ /\ w = Bad \/ ~TokenIsValid(page.token)
          /\ Show(t, ErrorPage(IF w = Bad THEN default_workflow_spec ELSE w))
       \/ /\ w # Bad /\ TokenIsValid(page.token)
          /\ \/ /\ records[page.job] # Absent /\ page.job = page.token.attempt
                /\ Show(t, Page(w, records[page.job], page.token, TRUE, page.job))
             \/ /\ records[page.job] = Absent \/ page.job # page.token.attempt
                /\ Show(t, Page(w, Absent, Absent, FALSE, page.job))
             \* POWER is not reached, and the page keeps what it needs to ask again.
             \/ Show(t, Page(w, Absent, page.token, FALSE, page.job))
    /\ UNCHANGED <<material, clock, server, keeps, built, call, remote>>

\* A job id is enough to look at a job, not to know what it is.
Resume(t) ==
    /\ call[t] = Idle
    /\ \E a \in Attempts :
          /\ accepted[a] = 1
          /\ Show(t, Page(default_workflow_spec, Absent, Absent, FALSE, a))
    /\ UNCHANGED <<material, clock, server, keeps, built, call, remote>>

-----------------------------------------------------------------------------
(* Around the pages.                                                       *)

\* A second tab of the same page, or the page before by the back button.
Duplicate(t, u) ==
    /\ t # u /\ call[u] = Idle
    /\ Show(u, tab[t])
    /\ UNCHANGED <<material, clock, server, keeps, built, call, remote>>

Tick ==
    /\ clock < MaxClock /\ clock' = clock + 1
    /\ UNCHANGED <<material, server, keeps, built, tab, call, remote>>

\* The server is started again, perhaps with another scientific runtime.  The
\* requests it worked on are gone; what they did on POWER stays, locks as well.
Restart ==
    /\ server.restarts < MaxRestarts
    /\ \E v \in {server.version, server.version + 1} :
          server' = [restarts |-> server.restarts + 1, version |-> v,
                     secret |-> IF keeps THEN server.secret ELSE server.secret + 1]
    /\ call' = [t \in Tabs |-> Idle]
    /\ UNCHANGED <<material, clock, keeps, built, tab, remote>>

Next ==
    \/ \E t \in Tabs :
          \/ Analyze(t) \/ BuildDesired(t) \/ BuildCustom(t) \/ PostPrepare(t) \/ PostSubmit(t)
          \/ ClaimForPreparation(t) \/ Upload(t) \/ MarkPrepared(t) \/ RemoteFails(t)
          \/ AlreadySubmitted(t) \/ RefuseSubmit(t) \/ CommitSubmit(t)
          \/ RunSbatch(t) \/ SbatchFails(t) \/ Finish(t)
          \/ Refresh(t) \/ Resume(t)
          \/ \E u \in Tabs : Duplicate(t, u)
    \/ Tick \/ Restart

Spec == Init /\ [][Next]_vars

-----------------------------------------------------------------------------
(* Properties.                                                             *)

\* What a page with a job says the job calculates is in the run directory the job
\* runs from, as long as no other Build was of that second: a
\* Submit of a calculation that is not the prepared one is refused, from whatever tab,
\* after whatever restart or upgrade.
HasOwnSecond(a) ==
    \A b \in DOMAIN built \ {a} : built[b].spec.stamp # built[a].spec.stamp

JobsAreWhatWasShown ==
    \A t \in Tabs : LET page == tab[t] IN
        page.job # 0 /\ page.spec # Absent /\ HasOwnSecond(page.job) =>
            /\ accepted[page.job] = 1
            /\ run_dir(page.spec) \in DOMAIN files
            /\ files[run_dir(page.spec)] = [attempt |-> page.job, spec |-> page.spec]

\* What is prepared is what Build showed, to the last option and the second of its
\* run directory, but for an upgrade of the server; except of a Custom workflow that
\* looks like a Desired Output.
KeepsItsName(w) == w.recipe # Absent \/ desired_output_from_workflow_spec(w.stages) = "custom"

PreparedIsWhatWasBuilt ==
    \A a \in Attempts :
        prints[a] # Absent /\ KeepsItsName(built[a].workflow) =>
            prints[a] = submission_attempt_fingerprint([built[a].spec EXCEPT !.version = prints[a].version])

\* docs/methodology.md: "Custom workflows are never changed automatically".
CustomWorkflowsAreStable ==
    \A a \in Attempts :
        prints[a] # Absent /\ built[a].workflow.recipe = Absent =>
            prints[a].stages = built[a].spec.stages

\* Every desired output of a structure whose bonds were analysed can be built: what
\* the treatments make of it passes the tables of supported stages, of workflows, of
\* purposes and of admission.  A stage that could have taken a recommended modifier
\* has it, or is named in the omission, or the record says why not; and the page says
\* that a consideration was applied just when it says the workflow has its modifier.
DesiredOutputsCanBeBuilt ==
    material.dim # "failed" /\ ~material.constrained =>
        \A o \in DOMAIN DESIRED_OUTPUTS :
            create_submission_spec(material, o, Workflow(DESIRED_OUTPUTS[o], o), 0, 1) # Bad

Accounted(spec, resolution) ==
    \A c \in considerations_for(material) :
        /\ \A i \in DOMAIN spec.stages :
              \/ ModifierOf[c] \in spec.stages[i].modifiers
              \/ i \in resolution.omitted[c]
              \/ c \in resolution.not_applicable
              \/ ~StageIsValid(WithModifier(spec.stages[i], ModifierOf[c]))
        /\ LET told == automatic_application_state(resolution, c)
           IN  told # "omitted_unsupported" =>
                  (told = "applied" <=> workflow_modifier_support(spec.stages, ModifierOf[c]) = "already_selected")

TreatmentsAreAccounted ==
    /\ DOMAIN built = {} => DesiredOutputsCanBeBuilt
    /\ \A a \in DOMAIN built : built[a].spec.treatments # Absent =>
          Accounted(built[a].spec, built[a].spec.treatments.resolution)

\* On POWER each stage with a frozen U is compared with what was generated for that
\* very stage at preparation, and no other stage is compared with anything.
ChecksWhatWasPrepared(spec) ==
    spec.treatments # Absent => \A i \in DOMAIN spec.stages :
        LET expected == ExpectedSettings(spec.treatments.generated, i)
        IN  IF spec.stages[i].options.dft_u = Absent THEN expected = Absent
            ELSE /\ expected # Absent
                 /\ expected.type = spec.stages[i].type
                 /\ expected.settings = generated_dft_u_settings(material, spec.stages[i])

PowerChecksWhatWasPrepared == \A d \in DOMAIN files : ChecksWhatWasPrepared(files[d].spec)

\* docs/architecture.md: "Refresh Queue Status is monitoring-only. It queries scheduler
\* state and renders the current status."
RefreshIsAccepted ==
    \A t \in Tabs : OffersRefresh(tab[t]) /\ TokenIsValid(tab[t].token) =>
        workflow_spec_from_form(Absent, tab[t].workflow) # Bad

\* backend/remote.py: "A submitted attempt's run directory [...] is immutable."
SubmittedRunsAreImmutable ==
    \A a \in Attempts : phase[a] \in {"committed", "recorded"} =>
        files[run_dir(prints[a])].attempt = a

-----------------------------------------------------------------------------
(* The inductive invariant behind JobsAreWhatWasShown and                  *)
(* PreparedIsWhatWasBuilt.                                                 *)

\* A token was signed at a Build, for the attempt and the second of it.
IsOfBuild(token) ==
    token.attempt \in DOMAIN built /\ token.stamp = built[token.attempt].spec.stamp

KeepsName(a) == KeepsItsName(built[a].workflow)

\* The calculation in its run directory.
IsInPlace(a, spec) ==
    run_dir(spec) \in DOMAIN files /\ files[run_dir(spec)] = [attempt |-> a, spec |-> spec]

\* A page that names a job shows what was prepared for it, and one to prepare from has
\* the workflow that was built.
PageIsTrue(page) ==
    /\ page.token # Absent => IsOfBuild(page.token)
    /\ page.job # 0 =>
          /\ page.job \in Attempts /\ accepted[page.job] = 1
          /\ page.spec # Absent => page.spec = prints[page.job]
    /\ page.token # Absent /\ OffersPrepare(page) /\ KeepsName(page.token.attempt) =>
          page.workflow = built[page.token.attempt].workflow

\* A call works for an attempt that was built, on what was built as far as it kept its
\* name.  While it has the lock nobody else prepares or submits the attempt.
LockedSteps == {"upload", "mark", "sbatch", "record"}

CallIsInformed(c) ==
    c.step # "idle" =>
        /\ IsOfBuild(c.page.token) /\ c.attempt = c.page.token.attempt
        /\ c.spec.stamp = c.page.token.stamp
        /\ KeepsName(c.attempt) => c.spec = [built[c.attempt].spec EXCEPT !.version = c.spec.version]
        /\ c.step \in LockedSteps => c.attempt \in lock
        /\ c.step \in {"upload", "mark"} =>
              \/ phase[c.attempt] = "absent"
              \/ phase[c.attempt] = "prepared" /\ prints[c.attempt] = c.spec
        /\ c.step = "mark" /\ HasOwnSecond(c.attempt) => IsInPlace(c.attempt, c.spec)
        /\ c.step \in {"sbatch", "record"} => phase[c.attempt] = "committed" /\ prints[c.attempt] = c.spec
        /\ c.step = "record" => accepted[c.attempt] = 1

LocksAreExclusive ==
    \A t, u \in Tabs : t # u /\ call[t].step \in LockedSteps /\ call[u].step \in LockedSteps =>
        call[t].attempt # call[u].attempt

\* What POWER holds of an attempt is what was prepared, and that was built; it is in its
\* run directory as long as no other Build was of that second.
AttemptIsKept(a) ==
    /\ prints[a] # Absent => phase[a] # "absent"
    /\ phase[a] # "absent" =>
          /\ a \in DOMAIN built /\ prints[a].stamp = built[a].spec.stamp
          /\ KeepsName(a) => prints[a] = [built[a].spec EXCEPT !.version = prints[a].version]
          /\ HasOwnSecond(a) => IsInPlace(a, prints[a])
    /\ accepted[a] = 1 => phase[a] \in {"committed", "recorded"}
    /\ phase[a] = "recorded" => accepted[a] = 1
    /\ records[a] # Absent => accepted[a] = 1 /\ records[a] = prints[a]

\* To build again what a page of a Build shows gives the same calculation.
BuildIsStable(page) ==
    LET w    == page.workflow
        name == selected_workflow_context(w)
    IN  /\ w = Workflow(page.spec.stages, page.spec.recipe)
        /\ KeepsItsName(w) =>
              create_submission_spec(material, name, workflow_spec_from_form(name, w),
                                     page.spec.stamp, page.spec.version) = page.spec

\* No attempt is lost track of here.
TrackedTypeOK ==
    /\ phase \in [Attempts -> Phases]
    /\ accepted \in [Attempts -> {0, 1}]
    /\ misled = {}

BrowserTypeOK ==
    /\ DOMAIN built \subseteq Attempts
    /\ built = [a \in DOMAIN built |-> built[a]] /\ files = [d \in DOMAIN files |-> files[d]]
    /\ tab = [t \in Tabs |-> tab[t]] /\ call = [t \in Tabs |-> call[t]]
    /\ \A t \in Tabs : LET c == call[t] IN
          c = [step |-> c.step, attempt |-> c.attempt, spec |-> c.spec, page |-> c.page]
    /\ \A a \in DOMAIN built : LET s == built[a].spec IN
          s = [stages |-> s.stages, recipe |-> s.recipe, stamp |-> s.stamp, version |-> s.version,
               treatments |-> s.treatments]
    /\ prints = [a \in Attempts |-> prints[a]] /\ records = [a \in Attempts |-> records[a]]
    /\ TrackedTypeOK

BrowserInv ==
    /\ BrowserTypeOK
    /\ \A t \in Tabs : PageIsTrue(tab[t]) /\ CallIsInformed(call[t])
    /\ LocksAreExclusive
    /\ \A a \in Attempts : AttemptIsKept(a)
    /\ \A a \in DOMAIN built : BuildIsStable(built[a])

\* What is uploaded was built again from a form, and so were the inputs POWER compares.
CheckedInv ==
    /\ material \in Structures
    /\ \A t \in Tabs : call[t].step # "idle" => ChecksWhatWasPrepared(call[t].spec)
    /\ PowerChecksWhatWasPrepared

=============================================================================
