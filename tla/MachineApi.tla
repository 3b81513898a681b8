------------------------------- MODULE MachineApi -------------------------------
(***************************************************************************)
(* The machine API (compute_api): who may ask for what (auth.py, router.py *)
(* and schemas.py), which plan a request means (plan_digest.py and the     *)
(* planner of main.py), and when an attempt is still the one that was      *)
(* asked for (execution.py).  MachineExecution says what a request does to *)
(* the ledger and to POWER once it is answered; this module decides, at    *)
(* each of its steps, which answer the request gets.                       *)
(*                                                                         *)
(* The service may be upgraded under its requests: what is installed is    *)
(* replaced first, and the code that runs only by a restart.               *)
(***************************************************************************)
EXTENDS MachineExecution, SubmissionPlan

CONSTANTS
    TokenFiles,  \* what the tokens file may hold: sequences of entries
    Requests,    \* [header, kind, body, expected]
    Versions,    \* of the service: [policy, packages, manifest], the first runs at first
    MaxCpus,     \* ExecutionPolicy.max_cpus
    MaxUpgrades  \* bound

VARIABLES
    installed,   \* the version whose files and packages are on disk
    running,     \* the version whose code is in memory
    upgrades,
    ask,         \* call -> its request, with the principal it is from
    plan,        \* call -> the plan it resolved
    bound,       \* attempt -> what its ledger record binds it to
    prepared     \* attempt -> what this service wrote its state on POWER about

api     == <<installed, running, upgrades, ask, plan, bound, prepared>>
apiVars == <<vars, api>>

\* The caps count the other attempts of the principal; here there are none, and what they
\* do is checked in MachineExecution.
ASSUME OneAttemptAssumption == \E a \in Attempts : Attempts = {a}

ASSUME VersionsAssumption == Len(Versions) > 0 /\ MaxUpgrades \in Nat /\ MaxCpus \in Nat

-----------------------------------------------------------------------------
(* Principals.                                                             *)

KNOWN_SCOPES == {"read", "plan", "prepare", "submit"}

\* One bad entry, and no entry counts.
load_token_entries(entries) ==
    IF \/ \E i \in DOMAIN entries : ~(entries[i].scopes \subseteq KNOWN_SCOPES)
       \/ \E i, j \in DOMAIN entries : i # j /\ entries[i].id = entries[j].id
    THEN {} ELSE Range(entries)

\* The principals a header authenticates: one or none.
authenticate(entries, header) ==
    {e \in load_token_entries(entries) :
        header # Absent /\ e.id = header.id /\ e.secret = header.secret /\ e.enabled}

\* The scopes that let a principal make a request.
ScopeOf(kind) == IF kind = "get" THEN {"read"} ELSE {kind}

\* The principals a request may come from: the file is read at every request.
Admitted(entries, request) ==
    {e \in authenticate(entries, request.header) : e.scopes \cap ScopeOf(request.kind) # {}}

\* The requests that are admitted by one of the files, as they are carried out.
AdmittedRequests ==
    UNION {{[kind |-> q.kind, principal |-> e.principal, body |-> q.body, expected |-> q.expected] :
              e \in Admitted(f, q)} : f \in TokenFiles, q \in Requests}

-----------------------------------------------------------------------------
(* Plans.                                                                  *)

\* plan_calculation_request, in the version that runs, with the packages and the files
\* that are installed.  Its spec is Bad when the structure or the workflow is refused.
PlanOf(body, stamp, policy, disk) ==
    [spec |-> create_submission_spec(body.structure, body.name,
                  workflow_spec_from_form(body.name, body.workflow), stamp, disk.packages),
     body |-> body, policy |-> policy, manifest |-> disk.manifest]

\* What would be calculated, and with which resources: not when or from which text.
compute_plan_digest(p) ==
    [structure |-> p.body.structure, stages |-> p.spec.stages, recipe |-> p.spec.recipe,
     treatments |-> p.spec.treatments, cpus |-> p.body.cpus, packages |-> p.spec.version,
     policy |-> p.policy]

\* One immutable attempt: also when and from which text, but not by which policies.
AttemptFingerprint(p) == [spec |-> p.spec, text |-> p.body.text, cpus |-> p.body.cpus]

WithinLimits(p) == p.body.cpus <= MaxCpus

-----------------------------------------------------------------------------
(* Requests arrive and end.                                                *)

\* A call that ended keeps nothing.
Settle(r) ==
    /\ ask'  = IF call'[r].pc = "idle" THEN [ask EXCEPT ![r] = None] ELSE ask
    /\ plan' = IF call'[r].pc = "idle" THEN [plan EXCEPT ![r] = None] ELSE plan

ServiceStays == UNCHANGED <<installed, running, upgrades>>

\* A request that is not admitted is answered before its body is read.
ArriveFrom(r) ==
    /\ Arrive(r)
    /\ \E q \in AdmittedRequests :
          /\ call'[r].kind = q.kind
          /\ ask' = [ask EXCEPT ![r] = q]
    /\ ServiceStays /\ UNCHANGED <<plan, bound, prepared>>

-----------------------------------------------------------------------------
(* _bind_attempt.                                                          *)

\* (Faulty: a retry is planned with the time of the retry.)
BindingStampNow(r, stamp) == stamp

\* A bound attempt is planned with the timestamp of its record.
BindingStamp(r, stamp) ==
    IF ledger[call[r].att] = None THEN stamp ELSE ledger[call[r].att].stamp

\* (Faulty: that the fingerprint is the same is thought to be enough.)
SameFingerprint(b, p) == b.print = AttemptFingerprint(p)

\* The plan of a bound attempt is still the one in its record.
SamePlan(b, p) == b.digest = compute_plan_digest(p) /\ b.print = AttemptFingerprint(p)

\* The request is one of its owner, unchanged; its plan is the one expected.
Fits(r, p) ==
    /\ call[r].att \in Bound =>
          /\ bound[call[r].att].principal = ask[r].principal
          /\ bound[call[r].att].request = ask[r].body
    /\ p.spec # Bad /\ compute_plan_digest(p) = ask[r].expected
    /\ WithinLimits(p)
    /\ call[r].att \in Bound => SamePlan(bound[call[r].att], p)

BindAttempt(r) ==
    /\ ReadBinding(r)
    /\ \E stamp \in Stamps :
          /\ call'[r].pc = "register" => call'[r].stamp = stamp
          /\ \E p \in {PlanOf(ask[r].body, BindingStamp(r, stamp), running.policy, installed)} :
                /\ call'[r].pc # "idle" => Fits(r, p)
                /\ response'[r] = "conflict" => ~Fits(r, p)
                /\ IF call'[r].pc = "idle" THEN Settle(r)
                   ELSE plan' = [plan EXCEPT ![r] = p] /\ UNCHANGED ask
    /\ ServiceStays /\ UNCHANGED <<bound, prepared>>

\* The record holds whose attempt it is, and what was asked and planned for it.
RegisterAttempt(r) ==
    /\ Register(r)
    /\ bound' = IF call'[r].pc = "read_remote"
                THEN [bound EXCEPT ![call[r].att] =
                        [principal |-> ask[r].principal, request |-> ask[r].body,
                         digest |-> compute_plan_digest(plan[r]), print |-> AttemptFingerprint(plan[r])]]
                ELSE bound
    /\ ask'  = IF call'[r].pc = "idle" THEN [ask EXCEPT ![r] = None] ELSE ask
    /\ plan' = IF call'[r].pc = "read_remote" THEN plan ELSE [plan EXCEPT ![r] = None]
    /\ ServiceStays /\ UNCHANGED prepared

-----------------------------------------------------------------------------
(* execute_attempt and lookup_attempt.                                     *)

\* Nothing that this service wrote.
NotPrepared == [ours |-> FALSE, digest |-> None, print |-> None, manifest |-> None]

\* _require_state_matches
StateMatches(a) == prepared[a].ours /\ prepared[a].print = bound[a].print

\* A state that does not match is a conflict; so is, for a PUT, a package that is not
\* that of the files installed now.
FollowAsRead(r) ==
    LET a == call[r].att
        follows == call'[r].pc \in {"record_prepared", "record", "record_lookup"}
    IN  /\ follows /\ call'[r].seen # "absent" => StateMatches(a)
        /\ response'[r] = "conflict" => phase[a] # "absent" /\ ~StateMatches(a)
        /\ response'[r] = "runtime_package_changed" =>
              StateMatches(a) /\ prepared[a].manifest # installed.manifest
        /\ call'[r].pc = "record_prepared" => prepared[a].manifest = installed.manifest

ReadRemoteAttempt(r) ==
    /\ ReadRemoteState(r) \/ RereadRemoteState(r)
    /\ FollowAsRead(r)
    /\ Settle(r) /\ ServiceStays /\ UNCHANGED <<bound, prepared>>

\* An attempt that is there is prepared again by the same calculation only, and then its
\* state is written again; one that is misread is prepared by any.
PrepareAttempt(r) ==
    LET a == call[r].att IN
    /\ PrepareRemote(r)
    /\ \/ phase' = phase /\ UNCHANGED prepared
       \/ /\ phase'[a] = "prepared"
          /\ a \notin Strays /\ phase[a] = "prepared" =>
                prepared[a].ours /\ prepared[a].print = AttemptFingerprint(plan[r])
          /\ prepared' = [prepared EXCEPT ![a] =
                [ours |-> TRUE, digest |-> compute_plan_digest(plan[r]), print |-> AttemptFingerprint(plan[r]),
                 manifest |-> plan[r].manifest]]
    /\ ServiceStays /\ UNCHANGED <<ask, plan, bound>>

\* The owner's requests only.
LookUpAttempt(r) ==
    LET a == call[r].att IN
    /\ LookUp(r)
    /\ a \in Bound => IF bound[a].principal = ask[r].principal THEN FollowAsRead(r)
                      ELSE response'[r] = "conflict"
    /\ Settle(r) /\ ServiceStays /\ UNCHANGED <<bound, prepared>>

\* The rest of a request knows nothing of plans.
GoOn(r) ==
    /\ \/ RecordPrepared(r) \/ RecordState(r)
       \/ Reserve(r) \/ ListActive(r) \/ RefreshRecord(r) \/ StoreRefreshed(r) \/ ReserveAgain(r)
       \/ SubmitNotStarted(r) \/ IssueSbatch(r) \/ HearFromSbatch(r)
       \/ Confirm(r) \/ ReleaseReservation(r)
       \/ RecordLookup(r) \/ MonitorJob(r) \/ StoreScheduler(r)
       \/ Crash(r)
    /\ Settle(r) /\ ServiceStays /\ UNCHANGED <<bound, prepared>>

-----------------------------------------------------------------------------
(* Around the requests.                                                    *)

\* What the browser prepares under an attempt's ID, and submits, is another calculation.
PrepareInBrowser(a) == PrepareElsewhere(a) /\ ~prepared[a].ours /\ UNCHANGED api
SubmitInBrowser(a) ==
    /\ SubmitElsewhere(a) \/ HearElsewhere(a)
    /\ ~prepared[a].ours /\ UNCHANGED api

\* What becomes of the jobs, and the time.
GoOnElsewhere ==
    /\ Tick \/ \E a \in Attempts : Decide(a) \/ Finish(a)
    /\ UNCHANGED api

\* The files and the packages of another version are installed.
Upgrade ==
    /\ upgrades < MaxUpgrades /\ upgrades' = upgrades + 1
    /\ installed' \in Range(Versions) \ {installed}
    /\ UNCHANGED <<vars, running, ask, plan, bound, prepared>>

\* Its requests gone, the service is started with what is installed.
Restart ==
    /\ running # installed /\ running' = installed
    /\ \A r \in Calls : At(r, "idle")
    /\ UNCHANGED <<vars, installed, upgrades, ask, plan, bound, prepared>>

-----------------------------------------------------------------------------
ApiInit ==
    /\ Init
    /\ installed = Versions[1] /\ running = Versions[1] /\ upgrades = 0
    /\ ask = [r \in Calls |-> None]
    /\ plan = [r \in Calls |-> None]
    /\ bound = [a \in Attempts |-> None]
    /\ prepared = [a \in Attempts |-> NotPrepared]

ApiNext ==
    \/ \E r \in Calls :
          \/ ArriveFrom(r) \/ BindAttempt(r) \/ RegisterAttempt(r) \/ ReadRemoteAttempt(r)
          \/ PrepareAttempt(r) \/ LookUpAttempt(r) \/ GoOn(r)
    \/ \E a \in Attempts : PrepareInBrowser(a) \/ SubmitInBrowser(a)
    \/ GoOnElsewhere \/ Upgrade \/ Restart

ApiSpec == ApiInit /\ [][ApiNext]_apiVars

-----------------------------------------------------------------------------
(* Properties.                                                             *)

\* Whoever a tokens file ever lets submit.
Submitters ==
    {e.principal : e \in {x \in UNION {load_token_entries(f) : f \in TokenFiles} : "submit" \in x.scopes}}

\* What this service submits, and may become a job, is the attempt of a principal who may
\* submit, within the limits, prepared from the very plan its record is bound to; and
\* that is the plan the request expects, whatever was upgraded, retried, or prepared
\* elsewhere meanwhile.
SubmittedAsPlanned ==
    /\ \A a \in Attempts : prepared[a].ours /\ phase[a] \in {"committed", "recorded"} =>
          /\ a \in Bound
          /\ bound[a].principal \in Submitters
          /\ prepared[a].digest = bound[a].digest
          /\ prepared[a].digest.cpus <= MaxCpus
    /\ \A r \in Calls : call[r].pc \in {"submit", "sbatch"} =>
          /\ ask[r].principal = bound[call[r].att].principal
          /\ ask[r].expected = prepared[call[r].att].digest

\* A retry by its owner of the request an attempt is bound to.
IsRetry(r) ==
    /\ call[r].att \in Bound
    /\ ask[r].principal = bound[call[r].att].principal
    /\ ask[r].body = bound[call[r].att].request
    /\ ask[r].expected = bound[call[r].att].digest

\* A retry is recognised, whatever became of the request before it: it is refused as
\* another calculation only after an upgrade of what decides the plan.
PlanStands(b) == running.policy = b.digest.policy /\ installed.packages = b.digest.packages

RetriesAreRecognised ==
    [][\A r \in Calls :
          call[r].pc = "bind" /\ call'[r].pc = "idle" /\ response'[r] = "conflict" /\ IsRetry(r) =>
              ~PlanStands(bound[call[r].att])]_apiVars

-----------------------------------------------------------------------------
(* The inductive invariant behind SubmittedAsPlanned.                      *)

\* A PUT past _bind_attempt; one that found or made what it asked for on POWER; and one
\* on its way to sbatch.
IsBound(c)    == c.kind # "get" /\ c.pc \notin {"idle", "bind", "register"}
IsMatched(c)  == IsBound(c) /\ c.pc \notin {"read_remote", "prepare_remote", "reread_remote"}
IsReserved(c) == IsMatched(c) /\ c.pc \notin {"record_prepared", "record", "confirm", "release"}

\* What a call relies on: it carries out the request of someone who may make it, by the
\* plan in the record, and what it goes on to submit is that of the record.
CallFits(r) ==
    LET c == call[r] IN
    /\ c.pc # "idle" => ask[r] \in AdmittedRequests /\ ask[r].kind = c.kind
    /\ c.pc \notin {"idle", "scheduler", "store_scheduler"} =>
          (c.kind = "get" <=> c.pc \in {"look_up", "record_lookup"})
    /\ c.pc = "register" =>
          WithinLimits(plan[r]) /\ compute_plan_digest(plan[r]) = ask[r].expected
    /\ IsBound(c) =>
          /\ ask[r].principal = bound[c.att].principal
          /\ ask[r].expected = bound[c.att].digest
          /\ compute_plan_digest(plan[r]) = bound[c.att].digest
    /\ IsMatched(c) => prepared[c.att].ours
    /\ IsReserved(c) => c.kind = "submit"

\* The record of an attempt is within the limits; what was prepared, and what was
\* submitted, is what the record says.
AttemptFits(a) ==
    /\ a \in Bound => bound[a].digest.cpus <= MaxCpus
    /\ prepared[a].ours => a \in Bound /\ prepared[a].digest = bound[a].digest
    /\ prepared[a].ours /\ phase[a] \in {"committed", "recorded"} =>
          bound[a].principal \in Submitters

ApiInv ==
    /\ LedgerInv
    /\ DOMAIN ask = Calls /\ DOMAIN plan = Calls
    /\ DOMAIN bound = Attempts /\ DOMAIN prepared = Attempts
    /\ \A r \in Calls : CallFits(r)
    /\ \A a \in Attempts : AttemptFits(a)

=============================================================================
