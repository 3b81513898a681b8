--------------------------- MODULE BrowserFlow_proofs ---------------------------
(***************************************************************************)
(* Proofs about BrowserFlow: for any structures, desired outputs, entered  *)
(* stages, tabs, attempts and restarts.  What a calculation is does not    *)
(* matter to most of them, only that the same form makes the same one.     *)
(* First what stays when something is built again; then the steps of       *)
(* pages, and the steps on POWER under the lock.  Then the treatments,     *)
(* where it does matter: each stage of a Desired Output after all of them, *)
(* what the record says of them, and that none gets the calculation        *)
(* refused; and the record of DFT+U that POWER compares the inputs with.   *)
(***************************************************************************)
EXTENDS BrowserFlow, TLAPS

-----------------------------------------------------------------------------
(* To build a calculation again.                                           *)

\* What create_submission_spec answers has the second and the runtime it was given.
LEMMA SpecsAreStamped ==
    ASSUME NEW m, NEW name, NEW w, NEW stamp, NEW version,
           create_submission_spec(m, name, w, stamp, version) # Bad
    PROVE  create_submission_spec(m, name, w, stamp, version) =
               [stages |-> resolve_workflow_for_structure(m, name, w).stages, recipe |-> w.recipe,
                stamp |-> stamp, version |-> version,
                treatments |-> automatic_treatments(m, resolve_workflow_for_structure(m, name, w))]
BY DEF create_submission_spec, Specification

Upgraded(spec, version) == [spec EXCEPT !.version = version]

\* With another runtime the same form gives the same calculation, but for the runtime.
LEMMA UpgradesKeepTheCalculation ==
    ASSUME NEW m, NEW name, NEW w, NEW stamp, NEW version, NEW upgraded,
           create_submission_spec(m, name, w, stamp, upgraded) # Bad
    PROVE  create_submission_spec(m, name, w, stamp, upgraded)
               = Upgraded(create_submission_spec(m, name, w, stamp, version), upgraded)
<1> DEFINE stages     == resolve_workflow_for_structure(m, name, w).stages
           treatments == automatic_treatments(m, resolve_workflow_for_structure(m, name, w))
<1>1. /\ create_submission_spec(m, name, w, stamp, upgraded)
              = Specification(stages, w.recipe, stamp, upgraded, treatments)
      /\ create_submission_spec(m, name, w, stamp, version)
              = Specification(stages, w.recipe, stamp, version, treatments)
  BY DEF create_submission_spec
<1> HIDE DEF stages, treatments
<1>2. [Specification(stages, w.recipe, stamp, version, treatments) EXCEPT !.version = upgraded]
          = Specification(stages, w.recipe, stamp, upgraded, treatments)
  BY DEF Specification
<1> QED
  BY <1>1, <1>2, Zenon DEF Upgraded

\* The names of workflows, and what the assumption says of them.
LEMMA NamesAreKnown ==
    /\ "custom" \notin DOMAIN DESIRED_OUTPUTS
    /\ Outputs \subseteq DOMAIN DESIRED_OUTPUTS
    /\ Absent \notin DOMAIN DESIRED_OUTPUTS \cup {"custom"}
    /\ \A o \in DOMAIN DESIRED_OUTPUTS :
          /\ desired_output_workflow_spec(o) = Workflow(DESIRED_OUTPUTS[o], o)
          /\ desired_output_workflow_spec(o) # Absent
<1>1. "custom" \notin DOMAIN DESIRED_OUTPUTS BY DEF DESIRED_OUTPUTS
<1> QED BY <1>1, BrowserAssumption, NoValueAssumption DEF desired_output_workflow_spec

\* A desired output is taken by its name, whatever stages come with it.
LEMMA DesiredFormsAreStable ==
    ASSUME NEW o \in DOMAIN DESIRED_OUTPUTS, NEW json
    PROVE  workflow_spec_from_form(o, json) = Workflow(DESIRED_OUTPUTS[o], o)
BY NamesAreKnown DEF workflow_spec_from_form

\* A Custom workflow is taken as it comes, or refused.
LEMMA CustomFormsAreStable ==
    ASSUME NEW json, workflow_spec_from_form("custom", json) # Bad
    PROVE  workflow_spec_from_form("custom", json) = json
BY DEF workflow_spec_from_form, desired_output_workflow_spec, DESIRED_OUTPUTS

\* The stages of a Custom workflow are those of its specification.
LEMMA CustomStagesAreKept ==
    ASSUME NEW m, NEW w, NEW stamp, NEW version,
           create_submission_spec(m, "custom", w, stamp, version) # Bad
    PROVE  create_submission_spec(m, "custom", w, stamp, version).stages = w.stages
<1>1. desired_output_workflow_spec("custom") = Absent
      BY NamesAreKnown DEF desired_output_workflow_spec
<1>2. resolve_workflow_for_structure(m, "custom", w).stages = validate_workflow_spec(w.stages)
      BY <1>1 DEF resolve_workflow_for_structure
<1>3. validate_workflow_spec(w.stages) # Bad
      BY <1>2 DEF create_submission_spec
<1> QED BY <1>2, <1>3, SpecsAreStamped DEF validate_workflow_spec

\* The page of a new Build, of a desired output or of entered stages.
LEMMA DesiredBuildsAreStable ==
    ASSUME NEW o \in DOMAIN DESIRED_OUTPUTS, NEW json, NEW stamp, NEW version, NEW token,
           NEW w, w = workflow_spec_from_form(o, json),
           NEW spec, spec = create_submission_spec(material, o, w, stamp, version), spec # Bad
    PROVE  BuildIsStable(Page(Workflow(spec.stages, w.recipe), spec, token, FALSE, 0))
<1> DEFINE W == Workflow(spec.stages, w.recipe)
<1>1. w = Workflow(DESIRED_OUTPUTS[o], o) /\ w.recipe = o BY DesiredFormsAreStable DEF Workflow
<1>2. spec.stamp = stamp /\ spec.version = version /\ spec.recipe = w.recipe BY SpecsAreStamped
<1>3. selected_workflow_context(W) = o BY <1>1 DEF selected_workflow_context, Workflow
<1>4. workflow_spec_from_form(o, W) = w BY <1>1, DesiredFormsAreStable
<1> QED BY <1>2, <1>3, <1>4 DEF BuildIsStable, Page

\* The page of entered stages that are not taken for a desired output.
LEMMA CustomBuildsAreStable ==
    ASSUME NEW stages, NEW stamp, NEW version, NEW token,
           NEW w, w = workflow_spec_from_form("custom", Workflow(stages, Absent)),
           NEW spec, spec = create_submission_spec(material, "custom", w, stamp, version), spec # Bad
    PROVE  BuildIsStable(Page(Workflow(spec.stages, w.recipe), spec, token, FALSE, 0))
<1> DEFINE W == Workflow(spec.stages, w.recipe)
<1>1. w # Bad BY DEF create_submission_spec, Specification
<1>2. w = Workflow(stages, Absent) BY <1>1, CustomFormsAreStable
<1>3. spec.stamp = stamp /\ spec.version = version /\ spec.recipe = w.recipe BY SpecsAreStamped
<1>4. W = w BY <1>2, CustomStagesAreKept DEF Workflow
<1>5. KeepsItsName(W) => selected_workflow_context(W) = "custom"
      BY <1>2, <1>4, NamesAreKnown DEF selected_workflow_context, KeepsItsName, Workflow
<1> QED BY <1>2, <1>3, <1>4, <1>5 DEF BuildIsStable, Page

-----------------------------------------------------------------------------
(* What a step leaves alone.                                               *)

\* Calculations of two seconds have two run directories.
LEMMA DirectoriesDiffer ==
    ASSUME NEW spec, NEW other, run_dir(spec) = run_dir(other)
    PROVE  spec.stamp = other.stamp
BY DEF run_dir

\* A Build stays as it was answered, and what was prepared for a job stays.
Grows ==
    /\ material' = material
    /\ \A b \in DOMAIN built : b \in DOMAIN built' /\ built'[b] = built[b]
    /\ \A b \in Attempts : accepted[b] = 1 => accepted'[b] = 1 /\ prints'[b] = prints[b]

\* A Build that comes later can only take the own second from an attempt.
LEMMA SecondsAreShared ==
    ASSUME Grows, NEW b \in DOMAIN built, HasOwnSecond(b)'
    PROVE  HasOwnSecond(b)
BY DEF Grows, HasOwnSecond

\* Whatever grows keeps a true page true,
LEMMA PagesStay ==
    ASSUME Grows, NEW page, PageIsTrue(page)
    PROVE  PageIsTrue(page)'
BY DEF Grows, PageIsTrue, IsOfBuild, KeepsName

\* and a Build stable.
LEMMA BuildsStay ==
    ASSUME Grows, NEW page, BuildIsStable(page)
    PROVE  BuildIsStable(page)'
BY DEF Grows, BuildIsStable

\* What POWER holds of an attempt.
HeldOf(b) == <<phase[b], accepted[b], prints[b], records[b]>>

StaysInPlace(b, spec) == HasOwnSecond(b) /\ IsInPlace(b, spec) => IsInPlace(b, spec)'

\* What POWER holds of an attempt stays kept when neither it nor its files change.
LEMMA AttemptsStay ==
    ASSUME Grows, NEW b \in Attempts, AttemptIsKept(b), HeldOf(b)' = HeldOf(b),
           phase[b] # "absent" /\ b \in DOMAIN built => StaysInPlace(b, prints[b])
    PROVE  AttemptIsKept(b)'
<1>1. /\ phase'[b] = phase[b] /\ accepted'[b] = accepted[b]
      /\ prints'[b] = prints[b] /\ records'[b] = records[b]
      BY DEF HeldOf
<1>2. ASSUME phase[b] # "absent"
      PROVE  /\ b \in DOMAIN built' /\ prints'[b].stamp = built'[b].spec.stamp
             /\ KeepsName(b)' => prints'[b] = [built'[b].spec EXCEPT !.version = prints'[b].version]
             /\ HasOwnSecond(b)' => IsInPlace(b, prints[b])'
  <2>1. b \in DOMAIN built BY <1>2 DEF AttemptIsKept
  <2>2. b \in DOMAIN built' /\ built'[b] = built[b] BY <2>1 DEF Grows
  <2>3. HasOwnSecond(b)' => IsInPlace(b, prints[b])'
        BY <1>2, <2>1, SecondsAreShared DEF AttemptIsKept, StaysInPlace
  <2> QED BY <1>1, <1>2, <2>2, <2>3 DEF AttemptIsKept, KeepsName
<1>3. HasOwnSecond(b)' /\ phase[b] # "absent" => IsInPlace(b, prints[b])' BY <1>2
<1> QED BY <1>1, <1>2 DEF AttemptIsKept, IsInPlace

\* A call with the lock needs its attempt to stay; one without it only the Builds.
LEMMA CallsStay ==
    ASSUME Grows, NEW c, CallIsInformed(c),
           c.step \in LockedSteps =>
               /\ HeldOf(c.attempt)' = HeldOf(c.attempt)
               /\ c.attempt \in lock'
               /\ c.attempt \in DOMAIN built => StaysInPlace(c.attempt, c.spec)
    PROVE  CallIsInformed(c)'
<1> SUFFICES ASSUME c.step # "idle" PROVE CallIsInformed(c)'
    BY DEF CallIsInformed
<1>1. c.attempt \in DOMAIN built /\ c.attempt \in DOMAIN built' /\ built'[c.attempt] = built[c.attempt]
      BY DEF CallIsInformed, IsOfBuild, Grows
<1>2. IsOfBuild(c.page.token)' /\ c.attempt = c.page.token.attempt /\ c.spec.stamp = c.page.token.stamp
      BY <1>1 DEF CallIsInformed, IsOfBuild
<1>3. KeepsName(c.attempt)' =>
          c.spec = [built'[c.attempt].spec EXCEPT !.version = c.spec.version]
      BY <1>1 DEF CallIsInformed, KeepsName
<1>4. c.step = "mark" /\ HasOwnSecond(c.attempt)' => IsInPlace(c.attempt, c.spec)'
      BY <1>1, SecondsAreShared DEF CallIsInformed, StaysInPlace, LockedSteps
<1>5. c.step \in LockedSteps =>
          /\ phase'[c.attempt] = phase[c.attempt] /\ accepted'[c.attempt] = accepted[c.attempt]
          /\ prints'[c.attempt] = prints[c.attempt]
      BY DEF HeldOf
<1> QED BY <1>2, <1>3, <1>4, <1>5 DEF CallIsInformed, LockedSteps

-----------------------------------------------------------------------------
(* A step of a request.                                                    *)

\* What BrowserInv says of a call.
LEMMA CallsAreInformed ==
    ASSUME BrowserInv, NEW t \in Tabs, call[t].step # "idle"
    PROVE  /\ CallIsInformed(call[t])
           /\ call[t].attempt \in DOMAIN built /\ call[t].attempt \in Attempts
           /\ AttemptIsKept(call[t].attempt) /\ BuildIsStable(built[call[t].attempt])
<1>1. CallIsInformed(call[t]) BY DEF BrowserInv
<1>2. call[t].attempt \in DOMAIN built BY <1>1 DEF CallIsInformed, IsOfBuild
<1>3. call[t].attempt \in Attempts BY <1>2 DEF BrowserInv, BrowserTypeOK
<1> QED BY <1>1, <1>2, <1>3 DEF BrowserInv

\* A request goes on, or is answered.
LEMMA CallsMove ==
    ASSUME BrowserTypeOK, NEW t \in Tabs, NEW step, Goto(t, step)
    PROVE  /\ call' = [u \in Tabs |-> call'[u]]
           /\ call'[t] = [step |-> step, attempt |-> call[t].attempt, spec |-> call[t].spec, page |-> call[t].page]
           /\ \A u \in Tabs \ {t} : call'[u] = call[u]
<1>1. call' = [u \in Tabs |-> IF u = t THEN [call[t] EXCEPT !.step = step] ELSE call[u]]
      BY DEF BrowserTypeOK, Goto
<1>2. call[t] = [step |-> call[t].step, attempt |-> call[t].attempt, spec |-> call[t].spec, page |-> call[t].page]
      BY Zenon DEF BrowserTypeOK
<1>3. [call[t] EXCEPT !.step = step] =
          [step |-> step, attempt |-> call[t].attempt, spec |-> call[t].spec, page |-> call[t].page]
      BY <1>2
<1> QED BY <1>1, <1>3

\* An answer ends the request, and the tab shows the page or did not get it.
LEMMA CallsEnd ==
    ASSUME BrowserTypeOK, NEW t \in Tabs, NEW page, Answer(t, page)
    PROVE  /\ call' = [u \in Tabs |-> call'[u]] /\ call'[t] = Idle
           /\ \A u \in Tabs \ {t} : call'[u] = call[u]
           /\ tab' = [u \in Tabs |-> tab'[u]]
           /\ \A u \in Tabs : tab'[u] = tab[u] \/ tab'[u] = page
BY DEF BrowserTypeOK, Answer

\* A page that answers with the calculation of the request is true: what was built again has
\* the stages that were built.
LEMMA AnswersAreTrue ==
    ASSUME BrowserInv, Grows, NEW t \in Tabs, call[t].step # "idle", NEW prepared, NEW job,
           job \in {0, call[t].attempt},
           job # 0 => accepted'[job] = 1 /\ prints'[job] = call[t].spec,
           NEW page, page = Answering(call[t].page, call[t].spec, prepared, job)
    PROVE  PageIsTrue(page)'
<1> PICK a, spec : a = call[t].attempt /\ spec = call[t].spec OBVIOUS
<1>1. /\ a \in Attempts /\ a \in DOMAIN built /\ a \in DOMAIN built' /\ built'[a] = built[a]
      /\ a = call[t].page.token.attempt /\ spec.stamp = built[a].spec.stamp
      BY CallsAreInformed DEF CallIsInformed, IsOfBuild, Grows
<1>2. /\ page.token = [attempt |-> a, stamp |-> spec.stamp, secret |-> server.secret]
      /\ page.job = job /\ page.spec = spec
      /\ page.workflow = Workflow(spec.stages, spec.recipe)
      BY <1>1 DEF Answering, Page, create_submission_identity_token
<1>3. page.token.attempt = a /\ page.token.stamp = spec.stamp BY <1>2
<1>4. KeepsName(a)' => page.workflow = built'[a].workflow
  <2> SUFFICES ASSUME KeepsName(a)' PROVE page.workflow = built[a].workflow BY <1>1
  <2>1. spec = [built[a].spec EXCEPT !.version = spec.version]
        BY <1>1, CallsAreInformed DEF CallIsInformed, KeepsName
  <2>2. built[a].spec =
            [stages |-> built[a].spec.stages, recipe |-> built[a].spec.recipe, stamp |-> built[a].spec.stamp,
             version |-> built[a].spec.version, treatments |-> built[a].spec.treatments]
        BY <1>1, Zenon DEF BrowserInv, BrowserTypeOK
  <2>3. spec.stages = built[a].spec.stages /\ spec.recipe = built[a].spec.recipe BY <2>1, <2>2
  <2> QED BY <1>2, <2>3, CallsAreInformed DEF BuildIsStable
<1> QED BY <1>1, <1>2, <1>3, <1>4 DEF PageIsTrue, IsOfBuild, KeepsName

\* The invariant after a step of one request, from what the step does for it.
LEMMA StepsAreSafe ==
    ASSUME BrowserInv, BrowserTypeOK', Grows, NEW t \in Tabs, NEW a, a = call[t].attempt, call[t].step # "idle",
           built' = built,
           \A u \in Tabs \ {t} : call'[u] = call[u],
           \A u \in Tabs \ {t} : call[u].step \in LockedSteps => call[u].attempt # a,
           \A b \in Attempts \ {a} : HeldOf(b)' = HeldOf(b) /\ (b \in lock => b \in lock'),
           \A b \in DOMAIN built \ {a} : \A spec :
               spec.stamp = built[b].spec.stamp => StaysInPlace(b, spec),
           CallIsInformed(call[t])', AttemptIsKept(a)',
           call'[t].step \in LockedSteps => call'[t].attempt = a,
           NEW page, \A u \in Tabs : tab'[u] = tab[u] \/ tab'[u] = page, PageIsTrue(page)'
    PROVE  BrowserInv'
<1>1. \A u \in Tabs : PageIsTrue(tab[u])'
  <2> SUFFICES ASSUME NEW u \in Tabs PROVE PageIsTrue(tab[u])' OBVIOUS
  <2> PICK old, new : old = tab[u] /\ new = tab'[u] OBVIOUS
  <2>1. PageIsTrue(old)' BY PagesStay DEF BrowserInv
  <2>2. PageIsTrue(new)' BY <2>1
  <2> QED BY <2>2
<1>2. \A u \in Tabs : CallIsInformed(call[u])'
  <2> SUFFICES ASSUME NEW u \in Tabs \ {t} PROVE CallIsInformed(call[u])' OBVIOUS
  <2> PICK c : c = call[u] /\ c = call'[u] OBVIOUS
  <2>1. CallIsInformed(c) BY DEF BrowserInv
  <2>2. ASSUME c.step \in LockedSteps
        PROVE  /\ HeldOf(c.attempt)' = HeldOf(c.attempt) /\ c.attempt \in lock'
               /\ c.attempt \in DOMAIN built => StaysInPlace(c.attempt, c.spec)
    <3>1. c.step # "idle" BY <2>2 DEF LockedSteps
    <3>2. c.attempt \in lock /\ c.spec.stamp = built[c.attempt].spec.stamp
          BY <2>1, <2>2, <3>1 DEF CallIsInformed, IsOfBuild
    <3>3. c.attempt \in DOMAIN built \ {a} /\ c.attempt \in Attempts \ {a}
          BY <2>2, <3>1, CallsAreInformed
    <3> QED BY <3>2, <3>3
  <2>3. CallIsInformed(c)' BY <2>1, <2>2, CallsStay
  <2> QED BY <2>3
<1>3. LocksAreExclusive'
      BY DEF BrowserInv, LocksAreExclusive
<1>4. \A b \in Attempts : AttemptIsKept(b)'
  <2> SUFFICES ASSUME NEW b \in Attempts \ {a} PROVE AttemptIsKept(b)' OBVIOUS
  <2>1. AttemptIsKept(b) BY DEF BrowserInv
  <2>2. phase[b] # "absent" /\ b \in DOMAIN built => StaysInPlace(b, prints[b])
        BY <2>1 DEF AttemptIsKept
  <2> QED BY <2>1, <2>2, AttemptsStay
<1>5. \A b \in DOMAIN built' : BuildIsStable(built[b])'
  <2> SUFFICES ASSUME NEW b \in DOMAIN built PROVE BuildIsStable(built[b])' OBVIOUS
  <2> PICK old : old = built[b] /\ old = built'[b] OBVIOUS
  <2>1. BuildIsStable(old)' BY BuildsStay DEF BrowserInv
  <2> QED BY <2>1
<1> QED BY <1>1, <1>2, <1>3, <1>4, <1>5 DEF BrowserInv

-----------------------------------------------------------------------------
(* The steps that leave POWER alone.                                       *)

\* The invariant after a step that leaves POWER alone: of a page, a new Build or a new request.
LEMMA PagesAreSafe ==
    ASSUME BrowserInv, BrowserTypeOK', Grows, UNCHANGED remote,
           \A u \in Tabs : call'[u] = call[u] \/ (call'[u].step \notin LockedSteps /\ CallIsInformed(call[u])'),
           NEW page, \A u \in Tabs : tab'[u] = tab[u] \/ tab'[u] = page, PageIsTrue(page)',
           \A b \in DOMAIN built' \ DOMAIN built : BuildIsStable(built[b])'
    PROVE  BrowserInv'
<1>0. /\ files' = files /\ lock' = lock /\ phase' = phase /\ accepted' = accepted /\ misled' = misled
      /\ prints' = prints /\ records' = records
      BY DEF remote
<1>1. \A b : HeldOf(b)' = HeldOf(b) /\ \A spec : StaysInPlace(b, spec)
      BY <1>0 DEF HeldOf, StaysInPlace, IsInPlace
<1>2. \A u \in Tabs : PageIsTrue(tab[u])'
  <2> SUFFICES ASSUME NEW u \in Tabs PROVE PageIsTrue(tab[u])' OBVIOUS
  <2> PICK old, new : old = tab[u] /\ new = tab'[u] OBVIOUS
  <2>1. PageIsTrue(old)' BY PagesStay DEF BrowserInv
  <2>2. PageIsTrue(new)' BY <2>1
  <2> QED BY <2>2
<1>3. \A u \in Tabs : CallIsInformed(call[u])'
  <2> SUFFICES ASSUME NEW u \in Tabs, call'[u] = call[u] PROVE CallIsInformed(call[u])' OBVIOUS
  <2> PICK c : c = call[u] /\ c = call'[u] OBVIOUS
  <2>1. CallIsInformed(c) BY DEF BrowserInv
  <2>2. c.step \in LockedSteps => c.attempt \in lock'
        BY <1>0, <2>1 DEF CallIsInformed, LockedSteps
  <2>3. CallIsInformed(c)' BY <1>1, <2>1, <2>2, CallsStay
  <2> QED BY <2>3
<1>4. LocksAreExclusive'
  <2>1. \A u \in Tabs : call'[u].step \in LockedSteps => call'[u] = call[u] OBVIOUS
  <2> QED BY <2>1 DEF BrowserInv, LocksAreExclusive
<1>5. \A b \in Attempts : AttemptIsKept(b)'
      BY <1>1, AttemptsStay DEF BrowserInv
<1>6. \A b \in DOMAIN built' : BuildIsStable(built[b])'
  <2> SUFFICES ASSUME NEW b \in DOMAIN built PROVE BuildIsStable(built[b])' OBVIOUS
  <2> PICK old : old = built[b] /\ old = built'[b] BY DEF Grows
  <2>1. BuildIsStable(old)' BY BuildsStay DEF BrowserInv
  <2> QED BY <2>1
<1> QED BY <1>2, <1>3, <1>4, <1>5, <1>6 DEF BrowserInv

\* An error page says nothing.
LEMMA ErrorPagesAreTrue ==
    ASSUME NEW w, NEW page, page = ErrorPage(w)
    PROVE  PageIsTrue(page)'
BY DEF ErrorPage, Page, PageIsTrue, OffersPrepare

\* A tab shows another page, and nothing else happens.
LEMMA ShowingIsSafe ==
    ASSUME BrowserInv, NEW t \in Tabs, NEW page, PageIsTrue(page)', Show(t, page),
           UNCHANGED <<material, clock, server, keeps, built, call, remote>>
    PROVE  BrowserInv'
<1>1. Grows BY DEF Grows, remote
<1>0. /\ built' = built /\ call' = call /\ files' = files /\ prints' = prints /\ records' = records
      /\ phase' = phase /\ accepted' = accepted /\ misled' = misled
      BY DEF remote
<1>2. tab' = [tab EXCEPT ![t] = page] /\ tab' = [u \in Tabs |-> tab'[u]] /\ \A u \in Tabs : tab'[u] = tab[u] \/ tab'[u] = page
      BY DEF BrowserInv, BrowserTypeOK, Show
<1>3. BrowserTypeOK'
  <2>1. BrowserTypeOK BY DEF BrowserInv
  <2> QED BY <1>0, <1>2, <2>1 DEF BrowserTypeOK, TrackedTypeOK
<1>4. UNCHANGED remote OBVIOUS
<1>5. \A u \in Tabs : call'[u] = call[u] OBVIOUS
<1>6. DOMAIN built' \ DOMAIN built = {} OBVIOUS
<1>7. \A u \in Tabs : call'[u] = call[u] \/ (call'[u].step \notin LockedSteps /\ CallIsInformed(call[u])')
      BY <1>5
<1>8. \A u \in Tabs : tab'[u] = tab[u] \/ tab'[u] = page
      BY <1>2, <1>5
<1>9. \A b \in DOMAIN built' \ DOMAIN built : BuildIsStable(built[b])'
      BY <1>6
<1> QED BY <1>1, <1>2, <1>3, <1>4, <1>7, <1>8, <1>9, PagesAreSafe, Zenon

\* The routes that only show a page.
LEMMA AnalyzeIsSafe == ASSUME BrowserInv, NEW t \in Tabs, Analyze(t) PROVE BrowserInv'
<1> PICK page : page = ErrorPage(default_workflow_spec) OBVIOUS
<1> QED BY ErrorPagesAreTrue, ShowingIsSafe DEF Analyze

LEMMA ResumeIsSafe == ASSUME BrowserInv, NEW t \in Tabs, Resume(t) PROVE BrowserInv'
<1>1. PICK a \in Attempts : accepted[a] = 1 /\ Show(t, Page(default_workflow_spec, Absent, Absent, FALSE, a))
      BY DEF Resume
<1>2. accepted' = accepted /\ misled' = misled BY DEF Resume, remote
<1> PICK page : page = Page(default_workflow_spec, Absent, Absent, FALSE, a) OBVIOUS
<1>3. PageIsTrue(page)' BY <1>1, <1>2 DEF PageIsTrue, Page
<1> QED BY <1>1, <1>3, ShowingIsSafe DEF Resume

LEMMA DuplicateIsSafe == ASSUME BrowserInv, NEW t \in Tabs, NEW u \in Tabs, Duplicate(t, u) PROVE BrowserInv'
<1> PICK page : page = tab[t] OBVIOUS
<1>1. Grows BY DEF Grows, Duplicate, remote
<1>2. PageIsTrue(page)' BY <1>1, PagesStay DEF BrowserInv
<1> QED BY <1>2, ShowingIsSafe DEF Duplicate

LEMMA RefreshIsSafe == ASSUME BrowserInv, NEW t \in Tabs, Refresh(t) PROVE BrowserInv'
<1> PICK old : old = tab[t] OBVIOUS
<1>1. /\ old.job # 0 /\ old.token # Absent
      /\ UNCHANGED <<material, clock, server, keeps, built, call, remote>>
      BY DEF Refresh, OffersRefresh
<1>2. PICK w : \/ Show(t, ErrorPage(IF w = Bad THEN default_workflow_spec ELSE w))
               \/ /\ records[old.job] # Absent
                  /\ Show(t, Page(w, records[old.job], old.token, TRUE, old.job))
               \/ Show(t, Page(w, Absent, Absent, FALSE, old.job))
               \/ Show(t, Page(w, Absent, old.token, FALSE, old.job))
      BY DEF Refresh
<1>3. /\ IsOfBuild(old.token) /\ old.job \in Attempts /\ accepted[old.job] = 1
      /\ AttemptIsKept(old.job)
      BY <1>1 DEF BrowserInv, PageIsTrue
<1>4. IsOfBuild(old.token)' /\ accepted' = accepted /\ misled' = misled /\ prints' = prints
      BY <1>1, <1>3 DEF IsOfBuild, remote
<1>5. CASE Show(t, ErrorPage(IF w = Bad THEN default_workflow_spec ELSE w))
      <2> PICK page : page = ErrorPage(IF w = Bad THEN default_workflow_spec ELSE w) OBVIOUS
      <2> QED BY <1>1, <1>5, ErrorPagesAreTrue, ShowingIsSafe
<1>6. ASSUME NEW spec, NEW token \in {Absent, old.token}, NEW prepared,
             spec # Absent => spec = prints[old.job],
             Show(t, Page(w, spec, token, prepared, old.job))
      PROVE  BrowserInv'
      <2> PICK page : page = Page(w, spec, token, prepared, old.job) OBVIOUS
      <2>1. PageIsTrue(page)' BY <1>1, <1>3, <1>4, <1>6 DEF PageIsTrue, Page, OffersPrepare
      <2> QED BY <1>1, <1>6, <2>1, ShowingIsSafe
<1>7. records[old.job] # Absent => records[old.job] = prints[old.job]
      BY <1>3 DEF AttemptIsKept
<1> QED BY <1>2, <1>5, <1>6, <1>7

\* Time passes, and the server is started again.
LEMMA TickIsSafe == ASSUME BrowserInv, Tick PROVE BrowserInv'
<1>1. Grows BY DEF Grows, Tick, remote
<1>2. BrowserTypeOK' BY DEF BrowserInv, BrowserTypeOK, TrackedTypeOK, Tick, remote
<1> PICK page : page = ErrorPage(Absent) OBVIOUS
<1>3. PageIsTrue(page)' BY ErrorPagesAreTrue
<1>4. UNCHANGED remote BY DEF Tick
<1>5. \A u \in Tabs : call'[u] = call[u] /\ tab'[u] = tab[u] BY DEF Tick
<1>6. DOMAIN built' \ DOMAIN built = {} BY DEF Tick
<1>7. \A u \in Tabs : call'[u] = call[u] \/ (call'[u].step \notin LockedSteps /\ CallIsInformed(call[u])')
      BY <1>5
<1>8. \A u \in Tabs : tab'[u] = tab[u] \/ tab'[u] = page
      BY <1>2, <1>5
<1>9. \A b \in DOMAIN built' \ DOMAIN built : BuildIsStable(built[b])'
      BY <1>6
<1> QED BY <1>1, <1>2, <1>3, <1>4, <1>7, <1>8, <1>9, PagesAreSafe, Zenon

LEMMA RestartIsSafe == ASSUME BrowserInv, Restart PROVE BrowserInv'
<1>1. Grows BY DEF Grows, Restart, remote
<1>2. BrowserTypeOK' BY DEF BrowserInv, BrowserTypeOK, TrackedTypeOK, Restart, remote, Idle
<1> PICK page : page = ErrorPage(Absent) OBVIOUS
<1>3. PageIsTrue(page)' BY ErrorPagesAreTrue
<1>4. \A u \in Tabs : call'[u].step \notin LockedSteps /\ CallIsInformed(call[u])'
      BY DEF Restart, Idle, LockedSteps, CallIsInformed
<1> QED BY <1>1, <1>2, <1>3, <1>4, PagesAreSafe DEF Restart

\* The page of a Build: of an attempt nothing was built for yet.
LEMMA BuildingIsSafe ==
    ASSUME BrowserInv, NEW t \in Tabs, NEW name, NEW json, BuildFrom(t, name, json),
           \/ name \in DOMAIN DESIRED_OUTPUTS
           \/ name = "custom" /\ \E stages : json = Workflow(stages, Absent)
    PROVE  BrowserInv'
<1>1. UNCHANGED <<material, clock, server, keeps, call, remote>>
      BY DEF BuildFrom
<1> PICK w : w = workflow_spec_from_form(name, json) OBVIOUS
<1> PICK spec : spec = create_submission_spec(material, name, w, clock, server.version) OBVIOUS
<1>2. CASE spec = Bad
  <2> PICK page : page = ErrorPage(IF w = Bad THEN default_workflow_spec ELSE w) OBVIOUS
  <2>1. Show(t, page) /\ built' = built BY <1>2 DEF BuildFrom
  <2> QED BY <1>1, <2>1, ErrorPagesAreTrue, ShowingIsSafe
<1>3. CASE spec # Bad
  <2>1. PICK a \in Attempts \ DOMAIN built :
            LET page == Page(Workflow(spec.stages, w.recipe), spec,
                             create_submission_identity_token(a, clock), FALSE, 0)
            IN  Show(t, page) /\ built' = With(built, a, page)
        BY <1>3 DEF BuildFrom
  <2> PICK token : token = create_submission_identity_token(a, clock) OBVIOUS
  <2> PICK page : page = Page(Workflow(spec.stages, w.recipe), spec, token, FALSE, 0) OBVIOUS
  <2>2. Show(t, page) /\ built' = With(built, a, page) BY <2>1
  <2>3. /\ DOMAIN built' = DOMAIN built \cup {a} /\ built'[a] = page
        /\ \A b \in DOMAIN built : built'[b] = built[b]
        /\ built' = [b \in DOMAIN built' |-> built'[b]]
        BY <2>2 DEF With
  <2>4. Grows BY <1>1, <2>3 DEF Grows, remote
  <2>5. spec.stamp = clock /\ page.spec = spec /\ page.token = token /\ page.job = 0
        /\ token.attempt = a /\ token.stamp = clock
        BY <1>3, SpecsAreStamped DEF Page, create_submission_identity_token
  <2>6. PageIsTrue(page)'
        BY <2>3, <2>5 DEF PageIsTrue, IsOfBuild
  <2>7. BuildIsStable(page)
        BY <1>3, DesiredBuildsAreStable, CustomBuildsAreStable
  <2>8. \A b \in DOMAIN built' \ DOMAIN built : BuildIsStable(built[b])'
    <3> SUFFICES ASSUME NEW b \in DOMAIN built' \ DOMAIN built PROVE BuildIsStable(built[b])' OBVIOUS
    <3>1. BuildIsStable(page)' BY <2>4, <2>7, BuildsStay
    <3>2. built'[b] = page BY <2>3
    <3> QED BY <3>1, <3>2
  <2>9. /\ tab' = [u \in Tabs |-> tab'[u]]
        /\ \A u \in Tabs : tab'[u] = tab[u] \/ tab'[u] = page
        BY <2>2 DEF BrowserInv, BrowserTypeOK, Show
  <2>10. spec = [stages |-> spec.stages, recipe |-> spec.recipe, stamp |-> spec.stamp, version |-> spec.version,
                 treatments |-> spec.treatments]
        BY <1>3, SpecsAreStamped
  <2>11. BrowserTypeOK'
    <3>1. /\ call' = call /\ files' = files /\ prints' = prints /\ records' = records
          /\ phase' = phase /\ accepted' = accepted /\ misled' = misled
          BY <1>1 DEF remote
    <3>2. BrowserTypeOK BY DEF BrowserInv
    <3>3. TrackedTypeOK' BY <3>1, <3>2 DEF BrowserTypeOK, TrackedTypeOK
    <3>4. \A b \in DOMAIN built' : LET s == built'[b].spec IN
              s = [stages |-> s.stages, recipe |-> s.recipe, stamp |-> s.stamp, version |-> s.version,
                   treatments |-> s.treatments]
      <4> SUFFICES ASSUME NEW b \in DOMAIN built'
                   PROVE  LET s == built'[b].spec IN
                          s = [stages |-> s.stages, recipe |-> s.recipe, stamp |-> s.stamp,
                               version |-> s.version, treatments |-> s.treatments]
          OBVIOUS
      <4>1. CASE b = a BY <2>3, <2>5, <2>10, <4>1, Zenon
      <4>2. CASE b # a
        <5>1. b \in DOMAIN built /\ built'[b] = built[b] BY <2>3, <4>2
        <5> QED BY <3>2, <5>1, Zenon DEF BrowserTypeOK
      <4> QED BY <4>1, <4>2
    <3>5. /\ DOMAIN built' \subseteq Attempts
          /\ \A u \in Tabs : LET c == call'[u] IN
                c = [step |-> c.step, attempt |-> c.attempt, spec |-> c.spec, page |-> c.page]
      BY <2>3, <3>1, <3>2 DEF BrowserTypeOK
    <3>6. /\ files' = [d \in DOMAIN files' |-> files'[d]] /\ call' = [u \in Tabs |-> call'[u]]
          /\ prints' = [b \in Attempts |-> prints'[b]] /\ records' = [b \in Attempts |-> records'[b]]
      BY <3>1, <3>2 DEF BrowserTypeOK
    <3> QED BY <2>3, <2>9, <3>3, <3>4, <3>5, <3>6, Zenon DEF BrowserTypeOK
  <2>12. UNCHANGED remote /\ \A u \in Tabs : call'[u] = call[u] BY <1>1
  <2>13. \A u \in Tabs : call'[u] = call[u] \/ (call'[u].step \notin LockedSteps /\ CallIsInformed(call[u])')
        BY <2>12
  <2> QED BY <2>4, <2>6, <2>8, <2>9, <2>11, <2>12, <2>13, PagesAreSafe, Zenon
<1> QED BY <1>2, <1>3

\* Builds of desired outputs and of entered stages.
LEMMA BuildDesiredIsSafe == ASSUME BrowserInv, NEW t \in Tabs, BuildDesired(t) PROVE BrowserInv'
<1>1. PICK o \in Outputs : BuildFrom(t, o, Workflow(DESIRED_OUTPUTS[o], o)) BY DEF BuildDesired
<1> QED BY <1>1, BuildingIsSafe, NamesAreKnown

LEMMA BuildCustomIsSafe == ASSUME BrowserInv, NEW t \in Tabs, BuildCustom(t) PROVE BrowserInv'
<1>1. PICK stages : BuildFrom(t, "custom", Workflow(stages, Absent)) BY DEF BuildCustom
<1> QED BY <1>1, BuildingIsSafe

\* What is built again is what was built, but for an upgrade.
LEMMA RebuiltIsWhatWasBuilt ==
    ASSUME BrowserInv, NEW t \in Tabs, NEW page, page = tab[t], OffersPrepare(page),
           NEW name, name = selected_workflow_context(page.workflow),
           NEW spec, spec = Rebuilt(name, workflow_spec_from_form(name, page.workflow), page.token), spec # Bad
    PROVE  /\ IsOfBuild(page.token) /\ spec.stamp = page.token.stamp
           /\ KeepsName(page.token.attempt) =>
                 spec = [built[page.token.attempt].spec EXCEPT !.version = spec.version]
<1> PICK w : w = workflow_spec_from_form(name, page.workflow) OBVIOUS
<1> PICK a : a = page.token.attempt OBVIOUS
<1>1. page.token # Absent /\ spec = create_submission_spec(material, name, w, page.token.stamp, server.version)
      BY DEF Rebuilt, TokenIsValid
<1>2. IsOfBuild(page.token) /\ PageIsTrue(page) BY <1>1 DEF BrowserInv, PageIsTrue
<1>3. spec.stamp = page.token.stamp /\ spec.version = server.version BY <1>1, SpecsAreStamped
<1>4. ASSUME KeepsName(a)
      PROVE  spec = [built[a].spec EXCEPT !.version = spec.version]
  <2>1. /\ a \in DOMAIN built /\ page.token.stamp = built[a].spec.stamp
        /\ page.workflow = built[a].workflow
        BY <1>1, <1>2, <1>4 DEF PageIsTrue, IsOfBuild
  <2>2. create_submission_spec(material, name, w, built[a].spec.stamp, built[a].spec.version) = built[a].spec
        BY <1>4, <2>1 DEF BrowserInv, BuildIsStable, KeepsName
  <2> PICK m, stamp, old, new : /\ m = material /\ stamp = built[a].spec.stamp
                                /\ old = built[a].spec.version /\ new = server.version OBVIOUS
  <2>3. spec = create_submission_spec(m, name, w, stamp, new)
        BY <1>1, <2>1
  <2>4. create_submission_spec(m, name, w, stamp, new) # Bad
        BY <2>3
  <2> PICK was : was = built[a].spec OBVIOUS
  <2>5. create_submission_spec(m, name, w, stamp, old) = was BY <2>2
  <2>6. create_submission_spec(m, name, w, stamp, new) = Upgraded(create_submission_spec(m, name, w, stamp, old), new)
        BY <2>4, UpgradesKeepTheCalculation
  <2>7. spec = Upgraded(built[a].spec, server.version) BY <2>3, <2>5, <2>6, Zenon
  <2> QED BY <1>3, <2>7, Zenon DEF Upgraded
<1> QED BY <1>2, <1>3, <1>4

\* Prepare and Submit begin with what they built again.
LEMMA PostIsSafe ==
    ASSUME BrowserInv, NEW t \in Tabs, OffersPrepare(tab[t]), NEW step \in {"claim", "read"}, Post(t, step)
    PROVE  BrowserInv'
<1> PICK page : page = tab[t] OBVIOUS
<1> PICK name : name = selected_workflow_context(page.workflow) OBVIOUS
<1> PICK w : w = workflow_spec_from_form(name, page.workflow) OBVIOUS
<1> PICK spec : spec = Rebuilt(name, w, page.token) OBVIOUS
<1>1. UNCHANGED <<material, clock, server, keeps, built, remote>> BY DEF Post
<1>2. CASE spec = Bad
  <2> PICK error : error = ErrorPage(IF TokenIsValid(page.token) /\ w # Bad THEN w ELSE default_workflow_spec) OBVIOUS
  <2>1. Show(t, error) /\ call' = call BY <1>2 DEF Post
  <2> QED BY <1>1, <2>1, ErrorPagesAreTrue, ShowingIsSafe
<1>3. CASE spec # Bad
  <2> PICK c : c = [step |-> step, attempt |-> page.token.attempt, spec |-> spec, page |-> page] OBVIOUS
  <2>1. call' = [call EXCEPT ![t] = c] /\ tab' = tab BY <1>3 DEF Post
  <2>2. call' = [u \in Tabs |-> call'[u]] /\ call'[t] = c /\ \A u \in Tabs \ {t} : call'[u] = call[u]
        BY <2>1 DEF BrowserInv, BrowserTypeOK
  <2>3. c.step = step /\ c.attempt = page.token.attempt /\ c.spec = spec /\ c.page = page OBVIOUS
  <2>4. CallIsInformed(c)'
    <3>1. /\ IsOfBuild(page.token) /\ spec.stamp = page.token.stamp
          /\ KeepsName(page.token.attempt) =>
                spec = [built[page.token.attempt].spec EXCEPT !.version = spec.version]
          BY <1>3, RebuiltIsWhatWasBuilt, ZenonT(30)
    <3>2. built' = built BY <1>1
    <3> QED BY <2>3, <3>1, <3>2 DEF CallIsInformed, IsOfBuild, KeepsName, LockedSteps
  <2>5. \A u \in Tabs : call'[u] = call[u] \/ (call'[u].step \notin LockedSteps /\ CallIsInformed(call[u])')
    <3>1. c.step \notin LockedSteps BY <2>3 DEF LockedSteps
    <3>2. CallIsInformed(call[t])' BY <2>2, <2>4
    <3> QED BY <2>2, <3>1, <3>2
  <2>6. Grows BY <1>1 DEF Grows, remote
  <2>7. BrowserTypeOK'
    <3>1. /\ built' = built /\ tab' = tab /\ files' = files /\ prints' = prints /\ records' = records
          /\ phase' = phase /\ accepted' = accepted /\ misled' = misled
          BY <1>1, <2>1 DEF remote
    <3>2. BrowserTypeOK BY DEF BrowserInv
    <3> QED BY <2>2, <2>3, <3>1, <3>2 DEF BrowserTypeOK, TrackedTypeOK
  <2>8. PageIsTrue(page)' BY <2>6, PagesStay DEF BrowserInv
  <2>9. UNCHANGED remote /\ \A u \in Tabs : tab'[u] = tab[u] \/ tab'[u] = page BY <1>1, <2>1
  <2>10. \A b \in DOMAIN built' \ DOMAIN built : BuildIsStable(built[b])'
    <3>1. DOMAIN built' \ DOMAIN built = {} BY <1>1
    <3> QED BY <3>1
  <2> QED BY <2>5, <2>6, <2>7, <2>8, <2>9, <2>10, PagesAreSafe, Zenon
<1> QED BY <1>2, <1>3

-----------------------------------------------------------------------------
(* The steps on POWER.                                                     *)

\* Nobody else has the lock of an attempt that is free, or that this request has.
LEMMA NobodyElse ==
    ASSUME BrowserInv, NEW t \in Tabs, call[t].step # "idle",
           call[t].attempt \notin lock \/ call[t].step \in LockedSteps
    PROVE  \A u \in Tabs \ {t} : call[u].step \in LockedSteps => call[u].attempt # call[t].attempt
<1> SUFFICES ASSUME NEW u \in Tabs \ {t}, call[u].step \in LockedSteps, call[u].attempt = call[t].attempt
             PROVE  FALSE
    OBVIOUS
<1>1. CallIsInformed(call[u]) /\ call[u].step # "idle" BY DEF BrowserInv, LockedSteps
<1>2. call[u].attempt \in lock BY <1>1 DEF CallIsInformed
<1> QED BY <1>2 DEF BrowserInv, LocksAreExclusive

\* Files that are not touched stay in place.
LEMMA FilesStay ==
    ASSUME files' = files, NEW b, NEW spec
    PROVE  StaysInPlace(b, spec)
BY DEF StaysInPlace, IsInPlace

\* A step of a request for one attempt, on what POWER holds of it.
WorksFor(a) ==
    /\ material' = material /\ built' = built
    /\ TrackedTypeOK' /\ files' = [d \in DOMAIN files' |-> files'[d]]
    /\ prints' = [b \in Attempts |-> prints'[b]] /\ records' = [b \in Attempts |-> records'[b]]
    /\ \A b \in Attempts \ {a} : HeldOf(b)' = HeldOf(b) /\ (b \in lock => b \in lock')
    /\ accepted[a] = 1 => accepted'[a] = 1 /\ prints'[a] = prints[a]

\* Such a step keeps the Builds and what was prepared for jobs.
LEMMA WorkGrows == ASSUME NEW a \in Attempts, WorksFor(a) PROVE Grows
BY DEF Grows, WorksFor, HeldOf

\* It keeps the types, with those of the request and the tabs.
LEMMA WorkKeepsTypes ==
    ASSUME BrowserTypeOK, NEW t \in Tabs, NEW a, WorksFor(a),
           tab' = [u \in Tabs |-> tab'[u]], call' = [u \in Tabs |-> call'[u]],
           \A u \in Tabs \ {t} : call'[u] = call[u],
           call'[t] = [step |-> call'[t].step, attempt |-> call'[t].attempt, spec |-> call'[t].spec,
                       page |-> call'[t].page]
    PROVE  BrowserTypeOK'
<1>1. \A u \in Tabs : LET c == call'[u] IN
          c = [step |-> c.step, attempt |-> c.attempt, spec |-> c.spec, page |-> c.page]
      BY Zenon DEF BrowserTypeOK
<1>2. /\ built' = [a_1 \in DOMAIN built' |-> built'[a_1]] /\ DOMAIN built' \subseteq Attempts
      /\ \A b \in DOMAIN built' : LET s == built'[b].spec IN
            s = [stages |-> s.stages, recipe |-> s.recipe, stamp |-> s.stamp, version |-> s.version,
                 treatments |-> s.treatments]
  <2>1. built' = built BY DEF WorksFor
  <2>2. /\ built = [a_1 \in DOMAIN built |-> built[a_1]] /\ DOMAIN built \subseteq Attempts
        /\ \A b \in DOMAIN built : LET s == built[b].spec IN
              s = [stages |-> s.stages, recipe |-> s.recipe, stamp |-> s.stamp, version |-> s.version,
                   treatments |-> s.treatments]
        BY Zenon DEF BrowserTypeOK
  <2> QED BY <2>1, <2>2, Zenon
<1> QED BY <1>1, <1>2, Zenon DEF BrowserTypeOK, WorksFor

\* A request without the lock is answered, and nothing changes on POWER.
LEMMA TurningAwayIsSafe ==
    ASSUME BrowserInv, NEW t \in Tabs, UNCHANGED <<material, clock, server, keeps, built, remote>>,
           NEW page, Answer(t, page), PageIsTrue(page)'
    PROVE  BrowserInv'
<1>1. Grows BY DEF Grows, remote
<1>2. /\ call' = [u \in Tabs |-> call'[u]] /\ call'[t] = Idle /\ \A u \in Tabs \ {t} : call'[u] = call[u]
      /\ tab' = [u \in Tabs |-> tab'[u]] /\ \A u \in Tabs : tab'[u] = tab[u] \/ tab'[u] = page
      BY CallsEnd DEF BrowserInv
<1>3. BrowserTypeOK'
  <2> PICK a : a = call[t].attempt OBVIOUS
  <2>1. WorksFor(a) BY DEF BrowserInv, BrowserTypeOK, TrackedTypeOK, WorksFor, HeldOf, remote
  <2> QED BY <1>2, <2>1, WorkKeepsTypes DEF BrowserInv, Idle
<1>4. \A u \in Tabs : call'[u] = call[u] \/ (call'[u].step \notin LockedSteps /\ CallIsInformed(call[u])')
  <2>1. CallIsInformed(call[t])' BY <1>2 DEF CallIsInformed, Idle
  <2>2. call'[t].step \notin LockedSteps BY <1>2 DEF LockedSteps, Idle
  <2> QED BY <1>2, <2>1, <2>2
<1>5. UNCHANGED remote /\ DOMAIN built' \ DOMAIN built = {} OBVIOUS
<1>6. \A b \in DOMAIN built' \ DOMAIN built : BuildIsStable(built[b])' BY <1>5
<1> QED BY <1>1, <1>2, <1>3, <1>4, <1>5, <1>6, PagesAreSafe, Zenon

\* A request that has the lock is answered.
LEMMA AnsweringIsSafe ==
    ASSUME BrowserInv, NEW t \in Tabs, NEW a, a = call[t].attempt, call[t].step \in LockedSteps,
           WorksFor(a), files' = files, AttemptIsKept(a)',
           NEW page, Answer(t, page), PageIsTrue(page)'
    PROVE  BrowserInv'
<1>1. call[t].step # "idle" BY DEF LockedSteps
<1>2. a \in Attempts /\ Grows BY <1>1, CallsAreInformed, WorkGrows
<1>3. /\ call' = [u \in Tabs |-> call'[u]] /\ call'[t] = Idle /\ \A u \in Tabs \ {t} : call'[u] = call[u]
      /\ tab' = [u \in Tabs |-> tab'[u]] /\ \A u \in Tabs : tab'[u] = tab[u] \/ tab'[u] = page
      BY CallsEnd DEF BrowserInv
<1>4. BrowserTypeOK' BY <1>3, WorkKeepsTypes DEF BrowserInv, Idle
<1>5. CallIsInformed(call[t])' BY <1>3 DEF CallIsInformed, Idle
<1>6. call'[t].step \notin LockedSteps BY <1>3 DEF LockedSteps, Idle
<1>7. \A u \in Tabs \ {t} : call[u].step \in LockedSteps => call[u].attempt # a BY <1>1, NobodyElse
<1>8. \A b \in DOMAIN built \ {a} : \A spec : spec.stamp = built[b].spec.stamp => StaysInPlace(b, spec)
      BY FilesStay
<1>9. built' = built /\ \A b \in Attempts \ {a} : HeldOf(b)' = HeldOf(b) /\ (b \in lock => b \in lock')
      BY DEF WorksFor
<1> QED BY <1>1, <1>2, <1>3, <1>4, <1>5, <1>6, <1>7, <1>8, <1>9, StepsAreSafe, Zenon

\* A request has the lock, or takes it, and goes on.
LEMMA GoingOnIsSafe ==
    ASSUME BrowserInv, NEW t \in Tabs, NEW a, a = call[t].attempt, call[t].step # "idle",
           a \notin lock \/ call[t].step \in LockedSteps,
           WorksFor(a), AttemptIsKept(a)',
           \A b \in DOMAIN built \ {a} : \A spec : spec.stamp = built[b].spec.stamp => StaysInPlace(b, spec),
           NEW step, Goto(t, step), tab' = tab,
           NEW c, c = [step |-> step, attempt |-> a, spec |-> call[t].spec, page |-> call[t].page],
           CallIsInformed(c)'
    PROVE  BrowserInv'
<1>1. a \in Attempts /\ Grows BY CallsAreInformed, WorkGrows
<1>2. call' = [u \in Tabs |-> call'[u]] /\ call'[t] = c /\ \A u \in Tabs \ {t} : call'[u] = call[u]
      BY CallsMove DEF BrowserInv
<1>3. BrowserTypeOK'
  <2>1. tab' = [u \in Tabs |-> tab'[u]] BY DEF BrowserInv, BrowserTypeOK
  <2>2. call'[t] = [step |-> call'[t].step, attempt |-> call'[t].attempt, spec |-> call'[t].spec,
                    page |-> call'[t].page]
        BY <1>2
  <2> QED BY <1>2, <2>1, <2>2, WorkKeepsTypes DEF BrowserInv
<1>4. CallIsInformed(call[t])' BY <1>2
<1>5. call'[t].attempt = a BY <1>2
<1>6. \A u \in Tabs \ {t} : call[u].step \in LockedSteps => call[u].attempt # a BY NobodyElse
<1> PICK page : page = tab[t] OBVIOUS
<1>7. PageIsTrue(page)' /\ \A u \in Tabs : tab'[u] = tab[u] \/ tab'[u] = page
      BY <1>1, PagesStay DEF BrowserInv
<1>8. built' = built /\ \A b \in Attempts \ {a} : HeldOf(b)' = HeldOf(b) /\ (b \in lock => b \in lock')
      BY DEF WorksFor
<1> QED BY <1>1, <1>2, <1>3, <1>4, <1>5, <1>6, <1>7, <1>8, StepsAreSafe, Zenon

\* An attempt that was prepared stays kept while it moves on.
LEMMA AttemptMoves ==
    ASSUME NEW a \in Attempts, AttemptIsKept(a), built' = built, files' = files, prints'[a] = prints[a],
           phase[a] # "absent", phase'[a] # "absent",
           accepted'[a] = 1 => phase'[a] \in {"committed", "recorded"},
           phase'[a] = "recorded" => accepted'[a] = 1,
           records'[a] # Absent => accepted'[a] = 1 /\ records'[a] = prints[a]
    PROVE  AttemptIsKept(a)'
BY DEF AttemptIsKept, HasOwnSecond, IsInPlace, KeepsName

\* A request that has the lock stays informed at its next step.
LEMMA CallGoesOn ==
    ASSUME NEW t \in Tabs, CallIsInformed(call[t]), call[t].step # "idle", built' = built,
           NEW a, a = call[t].attempt, NEW spec, spec = call[t].spec,
           NEW step, step \in LockedSteps, NEW c,
           c = [step |-> step, attempt |-> a, spec |-> spec, page |-> call[t].page],
           a \in lock',
           step \in {"upload", "mark"} => phase'[a] = "absent" \/ (phase'[a] = "prepared" /\ prints'[a] = spec),
           step = "mark" /\ HasOwnSecond(a) => IsInPlace(a, spec)',
           step \in {"sbatch", "record"} => phase'[a] = "committed" /\ prints'[a] = spec,
           step = "record" => accepted'[a] = 1
    PROVE  CallIsInformed(c)'
<1>1. c.step = step /\ c.attempt = a /\ c.spec = spec /\ c.page = call[t].page OBVIOUS
<1>2. HasOwnSecond(a)' <=> HasOwnSecond(a) BY DEF HasOwnSecond
<1>3. step = "mark" /\ HasOwnSecond(a)' => IsInPlace(a, spec)' BY <1>2
<1>4. /\ IsOfBuild(c.page.token) /\ a = c.page.token.attempt /\ spec.stamp = c.page.token.stamp
      /\ KeepsName(a) => spec = [built[a].spec EXCEPT !.version = spec.version]
      BY <1>1 DEF CallIsInformed
<1>5. IsOfBuild(c.page.token)' /\ (KeepsName(a)' <=> KeepsName(a)) BY <1>4 DEF IsOfBuild, KeepsName
<1>6. KeepsName(a)' => spec = [built'[a].spec EXCEPT !.version = spec.version] BY <1>4, <1>5
<1> QED BY <1>1, <1>3, <1>4, <1>5, <1>6 DEF CallIsInformed

\* What a step of a request works on.
LEMMA AtWork ==
    ASSUME BrowserInv, NEW t \in Tabs, NEW step, At(t, step), step # "idle",
           NEW a, a = call[t].attempt, NEW spec, spec = call[t].spec
    PROVE  /\ UNCHANGED <<material, clock, server, keeps, built>>
           /\ call[t].step = step /\ CallIsInformed(call[t])
           /\ a \in Attempts /\ a \in DOMAIN built /\ AttemptIsKept(a) /\ BrowserTypeOK
           /\ spec.stamp = built[a].spec.stamp
           /\ KeepsName(a) => spec = [built[a].spec EXCEPT !.version = spec.version]
<1>1. call[t].step = step /\ CallIsInformed(call[t]) BY CallsAreInformed DEF At
<1>2. a \in Attempts /\ a \in DOMAIN built /\ AttemptIsKept(a) BY <1>1, CallsAreInformed
<1> QED BY <1>1, <1>2 DEF At, CallIsInformed, IsOfBuild, BrowserInv

\* The pages that say what failed or was prepared.
LEMMA UnsubmittedPagesAreTrue ==
    ASSUME BrowserInv, Grows, NEW t \in Tabs, call[t].step # "idle",
           NEW page, page \in {FailedPage(t), PreparedPage(t)}
    PROVE  PageIsTrue(page)'
<1>1. PICK prepared : page = Answering(call[t].page, call[t].spec, prepared, 0)
      BY DEF FailedPage, PreparedPage
<1> QED BY <1>1, AnswersAreTrue

\* Prepare on POWER, step by step.
LEMMA ClaimIsSafe == ASSUME BrowserInv, NEW t \in Tabs, ClaimForPreparation(t) PROVE BrowserInv'
<1> PICK a, spec : a = call[t].attempt /\ spec = call[t].spec OBVIOUS
<1>0. At(t, "claim") BY DEF ClaimForPreparation
<1>1. /\ UNCHANGED <<material, clock, server, keeps, built>> /\ call[t].step = "claim"
      /\ CallIsInformed(call[t]) /\ a \in Attempts /\ a \in DOMAIN built
      /\ AttemptIsKept(a) /\ BrowserTypeOK
      BY <1>0, AtWork
<1>2. files' = files /\ prints' = prints /\ records' = records /\ phase' = phase /\ accepted' = accepted /\ misled' = misled
      BY DEF ClaimForPreparation
<1>3. CASE MayPrepare(t)
  <2>1. a \notin lock /\ lock' = lock \cup {a} /\ Goto(t, "upload") /\ tab' = tab
        BY <1>3 DEF MayPrepare, ClaimForPreparation
  <2>2. phase[a] = "absent" \/ (phase[a] = "prepared" /\ prints[a] = spec)
        BY <1>3 DEF MayPrepare, Matches, submission_attempt_fingerprint
  <2>3. WorksFor(a) BY <1>1, <1>2, <2>1 DEF WorksFor, BrowserTypeOK, TrackedTypeOK, HeldOf
  <2>4. AttemptIsKept(a)'
        BY <1>1, <1>2, <2>3, AttemptsStay, WorkGrows, FilesStay DEF HeldOf
  <2> PICK c : c = [step |-> "upload", attempt |-> a, spec |-> spec, page |-> call[t].page] OBVIOUS
  <2>5. CallIsInformed(c)' BY <1>1, <1>2, <2>1, <2>2, CallGoesOn DEF LockedSteps
  <2> QED BY <1>1, <1>2, <2>1, <2>3, <2>4, <2>5, GoingOnIsSafe, FilesStay
<1>4. CASE ~MayPrepare(t)
  <2> PICK page : page = FailedPage(t) OBVIOUS
  <2>1. Answer(t, page) /\ lock' = lock BY <1>4 DEF ClaimForPreparation
  <2>2. UNCHANGED <<material, clock, server, keeps, built, remote>> /\ Grows
        BY <1>1, <1>2, <2>1 DEF remote, Grows
  <2>3. PageIsTrue(page)' BY <1>1, <2>2, UnsubmittedPagesAreTrue
  <2> QED BY <2>1, <2>2, <2>3, TurningAwayIsSafe
<1> QED BY <1>3, <1>4

LEMMA UploadIsSafe == ASSUME BrowserInv, NEW t \in Tabs, Upload(t) PROVE BrowserInv'
<1> PICK a, spec : a = call[t].attempt /\ spec = call[t].spec OBVIOUS
<1>0. At(t, "upload") BY DEF Upload
<1>1. /\ UNCHANGED <<material, clock, server, keeps, built>> /\ call[t].step = "upload"
      /\ CallIsInformed(call[t]) /\ a \in Attempts /\ a \in DOMAIN built
      /\ AttemptIsKept(a) /\ BrowserTypeOK /\ spec.stamp = built[a].spec.stamp
      /\ KeepsName(a) => spec = [built[a].spec EXCEPT !.version = spec.version]
      BY <1>0, AtWork
<1>2. /\ files' = With(files, run_dir(spec), [attempt |-> a, spec |-> spec])
      /\ Goto(t, "mark") /\ tab' = tab /\ lock' = lock
      /\ prints' = prints /\ records' = records /\ phase' = phase /\ accepted' = accepted /\ misled' = misled
      BY DEF Upload
<1>3. /\ a \in lock
      /\ phase[a] = "absent" \/ (phase[a] = "prepared" /\ prints[a] = spec)
      BY <1>1 DEF CallIsInformed, LockedSteps
<1>4. /\ files' = [d \in DOMAIN files' |-> files'[d]]
      /\ IsInPlace(a, spec)'
      /\ \A d \in DOMAIN files : d # run_dir(spec) => d \in DOMAIN files' /\ files'[d] = files[d]
      BY <1>2 DEF With, IsInPlace
<1>5. WorksFor(a) BY <1>1, <1>2, <1>4 DEF WorksFor, BrowserTypeOK, TrackedTypeOK, HeldOf
<1>6. \A b \in DOMAIN built \ {a} : \A s : s.stamp = built[b].spec.stamp => StaysInPlace(b, s)
  <2> SUFFICES ASSUME NEW b \in DOMAIN built \ {a}, NEW s, s.stamp = built[b].spec.stamp,
                      HasOwnSecond(b), IsInPlace(b, s)
               PROVE  IsInPlace(b, s)'
      BY DEF StaysInPlace
  <2>1. s.stamp # spec.stamp BY <1>1 DEF HasOwnSecond
  <2>2. run_dir(s) # run_dir(spec) BY <2>1, DirectoriesDiffer
  <2> QED BY <1>4, <2>2 DEF IsInPlace
<1>7. AttemptIsKept(a)'
  <2>1. CASE phase[a] = "absent" BY <1>1, <1>2, <2>1 DEF AttemptIsKept
  <2>2. CASE prints[a] = spec
    <3>1. StaysInPlace(a, prints[a]) BY <1>2, <1>4, <2>2 DEF StaysInPlace, IsInPlace
    <3>2. HeldOf(a)' = HeldOf(a) BY <1>2 DEF HeldOf
    <3> QED BY <1>1, <1>5, <3>1, <3>2, AttemptsStay, WorkGrows
  <2> QED BY <1>3, <2>1, <2>2
<1> PICK c : c = [step |-> "mark", attempt |-> a, spec |-> spec, page |-> call[t].page] OBVIOUS
<1>8. CallIsInformed(c)' BY <1>1, <1>2, <1>3, <1>4, CallGoesOn DEF LockedSteps
<1>9. call[t].step # "idle" /\ call[t].step \in LockedSteps BY <1>1 DEF LockedSteps
<1> QED BY <1>2, <1>5, <1>6, <1>7, <1>8, <1>9, GoingOnIsSafe

LEMMA MarkIsSafe == ASSUME BrowserInv, NEW t \in Tabs, MarkPrepared(t) PROVE BrowserInv'
<1> PICK a, spec : a = call[t].attempt /\ spec = call[t].spec OBVIOUS
<1> PICK page : page = PreparedPage(t) OBVIOUS
<1>0. At(t, "mark") BY DEF MarkPrepared
<1>1. /\ UNCHANGED <<material, clock, server, keeps, built>> /\ call[t].step = "mark"
      /\ CallIsInformed(call[t]) /\ a \in Attempts /\ a \in DOMAIN built
      /\ AttemptIsKept(a) /\ BrowserTypeOK /\ spec.stamp = built[a].spec.stamp
      /\ KeepsName(a) => spec = [built[a].spec EXCEPT !.version = spec.version]
      BY <1>0, AtWork
<1>2. /\ phase[a] \in {"absent", "prepared"} /\ phase' = [phase EXCEPT ![a] = "prepared"] /\ accepted' = accepted /\ misled' = misled
      /\ prints' = [prints EXCEPT ![a] = spec] /\ lock' = lock \ {a} /\ Answer(t, page)
      /\ files' = files /\ records' = records
      BY DEF MarkPrepared, Prepared, Move, Unlock, submission_attempt_fingerprint
<1>3. accepted[a] # 1 /\ records[a] = Absent BY <1>1, <1>2 DEF AttemptIsKept
<1>4. phase'[a] = "prepared" /\ prints'[a] = spec BY <1>1, <1>2 DEF BrowserTypeOK, TrackedTypeOK
<1>5. WorksFor(a)
  <2>1. TrackedTypeOK' BY <1>1, <1>2 DEF BrowserTypeOK, TrackedTypeOK, Phases
  <2>2. prints' = [b \in Attempts |-> prints'[b]] /\ records' = [b \in Attempts |-> records'[b]]
        /\ files' = [d \in DOMAIN files' |-> files'[d]]
        BY <1>1, <1>2, ZenonT(30) DEF BrowserTypeOK
  <2>3. \A b \in Attempts \ {a} : HeldOf(b)' = HeldOf(b) /\ (b \in lock => b \in lock')
        BY <1>1, <1>2 DEF BrowserTypeOK, TrackedTypeOK, HeldOf
  <2> QED BY <1>1, <1>3, <2>1, <2>2, <2>3 DEF WorksFor
<1>6. AttemptIsKept(a)'
  <2>1. HasOwnSecond(a)' => IsInPlace(a, spec)'
        BY <1>1, <1>2 DEF CallIsInformed, HasOwnSecond, IsInPlace
  <2>2. (KeepsName(a)' <=> KeepsName(a)) /\ built' = built BY <1>1 DEF KeepsName
  <2>3. KeepsName(a)' => prints'[a] = [built'[a].spec EXCEPT !.version = prints'[a].version]
        BY <1>1, <1>4, <2>2
  <2>4. HasOwnSecond(a)' => IsInPlace(a, prints[a])'
        BY <1>4, <2>1 DEF IsInPlace
  <2> QED BY <1>1, <1>2, <1>3, <1>4, <2>2, <2>3, <2>4 DEF AttemptIsKept
<1>7. PageIsTrue(page)' BY <1>1, <1>5, WorkGrows, UnsubmittedPagesAreTrue
<1>8. call[t].step \in LockedSteps BY <1>1 DEF LockedSteps
<1> QED BY <1>2, <1>5, <1>6, <1>7, <1>8, AnsweringIsSafe

LEMMA RemoteFailsIsSafe == ASSUME BrowserInv, NEW t \in Tabs, RemoteFails(t) PROVE BrowserInv'
<1> PICK a, spec : a = call[t].attempt /\ spec = call[t].spec OBVIOUS
<1> PICK page : page = FailedPage(t) OBVIOUS
<1>0. PICK step \in {"claim", "upload", "mark", "read"} : At(t, step) BY DEF RemoteFails
<1>1. /\ UNCHANGED <<material, clock, server, keeps, built>> /\ call[t].step = step /\ step # "idle"
      /\ CallIsInformed(call[t]) /\ a \in Attempts /\ AttemptIsKept(a) /\ BrowserTypeOK
      BY <1>0, AtWork
<1>2. /\ Answer(t, page) /\ files' = files /\ prints' = prints /\ records' = records
      /\ phase' = phase /\ accepted' = accepted /\ misled' = misled
      BY DEF RemoteFails
<1>3. Grows BY <1>1, <1>2 DEF Grows
<1>4. PageIsTrue(page)' BY <1>1, <1>3, UnsubmittedPagesAreTrue
<1>5. CASE step \in {"upload", "mark"}
  <2>1. lock' = lock \ {a} /\ call[t].step \in LockedSteps BY <1>1, <1>5 DEF RemoteFails, Unlock, LockedSteps
  <2>2. WorksFor(a) BY <1>1, <1>2, <2>1 DEF WorksFor, BrowserTypeOK, TrackedTypeOK, HeldOf
  <2>3. AttemptIsKept(a)' BY <1>1, <1>2, <1>3, AttemptsStay, FilesStay DEF HeldOf
  <2> QED BY <1>2, <1>4, <2>1, <2>2, <2>3, AnsweringIsSafe
<1>6. CASE step \in {"claim", "read"}
  <2>1. lock' = lock BY <1>1, <1>6 DEF RemoteFails
  <2>2. UNCHANGED <<material, clock, server, keeps, built, remote>> BY <1>1, <1>2, <2>1 DEF remote
  <2> QED BY <1>2, <1>4, <2>2, TurningAwayIsSafe
<1> QED BY <1>5, <1>6

\* The page of a job that was accepted for what the request is about.
LEMMA SubmittedPagesAreTrue ==
    ASSUME BrowserInv, Grows, NEW t \in Tabs, call[t].step # "idle",
           NEW a, a = call[t].attempt, accepted'[a] = 1, prints'[a] = call[t].spec,
           NEW page, page = SubmittedPage(t)
    PROVE  PageIsTrue(page)'
BY AnswersAreTrue DEF SubmittedPage

\* Submit on POWER, step by step.
LEMMA AlreadySubmittedIsSafe == ASSUME BrowserInv, NEW t \in Tabs, AlreadySubmitted(t) PROVE BrowserInv'
<1> PICK a, spec : a = call[t].attempt /\ spec = call[t].spec OBVIOUS
<1> PICK page : page = SubmittedPage(t) OBVIOUS
<1>0. At(t, "read") BY DEF AlreadySubmitted
<1>1. /\ UNCHANGED <<material, clock, server, keeps, built>> /\ call[t].step = "read"
      /\ CallIsInformed(call[t]) /\ a \in Attempts /\ AttemptIsKept(a) /\ BrowserTypeOK
      BY <1>0, AtWork
<1>2. Answer(t, page) /\ UNCHANGED remote /\ prints[a] = spec /\ phase[a] = "recorded"
      BY DEF AlreadySubmitted, Matches, submission_attempt_fingerprint
<1>3. Grows /\ accepted'[a] = 1 /\ prints'[a] = spec
      BY <1>1, <1>2 DEF Grows, remote, AttemptIsKept
<1>4. PageIsTrue(page)' BY <1>1, <1>3, SubmittedPagesAreTrue
<1> QED BY <1>1, <1>2, <1>4, TurningAwayIsSafe

LEMMA RefuseSubmitIsSafe == ASSUME BrowserInv, NEW t \in Tabs, RefuseSubmit(t) PROVE BrowserInv'
<1> PICK a, spec : a = call[t].attempt /\ spec = call[t].spec OBVIOUS
<1> PICK page : page = FailedPage(t) OBVIOUS
<1>0. At(t, "read") BY DEF RefuseSubmit
<1>1. /\ UNCHANGED <<material, clock, server, keeps, built>> /\ call[t].step = "read"
      /\ CallIsInformed(call[t]) /\ a \in Attempts /\ AttemptIsKept(a) /\ BrowserTypeOK
      BY <1>0, AtWork
<1>2. Answer(t, page) /\ UNCHANGED remote BY DEF RefuseSubmit
<1>3. Grows BY <1>1, <1>2 DEF Grows, remote
<1>4. PageIsTrue(page)' BY <1>1, <1>3, UnsubmittedPagesAreTrue
<1> QED BY <1>1, <1>2, <1>4, TurningAwayIsSafe

LEMMA CommitIsSafe == ASSUME BrowserInv, NEW t \in Tabs, CommitSubmit(t) PROVE BrowserInv'
<1> PICK a, spec : a = call[t].attempt /\ spec = call[t].spec OBVIOUS
<1>0. At(t, "read") BY DEF CommitSubmit
<1>1. /\ UNCHANGED <<material, clock, server, keeps, built>> /\ call[t].step = "read"
      /\ CallIsInformed(call[t]) /\ a \in Attempts /\ AttemptIsKept(a) /\ BrowserTypeOK
      BY <1>0, AtWork
<1>2. /\ a \notin lock /\ lock' = lock \cup {a} /\ Goto(t, "sbatch") /\ prints[a] = spec
      /\ phase[a] = "prepared" /\ phase' = [phase EXCEPT ![a] = "committed"] /\ accepted' = accepted /\ misled' = misled
      /\ tab' = tab /\ prints' = prints /\ files' = files /\ records' = records
      BY DEF CommitSubmit, Matches, submission_attempt_fingerprint, Commit, Move
<1>3. phase'[a] = "committed" BY <1>1, <1>2 DEF BrowserTypeOK, TrackedTypeOK
<1>4. WorksFor(a)
  <2>1. TrackedTypeOK' BY <1>1, <1>2 DEF BrowserTypeOK, TrackedTypeOK, Phases
  <2>2. \A b \in Attempts \ {a} : HeldOf(b)' = HeldOf(b) /\ (b \in lock => b \in lock')
        BY <1>1, <1>2 DEF BrowserTypeOK, TrackedTypeOK, HeldOf
  <2> QED BY <1>1, <1>2, <2>1, <2>2 DEF WorksFor, BrowserTypeOK
<1>5. records[a] = Absent BY <1>1, <1>2 DEF AttemptIsKept
<1>6. AttemptIsKept(a)' BY <1>1, <1>2, <1>3, <1>5, AttemptMoves
<1> PICK c : c = [step |-> "sbatch", attempt |-> a, spec |-> spec, page |-> call[t].page] OBVIOUS
<1>7. CallIsInformed(c)' BY <1>1, <1>2, <1>3, CallGoesOn DEF LockedSteps
<1> QED BY <1>1, <1>2, <1>4, <1>6, <1>7, GoingOnIsSafe, FilesStay

\* From the commit until the answer the request has the lock.
LEMMA RunSbatchIsSafe == ASSUME BrowserInv, NEW t \in Tabs, RunSbatch(t) PROVE BrowserInv'
<1> PICK a, spec : a = call[t].attempt /\ spec = call[t].spec OBVIOUS
<1>0. At(t, "sbatch") BY DEF RunSbatch
<1>1. /\ UNCHANGED <<material, clock, server, keeps, built>> /\ call[t].step = "sbatch"
      /\ CallIsInformed(call[t]) /\ a \in Attempts /\ AttemptIsKept(a) /\ BrowserTypeOK
      BY <1>0, AtWork
<1>2. /\ lock' = lock /\ Goto(t, "record")
      /\ accepted[a] = 0 /\ accepted' = [accepted EXCEPT ![a] = 1] /\ phase' = phase /\ misled' = misled
      /\ tab' = tab /\ prints' = prints /\ files' = files /\ records' = records
      BY DEF RunSbatch, AcceptJob
<1>3. a \in lock /\ phase[a] = "committed" /\ prints[a] = spec
      BY <1>1 DEF CallIsInformed, LockedSteps
<1>4. accepted'[a] = 1 BY <1>1, <1>2 DEF BrowserTypeOK, TrackedTypeOK
<1>5. WorksFor(a)
  <2>1. TrackedTypeOK' BY <1>1, <1>2 DEF BrowserTypeOK, TrackedTypeOK
  <2>2. \A b \in Attempts \ {a} : HeldOf(b)' = HeldOf(b) /\ (b \in lock => b \in lock')
        BY <1>1, <1>2 DEF BrowserTypeOK, TrackedTypeOK, HeldOf
  <2> QED BY <1>1, <1>2, <2>1, <2>2 DEF WorksFor, BrowserTypeOK
<1>6. records[a] = Absent BY <1>1, <1>2 DEF AttemptIsKept
<1>7. AttemptIsKept(a)' BY <1>1, <1>2, <1>3, <1>4, <1>6, AttemptMoves
<1> PICK c : c = [step |-> "record", attempt |-> a, spec |-> spec, page |-> call[t].page] OBVIOUS
<1>8. CallIsInformed(c)' BY <1>1, <1>2, <1>3, <1>4, CallGoesOn DEF LockedSteps
<1>9. call[t].step \in LockedSteps BY <1>1 DEF LockedSteps
<1> QED BY <1>1, <1>2, <1>5, <1>7, <1>8, <1>9, GoingOnIsSafe, FilesStay

LEMMA SbatchFailsIsSafe == ASSUME BrowserInv, NEW t \in Tabs, SbatchFails(t) PROVE BrowserInv'
<1> PICK a, spec : a = call[t].attempt /\ spec = call[t].spec OBVIOUS
<1> PICK page : page = FailedPage(t) OBVIOUS
<1>0. At(t, "sbatch") BY DEF SbatchFails
<1>1. /\ UNCHANGED <<material, clock, server, keeps, built>> /\ call[t].step = "sbatch"
      /\ CallIsInformed(call[t]) /\ a \in Attempts /\ AttemptIsKept(a) /\ BrowserTypeOK
      BY <1>0, AtWork
<1>2. /\ Answer(t, page) /\ prints' = prints /\ files' = files /\ records' = records
      /\ \/ /\ accepted[a] = 0 /\ phase' = [phase EXCEPT ![a] = "prepared"] /\ accepted' = accepted /\ misled' = misled
            /\ lock' = lock \ {a}
         \/ accepted[a] = 0 /\ accepted' = [accepted EXCEPT ![a] = 1] /\ phase' = phase /\ misled' = misled /\ lock' = lock
         \/ phase' = phase /\ accepted' = accepted /\ misled' = misled /\ lock' = lock
      BY DEF SbatchFails, Refuse, Move, AcceptJob, Unlock
<1>3. phase[a] = "committed" BY <1>1 DEF CallIsInformed
<1>4. /\ phase'[a] \in {"committed", "prepared"}
      /\ accepted[a] = 1 => accepted'[a] = 1
      /\ accepted'[a] = 1 => phase'[a] = "committed"
      BY <1>1, <1>2, <1>3 DEF BrowserTypeOK, TrackedTypeOK
<1>5. WorksFor(a)
  <2>1. TrackedTypeOK' BY <1>1, <1>2 DEF BrowserTypeOK, TrackedTypeOK, Phases
  <2>2. \A b \in Attempts \ {a} : HeldOf(b)' = HeldOf(b) /\ (b \in lock => b \in lock')
        BY <1>1, <1>2 DEF BrowserTypeOK, TrackedTypeOK, HeldOf
  <2> QED BY <1>1, <1>2, <1>4, <2>1, <2>2 DEF WorksFor, BrowserTypeOK
<1>6. records[a] # Absent => accepted[a] = 1 /\ records[a] = prints[a] BY <1>1 DEF AttemptIsKept
<1>7. AttemptIsKept(a)' BY <1>1, <1>2, <1>3, <1>4, <1>6, AttemptMoves
<1>8. PageIsTrue(page)' BY <1>1, <1>5, WorkGrows, UnsubmittedPagesAreTrue
<1>9. call[t].step \in LockedSteps BY <1>1 DEF LockedSteps
<1> QED BY <1>2, <1>5, <1>7, <1>8, <1>9, AnsweringIsSafe

LEMMA FinishIsSafe == ASSUME BrowserInv, NEW t \in Tabs, Finish(t) PROVE BrowserInv'
<1> PICK a, spec : a = call[t].attempt /\ spec = call[t].spec OBVIOUS
<1> PICK page : page = SubmittedPage(t) OBVIOUS
<1>0. At(t, "record") BY DEF Finish
<1>1. /\ UNCHANGED <<material, clock, server, keeps, built>> /\ call[t].step = "record"
      /\ CallIsInformed(call[t]) /\ a \in Attempts /\ AttemptIsKept(a) /\ BrowserTypeOK
      BY <1>0, AtWork
<1>2. /\ Answer(t, page) /\ prints' = prints /\ files' = files /\ accepted' = accepted /\ misled' = misled
      /\ records' = records \/ records' = [records EXCEPT ![a] = spec]
      /\ \/ phase' = [phase EXCEPT ![a] = "recorded"] /\ lock' = lock \ {a}
         \/ phase' = phase /\ lock' = lock
      BY DEF Finish, Record, Move, Unlock
<1>3. phase[a] = "committed" /\ prints[a] = spec /\ accepted[a] = 1 BY <1>1 DEF CallIsInformed
<1>4. /\ phase'[a] \in {"committed", "recorded"}
      /\ records'[a] = records[a] \/ records'[a] = spec
      BY <1>1, <1>2, <1>3 DEF BrowserTypeOK, TrackedTypeOK
<1>5. WorksFor(a)
  <2>1. TrackedTypeOK' BY <1>1, <1>2 DEF BrowserTypeOK, TrackedTypeOK, Phases
  <2>2. \A b \in Attempts \ {a} : HeldOf(b)' = HeldOf(b) /\ (b \in lock => b \in lock')
        BY <1>1, <1>2 DEF BrowserTypeOK, TrackedTypeOK, HeldOf
  <2>3. records' = [b \in Attempts |-> records'[b]] BY <1>1, <1>2 DEF BrowserTypeOK
  <2> QED BY <1>1, <1>2, <2>1, <2>2, <2>3 DEF WorksFor, BrowserTypeOK
<1>6. records[a] # Absent => records[a] = prints[a] BY <1>1 DEF AttemptIsKept
<1>7. AttemptIsKept(a)' BY <1>1, <1>2, <1>3, <1>4, <1>6, AttemptMoves
<1>8. PageIsTrue(page)' BY <1>1, <1>2, <1>3, <1>5, WorkGrows, SubmittedPagesAreTrue
<1>9. call[t].step \in LockedSteps BY <1>1 DEF LockedSteps
<1> QED BY <1>2, <1>5, <1>7, <1>8, <1>9, AnsweringIsSafe

-----------------------------------------------------------------------------
(* The theorems.                                                           *)

\* The invariant holds at the start,
LEMMA BrowserStart == Init => BrowserInv
<1> SUFFICES ASSUME Init PROVE BrowserInv OBVIOUS
<1>1. BrowserTypeOK
      BY DEF Init, LifecycleInit, BrowserTypeOK, TrackedTypeOK, Phases, Idle
<1>2. \A t \in Tabs : PageIsTrue(tab[t])
      BY DEF Init, PageIsTrue, ErrorPage, Page, OffersPrepare
<1>3. \A t \in Tabs : CallIsInformed(call[t]) BY DEF Init, CallIsInformed, Idle
<1>4. LocksAreExclusive BY DEF Init, LocksAreExclusive, LockedSteps, Idle
<1>5. \A a \in Attempts : AttemptIsKept(a) BY DEF Init, LifecycleInit, AttemptIsKept
<1>6. DOMAIN built = {} BY DEF Init
<1> QED BY <1>1, <1>2, <1>3, <1>4, <1>5, <1>6 DEF BrowserInv

\* and every step keeps it.
LEMMA BrowserStep == BrowserInv /\ [Next]_vars => BrowserInv'
<1> SUFFICES ASSUME BrowserInv, [Next]_vars PROVE BrowserInv' OBVIOUS
<1>1. CASE UNCHANGED vars
  <2>1. UNCHANGED remote /\ Grows BY <1>1 DEF vars, remote, Grows
  <2>2. BrowserTypeOK' BY <1>1 DEF BrowserInv, BrowserTypeOK, TrackedTypeOK, vars, remote
  <2> PICK page : page = ErrorPage(Absent) OBVIOUS
  <2>3. PageIsTrue(page)' BY ErrorPagesAreTrue
  <2>4. \A u \in Tabs : call'[u] = call[u] /\ tab'[u] = tab[u] BY <1>1 DEF vars
  <2>5. DOMAIN built' \ DOMAIN built = {} BY <1>1 DEF vars
  <2>6. \A u \in Tabs : call'[u] = call[u] \/ (call'[u].step \notin LockedSteps /\ CallIsInformed(call[u])')
        BY <2>4
  <2>7. \A b \in DOMAIN built' \ DOMAIN built : BuildIsStable(built[b])' BY <2>5
  <2> QED BY <2>1, <2>2, <2>3, <2>4, <2>6, <2>7, PagesAreSafe, Zenon
<1>2. ASSUME NEW t \in Tabs,
             \/ Analyze(t) \/ BuildDesired(t) \/ BuildCustom(t) \/ PostPrepare(t) \/ PostSubmit(t)
             \/ Refresh(t) \/ Resume(t) \/ \E u \in Tabs : Duplicate(t, u)
      PROVE  BrowserInv'
  <2>1. PostPrepare(t) => BrowserInv' BY PostIsSafe DEF PostPrepare
  <2>2. PostSubmit(t) => BrowserInv' BY PostIsSafe DEF PostSubmit, OffersSubmit
  <2> QED BY <1>2, <2>1, <2>2, AnalyzeIsSafe, BuildDesiredIsSafe, BuildCustomIsSafe, RefreshIsSafe,
             ResumeIsSafe, DuplicateIsSafe
<1>3. ASSUME NEW t \in Tabs,
             \/ ClaimForPreparation(t) \/ Upload(t) \/ MarkPrepared(t) \/ RemoteFails(t)
             \/ AlreadySubmitted(t) \/ RefuseSubmit(t) \/ CommitSubmit(t)
             \/ RunSbatch(t) \/ SbatchFails(t) \/ Finish(t)
      PROVE  BrowserInv'
      BY <1>3, ClaimIsSafe, UploadIsSafe, MarkIsSafe, RemoteFailsIsSafe, AlreadySubmittedIsSafe,
         RefuseSubmitIsSafe, CommitIsSafe, RunSbatchIsSafe, SbatchFailsIsSafe, FinishIsSafe
<1> QED BY <1>1, <1>2, <1>3, TickIsSafe, RestartIsSafe, Zenon DEF Next

\* BrowserInv is inductive, for any structures, outputs, entered stages, tabs and restarts.
THEOREM BrowserIsSafe == Spec => []BrowserInv
BY BrowserStart, BrowserStep, PTL DEF Spec

\* What a page says a job calculates is in the run directory the job runs from, as long as no
\* other Build was of that second (main.py, backend/paramiko_remote.py).
THEOREM JobsShowWhatRuns == Spec => []JobsAreWhatWasShown
<1>1. BrowserInv => JobsAreWhatWasShown
  <2> SUFFICES ASSUME BrowserInv, NEW t \in Tabs, NEW page, page = tab[t],
                      page.job # 0, page.spec # Absent, HasOwnSecond(page.job)
               PROVE  /\ accepted[page.job] = 1 /\ IsInPlace(page.job, page.spec)
      BY DEF JobsAreWhatWasShown, IsInPlace
  <2>1. page.job \in Attempts /\ accepted[page.job] = 1 /\ page.spec = prints[page.job]
        BY DEF BrowserInv, PageIsTrue
  <2>2. AttemptIsKept(page.job) BY <2>1 DEF BrowserInv
  <2> QED BY <2>1, <2>2 DEF AttemptIsKept
<1> QED BY <1>1, BrowserIsSafe, PTL

\* What is prepared is what Build showed, but for an upgrade and for a Custom workflow that
\* is named after a desired output (main.py, backend/submission.py).
THEOREM PreparedMeansBuilt == Spec => []PreparedIsWhatWasBuilt
<1>1. BrowserInv => PreparedIsWhatWasBuilt
      BY DEF BrowserInv, AttemptIsKept, PreparedIsWhatWasBuilt, submission_attempt_fingerprint, KeepsName
<1> QED BY <1>1, BrowserIsSafe, PTL

-----------------------------------------------------------------------------
(* The treatments of a Desired Output.                                     *)

\* The stages of a Desired Output ask for nothing more than a type and a theory.
ArePlain(base) == base = [i \in DOMAIN base |-> Stage(base[i].type, base[i].theory, {})]

ModifiersOf(considerations) == {ModifierOf[c] : c \in considerations}

\* Such a stage with considerations applied to it.
StageOf(type, theory, considerations, parameters) ==
    [type |-> type, theory |-> theory, modifiers |-> ModifiersOf(considerations),
     options |-> [dispersion |-> IF "dispersion" \in considerations THEN "dftd3-bj" ELSE Absent,
                  dft_u      |-> IF "dft_u" \in considerations THEN parameters ELSE Absent,
                  other      |-> FALSE]]

\* One more consideration adds its modifier, and the option that goes with it.
LEMMA TreatedStage ==
    ASSUME NEW stage, NEW type, NEW theory, NEW modifiers, NEW options, NEW dispersion, NEW dft_u, NEW other,
           stage = [type |-> type, theory |-> theory, modifiers |-> modifiers, options |-> options],
           options = [dispersion |-> dispersion, dft_u |-> dft_u, other |-> other],
           NEW c \in Considerations, NEW parameters, NEW correction, NEW frozen,
           correction = (IF c = "dispersion" THEN "dftd3-bj" ELSE dispersion),
           frozen = (IF c = "dft_u" THEN parameters ELSE dft_u)
    PROVE  Treated(stage, c, parameters) =
               [type |-> type, theory |-> theory, modifiers |-> modifiers \cup {ModifierOf[c]},
                options |-> [dispersion |-> correction, dft_u |-> frozen, other |-> other]]
<1> PICK with, treated : with = WithModifier(stage, ModifierOf[c]) /\ treated = Treated(stage, c, parameters)
    OBVIOUS
<1> PICK more : more = modifiers \cup {ModifierOf[c]} OBVIOUS
<1>1. with = [type |-> type, theory |-> theory, modifiers |-> more, options |-> options]
      BY DEF WithModifier
<1>2. CASE c = "dispersion"
  <2>1. treated = [with EXCEPT !.options.dispersion = "dftd3-bj"] BY <1>2 DEF Treated
  <2>2. treated = [type |-> type, theory |-> theory, modifiers |-> more,
                   options |-> [dispersion |-> "dftd3-bj", dft_u |-> dft_u, other |-> other]]
        BY <1>1, <2>1
  <2>3. correction = "dftd3-bj" /\ frozen = dft_u BY <1>2
  <2> QED BY <2>2, <2>3
<1>3. CASE c = "dft_u"
  <2>1. treated = [with EXCEPT !.options.dft_u = parameters] BY <1>3 DEF Treated
  <2>2. treated = [type |-> type, theory |-> theory, modifiers |-> more,
                   options |-> [dispersion |-> dispersion, dft_u |-> parameters, other |-> other]]
        BY <1>1, <2>1
  <2>3. correction = dispersion /\ frozen = parameters BY <1>3
  <2> QED BY <2>2, <2>3
<1>4. CASE c \in {"spin", "soc"}
  <2>1. treated = with BY <1>4 DEF Treated
  <2>2. correction = dispersion /\ frozen = dft_u BY <1>4
  <2> QED BY <1>1, <2>1, <2>2
<1> QED BY <1>2, <1>3, <1>4 DEF Considerations

\* The same, in terms of the considerations applied so far.
LEMMA OneMoreTreatment ==
    ASSUME NEW type, NEW theory, NEW cs, NEW c \in Considerations, NEW parameters
    PROVE  Treated(StageOf(type, theory, cs, parameters), c, parameters) =
               StageOf(type, theory, cs \cup {c}, parameters)
<1> PICK modifiers, dispersion, dft_u, other, options, stage :
        /\ modifiers = ModifiersOf(cs)
        /\ dispersion = (IF "dispersion" \in cs THEN "dftd3-bj" ELSE Absent)
        /\ dft_u = (IF "dft_u" \in cs THEN parameters ELSE Absent)
        /\ options = [dispersion |-> dispersion, dft_u |-> dft_u, other |-> other]
        /\ other = FALSE /\ stage = StageOf(type, theory, cs, parameters)
    OBVIOUS
<1>1. stage = [type |-> type, theory |-> theory, modifiers |-> modifiers, options |-> options]
      BY DEF StageOf
<1>2. modifiers \cup {ModifierOf[c]} = ModifiersOf(cs \cup {c}) BY DEF ModifiersOf
<1> PICK correction, frozen :
        /\ correction = (IF c = "dispersion" THEN "dftd3-bj" ELSE dispersion)
        /\ frozen = (IF c = "dft_u" THEN parameters ELSE dft_u)
    OBVIOUS
<1>3. /\ correction = (IF "dispersion" \in cs \cup {c} THEN "dftd3-bj" ELSE Absent)
      /\ frozen = (IF "dft_u" \in cs \cup {c} THEN parameters ELSE Absent)
      OBVIOUS
<1>4. Treated(stage, c, parameters) =
          [type |-> type, theory |-> theory, modifiers |-> modifiers \cup {ModifierOf[c]},
           options |-> [dispersion |-> correction, dft_u |-> frozen, other |-> other]]
      BY <1>1, TreatedStage, SMTT(20)
<1> QED BY <1>2, <1>3, <1>4 DEF StageOf

\* The considerations that are applied to a stage.
Taken(applied, i) == {c \in DOMAIN applied : i \in applied[c]}

\* The stages of a Desired Output after some of the considerations were.
After(base, applied, parameters, cs) ==
    [i \in DOMAIN base |-> StageOf(base[i].type, base[i].theory, Taken(applied, i) \cap cs, parameters)]

\* One consideration is applied to the stages it is meant for.
LEMMA OneIsApplied ==
    ASSUME NEW base, NEW applied, NEW parameters, NEW cs, NEW c \in Considerations
    PROVE  ApplyTo(After(base, applied, parameters, cs), c, applied, parameters) =
               After(base, applied, parameters, cs \cup {c})
<1> PICK stages : stages = After(base, applied, parameters, cs) OBVIOUS
<1>0. DOMAIN stages = DOMAIN base BY DEF After
<1> SUFFICES ASSUME NEW i \in DOMAIN base
             PROVE  ApplyTo(stages, c, applied, parameters)[i] =
                        StageOf(base[i].type, base[i].theory, Taken(applied, i) \cap (cs \cup {c}), parameters)
    BY <1>0 DEF ApplyTo, After
<1> PICK before : before = Taken(applied, i) \cap cs OBVIOUS
<1>1. stages[i] = StageOf(base[i].type, base[i].theory, before, parameters) BY DEF After
<1>2. CASE c \in Taken(applied, i)
  <2>1. before \cup {c} = Taken(applied, i) \cap (cs \cup {c}) BY <1>2
  <2>2. ApplyTo(stages, c, applied, parameters)[i] = Treated(stages[i], c, parameters)
        BY <1>0, <1>2 DEF ApplyTo, Taken
  <2> QED BY <1>1, <2>1, <2>2, OneMoreTreatment
<1>3. CASE c \notin Taken(applied, i)
  <2>1. before = Taken(applied, i) \cap (cs \cup {c}) BY <1>3
  <2>2. ApplyTo(stages, c, applied, parameters)[i] = stages[i] BY <1>0, <1>3 DEF ApplyTo, Taken
  <2> QED BY <1>1, <2>1, <2>2
<1> QED BY <1>2, <1>3

\* What is resolved of a Desired Output.
LEMMA StagesAreResolved ==
    ASSUME NEW m, NEW base, ArePlain(base)
    PROVE  resolved_stages(m, base) =
               [i \in DOMAIN base |->
                   StageOf(base[i].type, base[i].theory, Taken(applied_treatments(m, base), i),
                           evaluate_dft_u(m).parameters)]
<1> PICK applied, parameters : applied = applied_treatments(m, base) /\ parameters = evaluate_dft_u(m).parameters
    OBVIOUS
<1> DEFINE Done(cs) == After(base, applied, parameters, cs)
           spin == ApplyTo(base, "spin", applied, parameters)
           dispersion == ApplyTo(spin, "dispersion", applied, parameters)
           soc == ApplyTo(dispersion, "soc", applied, parameters)
<1>1. base = Done({})
  <2>1. \A i : Taken(applied, i) \cap {} = {} OBVIOUS
  <2>2. \A type, theory : Stage(type, theory, {}) = StageOf(type, theory, {}, parameters)
        BY DEF Stage, NoOptions, StageOf, ModifiersOf
  <2> QED BY <2>1, <2>2 DEF ArePlain, After
<1>2. \A cs : \A c \in Considerations : ApplyTo(Done(cs), c, applied, parameters) = Done(cs \cup {c})
  <2> SUFFICES ASSUME NEW cs, NEW c \in Considerations
               PROVE  ApplyTo(Done(cs), c, applied, parameters) = Done(cs \cup {c})
      OBVIOUS
  <2> QED BY OneIsApplied
<1> HIDE DEF Done
<1>3. spin = Done({} \cup {"spin"}) BY <1>1, <1>2 DEF Considerations
<1> HIDE DEF spin
<1>4. dispersion = Done(({} \cup {"spin"}) \cup {"dispersion"}) BY <1>2, <1>3 DEF Considerations
<1> HIDE DEF dispersion
<1>5. soc = Done((({} \cup {"spin"}) \cup {"dispersion"}) \cup {"soc"}) BY <1>2, <1>4 DEF Considerations
<1> HIDE DEF soc
<1>6. ApplyTo(soc, "dft_u", applied, parameters) = Done(Considerations)
  <2>1. ((({} \cup {"spin"}) \cup {"dispersion"}) \cup {"soc"}) \cup {"dft_u"} = Considerations
        BY DEF Considerations
  <2>2. ApplyTo(soc, "dft_u", applied, parameters) =
            Done(((({} \cup {"spin"}) \cup {"dispersion"}) \cup {"soc"}) \cup {"dft_u"})
        BY <1>2, <1>5 DEF Considerations
  <2> QED BY <2>1, <2>2
<1>7. resolved_stages(m, base) = ApplyTo(soc, "dft_u", applied, parameters)
      BY DEF resolved_stages, ApplyAll, soc, dispersion, spin
<1>8. \A i : Taken(applied, i) \cap Considerations = Taken(applied, i)
      BY DEF Taken, applied_treatments, considerations_for
<1> QED BY <1>6, <1>7, <1>8 DEF After, Done

\* Each consideration has a modifier of its own.
LEMMA ModifiersTell ==
    ASSUME NEW taken, taken \subseteq Considerations, NEW c \in Considerations
    PROVE  ModifierOf[c] \in ModifiersOf(taken) <=> c \in taken
<1>1. \A d \in Considerations : ModifierOf[d] = ModifierOf[c] => d = c BY DEF ModifierOf, Considerations
<1> QED BY <1>1 DEF ModifiersOf

\* Nothing but considerations is applied,
LEMMA TakenAreConsiderations ==
    ASSUME NEW m, NEW base, NEW i
    PROVE  Taken(applied_treatments(m, base), i) \subseteq Considerations
BY DEF Taken, applied_treatments, considerations_for

\* and those just where the code says.
LEMMA WhatIsTaken ==
    ASSUME NEW m, NEW base, NEW i \in DOMAIN base, NEW c
    PROVE  c \in Taken(applied_treatments(m, base), i) <=>
               /\ c \in considerations_for(m)
               /\ IsApplied(evaluate_dft_u(m), c)
               /\ i \in Receiving(base, c)
BY DEF Taken, applied_treatments

\* Desired Outputs are made of PBE relaxations and static energies, and HSE06 after them.
LEMMA DesiredOutputsArePlain ==
    ASSUME NEW o \in DOMAIN DESIRED_OUTPUTS
    PROVE  /\ ArePlain(DESIRED_OUTPUTS[o])
           /\ \A i \in DOMAIN DESIRED_OUTPUTS[o] :
                 \/ Is(DESIRED_OUTPUTS[o][i], {"relax", "static"}, "pbe")
                 \/ Is(DESIRED_OUTPUTS[o][i], {"static", "dos", "band_structure"}, "hse06")
<1> PICK base : base = DESIRED_OUTPUTS[o] OBVIOUS
<1>1. base = [i \in DOMAIN base |-> base[i]] BY DEF DESIRED_OUTPUTS
<1>2. \A i \in DOMAIN base : \E type, theory :
          /\ base[i] = Stage(type, theory, {})
          /\ \/ type \in {"relax", "static"} /\ theory = "pbe"
             \/ type \in {"static", "dos", "band_structure"} /\ theory = "hse06"
      BY DEF DESIRED_OUTPUTS
<1>3. \A i \in DOMAIN base :
          /\ base[i] = Stage(base[i].type, base[i].theory, {})
          /\ \/ Is(base[i], {"relax", "static"}, "pbe")
             \/ Is(base[i], {"static", "dos", "band_structure"}, "hse06")
  <2> SUFFICES ASSUME NEW i \in DOMAIN base
               PROVE  /\ base[i] = Stage(base[i].type, base[i].theory, {})
                      /\ \/ Is(base[i], {"relax", "static"}, "pbe")
                         \/ Is(base[i], {"static", "dos", "band_structure"}, "hse06")
      OBVIOUS
  <2> PICK type, theory :
          /\ base[i] = Stage(type, theory, {})
          /\ \/ type \in {"relax", "static"} /\ theory = "pbe"
             \/ type \in {"static", "dos", "band_structure"} /\ theory = "hse06"
      BY <1>2
  <2>1. base[i].type = type /\ base[i].theory = theory BY DEF Stage
  <2> QED BY <2>1 DEF Is
<1> QED BY <1>1, <1>3 DEF ArePlain

\* A stage gets a U only of an evaluation that the record of the resolution has.
LEMMA FrozenUIsRecorded ==
    ASSUME NEW m, NEW base, ArePlain(base)
    PROVE  \/ Resolution(m, base).dft_u = evaluate_dft_u(m)
           \/ \A i \in DOMAIN base : resolved_stages(m, base)[i].options.dft_u = Absent
<1>1. CASE "dft_u" \in considerations_for(m) BY <1>1 DEF Resolution, applied_treatments
<1>2. CASE "dft_u" \notin considerations_for(m)
  <2> SUFFICES ASSUME NEW i \in DOMAIN base
               PROVE resolved_stages(m, base)[i].options.dft_u = Absent
      OBVIOUS
  <2> PICK stage, taken : stage = resolved_stages(m, base)[i] /\ taken = Taken(applied_treatments(m, base), i)
      OBVIOUS
  <2>1. "dft_u" \notin taken BY <1>2, WhatIsTaken
  <2>2. stage = StageOf(base[i].type, base[i].theory, taken, evaluate_dft_u(m).parameters)
        BY StagesAreResolved
  <2> QED BY <2>1, <2>2 DEF StageOf
<1> QED BY <1>1, <1>2

\* A stage that could have taken a consideration has it, or the record says why not.
LEMMA StagesAreAccounted ==
    ASSUME NEW m, NEW o \in DOMAIN DESIRED_OUTPUTS, NEW base, base = DESIRED_OUTPUTS[o],
           NEW i \in DOMAIN base, NEW stage, stage = resolved_stages(m, base)[i],
           NEW c \in considerations_for(m)
    PROVE  \/ ModifierOf[c] \in stage.modifiers
           \/ i \in Resolution(m, base).omitted[c]
           \/ c \in Resolution(m, base).not_applicable
           \/ ~StageIsValid(WithModifier(stage, ModifierOf[c]))
<1> PICK taken : taken = Taken(applied_treatments(m, base), i) OBVIOUS
<1> PICK type, theory : type = base[i].type /\ theory = base[i].theory OBVIOUS
<1> PICK with : with = WithModifier(stage, ModifierOf[c]) OBVIOUS
<1>1. c \in Considerations BY DEF considerations_for
<1>2. ArePlain(base) BY DesiredOutputsArePlain
<1>3. /\ stage.type = type /\ stage.theory = theory
      /\ \A d \in Considerations : ModifierOf[d] \in stage.modifiers <=> d \in taken
      /\ stage = [type |-> stage.type, theory |-> stage.theory, modifiers |-> stage.modifiers,
                  options |-> stage.options]
  <2>1. stage = StageOf(type, theory, taken, evaluate_dft_u(m).parameters) BY <1>2, StagesAreResolved
  <2>2. taken \subseteq Considerations BY TakenAreConsiderations
  <2>3. stage.modifiers = ModifiersOf(taken) BY <2>1 DEF StageOf
  <2>4. \A d \in Considerations : ModifierOf[d] \in stage.modifiers <=> d \in taken
        BY <2>2, <2>3, ModifiersTell
  <2> QED BY <2>1, <2>4 DEF StageOf
<1>4. with.type = type /\ with.theory = theory /\ ModifierOf[c] \in with.modifiers
      BY <1>3 DEF WithModifier
<1>5. \/ theory = "pbe" /\ type \in {"relax", "static"}
      \/ theory = "hse06" /\ type \in {"static", "dos", "band_structure"}
      BY DesiredOutputsArePlain DEF Is
<1> SUFFICES ASSUME c \notin taken
             PROVE  \/ i \in OmittedFrom(base, c)
                    \/ c \in Resolution(m, base).not_applicable
                    \/ ~StageIsValid(with)
    BY <1>1, <1>3 DEF Resolution, omitted_treatments
<1>6. CASE ~IsApplied(evaluate_dft_u(m), c)
  <2>1. c = "dft_u" BY <1>6 DEF IsApplied
  <2>2. applied_treatments(m, base)[c] = {} /\ c \in DOMAIN applied_treatments(m, base)
        BY <1>6 DEF applied_treatments
  <2>3. omitted_treatments(m, base)[c] = {} BY <2>1 DEF omitted_treatments, OmittedFrom
  <2> QED BY <2>1, <2>2, <2>3 DEF Resolution
<1>7. CASE i \notin Receiving(base, c)
  <2>1. CASE c = "spin" BY <1>7, <2>1 DEF Receiving
  <2>2. CASE c = "dispersion"
    <3>1. ~Is(with, {"relax", "static"}, "pbe") BY <1>4, <1>7, <2>2 DEF Receiving, ReceivesDefault, Is
    <3> QED BY <1>4, <2>2, <3>1 DEF StageIsValid, DispersionIsValid, ModifierOf
  <2>3. CASE c = "dft_u"
    <3>1. theory = "hse06" /\ type \in {"static", "dos", "band_structure"}
          BY <1>5, <1>7, <2>3 DEF Receiving, ReceivesDefault, Is
    <3>2. "dft_u" \notin StageModifiers(type, theory) BY <3>1 DEF StageModifiers
    <3> QED BY <1>4, <2>3, <3>2 DEF StageIsValid, ModifierOf
  <2>4. CASE c = "soc"
    <3>1. CASE type = "relax"
      <4>1. "soc" \notin StageModifiers(type, theory) BY <1>5, <3>1 DEF StageModifiers, ACTIVE_UI
      <4> QED BY <1>4, <2>4, <4>1 DEF StageIsValid, ModifierOf
    <3>2. CASE type # "relax" BY <1>7, <2>4, <3>2 DEF Receiving, OmittedFrom
    <3> QED BY <3>1, <3>2
  <2> QED BY <1>1, <2>1, <2>2, <2>3, <2>4 DEF Considerations
<1> QED BY <1>6, <1>7, WhatIsTaken

\* The page says that a consideration was applied just when the workflow has its modifier.
LEMMA WhatIsToldIsTrue ==
    ASSUME NEW m, NEW base, ArePlain(base), NEW c \in considerations_for(m),
           NEW stages, stages = resolved_stages(m, base), WorkflowIsValid(stages),
           \A i \in DOMAIN stages : stage_is_admissible_for_new_calculation(stages[i]),
           NEW told, told = automatic_application_state(Resolution(m, base), c),
           Resolution(m, base) # Absent, told # "omitted_unsupported"
    PROVE  told = "applied" <=> workflow_modifier_support(stages, ModifierOf[c]) = "already_selected"
<1> PICK applied, resolution : applied = applied_treatments(m, base)[c] /\ resolution = Resolution(m, base)
    OBVIOUS
<1> DEFINE able == {i \in DOMAIN stages : StageIsSupported(WithModifier(stages[i], ModifierOf[c]))}
<1>1. c \in Considerations BY DEF considerations_for
<1>2. resolution.applied[c] = applied BY DEF Resolution
<1>3. told = "applied" <=> applied # {} BY <1>2 DEF automatic_application_state
<1>4. applied \subseteq DOMAIN base BY DEF applied_treatments, Receiving
<1>5. DOMAIN stages = DOMAIN base BY StagesAreResolved
<1>6. \A i \in DOMAIN base :
          /\ ModifierOf[c] \in stages[i].modifiers <=> i \in applied
          /\ stages[i] = [type |-> stages[i].type, theory |-> stages[i].theory,
                          modifiers |-> stages[i].modifiers, options |-> stages[i].options]
  <2> SUFFICES ASSUME NEW i \in DOMAIN base
               PROVE  /\ ModifierOf[c] \in stages[i].modifiers <=> i \in applied
                      /\ stages[i] = [type |-> stages[i].type, theory |-> stages[i].theory,
                                      modifiers |-> stages[i].modifiers, options |-> stages[i].options]
      OBVIOUS
  <2> PICK stage, taken : stage = stages[i] /\ taken = Taken(applied_treatments(m, base), i) OBVIOUS
  <2>1. stage = StageOf(base[i].type, base[i].theory, taken, evaluate_dft_u(m).parameters)
        BY StagesAreResolved
  <2>2. taken \subseteq Considerations BY TakenAreConsiderations
  <2>3. stage.modifiers = ModifiersOf(taken) BY <2>1 DEF StageOf
  <2>4. ModifierOf[c] \in stage.modifiers <=> c \in taken BY <1>1, <2>2, <2>3, ModifiersTell
  <2>5. c \in taken <=> i \in applied BY DEF Taken, applied_treatments
  <2>6. stage = [type |-> stage.type, theory |-> stage.theory, modifiers |-> stage.modifiers,
                 options |-> stage.options]
        BY <2>1 DEF StageOf
  <2> QED BY <2>4, <2>5, <2>6
<1>7. \A i \in applied : i \in able
  <2> SUFFICES ASSUME NEW i \in applied PROVE StageIsSupported(WithModifier(stages[i], ModifierOf[c]))
      BY <1>4, <1>5
  <2> PICK stage : stage = stages[i] OBVIOUS
  <2>1. stage = [type |-> stage.type, theory |-> stage.theory, modifiers |-> stage.modifiers,
                 options |-> stage.options]
        BY <1>4, <1>6
  <2>2. stage.modifiers \cup {ModifierOf[c]} = stage.modifiers BY <1>4, <1>6
  <2>3. WithModifier(stage, ModifierOf[c]) = stage BY <2>1, <2>2 DEF WithModifier
  <2> QED BY <1>4, <1>5, <2>3 DEF StageIsSupported, WorkflowIsValid
<1>8. workflow_modifier_support(stages, ModifierOf[c]) = "already_selected" <=>
          \E i \in able : ModifierOf[c] \in stages[i].modifiers
      BY DEF workflow_modifier_support
<1> QED BY <1>3, <1>4, <1>5, <1>6, <1>7, <1>8

\* A form of a Desired Output is specified as it is resolved.
LEMMA DesiredSpecification ==
    ASSUME material \in Structures, NEW name, NEW json, NEW stamp, NEW version,
           NEW spec, spec = create_submission_spec(material, name, workflow_spec_from_form(name, json), stamp, version),
           spec # Bad, spec.treatments # Absent
    PROVE  /\ name \in DOMAIN DESIRED_OUTPUTS
           /\ spec.stages = resolved_stages(material, DESIRED_OUTPUTS[name])
           /\ spec.treatments.resolution = Resolution(material, DESIRED_OUTPUTS[name])
           /\ spec.treatments.generated =
                 IF spec.treatments.resolution.dft_u = Absent THEN {}
                 ELSE prepared_dft_u_record(material, spec.stages)
           /\ WorkflowIsValid(spec.stages)
           /\ \A i \in DOMAIN spec.stages : stage_is_admissible_for_new_calculation(spec.stages[i])
<1> PICK m, w : m = material /\ w = workflow_spec_from_form(name, json) OBVIOUS
<1> PICK resolved : resolved = resolve_workflow_for_structure(m, name, w) OBVIOUS
<1>1. spec.stages = resolved.stages /\ spec.treatments = automatic_treatments(m, resolved)
      BY SpecsAreStamped
<1>2. resolved.stages # Bad /\ require_admissible_new_calculation(resolved.stages) # Bad
      BY DEF create_submission_spec
<1>3. resolved.resolution # Absent BY <1>1 DEF automatic_treatments
<1>4. name \in DOMAIN DESIRED_OUTPUTS
      BY <1>3 DEF resolve_workflow_for_structure, desired_output_workflow_spec
<1> PICK base : base = DESIRED_OUTPUTS[name] OBVIOUS
<1>5. w.stages = base BY <1>4, DesiredFormsAreStable DEF Workflow
<1> PICK resolution : resolution = resolve_default_treatments(m, base) OBVIOUS
<1>6. resolution # Bad /\ resolved.stages = resolution.stages /\ resolved.resolution = resolution
      BY <1>2, <1>4, <1>5, NamesAreKnown DEF resolve_workflow_for_structure
<1>7. resolution = Resolution(m, base) BY <1>6 DEF resolve_default_treatments
<1>8. resolution.stages = resolved_stages(m, base) BY <1>7 DEF Resolution
<1>9. WorkflowIsValid(resolved.stages)
      /\ \A i \in DOMAIN resolved.stages : stage_is_admissible_for_new_calculation(resolved.stages[i])
      BY <1>2 DEF require_admissible_new_calculation
<1> QED BY <1>1, <1>3, <1>4, <1>6, <1>7, <1>8, <1>9 DEF automatic_treatments

\* So what is made from a form accounts for its treatments.
LEMMA FormsAreAccounted ==
    ASSUME material \in Structures, NEW name, NEW json, NEW stamp, NEW version,
           NEW spec, spec = create_submission_spec(material, name, workflow_spec_from_form(name, json), stamp, version),
           spec # Bad, spec.treatments # Absent
    PROVE  Accounted(spec, spec.treatments.resolution)
<1> PICK base, stages, resolution :
        base = DESIRED_OUTPUTS[name] /\ stages = spec.stages /\ resolution = Resolution(material, base)
    OBVIOUS
<1>1. /\ name \in DOMAIN DESIRED_OUTPUTS
      /\ stages = resolved_stages(material, base) /\ spec.treatments.resolution = resolution
      /\ WorkflowIsValid(stages)
      /\ \A i \in DOMAIN stages : stage_is_admissible_for_new_calculation(stages[i])
      BY DesiredSpecification
<1>2. ArePlain(base) BY <1>1, DesiredOutputsArePlain
<1>3. DOMAIN stages = DOMAIN base BY <1>1, <1>2, StagesAreResolved
<1>4. resolution # Absent BY <1>1, NoValueAssumption
<1> SUFFICES ASSUME NEW c \in considerations_for(material)
             PROVE  /\ \A i \in DOMAIN stages :
                          \/ ModifierOf[c] \in stages[i].modifiers
                          \/ i \in resolution.omitted[c]
                          \/ c \in resolution.not_applicable
                          \/ ~StageIsValid(WithModifier(stages[i], ModifierOf[c]))
                    /\ LET told == automatic_application_state(resolution, c)
                       IN  told # "omitted_unsupported" =>
                              (told = "applied" <=>
                                  workflow_modifier_support(stages, ModifierOf[c]) = "already_selected")
    BY <1>1 DEF Accounted
<1>5. \A i \in DOMAIN stages :
          \/ ModifierOf[c] \in stages[i].modifiers
          \/ i \in resolution.omitted[c]
          \/ c \in resolution.not_applicable
          \/ ~StageIsValid(WithModifier(stages[i], ModifierOf[c]))
      BY <1>1, <1>3, StagesAreAccounted
<1> PICK told : told = automatic_application_state(resolution, c) OBVIOUS
<1>6. told # "omitted_unsupported" =>
          (told = "applied" <=> workflow_modifier_support(stages, ModifierOf[c]) = "already_selected")
      BY <1>1, <1>2, <1>4, WhatIsToldIsTrue
<1> QED BY <1>5, <1>6

-----------------------------------------------------------------------------
(* Every Desired Output can be built.                                      *)

\* What may be applied to the stages of a Desired Output: nothing but spin to a hybrid,
\* SOC to no relaxation, dispersion to all PBE stages or none, and a U that there is.
MayTake(base, taken, parameters) ==
    /\ \A i \in DOMAIN base :
          /\ taken[i] \subseteq Considerations
          /\ base[i].theory = "hse06" => taken[i] \subseteq {"spin"}
          /\ base[i].type = "relax" => "soc" \notin taken[i]
          /\ "dft_u" \in taken[i] => parameters \notin {Absent, Bad}
    /\ \A i, j \in DOMAIN base : base[i].theory = "pbe" /\ base[j].theory = "pbe" =>
          ("dispersion" \in taken[i] <=> "dispersion" \in taken[j])

\* A stage is valid with what it may take,
LEMMA TreatedStagesAreValid ==
    ASSUME NEW type, NEW theory, NEW taken, NEW parameters, NEW stage,
           stage = StageOf(type, theory, taken, parameters),
           taken \subseteq Considerations,
           \/ theory = "pbe" /\ type \in {"relax", "static"}
           \/ theory = "hse06" /\ type \in {"static", "dos", "band_structure"},
           theory = "hse06" => taken \subseteq {"spin"},
           type = "relax" => "soc" \notin taken,
           "dft_u" \in taken => parameters \notin {Absent, Bad}
    PROVE  StageIsValid(stage) /\ stage_is_admissible_for_new_calculation(stage)
<1> PICK modifiers : modifiers = ModifiersOf(taken) OBVIOUS
<1>1. /\ stage.type = type /\ stage.theory = theory /\ stage.modifiers = modifiers
      /\ stage.options.dispersion = (IF "dispersion" \in taken THEN "dftd3-bj" ELSE Absent)
      /\ stage.options.dft_u = (IF "dft_u" \in taken THEN parameters ELSE Absent)
      /\ ~stage.options.other
      BY DEF StageOf
<1>2. \A c \in Considerations : ModifierOf[c] \in modifiers <=> c \in taken BY ModifiersTell
<1>3. /\ "dispersion" \in modifiers <=> "dispersion" \in taken
      /\ "dft_u" \in modifiers <=> "dft_u" \in taken
      /\ "soc" \in modifiers <=> "soc" \in taken
      /\ modifiers \subseteq {"spin_polarized", "dispersion", "soc", "dft_u"}
  <2>1. modifiers \subseteq {ModifierOf[c] : c \in Considerations} BY DEF ModifiersOf
  <2> QED BY <1>2, <2>1 DEF Considerations, ModifierOf
<1>4. IsExecutable(type) /\ type \in THEORY_STAGES[theory] BY DEF IsExecutable, THEORY_STAGES, StageTypes
<1>5. modifiers \subseteq StageModifiers(type, theory)
  <2>1. CASE theory = "pbe" BY <1>3, <2>1 DEF StageModifiers, ACTIVE_UI
  <2>2. CASE theory = "hse06"
    <3>1. modifiers \subseteq {"spin_polarized"} BY <1>3, <2>2
    <3>2. "spin_polarized" \in StageModifiers(type, theory) BY <2>2 DEF StageModifiers
    <3> QED BY <3>1, <3>2
  <2> QED BY <2>1, <2>2
<1>6. theory # "pbe" => "dispersion" \notin taken /\ "dft_u" \notin taken /\ "soc" \notin taken OBVIOUS
<1>7. DispersionIsValid(stage)
  <2>1. DispersionMethod(stage) = (IF "dispersion" \in taken THEN "dftd3-bj" ELSE Absent)
        BY <1>1, <1>3 DEF DispersionMethod
  <2> QED BY <1>1, <1>3, <1>6, <2>1 DEF DispersionIsValid, Is
<1>8. FrozenUIsValid(stage) BY <1>1, <1>3, <1>6 DEF FrozenUIsValid, Is
<1>9. stage_is_admissible_for_new_calculation(stage)
      BY <1>1, <1>3, <1>6 DEF stage_is_admissible_for_new_calculation, modifier_is_admissible_for_new_theory,
                       UNSUPPORTED_NEW_CALCULATION_COMBINATIONS
<1> QED BY <1>1, <1>4, <1>5, <1>7, <1>8, <1>9 DEF StageIsValid

\* and so are its stages together,
LEMMA TreatedOutputsAreValid ==
    ASSUME NEW o \in DOMAIN DESIRED_OUTPUTS, NEW base, base = DESIRED_OUTPUTS[o],
           NEW taken, NEW parameters, MayTake(base, taken, parameters), NEW stages,
           stages = [i \in DOMAIN base |-> StageOf(base[i].type, base[i].theory, taken[i], parameters)]
    PROVE  WorkflowIsValid(stages) /\ \A i \in DOMAIN stages : stage_is_admissible_for_new_calculation(stages[i])
<1>1. \A i \in DOMAIN base :
          \/ base[i].theory = "pbe" /\ base[i].type \in {"relax", "static"}
          \/ base[i].theory = "hse06" /\ base[i].type \in {"static", "dos", "band_structure"}
      BY DesiredOutputsArePlain DEF Is
<1>2. \A i \in DOMAIN base : StageIsValid(stages[i]) /\ stage_is_admissible_for_new_calculation(stages[i])
  <2> SUFFICES ASSUME NEW i \in DOMAIN base
               PROVE  StageIsValid(stages[i]) /\ stage_is_admissible_for_new_calculation(stages[i])
      OBVIOUS
  <2> PICK type, theory, cs, stage :
          type = base[i].type /\ theory = base[i].theory /\ cs = taken[i] /\ stage = stages[i]
      OBVIOUS
  <2>1. stage = StageOf(type, theory, cs, parameters) OBVIOUS
  <2>2. /\ cs \subseteq Considerations
        /\ theory = "hse06" => cs \subseteq {"spin"}
        /\ type = "relax" => "soc" \notin cs
        /\ "dft_u" \in cs => parameters \notin {Absent, Bad}
        BY DEF MayTake
  <2> QED BY <1>1, <2>1, <2>2, TreatedStagesAreValid
<1>3. \A i \in DOMAIN base :
          /\ stages[i].type = base[i].type /\ stages[i].theory = base[i].theory
          /\ "dispersion" \in stages[i].modifiers <=> "dispersion" \in taken[i]
          /\ "dispersion" \in taken[i] => stages[i].options.dispersion = "dftd3-bj"
          /\ base[i].theory = "hse06" => "soc" \notin stages[i].modifiers
  <2> SUFFICES ASSUME NEW i \in DOMAIN base
               PROVE  /\ stages[i].type = base[i].type /\ stages[i].theory = base[i].theory
                      /\ "dispersion" \in stages[i].modifiers <=> "dispersion" \in taken[i]
                      /\ "dispersion" \in taken[i] => stages[i].options.dispersion = "dftd3-bj"
                      /\ base[i].theory = "hse06" => "soc" \notin stages[i].modifiers
      OBVIOUS
  <2> PICK type, theory, cs, stage :
          type = base[i].type /\ theory = base[i].theory /\ cs = taken[i] /\ stage = stages[i]
      OBVIOUS
  <2>1. stage = StageOf(type, theory, cs, parameters) OBVIOUS
  <2>2. cs \subseteq Considerations /\ (theory = "hse06" => cs \subseteq {"spin"}) BY DEF MayTake
  <2>3. \A c \in Considerations : ModifierOf[c] \in ModifiersOf(cs) <=> c \in cs BY <2>2, ModifiersTell
  <2>4. /\ "dispersion" \in ModifiersOf(cs) <=> "dispersion" \in cs
        /\ "soc" \in ModifiersOf(cs) <=> "soc" \in cs
        BY <2>3 DEF ModifierOf, Considerations
  <2> QED BY <2>1, <2>2, <2>4 DEF StageOf
<1>4. \A i, j \in DOMAIN base : DispersionFits(stages[i], stages[j])
  <2> SUFFICES ASSUME NEW i \in DOMAIN base, NEW j \in DOMAIN base,
                      Is(stages[i], {"relax", "static"}, "pbe"), Is(stages[j], {"relax", "static"}, "pbe")
               PROVE  DispersionMethod(stages[i]) = DispersionMethod(stages[j])
      BY DEF DispersionFits
  <2>1. "dispersion" \in taken[i] <=> "dispersion" \in taken[j] BY <1>3 DEF MayTake, Is
  <2> QED BY <1>3, <2>1 DEF DispersionMethod
<1>5. /\ DOMAIN stages = DOMAIN base /\ Len(stages) = Len(base) /\ stages # << >>
      /\ DOMAIN base = 1..Len(base) /\ Len(base) \in 1..3
  <2>1. DOMAIN base = 1..Len(base) /\ Len(base) \in 1..3 BY DEF DESIRED_OUTPUTS
  <2>2. stages = [i \in 1..Len(base) |-> stages[i]] BY <2>1
  <2>3. Len(stages) = Len(base) BY <2>1, <2>2
  <2>4. stages # << >>
    <3>1. 1 \in DOMAIN stages BY <2>1
    <3>2. 1 \notin DOMAIN << >> OBVIOUS
    <3> QED BY <3>1, <3>2
  <2> QED BY <2>1, <2>3, <2>4
<1>6. \A i \in DOMAIN base : base[i].type \in Analysis =>
          /\ i = Len(base) /\ i > 1
          /\ base[i].theory = "hse06" /\ base[i - 1].theory = "hse06" /\ base[i - 1].type = "static"
  <2>1. CASE o \in {"energy_only", "relaxed_structure"}
    <3>1. \A i \in DOMAIN base : base[i].type \in {"relax", "static"} BY <2>1, SMTT(20) DEF DESIRED_OUTPUTS, Stage
    <3> QED BY <3>1 DEF Analysis
  <2>2. CASE o \in {"electronic_dos", "electronic_band_structure"}
    <3> PICK last : last \in {"dos", "band_structure"}
                    /\ base = <<Stage("relax", "pbe", {}), Stage("static", "hse06", {}), Stage(last, "hse06", {})>>
        BY <2>2 DEF DESIRED_OUTPUTS
    <3>1. Len(base) = 3 /\ DOMAIN base = 1..3 OBVIOUS
    <3>2. /\ base[1].type = "relax" /\ base[2].type = "static"
          /\ base[2].theory = "hse06" /\ base[3].theory = "hse06"
          BY DEF Stage
    <3>3. ASSUME NEW i \in DOMAIN base, base[i].type \in Analysis PROVE i = 3
          BY <3>1, <3>2, <3>3 DEF Analysis
    <3> QED BY <3>1, <3>2, <3>3
  <2> QED BY <2>1, <2>2 DEF DESIRED_OUTPUTS
<1>7. \A i \in 2..Len(base) : i \in DOMAIN base /\ i - 1 \in DOMAIN base BY <1>5
<1>8. \A i \in 2..Len(base) : ElectronicDataFits(stages[i - 1], stages[i])
  <2> SUFFICES ASSUME NEW i \in 2..Len(base) PROVE ElectronicDataFits(stages[i - 1], stages[i]) OBVIOUS
  <2>1. CASE base[i].type \notin Analysis
        BY <1>3, <1>7, <2>1 DEF ElectronicDataFits, ReadsChargeDensity, InheritsBandCount, Is
  <2>2. CASE base[i].type \in Analysis
    <3>1. base[i].theory = "hse06" /\ base[i - 1].theory = "hse06" BY <1>6, <1>7, <2>2
    <3>2. Agree(stages[i - 1], stages[i], "soc") BY <1>3, <1>7, <3>1 DEF Agree
    <3>3. ~ReadsChargeDensity(stages[i]) BY <1>3, <1>7, <3>1 DEF ReadsChargeDensity, Is
    <3> QED BY <3>2, <3>3 DEF ElectronicDataFits
  <2> QED BY <2>1, <2>2
<1>9. \A i \in DOMAIN stages : stages[i].type \in Analysis =>
          /\ i = Len(stages) /\ i > 1
          /\ stages[i - 1].type = "static" /\ AcceptsPrecursor(stages[i - 1], stages[i])
  <2> SUFFICES ASSUME NEW i \in DOMAIN stages, stages[i].type \in Analysis
               PROVE  /\ i = Len(stages) /\ i > 1
                      /\ stages[i - 1].type = "static" /\ AcceptsPrecursor(stages[i - 1], stages[i])
      OBVIOUS
  <2>1. /\ i = Len(base) /\ i > 1 /\ base[i].theory = "hse06" /\ base[i - 1].theory = "hse06"
        /\ base[i - 1].type = "static"
        BY <1>3, <1>5, <1>6
  <2>2. i - 1 \in DOMAIN base BY <1>5, <2>1
  <2> QED BY <1>3, <1>5, <2>1, <2>2 DEF AcceptsPrecursor
<1>10. \A i \in 2..Len(stages) : DispersionFits(stages[i - 1], stages[i]) BY <1>4, <1>5, <1>7
<1> QED BY <1>2, <1>5, <1>8, <1>9, <1>10 DEF WorkflowIsValid

\* and no purpose they look like refuses them.
LEMMA TreatedOutputsAreCalculations ==
    ASSUME NEW o \in DOMAIN DESIRED_OUTPUTS, NEW base, base = DESIRED_OUTPUTS[o],
           NEW taken, NEW parameters, MayTake(base, taken, parameters), NEW stages,
           stages = [i \in DOMAIN base |-> StageOf(base[i].type, base[i].theory, taken[i], parameters)]
    PROVE  calculation_spec_from_workflow_spec(stages) # Bad
<1> DEFINE types == [i \in DOMAIN stages |-> stages[i].type]
           shared == \A i \in DOMAIN stages :
                        stages[i].theory = stages[1].theory /\ stages[i].modifiers = stages[1].modifiers
           fits == {p \in DOMAIN PURPOSE_STAGES : PURPOSE_STAGES[p] = types}
           As(p) == CalculationSpec(p, stages[1].theory, stages[1].modifiers)
           purpose == CHOOSE q \in fits : TRUE
<1>1. WorkflowIsValid(stages) BY TreatedOutputsAreValid
<1>2. \A i \in DOMAIN base : /\ stages[i].type = base[i].type /\ stages[i].theory = base[i].theory
                              /\ stages[i].modifiers = ModifiersOf(taken[i])
      BY DEF StageOf
<1>3. CASE ~shared \/ fits = {}
  <2>1. calculation_spec_from_workflow_spec(stages) = Absent
        BY <1>1, <1>3 DEF calculation_spec_from_workflow_spec
  <2> QED BY <2>1, NoValueAssumption
<1>4. CASE shared /\ fits # {}
  <2>1. purpose \in fits BY <1>4
  <2>2. CASE o \in {"electronic_dos", "electronic_band_structure"}
    <3>1. 1 \in DOMAIN base /\ 2 \in DOMAIN base /\ base[1].theory = "pbe" /\ base[2].theory = "hse06"
          BY <2>2 DEF DESIRED_OUTPUTS, Stage
    <3> QED BY <1>2, <1>4, <3>1
  <2>3. CASE o = "relaxed_structure"
    <3>1. DOMAIN base = 1..2 /\ base[1].type = "relax" /\ base[2].type = "relax" /\ base[1].theory = "pbe"
          BY <2>3 DEF DESIRED_OUTPUTS, Stage
    <3>2. DOMAIN types = 1..2 /\ types[2] = "relax" BY <1>2, <3>1
    <3>3. purpose = "double_relax"
      <4>1. \A p \in DOMAIN PURPOSE_STAGES \ {"double_relax"} :
                2 \notin DOMAIN PURPOSE_STAGES[p] \/ PURPOSE_STAGES[p][2] # "relax"
            BY DEF PURPOSE_STAGES
      <4>2. purpose \in DOMAIN PURPOSE_STAGES /\ PURPOSE_STAGES[purpose] = types BY <2>1
      <4>3. 2 \in DOMAIN types BY <3>2
      <4> HIDE DEF types, purpose
      <4> QED BY <3>2, <4>1, <4>2, <4>3
    <3>4. /\ ModifiersOf(taken[1]) \in SUBSET Modifiers
      BY <3>1 DEF MayTake, ModifiersOf, ModifierOf, Considerations, Modifiers
    <3>5. As("double_relax") # Bad
          BY <1>2, <3>1, <3>4, NoValueAssumption DEF Purposes, Theories
    <3>6. calculation_spec_from_workflow_spec(stages) \in {As("double_relax"), Absent}
          BY <1>1, <3>3 DEF calculation_spec_from_workflow_spec
    <3> QED BY <3>5, <3>6, NoValueAssumption
  <2>4. CASE o = "energy_only"
    <3>1. DOMAIN base = 1..1 /\ base[1].type = "static" /\ base[1].theory = "pbe"
          BY <2>4 DEF DESIRED_OUTPUTS, Stage
    <3>2. DOMAIN types = 1..1 /\ types[1] = "static" BY <1>2, <3>1
    <3>3. purpose = "static"
      <4>1. \A p \in DOMAIN PURPOSE_STAGES \ {"static"} :
                2 \in DOMAIN PURPOSE_STAGES[p] \/ PURPOSE_STAGES[p][1] # "static"
            BY DEF PURPOSE_STAGES
      <4>2. purpose \in DOMAIN PURPOSE_STAGES /\ PURPOSE_STAGES[purpose] = types BY <2>1
      <4>3. 2 \notin DOMAIN types BY <3>2
      <4> HIDE DEF types, purpose
      <4> QED BY <3>2, <4>1, <4>2, <4>3
    <3>4. ModifiersOf(taken[1]) \subseteq {"spin_polarized", "dispersion", "soc", "dft_u"}
      BY <3>1 DEF MayTake, ModifiersOf, ModifierOf, Considerations
    <3>5. CalculationIsValid(As("static"))
          BY <1>2, <3>1, <3>4 DEF CalculationIsValid, CalculationSpec, CompatibilityModifiers, ACTIVE_UI
    <3>6. As("static") # Bad
          BY <1>2, <3>1, <3>4, NoValueAssumption DEF Purposes, Theories, Modifiers
    <3>7. calculation_spec_from_workflow_spec(stages) \in {As("static"), Absent}
          BY <1>1, <3>3, <3>5 DEF calculation_spec_from_workflow_spec
    <3> QED BY <3>6, <3>7, NoValueAssumption
  <2> QED BY <2>2, <2>3, <2>4 DEF DESIRED_OUTPUTS
<1> QED BY <1>3, <1>4

\* A structure may take what its considerations call for.
LEMMA ConsiderationsMayBeTaken ==
    ASSUME NEW m \in Structures, NEW o \in DOMAIN DESIRED_OUTPUTS, NEW base, base = DESIRED_OUTPUTS[o]
    PROVE  MayTake(base, [i \in DOMAIN base |-> Taken(applied_treatments(m, base), i)],
                   evaluate_dft_u(m).parameters)
<1> DEFINE taken == [i \in DOMAIN base |-> Taken(applied_treatments(m, base), i)]
<1>1. \A i \in DOMAIN base :
          \/ base[i].theory = "pbe" /\ base[i].type \in {"relax", "static"}
          \/ base[i].theory = "hse06" /\ base[i].type \in {"static", "dos", "band_structure"}
      BY DesiredOutputsArePlain DEF Is
<1>2. \A i \in DOMAIN base : \A c : c \in taken[i] <=>
          c \in considerations_for(m) /\ IsApplied(evaluate_dft_u(m), c) /\ i \in Receiving(base, c)
      BY WhatIsTaken
<1> HIDE DEF taken
<1>3. \A i \in DOMAIN base :
          /\ i \in Receiving(base, "dispersion") <=> base[i].theory = "pbe"
          /\ i \in Receiving(base, "dft_u") <=> base[i].theory = "pbe"
          /\ i \in Receiving(base, "soc") => base[i].type # "relax" /\ base[i].theory # "hse06"
      BY <1>1 DEF Receiving, ReceivesDefault, ReceivesSoc, Is, modifier_is_admissible_for_new_theory,
                  UNSUPPORTED_NEW_CALCULATION_COMBINATIONS
<1>4. ASSUME NEW i \in DOMAIN base
      PROVE  /\ taken[i] \subseteq Considerations
             /\ base[i].theory = "hse06" => taken[i] \subseteq {"spin"}
             /\ base[i].type = "relax" => "soc" \notin taken[i]
             /\ "dft_u" \in taken[i] => evaluate_dft_u(m).parameters \notin {Absent, Bad}
  <2>1. taken[i] \subseteq Considerations BY <1>2 DEF considerations_for
  <2>2. base[i].theory = "hse06" => taken[i] \subseteq {"spin"} BY <1>2, <1>3, <2>1 DEF Considerations
  <2>3. base[i].type = "relax" => "soc" \notin taken[i] BY <1>2, <1>3
  <2>4. "dft_u" \in taken[i] => evaluate_dft_u(m).parameters \notin {Absent, Bad}
        BY <1>2, NoValueAssumption DEF IsApplied
  <2> QED BY <2>1, <2>2, <2>3, <2>4
<1>5. \A i, j \in DOMAIN base : base[i].theory = "pbe" /\ base[j].theory = "pbe" =>
          ("dispersion" \in taken[i] <=> "dispersion" \in taken[j])
      BY <1>2, <1>3
<1> QED BY <1>4, <1>5 DEF MayTake, taken

\* Nothing that BMD Compute adds to a Desired Output makes it refuse the calculation.
LEMMA DesiredOutputsAreBuilt ==
    ASSUME NEW m \in Structures, m.dim # "failed", ~m.constrained, NEW o \in DOMAIN DESIRED_OUTPUTS
    PROVE  create_submission_spec(m, o, Workflow(DESIRED_OUTPUTS[o], o), 0, 1) # Bad
<1> PICK base, stages, resolution, parameters, w :
        /\ base = DESIRED_OUTPUTS[o] /\ stages = resolved_stages(m, base)
        /\ resolution = Resolution(m, base) /\ parameters = evaluate_dft_u(m).parameters
        /\ w = Workflow(base, o)
    OBVIOUS
<1> DEFINE taken == [i \in DOMAIN base |-> Taken(applied_treatments(m, base), i)]
           none == [i \in DOMAIN base |-> {}]
<1>1. ArePlain(base) BY DesiredOutputsArePlain
<1>2. MayTake(base, taken, parameters) BY ConsiderationsMayBeTaken
<1>3. stages = [i \in DOMAIN base |-> StageOf(base[i].type, base[i].theory, taken[i], parameters)]
      BY <1>1, StagesAreResolved
<1>4. calculation_spec_from_workflow_spec(base) # Bad
  <2>1. MayTake(base, none, parameters) BY DEF MayTake
  <2>2. \A type, theory : Stage(type, theory, {}) = StageOf(type, theory, {}, parameters)
        BY DEF Stage, NoOptions, StageOf, ModifiersOf
  <2>3. base = [i \in DOMAIN base |-> StageOf(base[i].type, base[i].theory, none[i], parameters)]
        BY <1>1, <2>2 DEF ArePlain
  <2> HIDE DEF none
  <2> QED BY <2>1, <2>3, TreatedOutputsAreCalculations
<1> HIDE DEF taken
<1>5. WorkflowIsValid(stages) /\ \A i \in DOMAIN stages : stage_is_admissible_for_new_calculation(stages[i])
      BY <1>2, <1>3, TreatedOutputsAreValid
<1>6. calculation_spec_from_workflow_spec(stages) # Bad BY <1>2, <1>3, TreatedOutputsAreCalculations
<1>7. stages # Bad /\ resolution # Bad /\ w # Bad BY NoValueAssumption
<1>8. require_admissible_new_calculation(stages) # Bad BY <1>5, <1>7 DEF require_admissible_new_calculation
<1>9. resolve_default_treatments(m, base) = resolution
      BY <1>5, <1>7 DEF resolve_default_treatments, validate_workflow_spec
<1> PICK resolved : resolved = resolve_workflow_for_structure(m, o, w) OBVIOUS
<1>10. resolved = [stages |-> stages, resolution |-> resolution]
  <2>1. resolution.stages = stages BY DEF Resolution
  <2>2. w.stages = base BY DEF Workflow
  <2> QED BY <1>7, <1>9, <2>1, <2>2, NamesAreKnown DEF resolve_workflow_for_structure
<1>11. ~PreviewsFail(m, stages)
  <2> SUFFICES ASSUME NEW i \in DOMAIN stages, "dft_u" \in stages[i].modifiers
               PROVE  stages[i].options.dft_u # Absent
      BY DEF PreviewsFail
  <2> PICK cs, stage : cs = taken[i] /\ stage = stages[i] OBVIOUS
  <2>1. i \in DOMAIN base BY <1>3
  <2>2. stage = StageOf(base[i].type, base[i].theory, cs, parameters) BY <1>3, <2>1
  <2>3. cs \subseteq Considerations /\ ("dft_u" \in cs => parameters \notin {Absent, Bad})
        BY <1>2, <2>1 DEF MayTake
  <2>4. "dft_u" \in Considerations /\ ModifierOf["dft_u"] = "dft_u" BY DEF Considerations, ModifierOf
  <2>5. stage.modifiers = ModifiersOf(cs) BY <2>2 DEF StageOf
  <2>6. "dft_u" \in cs BY <2>3, <2>4, <2>5, ModifiersTell
  <2> QED BY <2>2, <2>3, <2>6 DEF StageOf
<1>12. Specification(stages, o, 0, 1, automatic_treatments(m, resolved)) # Bad BY <1>10, NoValueAssumption
<1>13. w.stages = base /\ w.recipe = o BY DEF Workflow
<1> QED BY <1>4, <1>6, <1>7, <1>8, <1>10, <1>11, <1>12, <1>13 DEF create_submission_spec

-----------------------------------------------------------------------------
(* What POWER compares with the inputs of a stage.                         *)

\* The record has the inputs of the stages with a U, each under the number of its stage.
LEMMA RecordsAreNumbered ==
    ASSUME NEW m, NEW stages, NEW i \in DOMAIN stages,
           Absent \notin prepared_dft_u_record(m, stages)
    PROVE  LET expected == ExpectedSettings(prepared_dft_u_record(m, stages), i)
           IN  IF stages[i].options.dft_u = Absent THEN expected = Absent
               ELSE /\ expected # Absent
                    /\ expected.type = stages[i].type
                    /\ expected.settings = generated_dft_u_settings(m, stages[i])
<1> DEFINE Entry(j) == [stage_index |-> j, type |-> stages[j].type, theory |-> stages[j].theory,
                        settings |-> generated_dft_u_settings(m, stages[j])]
           record == prepared_dft_u_record(m, stages)
           matching == {entry \in record : entry.stage_index = i}
<1>1. record = {Entry(j) : j \in {k \in DOMAIN stages : stages[k].options.dft_u # Absent}}
      BY DEF prepared_dft_u_record, StageNumber
<1>2. CASE stages[i].options.dft_u = Absent
  <2>1. matching = {} BY <1>1, <1>2
  <2> QED BY <1>2, <2>1 DEF ExpectedSettings
<1>3. CASE stages[i].options.dft_u # Absent
  <2>1. matching = {Entry(i)} BY <1>1, <1>3
  <2> HIDE DEF matching
  <2>2. (CHOOSE entry \in matching : TRUE) = Entry(i) BY <2>1
  <2>3. matching # {} /\ Entry(i) # Absent BY <1>1, <1>3, <2>1
  <2>4. ExpectedSettings(record, i) = Entry(i) BY <2>2, <2>3 DEF ExpectedSettings, matching
  <2> QED BY <1>3, <2>3, <2>4
<1> QED BY <1>2, <1>3

\* What is made from a form has a prepared record that fits its stages.
LEMMA FormsAreChecked ==
    ASSUME material \in Structures, NEW name, NEW json, NEW stamp, NEW version,
           NEW spec, spec = create_submission_spec(material, name, workflow_spec_from_form(name, json), stamp, version),
           spec # Bad
    PROVE  ChecksWhatWasPrepared(spec)
<1>1. CASE spec.treatments = Absent BY <1>1 DEF ChecksWhatWasPrepared
<1>2. CASE spec.treatments # Absent
  <2> PICK base, stages, resolution, generated :
          /\ base = DESIRED_OUTPUTS[name] /\ stages = spec.stages /\ resolution = Resolution(material, base)
          /\ generated = spec.treatments.generated
      OBVIOUS
  <2>1. /\ name \in DOMAIN DESIRED_OUTPUTS /\ stages = resolved_stages(material, base)
        /\ generated = IF resolution.dft_u = Absent THEN {} ELSE prepared_dft_u_record(material, stages)
        BY <1>2, DesiredSpecification
  <2>2. ArePlain(base) BY <2>1, DesiredOutputsArePlain
  <2>3. DOMAIN stages = DOMAIN base BY <2>1, <2>2, StagesAreResolved
  <2>4. \A i \in DOMAIN stages :
            LET expected == ExpectedSettings(generated, i)
            IN  IF stages[i].options.dft_u = Absent THEN expected = Absent
                ELSE /\ expected # Absent
                     /\ expected.type = stages[i].type
                     /\ expected.settings = generated_dft_u_settings(material, stages[i])
    <3>1. CASE resolution.dft_u = Absent
      <4>1. evaluate_dft_u(material) # Absent BY NoValueAssumption
      <4>2. \A i \in DOMAIN stages : stages[i].options.dft_u = Absent
            BY <2>1, <2>2, <2>3, <3>1, <4>1, FrozenUIsRecorded
      <4>3. \A i : ExpectedSettings({}, i) = Absent BY DEF ExpectedSettings
      <4>4. generated = {} BY <2>1, <3>1
      <4> QED BY <4>2, <4>3, <4>4
    <3>2. CASE resolution.dft_u # Absent
      <4>1. Absent \notin prepared_dft_u_record(material, stages) BY <2>1, NoValueAssumption
      <4>2. generated = prepared_dft_u_record(material, stages) BY <2>1, <3>2
      <4> QED BY <4>1, <4>2, RecordsAreNumbered
    <3> QED BY <3>1, <3>2
  <2> QED BY <2>4, Zenon DEF ChecksWhatWasPrepared
<1> QED BY <1>1, <1>2

\* Prepare and Submit work on what is made from a form,
LEMMA RebuiltIsChecked ==
    ASSUME CheckedInv, BrowserTypeOK, NEW t \in Tabs, NEW step, Post(t, step)
    PROVE  /\ \A u \in Tabs : call'[u].step # "idle" => ChecksWhatWasPrepared(call'[u].spec)
           /\ material' = material /\ files' = files
<1> PICK page : page = tab[t] OBVIOUS
<1> PICK name : name = selected_workflow_context(page.workflow) OBVIOUS
<1> PICK w : w = workflow_spec_from_form(name, page.workflow) OBVIOUS
<1> PICK spec : spec = Rebuilt(name, w, page.token) OBVIOUS
<1>1. material' = material /\ files' = files BY DEF Post, remote
<1>2. CASE spec = Bad
  <2>1. call' = call BY <1>2 DEF Post
  <2> QED BY <1>1, <2>1 DEF CheckedInv
<1>3. CASE spec # Bad
  <2>1. call' = [call EXCEPT ![t] = [step |-> step, attempt |-> page.token.attempt, spec |-> spec, page |-> page]]
        BY <1>3 DEF Post
  <2>2. call'[t].spec = spec /\ \A u \in Tabs \ {t} : call'[u] = call[u] BY <2>1 DEF BrowserTypeOK
  <2>3. spec = create_submission_spec(material, name, w, page.token.stamp, server.version)
        BY <1>3 DEF Rebuilt
  <2>4. ChecksWhatWasPrepared(spec) BY <1>3, <2>3, FormsAreChecked DEF CheckedInv
  <2> QED BY <1>1, <2>2, <2>4 DEF CheckedInv
<1> QED BY <1>2, <1>3

\* and go on with it.
LEMMA CallsStayChecked ==
    ASSUME CheckedInv, BrowserTypeOK, NEW t \in Tabs, call[t].step # "idle",
           (\E page : Answer(t, page)) \/ (\E step : Goto(t, step))
    PROVE  \A u \in Tabs : call'[u].step # "idle" => ChecksWhatWasPrepared(call'[u].spec)
<1>1. CASE \E page : Answer(t, page)
  <2>1. call'[t] = Idle /\ \A u \in Tabs \ {t} : call'[u] = call[u] BY <1>1, CallsEnd
  <2>2. call'[t].step = "idle" BY <2>1 DEF Idle
  <2> QED BY <2>1, <2>2 DEF CheckedInv
<1>2. CASE \E step : Goto(t, step)
  <2> PICK step : Goto(t, step) BY <1>2
  <2>1. /\ call'[t] = [step |-> step, attempt |-> call[t].attempt, spec |-> call[t].spec, page |-> call[t].page]
        /\ \A u \in Tabs \ {t} : call'[u] = call[u]
        BY CallsMove
  <2>2. call'[t].spec = call[t].spec BY <2>1
  <2>3. ChecksWhatWasPrepared(call'[t].spec) BY <2>2 DEF CheckedInv
  <2> QED BY <2>1, <2>3 DEF CheckedInv
<1> QED BY <1>1, <1>2

\* Nothing is uploaded at the start,
LEMMA CheckedStart == Init => CheckedInv
BY DEF Init, CheckedInv, PowerChecksWhatWasPrepared, Idle

\* and only what fits its record is.
LEMMA CheckedStep == BrowserInv /\ CheckedInv /\ [Next]_vars => CheckedInv'
<1> SUFFICES ASSUME BrowserInv, CheckedInv, [Next]_vars PROVE CheckedInv' OBVIOUS
<1>0. BrowserTypeOK BY DEF BrowserInv
<1>1. ASSUME material' = material,
             \A u \in Tabs : call'[u].step # "idle" => ChecksWhatWasPrepared(call'[u].spec),
             \A d \in DOMAIN files' : ChecksWhatWasPrepared(files'[d].spec)
      PROVE  CheckedInv'
      BY <1>1 DEF CheckedInv, PowerChecksWhatWasPrepared, ChecksWhatWasPrepared
<1>2. ASSUME material' = material, files' = files,
             \A u \in Tabs : call'[u].step # "idle" => ChecksWhatWasPrepared(call'[u].spec)
      PROVE  CheckedInv'
  <2>1. \A d \in DOMAIN files' : ChecksWhatWasPrepared(files'[d].spec)
        BY <1>2 DEF CheckedInv, PowerChecksWhatWasPrepared
  <2> QED BY <1>1, <1>2, <2>1
<1>3. ASSUME material' = material, files' = files, call' = call PROVE CheckedInv'
  <2>1. \A u \in Tabs : call'[u].step # "idle" => ChecksWhatWasPrepared(call'[u].spec) BY <1>3 DEF CheckedInv
  <2> QED BY <1>2, <1>3, <2>1
<1>4. CASE UNCHANGED vars \/ Tick BY <1>3, <1>4 DEF vars, Tick, remote
<1>5. CASE Restart
  <2>1. \A u \in Tabs : call'[u].step = "idle" BY <1>5 DEF Restart, Idle
  <2> QED BY <1>2, <1>5, <2>1 DEF Restart, remote
<1>6. ASSUME NEW t \in Tabs,
             \/ Analyze(t) \/ BuildDesired(t) \/ BuildCustom(t)
             \/ Refresh(t) \/ Resume(t) \/ \E u \in Tabs : Duplicate(t, u)
      PROVE  CheckedInv'
      BY <1>3, <1>6 DEF Analyze, BuildDesired, BuildCustom, BuildFrom, Refresh, Resume, Duplicate, remote
<1>7. ASSUME NEW t \in Tabs, PostPrepare(t) \/ PostSubmit(t) PROVE CheckedInv'
      BY <1>0, <1>2, <1>7, RebuiltIsChecked DEF PostPrepare, PostSubmit
<1>8. ASSUME NEW t \in Tabs,
             \/ ClaimForPreparation(t) \/ MarkPrepared(t) \/ RemoteFails(t)
             \/ AlreadySubmitted(t) \/ RefuseSubmit(t) \/ CommitSubmit(t)
             \/ RunSbatch(t) \/ SbatchFails(t) \/ Finish(t)
      PROVE  CheckedInv'
  <2>1. /\ material' = material /\ files' = files /\ call[t].step # "idle"
        /\ (\E page : Answer(t, page)) \/ (\E step : Goto(t, step))
        BY <1>8 DEF ClaimForPreparation, MarkPrepared, RemoteFails, AlreadySubmitted, RefuseSubmit,
                    CommitSubmit, RunSbatch, SbatchFails, Finish, At, remote
  <2> QED BY <1>0, <1>2, <2>1, CallsStayChecked
<1>9. ASSUME NEW t \in Tabs, Upload(t) PROVE CheckedInv'
  <2> PICK a, spec : a = call[t].attempt /\ spec = call[t].spec OBVIOUS
  <2>1. /\ material' = material /\ call[t].step # "idle" /\ Goto(t, "mark")
        /\ files' = With(files, run_dir(spec), [attempt |-> a, spec |-> spec])
        BY <1>9 DEF Upload, At
  <2>2. ChecksWhatWasPrepared(spec) BY <2>1 DEF CheckedInv
  <2>3. \A d \in DOMAIN files' : ChecksWhatWasPrepared(files'[d].spec)
    <3> SUFFICES ASSUME NEW d \in DOMAIN files' PROVE ChecksWhatWasPrepared(files'[d].spec) OBVIOUS
    <3>1. files'[d].spec = spec \/ (d \in DOMAIN files /\ files'[d] = files[d]) BY <2>1 DEF With
    <3> QED BY <2>2, <3>1 DEF CheckedInv, PowerChecksWhatWasPrepared
  <2>4. \A u \in Tabs : call'[u].step # "idle" => ChecksWhatWasPrepared(call'[u].spec)
        BY <1>0, <2>1, CallsStayChecked
  <2> QED BY <1>1, <2>1, <2>3, <2>4
<1> QED BY <1>4, <1>5, <1>6, <1>7, <1>8, <1>9, Zenon DEF Next

\* On POWER each stage with a frozen U is compared with what was generated for that very
\* stage at preparation (backend/dft_u_policy.py, backend/workflows.py).
THEOREM PowerComparesWhatWasPrepared == Spec => []PowerChecksWhatWasPrepared
<1>1. CheckedInv => PowerChecksWhatWasPrepared BY DEF CheckedInv
<1> QED BY <1>1, CheckedStart, CheckedStep, BrowserIsSafe, PTL DEF Spec

-----------------------------------------------------------------------------
(* Every treatment is applied or accounted for.                            *)

\* Nothing is built at the start.
LEMMA AccountedStart == Init => TreatmentsAreAccounted
<1> SUFFICES ASSUME Init PROVE TreatmentsAreAccounted OBVIOUS
<1>1. CheckedInv BY CheckedStart
<1>2. DesiredOutputsCanBeBuilt BY <1>1, DesiredOutputsAreBuilt DEF CheckedInv, DesiredOutputsCanBeBuilt
<1> QED BY <1>2 DEF Init, TreatmentsAreAccounted

\* Only a Build adds a calculation, and it is made from a form.
LEMMA AccountedStep == CheckedInv /\ CheckedInv' /\ TreatmentsAreAccounted /\ [Next]_vars => TreatmentsAreAccounted'
<1> SUFFICES ASSUME CheckedInv, CheckedInv', TreatmentsAreAccounted, [Next]_vars PROVE TreatmentsAreAccounted'
    OBVIOUS
<1>1. DesiredOutputsCanBeBuilt'
  <2> PICK m : m = material' OBVIOUS
  <2>1. m \in Structures BY DEF CheckedInv
  <2> QED BY <2>1, DesiredOutputsAreBuilt DEF DesiredOutputsCanBeBuilt
<1>2. ASSUME material' = material,
             \A a \in DOMAIN built' : built'[a].spec.treatments # Absent =>
                 Accounted(built'[a].spec, built'[a].spec.treatments.resolution)
      PROVE  TreatmentsAreAccounted'
      BY <1>1, <1>2 DEF TreatmentsAreAccounted, Accounted
<1>3. ASSUME material' = material, built' = built PROVE TreatmentsAreAccounted'
      BY <1>2, <1>3 DEF TreatmentsAreAccounted
<1>4. CASE UNCHANGED vars \/ Tick \/ Restart BY <1>3, <1>4 DEF vars, Tick, Restart, remote
<1>5. ASSUME NEW t \in Tabs,
             \/ Analyze(t) \/ PostPrepare(t) \/ PostSubmit(t)
             \/ Refresh(t) \/ Resume(t) \/ \E u \in Tabs : Duplicate(t, u)
      PROVE  TreatmentsAreAccounted'
      BY <1>3, <1>5 DEF Analyze, PostPrepare, PostSubmit, Post, Refresh, Resume, Duplicate
<1>6. ASSUME NEW t \in Tabs,
             \/ ClaimForPreparation(t) \/ Upload(t) \/ MarkPrepared(t) \/ RemoteFails(t)
             \/ AlreadySubmitted(t) \/ RefuseSubmit(t) \/ CommitSubmit(t)
             \/ RunSbatch(t) \/ SbatchFails(t) \/ Finish(t)
      PROVE  TreatmentsAreAccounted'
  <2>1. material' = material /\ built' = built
        BY <1>6 DEF ClaimForPreparation, Upload, MarkPrepared, RemoteFails, AlreadySubmitted, RefuseSubmit,
                    CommitSubmit, RunSbatch, SbatchFails, Finish, At
  <2> QED BY <1>3, <2>1
<1>7. ASSUME NEW t \in Tabs, NEW name, NEW json, BuildFrom(t, name, json) PROVE TreatmentsAreAccounted'
  <2> PICK w : w = workflow_spec_from_form(name, json) OBVIOUS
  <2> PICK spec : spec = create_submission_spec(material, name, w, clock, server.version) OBVIOUS
  <2>1. material' = material BY <1>7 DEF BuildFrom
  <2>2. CASE spec = Bad
    <3>1. built' = built BY <1>7, <2>2 DEF BuildFrom
    <3> QED BY <1>3, <2>1, <3>1
  <2>3. CASE spec # Bad
    <3> PICK a \in Attempts \ DOMAIN built :
            built' = With(built, a, Page(Workflow(spec.stages, w.recipe), spec,
                                         create_submission_identity_token(a, clock), FALSE, 0))
        BY <1>7, <2>3 DEF BuildFrom
    <3>1. \A b \in DOMAIN built' : built'[b].spec = spec \/ (b \in DOMAIN built /\ built'[b] = built[b])
          BY DEF With, Page
    <3>2. spec.treatments # Absent => Accounted(spec, spec.treatments.resolution)
          BY <2>3, FormsAreAccounted DEF CheckedInv
    <3>3. \A b \in DOMAIN built : built[b].spec.treatments # Absent =>
              Accounted(built[b].spec, built[b].spec.treatments.resolution)
          BY DEF TreatmentsAreAccounted
    <3>4. ASSUME NEW b \in DOMAIN built', built'[b].spec.treatments # Absent
          PROVE  Accounted(built'[b].spec, built'[b].spec.treatments.resolution)
      <4>1. CASE built'[b].spec = spec BY <3>2, <3>4, <4>1
      <4>2. CASE b \in DOMAIN built /\ built'[b] = built[b] BY <3>3, <3>4, <4>2
      <4> QED BY <3>1, <4>1, <4>2
    <3> QED BY <1>2, <2>1, <3>4
  <2> QED BY <2>2, <2>3
<1>8. ASSUME NEW t \in Tabs, BuildDesired(t) \/ BuildCustom(t) PROVE TreatmentsAreAccounted'
      BY <1>7, <1>8 DEF BuildDesired, BuildCustom
<1> QED BY <1>4, <1>5, <1>6, <1>8, Zenon DEF Next

\* Each treatment a structure calls for is in every stage that can take it, or the record
\* says where it was left out and why, and the page tells so; and no treatment makes BMD
\* Compute refuse its own Desired Output (backend/default_treatments.py, main.py).
THEOREM EveryTreatmentIsAccounted == Spec => []TreatmentsAreAccounted
<1>1. Spec => []CheckedInv BY CheckedStart, CheckedStep, BrowserIsSafe, PTL DEF Spec
<1> QED BY <1>1, AccountedStart, AccountedStep, PTL DEF Spec

=============================================================================
