----------------------------- MODULE WorkflowBuild -----------------------------
(***************************************************************************)
(* From a request to the jobs of a flow (backend/workflows.py,             *)
(* generated_inputs.py and calculations/builder.py).  The request is       *)
(* validated and becomes stages; the inputs of each are previewed for the  *)
(* user; and the flow is built on POWER, from the same request, one job    *)
(* after the other.  Older code builds a flow from a calculation spec,     *)
(* with a function for each purpose.                                       *)
(***************************************************************************)
EXTENDS StageInputs

CONSTANTS
    Requests,    \* what may be asked for
    Stages,      \* of which the workflows that are asked for are made
    Structures,  \* [constrained, magnetic, hubbard] : BOOLEAN; hubbard when an element has a U
    Givens,      \* INCAR settings that come with a request
    Meshes       \* k-points that come with a request

ASSUME RequestAssumption ==
    /\ Structures \subseteq [constrained : BOOLEAN, magnetic : BOOLEAN, hubbard : BOOLEAN]
    /\ \A r \in Requests :
          \/ r.kind \in {"custom", "stages"} /\ r.stages \in Seq(Stages)
          \/ /\ r.kind = "calculation"
             /\ r.spec \in [purpose : Purposes, theory : Theories, modifiers : SUBSET Modifiers]
          \/ r.kind = "legacy"
          \/ r.kind = "desired" /\ r.output \in DOMAIN DESIRED_OUTPUTS
    /\ \A stage \in Stages :
          /\ stage.type \in StageTypes /\ stage.theory \in Theories /\ stage.modifiers \subseteq Modifiers
          /\ stage.options.dft_u # "None"
    /\ Absent \notin Structures /\ Absent \notin {"dftd3", "dftd3-bj"}

\* The service brings no settings of its own (main.py:988); other callers are taken to
\* leave what the treatments and the functional decide to those.
ASSUME GivenAssumption ==
    \A g \in Givens :
        /\ DOMAIN g \cap {"GGA", "ALGO", "LDAU", "LSORBIT", "ICHARG"} = {}
        /\ "LHFCALC" \in DOMAIN g => g.LHFCALC = "T"

\* Bad and Absent are no calculations and no stages.
ASSUME NoValueAssumption ==
    /\ Bad # Absent
    /\ \A p \in Purposes, t \in Theories, m \in SUBSET Modifiers :
          /\ CalculationSpec(p, t, m) # Bad
          /\ p \in DOMAIN PURPOSE_STAGES => UniformStages(PURPOSE_STAGES[p], t, m) # Bad

VARIABLES
    request, structure, given, mesh,
    phase,     \* "asked", "previewing", "building", "built", "refused"
    stages,    \* the validated workflow spec
    previews,  \* the inputs shown of each stage
    jobs       \* of the flow

vars == <<request, structure, given, mesh, phase, stages, previews, jobs>>

-----------------------------------------------------------------------------
(* The stages of a request.                                                *)

\* A workflow spec, or stages, or a calculation spec, or one of the old names; from a
\* client also a desired output.
workflow_spec_from_flow_spec(r) ==
    CASE r.kind = "custom"      -> validate_user_workflow_spec(r.stages)
      [] r.kind = "stages"      -> validate_workflow_spec(r.stages)
      [] r.kind = "calculation" -> workflow_spec_from_calculation_spec(r.spec)
      [] r.kind = "legacy"      ->
            LET spec == calculation_spec_from_legacy(r.name, r.potcar)
            IN  IF spec = Bad THEN Bad ELSE workflow_spec_from_calculation_spec(spec)
      [] r.kind = "desired"     -> validate_workflow_spec(DESIRED_OUTPUTS[r.output])

Accept ==
    /\ phase = "asked"
    /\ LET asked == workflow_spec_from_flow_spec(request)
       IN  IF asked = Bad \/ structure.constrained
           THEN phase' = "refused" /\ UNCHANGED stages
           ELSE phase' = "previewing" /\ stages' = asked
    /\ UNCHANGED <<request, structure, given, mesh, previews, jobs>>

-----------------------------------------------------------------------------
(* The preview.                                                            *)

PreviewGenerator(stage) ==
    CASE stage.type = "relax"  -> RelaxGenerator(given, mesh, stage.theory, stage.modifiers, structure,
                                                 DispersionMethod(stage), stage.options.dft_u)
      [] stage.type = "static" -> StaticGenerator(given, mesh, stage.theory, stage.modifiers, structure,
                                                  DispersionMethod(stage), stage.options.dft_u)
      [] stage.type = "dos"    -> DosGenerator(given, mesh, stage.theory, stage.modifiers, structure)
      [] stage.type = "band_structure" ->
            BandGenerator(given, mesh, stage.theory, stage.modifiers, structure)

\* DFT+U that pymatgen knows no U for is refused.
HasActiveU(stage) == structure.hubbard \/ stage.options.dft_u # Absent

PreviewIsRefused(stage) ==
    \/ stage.type = "band_structure" /\ BandIsRefused(stage.modifiers)
    \/ "dft_u" \in stage.modifiers /\ ~HasActiveU(stage)

PreviewStage ==
    /\ phase = "previewing" /\ Len(previews) < Len(stages)
    /\ LET stage == stages[Len(previews) + 1]
       IN  IF PreviewIsRefused(stage)
           THEN phase' = "refused" /\ UNCHANGED previews
           ELSE /\ previews' = Append(previews, [inputs |-> PreviewGenerator(stage),
                                                 executable |-> RunKwargs(stage.modifiers).executable])
                /\ UNCHANGED phase
    /\ UNCHANGED <<request, structure, given, mesh, stages, jobs>>

Submit ==
    /\ phase = "previewing" /\ Len(previews) = Len(stages)
    /\ phase' = "building"
    /\ UNCHANGED <<request, structure, given, mesh, stages, previews, jobs>>

-----------------------------------------------------------------------------
(* The flow.                                                               *)

\* A job of the flow: its inputs, how VASP is run, the job whose structure it starts
\* from and the job whose directory it is given, 0 for none.
FlowJob(inputs, kwargs, from, prev) == [inputs |-> inputs, kwargs |-> kwargs, from |-> from, prev |-> prev]

\* The settings of the user may make a static stage hybrid.
StageTheory(theory) == IF IsHybridIncar(given) THEN "hse06" ELSE theory

\* (Faulty: the flow is built without the options of the stage.)
StageJobWithoutOptions(stage, i) ==
    FlowJob(PreviewGenerator([stage EXCEPT !.options = NoOptions]), RunKwargs(stage.modifiers),
            i - 1, IF stage.type = "relax" THEN 0 ELSE i - 1)

\* The i-th job.  The moments are those of the submitted structure, except in a
\* relaxation that starts from a result.
StageJob(stage, i) ==
    LET kwargs == RunKwargs(stage.modifiers)
        hybrid == IF stage.theory = "hse06" THEN HybridAnalysisKwargs(kwargs) ELSE kwargs
        first  == IF i = 1 THEN structure ELSE Absent
    IN  CASE stage.type = "relax"  ->
                FlowJob(RelaxGenerator(given, mesh, stage.theory, stage.modifiers, first,
                                       DispersionMethod(stage), stage.options.dft_u), kwargs, i - 1, 0)
          [] stage.type = "static" ->
                FlowJob(StaticGenerator(given, mesh, StageTheory(stage.theory), stage.modifiers, structure,
                                        DispersionMethod(stage), stage.options.dft_u), kwargs, i - 1, i - 1)
          [] stage.type = "dos"    ->
                FlowJob(DosGenerator(given, mesh, stage.theory, stage.modifiers, structure), hybrid, i - 1, i - 1)
          [] stage.type = "band_structure" ->
                FlowJob(BandGenerator(given, mesh, stage.theory, stage.modifiers, structure), hybrid, i - 1, i - 1)

\* One turn of the loop of build_atomate2_flow_for_workflow_spec.
BuildStage ==
    /\ phase = "building" /\ Len(jobs) < Len(stages)
    /\ LET i == Len(jobs) + 1
       IN  jobs' = Append(jobs, StageJob(stages[i], i))
    /\ UNCHANGED <<request, structure, given, mesh, phase, stages, previews>>

Finish ==
    /\ phase = "building" /\ Len(jobs) = Len(stages)
    /\ phase' = "built"
    /\ UNCHANGED <<request, structure, given, mesh, stages, previews, jobs>>

-----------------------------------------------------------------------------
(* The flow of a calculation spec.                                         *)

\* The method of a calculation with dispersion is the default.
LegacyMethod(spec) == IF "dispersion" \in spec.modifiers THEN "dftd3-bj" ELSE Absent

build_relax_flow(spec) ==
    <<FlowJob(RelaxGenerator(given, mesh, spec.theory, spec.modifiers, structure, LegacyMethod(spec), Absent),
              RunKwargs(spec.modifiers), 0, 0)>>

build_static_flow(spec) ==
    <<FlowJob(StaticGenerator(given, mesh, StageTheory(spec.theory), spec.modifiers, structure,
                              LegacyMethod(spec), Absent), RunKwargs(spec.modifiers), 0, 0)>>

\* (Faulty: the second relaxation starts again from the submitted structure.)
build_double_relax_flow_again(spec) == build_relax_flow(spec) \o build_relax_flow(spec)

build_double_relax_flow(spec) ==
    Append(build_relax_flow(spec),
           FlowJob(RelaxGenerator(given, mesh, "pbe", spec.modifiers, Absent, LegacyMethod(spec), Absent),
                   RunKwargs(spec.modifiers), 1, 0))

build_relax_static_flow(spec) ==
    Append(build_relax_flow(spec),
           FlowJob(StaticGenerator(given, mesh, StageTheory(spec.theory), spec.modifiers, Absent,
                                   LegacyMethod(spec), Absent), RunKwargs(spec.modifiers), 1, 1))

\* Only the purposes a density of states and a band structure have: PBE, no dispersion.
build_dos_flow(spec) ==
    Append(build_relax_static_flow(spec),
           FlowJob(DosGenerator(given, mesh, "pbe", spec.modifiers, Absent), RunKwargs(spec.modifiers), 2, 2))

build_band_structure_flow(spec) ==
    Append(build_relax_static_flow(spec),
           FlowJob(BandGenerator(given, mesh, "pbe", spec.modifiers, Absent), RunKwargs(spec.modifiers), 2, 2))

build_atomate2_flow_for_spec(spec) ==
    CASE spec.purpose = "static"         -> build_static_flow(spec)
      [] spec.purpose = "relax"          -> build_relax_flow(spec)
      [] spec.purpose = "relax_static"   -> build_relax_static_flow(spec)
      [] spec.purpose = "double_relax"   -> build_double_relax_flow(spec)
      [] spec.purpose = "dos"            -> build_dos_flow(spec)
      [] spec.purpose = "band_structure" -> build_band_structure_flow(spec)

\* The inputs of a calculation spec alone, which the preview of one stage shows.
build_vasp_input_set_generator_for_spec(spec) ==
    CASE spec.purpose \in {"static", "relax_static"} ->
            StaticGenerator(given, mesh, StageTheory(spec.theory), spec.modifiers, structure,
                            LegacyMethod(spec), Absent)
      [] spec.purpose \in {"relax", "double_relax"} ->
            RelaxGenerator(given, mesh, spec.theory, spec.modifiers, structure, LegacyMethod(spec), Absent)
      [] spec.purpose = "dos" -> DosGenerator(given, mesh, spec.theory, spec.modifiers, structure)
      [] spec.purpose = "band_structure" ->
            BandGenerator(given, mesh, spec.theory, spec.modifiers, structure)

\* The preview of a request of one stage: as a calculation spec, when it is one.
preview_generated_inputs ==
    LET spec == calculation_spec_from_workflow_spec(stages)
    IN  IF spec = Absent THEN PreviewGenerator(stages[1]) ELSE build_vasp_input_set_generator_for_spec(spec)

-----------------------------------------------------------------------------
Init ==
    /\ request \in Requests /\ structure \in Structures /\ given \in Givens /\ mesh \in Meshes
    /\ phase = "asked"
    /\ stages = << >> /\ previews = << >> /\ jobs = << >>

Next == Accept \/ PreviewStage \/ Submit \/ BuildStage \/ Finish

Spec == Init /\ [][Next]_vars

-----------------------------------------------------------------------------
(* Properties.                                                             *)

WithoutHubbard(incar) == "LDAU" \in DOMAIN incar /\ incar.LDAU = "None"

\* What the user was shown of a stage is what it is run with ("the preview uses the
\* same input-set generator path as workflow construction", generated_inputs.py), also
\* when one stage is shown as a calculation spec.  (A hybrid functional by INCAR
\* settings alone, which no page offers, is not in the preview.)
PreviewIsWhatRuns ==
    ~IsHybridIncar(given) =>
        /\ \A i \in DOMAIN jobs :
              /\ jobs[i].inputs = previews[i].inputs
              /\ jobs[i].kwargs.executable = previews[i].executable
        /\ phase = "built" /\ Len(stages) = 1 => preview_generated_inputs = jobs[1].inputs

\* Both tables of what is supported and both builders agree: a supported calculation
\* becomes stages that become it again, never an error, and its own builder makes the
\* same jobs of it.  Its old name gives it back, but for the modifiers a name has not.
\* A refusal is told for what it is, and a desired output is found again in its stages.
TheTwoSpecsAgree ==
    LET spec  == calculation_spec_from_workflow_spec(stages)
        asked == request.spec
        old   == calculation_spec_from_legacy(LegacyName(asked), Absent)
    IN  /\ phase # "asked" /\ request.kind = "calculation" =>
              IF CalculationIsValid(asked)
              THEN /\ phase = "refused" =>
                         structure.constrained \/ ("dft_u" \in asked.modifiers /\ ~structure.hubbard)
                   /\ phase # "refused" => spec = asked
                   /\ old = CalculationSpec(asked.purpose, "pbe", asked.modifiers \cap {"ions_only"})
                   /\ asked.modifiers = {} /\ asked.theory = "pbe" /\ phase # "refused" =>
                         stages = RECIPES[asked.purpose]
              ELSE /\ phase = "refused"
                   /\ RefusalReason(asked) = "modifiers" <=>
                         CompatibilityModifiers(asked.purpose, asked.theory) # {}
        /\ phase = "built" =>
              /\ spec # Bad
              /\ spec # Absent => jobs = build_atomate2_flow_for_spec(spec)
              /\ request.kind = "desired" => desired_output_from_workflow_spec(stages) = request.output

\* No layer takes back what another one decided: the treatments of the stage reach its
\* inputs and its executable, and a hybrid functional keeps what it needs.
TreatmentsReachTheInputs ==
    \A i \in DOMAIN jobs :
        LET incar == jobs[i].inputs.incar
            has(m) == m \in stages[i].modifiers
        IN  /\ has("dft_u") <=> ~WithoutHubbard(incar)
            /\ stages[i].options.dft_u # Absent => incar.LDAU = stages[i].options.dft_u
            /\ has("soc") <=> get(incar, "LSORBIT") = "T"
            /\ has("soc") =>
                  /\ get(incar, "ISPIN") = "None" /\ get(incar, "LELF") = "None" /\ incar.ISYM = "0"
                  /\ "MAGMOM" \in DOMAIN incar
                  /\ jobs[i].kwargs.executable = "vasp_ncl" /\ ~jobs[i].kwargs.auto_gamma
            /\ has("dispersion") <=> jobs[i].inputs.vdw # Absent
            /\ stages[i].theory = "hse06" =>
                  /\ incar.LHFCALC = "T" /\ incar.GGA = "PE" /\ "KPAR" \notin DOMAIN incar
                  /\ stages[i].type \in Analysis =>
                        "auto_nbands" \in jobs[i].kwargs.without /\ incar.ALGO = "Normal"

\* A stage that reads the charge density of the one before is given the directory of
\* a static stage that wrote one, with the same functional, +U and SOC; every job
\* starts from the structure of the job before it.
RestartsAreReadable ==
    \A i \in DOMAIN jobs :
        /\ jobs[i].from = i - 1
        /\ LET mine == jobs[i].inputs.incar
               prev == jobs[jobs[i].prev].inputs
           IN  get(mine, "ICHARG") = "11" =>
                  /\ jobs[i].prev = i - 1 /\ i > 1
                  /\ prev.class = "static"
                  /\ prev.incar.LCHARG = "T" \/ "LCHARG" \in DOMAIN given
                  /\ \A key \in {"LHFCALC", "LSORBIT", "ENCUT"} : get(prev.incar, key) = get(mine, key)
                  /\ WithoutHubbard(prev.incar) <=> WithoutHubbard(mine)

=============================================================================
