-------------------------- MODULE CalculationRegistry --------------------------
(***************************************************************************)
(* What a calculation may ask for (backend/calculations/models.py and      *)
(* registry.py).  The same intent is written in two ways: a calculation    *)
(* spec (a purpose, a theory and modifiers), and a workflow spec (stages,  *)
(* each with a theory, modifiers and options of its own).  Each has a      *)
(* table of its own of what is supported, and they convert into each       *)
(* other.                                                                  *)
(*                                                                         *)
(* A spec is a record; labels are left out.  Bad stands for a calculation  *)
(* validation error.                                                       *)
(***************************************************************************)
EXTENDS Naturals, Sequences, SequencesExt

CONSTANTS Bad, Absent

Purposes   == {"relax", "relax_static", "double_relax", "static", "dos", "band_structure", "dielectric"}
Theories   == {"pbe", "r2scan", "hse06"}
Modifiers  == {"soc", "dft_u", "dispersion", "spin_polarized", "gamma_only", "ions_only"}
StageTypes == {"relax", "static", "dos", "band_structure", "phonon_forces"}

CalculationSpec(purpose, theory, modifiers) ==
    [purpose |-> purpose, theory |-> theory, modifiers |-> modifiers]

\* The options of a stage: a van der Waals method, frozen +U parameters, and any other.
NoOptions == [dispersion |-> Absent, dft_u |-> Absent, other |-> FALSE]

Stage(type, theory, modifiers) ==
    [type |-> type, theory |-> theory, modifiers |-> modifiers, options |-> NoOptions]

Is(stage, types, theory) == stage.type \in types /\ stage.theory = theory

-----------------------------------------------------------------------------
(* The supported calculation specs, and their names before there were any. *)

ACTIVE_UI == {"spin_polarized", "dft_u", "dispersion", "gamma_only"}

THEORY_PURPOSES ==
    [pbe |-> Purposes \ {"dielectric"}, r2scan |-> {}, hse06 |-> {"relax", "relax_static", "static"}]

CompatibilityModifiers(purpose, theory) ==
    CASE theory = "pbe" /\ purpose = "static"         -> SUBSET (ACTIVE_UI \cup {"soc"})
      [] theory = "pbe" /\ purpose = "relax"          -> SUBSET (ACTIVE_UI \cup {"ions_only"})
      [] theory = "pbe" /\ purpose \in {"relax_static", "double_relax"} -> SUBSET ACTIVE_UI
      [] theory = "pbe" /\ purpose = "dos"            -> SUBSET (ACTIVE_UI \ {"dispersion"})
      [] theory = "pbe" /\ purpose = "band_structure" -> SUBSET {"spin_polarized", "dft_u"}
      [] theory = "hse06" /\ purpose \in {"relax", "relax_static"} -> SUBSET {"spin_polarized", "gamma_only"}
      [] theory = "hse06" /\ purpose = "static"       -> SUBSET {"spin_polarized", "soc", "gamma_only"}
      [] OTHER -> {}

CalculationIsValid(spec) == spec.modifiers \in CompatibilityModifiers(spec.purpose, spec.theory)

validate_calculation_spec(spec) == IF CalculationIsValid(spec) THEN spec ELSE Bad

\* Why a calculation is refused: the user is told what else there is of it.
RefusalReason(spec) ==
    IF THEORY_PURPOSES[spec.theory] = {} THEN "theory"
    ELSE IF spec.purpose \notin THEORY_PURPOSES[spec.theory] THEN "purpose" ELSE "modifiers"

LegacyName(spec) == IF "ions_only" \in spec.modifiers THEN "relax_ions" ELSE spec.purpose

LEGACY_SPECS ==
    [n \in (Purposes \ {"dielectric"}) \cup {"relax_ions"} |->
        IF n = "relax_ions" THEN CalculationSpec("relax", "pbe", {"ions_only"})
                            ELSE CalculationSpec(n, "pbe", {})]

\* A missing name is static; every functional the old names know is PBE.
calculation_spec_from_legacy(name, potcar) ==
    IF name \notin DOMAIN LEGACY_SPECS \/ potcar \notin {"PBE", "PBE_52", "PBE_54", "PBE_64", Absent}
    THEN Bad ELSE validate_calculation_spec(LEGACY_SPECS[name])

-----------------------------------------------------------------------------
(* The supported stages.                                                   *)

THEORY_STAGES == [pbe |-> StageTypes \ {"phonon_forces"}, r2scan |-> {},
                  hse06 |-> StageTypes \ {"phonon_forces"}]

StageModifiers(type, theory) ==
    CASE theory = "pbe" /\ type = "static"           -> ACTIVE_UI \cup {"soc"}
      [] theory = "pbe" /\ type = "relax"            -> ACTIVE_UI \cup {"ions_only"}
      [] theory = "pbe" /\ type = "dos"              -> ACTIVE_UI \ {"dispersion"}
      [] theory = "pbe" /\ type = "band_structure"   -> ACTIVE_UI \ {"dispersion", "gamma_only"}
      [] theory = "hse06" /\ type \in {"static", "dos"} -> {"spin_polarized", "soc", "gamma_only"}
      [] theory = "hse06" /\ type = "band_structure" -> {"spin_polarized", "soc"}
      [] theory = "hse06" /\ type = "relax"          -> {"spin_polarized", "gamma_only"}
      [] OTHER -> {}

\* Stages whose tasks are derived from a result are a representation only.
IsExecutable(type) == type # "phonon_forces"

\* The van der Waals method of a stage: none without the modifier, and with it the
\* default when no option names one.
DispersionMethod(stage) ==
    IF "dispersion" \notin stage.modifiers THEN Absent
    ELSE IF stage.options.dispersion = Absent THEN "dftd3-bj" ELSE stage.options.dispersion

DispersionIsValid(stage) ==
    /\ stage.options.dispersion # Absent => "dispersion" \in stage.modifiers
    /\ "dispersion" \in stage.modifiers =>
          Is(stage, {"relax", "static"}, "pbe") /\ DispersionMethod(stage) \in {"dftd3", "dftd3-bj"}

FrozenUIsValid(stage) ==
    stage.options.dft_u # Absent =>
        /\ "dft_u" \in stage.modifiers
        /\ Is(stage, {"relax", "static"}, "pbe")
        /\ stage.options.dft_u # Bad

StageIsValid(stage) ==
    /\ IsExecutable(stage.type)
    /\ ~stage.options.other
    /\ stage.type \in THEORY_STAGES[stage.theory]
    /\ stage.modifiers \subseteq StageModifiers(stage.type, stage.theory)
    /\ DispersionIsValid(stage) /\ FrozenUIsValid(stage)

-----------------------------------------------------------------------------
(* The supported sequences of stages.                                      *)

Analysis == {"dos", "band_structure"}

\* The generators of atomate2 that restart from a fixed charge density (ICHARG = 11),
\* and those that size NBANDS from the stage before.
ReadsChargeDensity(stage) == Is(stage, Analysis, "pbe")
InheritsBandCount(stage)  == stage.type \in Analysis

Agree(before, stage, modifier) == (modifier \in before.modifiers) <=> (modifier \in stage.modifiers)

\* (Faulty: only SOC is compared.)
ElectronicDataSocOnly(before, stage) ==
    ReadsChargeDensity(stage) \/ InheritsBandCount(stage) => Agree(before, stage, "soc")

ElectronicDataFits(before, stage) ==
    /\ ReadsChargeDensity(stage) => Agree(before, stage, "dft_u")
    /\ ReadsChargeDensity(stage) \/ InheritsBandCount(stage) => Agree(before, stage, "soc")

DispersionFits(before, stage) ==
    Is(before, {"relax", "static"}, "pbe") /\ Is(stage, {"relax", "static"}, "pbe") =>
        DispersionMethod(before) = DispersionMethod(stage)

AcceptsPrecursor(before, stage) ==
    \/ before.theory = stage.theory
    \/ Is(stage, {"dos"}, "hse06") /\ before.theory \in {"pbe", "hse06"}

WorkflowIsValid(stages) ==
    /\ stages # << >>
    /\ \A i \in DOMAIN stages : StageIsValid(stages[i])
    /\ \A i \in 2..Len(stages) :
          DispersionFits(stages[i - 1], stages[i]) /\ ElectronicDataFits(stages[i - 1], stages[i])
    /\ \A i \in DOMAIN stages : stages[i].type \in Analysis =>
          /\ i = Len(stages)
          /\ i > 1
          /\ stages[i - 1].type = "static" /\ AcceptsPrecursor(stages[i - 1], stages[i])

validate_workflow_spec(stages) == IF WorkflowIsValid(stages) THEN stages ELSE Bad

\* What a client sends may not hold what only BMD Compute writes.
validate_user_workflow_spec(stages) ==
    IF \E i \in DOMAIN stages : stages[i].options.other \/ stages[i].options.dft_u # Absent
    THEN Bad ELSE validate_workflow_spec(stages)

-----------------------------------------------------------------------------
(* Between the two.                                                        *)

PURPOSE_STAGES ==
    [relax |-> <<"relax">>, static |-> <<"static">>, relax_static |-> <<"relax", "static">>,
     double_relax |-> <<"relax", "relax">>, dos |-> <<"relax", "static", "dos">>,
     band_structure |-> <<"relax", "static", "band_structure">>]

\* Stages of some types, all of one theory and with the same modifiers.
UniformStages(types, theory, modifiers) == [i \in DOMAIN types |-> Stage(types[i], theory, modifiers)]

workflow_spec_from_calculation_spec(spec) ==
    IF ~CalculationIsValid(spec) \/ spec.purpose \notin DOMAIN PURPOSE_STAGES THEN Bad
    ELSE validate_workflow_spec(UniformStages(PURPOSE_STAGES[spec.purpose], spec.theory, spec.modifiers))

\* Absent when no purpose stands for the stages.  For one stage, or a relaxation and
\* a static energy, the purpose is taken to be supported: it is an error if it is not.
calculation_spec_from_workflow_spec(stages) ==
    LET types  == [i \in DOMAIN stages |-> stages[i].type]
        first  == stages[1]
        shared == \A i \in DOMAIN stages :
                     stages[i].theory = first.theory /\ stages[i].modifiers = first.modifiers
        fits   == {p \in DOMAIN PURPOSE_STAGES : PURPOSE_STAGES[p] = types}
        As(p)  == CalculationSpec(p, first.theory, first.modifiers)
    IN  IF ~WorkflowIsValid(stages) THEN Bad
        ELSE IF (\E i \in DOMAIN stages : stages[i].options # NoOptions) \/ ~shared \/ fits = {} THEN Absent
        ELSE LET p == CHOOSE q \in fits : TRUE
             IN  IF CalculationIsValid(As(p)) THEN As(p)
                 ELSE IF p \in {"relax", "static", "relax_static"} THEN Bad ELSE Absent

workflow_stage_directories(stages) ==
    IF Len(stages) <= 1 THEN << >>
    ELSE IF Len(stages) = 2 /\ \A i \in 1..2 : Is(stages[i], {"relax"}, "pbe")
    THEN <<"relax_01", "relax_02">>
    ELSE [i \in DOMAIN stages |-> <<"stage", i>>]

\* The recommended workflows, each the plain form of a purpose.
RECIPES ==
    LET pbe(types) == UniformStages(types, "pbe", {})
    IN  [relax |-> pbe(<<"relax">>), static |-> pbe(<<"static">>),
         relax_static |-> pbe(<<"relax", "static">>), double_relax |-> pbe(<<"relax", "relax">>),
         dos |-> pbe(<<"relax", "static", "dos">>),
         band_structure |-> pbe(<<"relax", "static", "band_structure">>)]

-----------------------------------------------------------------------------
(* The desired outputs a user may choose instead.                          *)

DESIRED_OUTPUTS ==
    [energy_only |-> <<Stage("static", "pbe", {})>>,
     relaxed_structure |-> <<Stage("relax", "pbe", {}), Stage("relax", "pbe", {})>>,
     electronic_dos |-> <<Stage("relax", "pbe", {}), Stage("static", "hse06", {}), Stage("dos", "hse06", {})>>,
     electronic_band_structure |->
        <<Stage("relax", "pbe", {}), Stage("static", "hse06", {}), Stage("band_structure", "hse06", {})>>]

desired_output_from_workflow_spec(stages) ==
    LET Shape(s) == [i \in DOMAIN s |-> <<s[i].type, s[i].theory>>]
        same     == {o \in DOMAIN DESIRED_OUTPUTS : Shape(DESIRED_OUTPUTS[o]) = Shape(stages)}
    IN  IF same = {} THEN "custom" ELSE CHOOSE o \in same : TRUE

=============================================================================
