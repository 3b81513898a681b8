-------------------------- MODULE ScientificResolution --------------------------
(***************************************************************************)
(* What BMD Compute itself adds to a Desired Output (backend/calculations, *)
(* method_considerations.py, dft_u_policy.py, default_treatments.py and    *)
(* admission.py).  A structure is observed; what is observed calls for     *)
(* considerations, each about a modifier; and each consideration ends as   *)
(* applied to stages, omitted from some, not applicable or advisory.       *)
(*                                                                         *)
(* A structure is what the rules tell apart: its elements in the order of  *)
(* the POSCAR, the most electronegative one, the dimensionality of its     *)
(* bonds ("failed" when the analysis raised), the charge-balanced          *)
(* assignments of oxidation states as the d electrons they leave to each   *)
(* element with a U, and whether it has selective dynamics.                *)
(***************************************************************************)
EXTENDS CalculationRegistry

Elements(structure) == {structure.elements[i] : i \in DOMAIN structure.elements}

-----------------------------------------------------------------------------
(* Considerations.                                                         *)

SOC_TRIGGER_CLASSES ==
    [transition_4d |-> {"Mo", "Cd"}, transition_5d |-> {"Hf", "W", "Ir"}, lanthanides |-> {"Eu"},
     actinides |-> {"U"}, heavy_p_block |-> {"Bi", "Pb"}]

SPIN_TRIGGER_CLASSES ==
    [screen_3d |-> {"Fe", "V", "Ni"}, screen_4d |-> {"Mo"}, screen_5d |-> {"Ir"},
     lanthanide_screen |-> {"Eu"}, actinide_screen |-> {"U"}]

Triggers(structure, classes) == \E c \in DOMAIN classes : classes[c] \cap Elements(structure) # {}

\* The U of the MP table, by the anion that decides; none for any other element.
HUBBARD_U ==
    [O |-> [Fe |-> "5.3", V |-> "3.25", W |-> "6.2", Mo |-> "4.38", Ni |-> "6.2"],
     F |-> [Fe |-> "5.3", V |-> "3.25", W |-> "6.2", Mo |-> "4.38", Ni |-> "6.2"]]

U_of(anion, element) == IF element \in DOMAIN HUBBARD_U[anion] THEN HUBBARD_U[anion][element] ELSE "0"

TriggeringElements(structure) ==
    IF structure.most \notin DOMAIN HUBBARD_U THEN {}
    ELSE Elements(structure) \cap DOMAIN HUBBARD_U[structure.most]

frozen_parameters(structure) == [e \in Elements(structure) |-> U_of(structure.most, e)]

\* Every assignment leaves every triggering element without d electrons.
AllD0(structure) ==
    \A guess \in structure.guesses : \A e \in TriggeringElements(structure) : guess[e] = 0

\* Without an assignment the gate cannot be evaluated, and the rule of MP applies.
evaluate_dft_u(structure) ==
    LET Outcome(gate, decision) ==
            [gate |-> gate, decision |-> decision,
             parameters |-> IF decision = "apply" THEN frozen_parameters(structure) ELSE Absent]
    IN  IF TriggeringElements(structure) = {} THEN Outcome("not_evaluated", "not_triggered")
        ELSE IF structure.guesses = {}        THEN Outcome("unavailable", "apply")
        ELSE IF AllD0(structure)              THEN Outcome("all_d0", "suppress")
        ELSE Outcome("d_electrons_present", "apply")

Considerations == {"dispersion", "spin", "soc", "dft_u"}

considerations_for(structure) ==
    {c \in Considerations :
        CASE c = "dispersion" -> structure.dim = "2"
          [] c = "spin"       -> Triggers(structure, SPIN_TRIGGER_CLASSES)
          [] c = "soc"        -> Triggers(structure, SOC_TRIGGER_CLASSES)
          [] c = "dft_u"      -> evaluate_dft_u(structure).decision # "not_triggered"}

ModifierOf == [dispersion |-> "dispersion", spin |-> "spin_polarized", soc |-> "soc", dft_u |-> "dft_u"]

-----------------------------------------------------------------------------
(* Admission: what a new calculation may not ask for, although records of  *)
(* old ones may hold it.                                                   *)

UNSUPPORTED_NEW_CALCULATION_COMBINATIONS == {<<"hse06", "soc">>}

modifier_is_admissible_for_new_theory(theory, modifier) ==
    <<theory, modifier>> \notin UNSUPPORTED_NEW_CALCULATION_COMBINATIONS

stage_is_admissible_for_new_calculation(stage) ==
    \A m \in stage.modifiers : modifier_is_admissible_for_new_theory(stage.theory, m)

require_admissible_new_calculation(stages) ==
    IF /\ WorkflowIsValid(stages)
       /\ \A i \in DOMAIN stages : stage_is_admissible_for_new_calculation(stages[i])
    THEN stages ELSE Bad

\* What the page says of a consideration for a workflow.
WithModifier(stage, modifier) == [stage EXCEPT !.modifiers = @ \cup {modifier}]

StageIsSupported(stage) == StageIsValid(stage) /\ stage_is_admissible_for_new_calculation(stage)

workflow_modifier_support(stages, modifier) ==
    LET able == {i \in DOMAIN stages : StageIsSupported(WithModifier(stages[i], modifier))}
    IN  IF ~WorkflowIsValid(stages) THEN "invalid_workflow"
        ELSE IF \E i \in able : modifier \in stages[i].modifiers THEN "already_selected"
        ELSE IF able # {} THEN "not_selected" ELSE "unsupported_for_workflow"

-----------------------------------------------------------------------------
(* The automatic treatments of a Desired Output.                           *)

\* A PBE relaxation or static energy takes the van der Waals correction and the U.
ReceivesDefault(stage) == Is(stage, {"relax", "static"}, "pbe")

\* (Faulty: SOC is offered to every stage that is not a relaxation.)
ReceivesSocUnchecked(stage) == stage.type # "relax"

ReceivesSoc(stage) == stage.type # "relax" /\ modifier_is_admissible_for_new_theory(stage.theory, "soc")

Treated(stage, consideration, parameters) ==
    LET with == WithModifier(stage, ModifierOf[consideration])
    IN  CASE consideration = "dispersion" -> [with EXCEPT !.options.dispersion = "dftd3-bj"]
          [] consideration = "dft_u"      -> [with EXCEPT !.options.dft_u = parameters]
          [] OTHER -> with

\* The stages a consideration is applied to.
Receiving(stages, consideration) ==
    {i \in DOMAIN stages :
        CASE consideration = "spin" -> TRUE
          [] consideration = "soc"  -> ReceivesSoc(stages[i])
          [] OTHER -> ReceivesDefault(stages[i])}

\* SOC is left out of the stages whose theory is closed to it, and said to be.
OmittedFrom(stages, consideration) ==
    IF consideration # "soc" THEN {}
    ELSE {i \in DOMAIN stages : stages[i].type # "relax" /\ ~ReceivesSoc(stages[i])}

\* Spin, then dispersion, SOC and DFT+U; a DFT+U that is suppressed is not applied.
IsApplied(evaluation, consideration) ==
    consideration = "dft_u" => evaluation.decision = "apply"

ApplyTo(stages, consideration, applied, parameters) ==
    [i \in DOMAIN stages |->
        IF consideration \in DOMAIN applied /\ i \in applied[consideration]
        THEN Treated(stages[i], consideration, parameters) ELSE stages[i]]

ApplyAll(base, applied, parameters) ==
    LET Applying(stages, c) == ApplyTo(stages, c, applied, parameters)
    IN  Applying(Applying(Applying(Applying(base, "spin"), "dispersion"), "soc"), "dft_u")

applied_treatments(structure, base) ==
    LET evaluation == evaluate_dft_u(structure)
    IN  [c \in considerations_for(structure) |-> IF IsApplied(evaluation, c) THEN Receiving(base, c) ELSE {}]

omitted_treatments(structure, base) == [c \in considerations_for(structure) |-> OmittedFrom(base, c)]

resolved_stages(structure, base) ==
    ApplyAll(base, applied_treatments(structure, base), evaluate_dft_u(structure).parameters)

Resolution(structure, base) ==
    LET applied   == applied_treatments(structure, base)
        omitted   == omitted_treatments(structure, base)
        untreated == {c \in DOMAIN applied : applied[c] = {} /\ omitted[c] = {}}
    IN  [stages         |-> resolved_stages(structure, base),
         applied        |-> applied,
         omitted        |-> omitted,
         not_applicable |-> untreated \cap {"soc", "dft_u"},
         advisory       |-> untreated \ {"soc", "dft_u"},
         dft_u          |-> IF "dft_u" \in DOMAIN applied THEN evaluate_dft_u(structure) ELSE Absent]

\* Bad when the dimensionality analysis failed, or a stage cannot take a treatment.
resolve_default_treatments(structure, base) ==
    IF structure.dim = "failed" THEN Bad
    ELSE IF validate_workflow_spec(resolved_stages(structure, base)) = Bad THEN Bad
    ELSE Resolution(structure, base)

\* What the page says became of a consideration; an omission comes first, so that its
\* warning is shown even when other stages were treated.
automatic_application_state(resolution, consideration) ==
    IF resolution = Absent THEN "advisory"
    ELSE IF resolution.omitted[consideration] # {} THEN "omitted_unsupported"
    ELSE IF resolution.applied[consideration] # {} THEN "applied"
    ELSE IF consideration \in resolution.not_applicable THEN "not_applicable" ELSE "advisory"

-----------------------------------------------------------------------------
(* What Prepare records of DFT+U, and what POWER compares with it.         *)

\* The settings pymatgen writes for a stage, in the order of the POSCAR.
generated_dft_u_settings(structure, stage) ==
    [symbols |-> structure.elements,
     U       |-> [i \in DOMAIN structure.elements |-> stage.options.dft_u[structure.elements[i]]]]

\* (Faulty: the previews are numbered from 0.)
StageNumberFromZero(i) == i - 1

StageNumber(i) == i

prepared_dft_u_record(structure, stages) ==
    {[stage_index |-> StageNumber(i), type |-> stages[i].type, theory |-> stages[i].theory,
      settings |-> generated_dft_u_settings(structure, stages[i])] :
        i \in {j \in DOMAIN stages : stages[j].options.dft_u # Absent}}

\* The record of the i-th stage of the flow, or Absent.
ExpectedSettings(record, i) ==
    LET of == {entry \in record : entry.stage_index = i}
    IN  IF of = {} THEN Absent ELSE CHOOSE entry \in of : TRUE

=============================================================================
