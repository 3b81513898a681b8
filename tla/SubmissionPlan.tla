----------------------------- MODULE SubmissionPlan -----------------------------
(***************************************************************************)
(* From a request to the calculation that is prepared for it: what the     *)
(* routes of the browser (main.py) and the planner of the machine API do   *)
(* alike.  The workflow of the request, the treatments of a Desired        *)
(* Output, admission, the previews of the inputs, and the submission spec  *)
(* (backend/submission.py), which the fingerprint of an attempt is taken   *)
(* of.                                                                     *)
(***************************************************************************)
EXTENDS ScientificResolution

-----------------------------------------------------------------------------
(* The workflow of a request.                                              *)

Workflow(stages, recipe) == [stages |-> stages, recipe |-> recipe]

\* The name of a desired output goes before the stages that come with it.
desired_output_workflow_spec(name) ==
    IF name \in DOMAIN DESIRED_OUTPUTS THEN Workflow(DESIRED_OUTPUTS[name], name) ELSE Absent

workflow_spec_from_form(name, json) ==
    IF desired_output_workflow_spec(name) # Absent THEN desired_output_workflow_spec(name)
    ELSE IF validate_user_workflow_spec(json.stages) = Bad THEN Bad ELSE json

\* The stages that are run, and what was resolved of a desired output.
resolve_workflow_for_structure(structure, name, w) ==
    IF desired_output_workflow_spec(name) = Absent
    THEN [stages |-> validate_workflow_spec(w.stages), resolution |-> Absent]
    ELSE LET Resolved(resolution) ==
                 IF resolution = Bad THEN [stages |-> Bad, resolution |-> Absent]
                 ELSE [stages |-> resolution.stages, resolution |-> resolution]
         IN  Resolved(resolve_default_treatments(structure, w.stages))

-----------------------------------------------------------------------------
(* The calculation of a request: all of the submission spec but the        *)
(* attempt and its token.                                                  *)

\* The record of the resolution, with the inputs generated for DFT+U.
automatic_treatments(structure, resolved) ==
    IF resolved.resolution = Absent THEN Absent
    ELSE [resolution |-> resolved.resolution,
          generated  |-> IF resolved.resolution.dft_u = Absent THEN {}
                         ELSE prepared_dft_u_record(structure, resolved.stages)]

Specification(stages, recipe, stamp, version, treatments) ==
    [stages |-> stages, recipe |-> recipe, stamp |-> stamp, version |-> version, treatments |-> treatments]

\* DFT+U is refused in the preview when no element has a U.
PreviewsFail(structure, stages) ==
    \E i \in DOMAIN stages :
        "dft_u" \in stages[i].modifiers /\ stages[i].options.dft_u = Absent /\ TriggeringElements(structure) = {}

\* Bad when the calculation is refused: also when its stages look like a purpose that
\* does not support their modifiers.
create_submission_spec(structure, name, w, stamp, version) ==
    LET Refused(stages) ==
            \/ stages = Bad
            \/ calculation_spec_from_workflow_spec(stages) = Bad
            \/ require_admissible_new_calculation(stages) = Bad
            \/ PreviewsFail(structure, stages)
        Specified(resolved) ==
            IF Refused(resolved.stages) THEN Bad
            ELSE Specification(resolved.stages, w.recipe, stamp, version,
                               automatic_treatments(structure, resolved))
    IN  IF w = Bad \/ structure.constrained THEN Bad
        ELSE IF calculation_spec_from_workflow_spec(w.stages) = Bad THEN Bad
        ELSE Specified(resolve_workflow_for_structure(structure, name, w))

=============================================================================
