---------------------------- MODULE MCWorkflowBuild ----------------------------
(* An instance of WorkflowBuild: every calculation spec, old name and desired *)
(* output, and workflows of up to three stages out of a selection.            *)
EXTENDS WorkflowBuild

CONSTANT MaxStages

With(stage, dispersion, dft_u) ==
    [stage EXCEPT !.options = [dispersion |-> dispersion, dft_u |-> dft_u, other |-> FALSE]]

\* The stages a workflow is made of: each type and theory, each treatment once.
Plain == {Stage(t, th, {}) : t \in StageTypes \ {"phonon_forces"}, th \in {"pbe", "hse06"}}
Treated ==
    {Stage("static", "pbe", {"soc"}), Stage("static", "pbe", {"dft_u"}), Stage("static", "pbe", {"dispersion"}),
     Stage("static", "hse06", {"soc"}), Stage("dos", "pbe", {"dft_u"}), Stage("dos", "hse06", {"soc"}),
     Stage("band_structure", "hse06", {"soc", "spin_polarized"}), Stage("relax", "pbe", {"dispersion"}),
     With(Stage("relax", "pbe", {"dispersion"}), "dftd3", Absent),
     With(Stage("static", "pbe", {"dft_u", "soc"}), Absent, "frozen")}
Odd ==
    {Stage("phonon_forces", "pbe", {}), Stage("relax", "r2scan", {}), Stage("relax", "pbe", {"soc"}),
     With(Stage("static", "pbe", {"dispersion"}), "dftd4", Absent),
     With(Stage("static", "pbe", {}), "dftd3", Absent),
     With(Stage("static", "pbe", {"dft_u"}), Absent, Bad),
     With(Stage("dos", "pbe", {"dft_u"}), Absent, "frozen"),
     [Stage("relax", "pbe", {}) EXCEPT !.options.other = TRUE]}

AllStages == Plain \cup Treated \cup Odd

Workflows ==
    UNION {[1..n -> Plain \cup Treated] : n \in 1..MaxStages} \cup {<<s>> : s \in Odd} \cup {<< >>}

AllRequests ==
    {[kind |-> k, stages |-> w] : k \in {"custom", "stages"}, w \in Workflows}
    \cup {[kind |-> "calculation", spec |-> CalculationSpec(p, t, m)] :
              p \in Purposes, t \in Theories, m \in SUBSET Modifiers}
    \cup {[kind |-> "legacy", name |-> n, potcar |-> p] :
              n \in (DOMAIN LEGACY_SPECS) \cup {"gw"}, p \in {"PBE_64", "LDA", Absent}}
    \cup {[kind |-> "desired", output |-> o] : o \in DOMAIN DESIRED_OUTPUTS}

AllStructures ==
    {[constrained |-> c, magnetic |-> m, hubbard |-> m] : c \in {FALSE}, m \in BOOLEAN}
    \cup {[constrained |-> TRUE, magnetic |-> FALSE, hubbard |-> FALSE]}

AllGivens ==
    {[k \in {} |-> "None"], [KPAR |-> "2", LCHARG |-> "F"], [ENCUT |-> 700, LORBIT |-> "10"],
     [LHFCALC |-> "T", KPAR |-> "2"]}
=============================================================================
