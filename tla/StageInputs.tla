----------------------------- MODULE StageInputs -----------------------------
(***************************************************************************)
(* The inputs of a stage: how BMD layers the INCAR settings of a stage     *)
(* (backend/workflows.py, calculations/vasp_stage_definitions.py and       *)
(* theory_policy.py) before it gives them to a generator of atomate2.      *)
(*                                                                         *)
(* Settings are a function from keys to values; only the keys that two     *)
(* layers may both write are kept, LDAU for all of those of DFT+U and KPAR *)
(* for the two that hybrid functionals do without.  "None" makes pymatgen  *)
(* leave a key out.                                                        *)
(***************************************************************************)
EXTENDS CalculationRegistry

update(settings, new) ==
    [key \in DOMAIN settings \cup DOMAIN new |-> IF key \in DOMAIN new THEN new[key] ELSE settings[key]]
setdefault(settings, defaults) == update(defaults, settings)
pop(settings, key)             == Restrict(settings, DOMAIN settings \ {key})
get(settings, key)             == IF key \in DOMAIN settings THEN settings[key] ELSE "None"

\* The stage asks for a hybrid functional by its settings.
IsHybridIncar(settings) == get(settings, "LHFCALC") = "T" \/ "AEXX" \in DOMAIN settings

-----------------------------------------------------------------------------
(* The layers.                                                             *)

WithSpin(settings, modifiers) ==
    IF "soc" \in modifiers THEN settings
    ELSE update(settings, [ISPIN |-> IF "spin_polarized" \in modifiers THEN "2" ELSE "1"])

\* "plain PBE means no Hubbard U unless DFT+U is explicitly selected".
WithoutU(settings, modifiers) ==
    IF "dft_u" \in modifiers THEN settings ELSE update(settings, [LDAU |-> "None"])

WithModifiers(settings, modifiers) ==
    LET s == WithoutU(WithSpin(settings, modifiers), modifiers)
    IN  IF "soc" \in modifiers
        THEN update(s, [LSORBIT |-> "T", ISYM |-> "0", LELF |-> "None", ISPIN |-> "None"])
        ELSE s

\* The moments a stage with SOC starts from: those given or known for the elements
\* when it is spin polarised or one of them calls for it, else zero.  There are none
\* as long as the structure is the result of another job.
WithMoments(settings, modifiers, structure) ==
    IF "soc" \notin modifiers \/ structure = Absent THEN settings
    ELSE update(settings, [MAGMOM |->
            IF structure.magnetic \/ "spin_polarized" \in modifiers THEN "moments" ELSE "zero"])

WithFrozenU(settings, frozen) == IF frozen = Absent THEN settings ELSE update(settings, [LDAU |-> frozen])

HSE06_STAGE_INCAR ==
    LET base == [LHFCALC |-> "T", AEXX |-> "0.25", GGA |-> "PE", ALGO |-> "Damped"]
    IN  [relax          |-> update(base, [PRECFOCK |-> "Fast"]),
         static         |-> update(base, [PRECFOCK |-> "Accurate", ISMEAR |-> "0"]),
         dos            |-> update(base, [ALGO |-> "Normal", PRECFOCK |-> "Fast", ISMEAR |-> "-5"]),
         band_structure |-> update(base, [ALGO |-> "Normal", PRECFOCK |-> "Fast", ISMEAR |-> "0",
                                          SIGMA |-> "0.01"])]

WithTheory(settings, theory, type) ==
    IF theory = "hse06" THEN pop(setdefault(settings, HSE06_STAGE_INCAR[type]), "KPAR") ELSE settings

WithEncutFloor(settings, floor) ==
    update(settings, [ENCUT |-> IF "ENCUT" \in DOMAIN settings /\ settings.ENCUT > floor
                                THEN settings.ENCUT ELSE floor])

RELAX_DEFAULTS == [ENCUT |-> 580, GGA |-> "None", ALGO |-> "Fast"]
RELAX_UNLESS_EXPLICIT == [LCHARG |-> "F", LWAVE |-> "F", LELF |-> "None", LORBIT |-> "None"]
STATIC_FINAL_DEFAULTS ==
    [GGA |-> "None", ALGO |-> "Normal", LWAVE |-> "F", LCHARG |-> "T", ISMEAR |-> "-5",
     SIGMA |-> "0.05", LORBIT |-> "11", LELF |-> "T"]
HSE_ANALYSIS_DEFAULTS == [LORBIT |-> "11"]

\* What a relaxation does without replaces what other layers set, but not what the
\* user gave.
WithRelaxBase(settings, explicit) ==
    update(setdefault(settings, RELAX_DEFAULTS),
           Restrict(RELAX_UNLESS_EXPLICIT, DOMAIN RELAX_UNLESS_EXPLICIT \ DOMAIN explicit))

WithStaticBase(settings) == WithEncutFloor(setdefault(settings, STATIC_FINAL_DEFAULTS), 620)

WithHybridAnalysisBase(settings) == WithEncutFloor(setdefault(settings, HSE_ANALYSIS_DEFAULTS), 620)

WithCores(settings, type) ==
    IF type \in {"relax", "static", "dos"} THEN update(settings, [NCORE |-> "8"]) ELSE settings

-----------------------------------------------------------------------------
(* The settings of each type of stage.  `given` are those of the user,     *)
(* `structure` the one whose elements decide the moments.                  *)

RelaxSettings(given, theory, modifiers, structure, frozen) ==
    LET treated == WithMoments(WithFrozenU(WithModifiers(given, modifiers), frozen), modifiers, structure)
        cell    == IF "ions_only" \in modifiers THEN update(treated, [ISIF |-> "2"]) ELSE treated
    IN  WithCores(WithRelaxBase(WithTheory(cell, theory, "relax"), given), "relax")

StaticSettings(given, theory, modifiers, structure, type) ==
    LET treated == WithMoments(WithModifiers(given, modifiers), modifiers, structure)
        hybrid  == WithTheory(treated, theory, "static")
        alone   == IF IsHybridIncar(hybrid) THEN pop(hybrid, "KPAR") ELSE hybrid
    IN  WithCores(WithStaticBase(alone), type)

\* A restart from the charge density of the static stage before it; it is hybrid only
\* by the settings of the user.
RestartSettings(given, modifiers, structure, type) ==
    LET theory == IF IsHybridIncar(given) THEN "hse06" ELSE "pbe"
    IN  update(StaticSettings(given, theory, modifiers, structure, type), [ICHARG |-> "11"])

HybridAnalysisSettings(given, modifiers, structure, type) ==
    LET treated == WithMoments(WithModifiers(given, modifiers), modifiers, structure)
    IN  WithCores(WithTheory(WithHybridAnalysisBase(treated), "hse06", type), type)

-----------------------------------------------------------------------------
(* The generators.                                                         *)

\* Gamma-only wins over the k-points of the user.
Kpoints(modifiers, kpoints) == IF "gamma_only" \in modifiers THEN "gamma" ELSE kpoints

\* A line density of the user, or the default; the other modes do not fit a path.
LineKpoints(kpoints) == IF kpoints = "line" THEN "line" ELSE "default line"

Generator(class, settings, kpoints, vdw, frozen) ==
    [class |-> class, incar |-> settings, kpoints |-> kpoints, vdw |-> vdw, frozen |-> frozen]

RelaxGenerator(given, kpoints, theory, modifiers, structure, method, frozen) ==
    Generator("relax", RelaxSettings(given, theory, modifiers, structure, frozen),
              Kpoints(modifiers, kpoints), method, frozen)

StaticGenerator(given, kpoints, theory, modifiers, structure, method, frozen) ==
    Generator("static", WithFrozenU(StaticSettings(given, theory, modifiers, structure, "static"), frozen),
              Kpoints(modifiers, kpoints), method, frozen)

DosGenerator(given, kpoints, theory, modifiers, structure) ==
    IF theory = "hse06"
    THEN Generator("hsebs uniform", HybridAnalysisSettings(given, modifiers, structure, "dos"),
                   Kpoints(modifiers, kpoints), Absent, Absent)
    ELSE Generator("nonscf uniform", RestartSettings(given, modifiers, structure, "dos"),
                   Kpoints(modifiers, kpoints), Absent, Absent)

\* A band structure needs its path of k-points.
BandIsRefused(modifiers) == "gamma_only" \in modifiers

\* With SOC the symmetry is off, so the weighted mesh of a hybrid band structure must
\* span the full zone.
BandGenerator(given, kpoints, theory, modifiers, structure) ==
    IF BandIsRefused(modifiers) THEN Bad
    ELSE IF theory = "hse06"
    THEN Generator(IF "soc" \in modifiers THEN "full zone hsebs line" ELSE "hsebs line",
                   HybridAnalysisSettings(given, modifiers, structure, "band_structure"),
                   LineKpoints(kpoints), Absent, Absent)
    ELSE Generator("nonscf line", RestartSettings(given, modifiers, structure, "band_structure"),
                   LineKpoints(kpoints), Absent, Absent)

\* How VASP is run: non-collinear stages by their own executable, which Custodian must
\* not replace by the gamma-only one, and with the handlers of BMD.
RunKwargs(modifiers) ==
    IF "soc" \in modifiers THEN [executable |-> "vasp_ncl", auto_gamma |-> FALSE, without |-> {}]
                           ELSE [executable |-> "vasp_std", auto_gamma |-> TRUE, without |-> {}]

\* (Faulty: the handlers of a hybrid analysis replace all there is.)
HybridAnalysisOnly(kwargs) == [executable |-> "vasp_std", auto_gamma |-> TRUE, without |-> {"auto_nbands"}]

HybridAnalysisKwargs(kwargs) == [kwargs EXCEPT !.without = {"auto_nbands"}]

=============================================================================
