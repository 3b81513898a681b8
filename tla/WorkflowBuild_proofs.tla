-------------------------- MODULE WorkflowBuild_proofs --------------------------
(***************************************************************************)
(* Proofs about WorkflowBuild, for any requests, stages, structures and    *)
(* settings.  A step only adds the inputs of the next stage, so the        *)
(* properties are about what a stage of a valid workflow becomes: through  *)
(* the layers of its settings, key by key.                                 *)
(***************************************************************************)
EXTENDS WorkflowBuild, SequenceTheorems, TLAPS

\* t says of a key what s says.
Keeps(s, t, key) == (key \in DOMAIN t <=> key \in DOMAIN s) /\ (key \in DOMAIN s => t[key] = s[key])

Says(s, key, value) == key \in DOMAIN s /\ s[key] = value

-----------------------------------------------------------------------------
(* What each layer leaves.                                                 *)

LEMMA UpdateKeeps ==
    ASSUME NEW s, NEW new, NEW key
    PROVE  /\ key \notin DOMAIN new => Keeps(s, update(s, new), key)
           /\ key \in DOMAIN new => Says(update(s, new), key, new[key])
           /\ key \in DOMAIN s => Keeps(s, setdefault(s, new), key)
           /\ key \notin DOMAIN s => Keeps(new, setdefault(s, new), key)
BY DEF update, setdefault, Keeps, Says

LEMMA PopKeeps ==
    ASSUME NEW s, NEW popped, NEW key
    PROVE  /\ key # popped => Keeps(s, pop(s, popped), key)
           /\ popped \notin DOMAIN pop(s, popped)
BY DEF pop, Restrict, Keeps

LEMMA SpinKeeps ==
    ASSUME NEW s, NEW m, NEW key, key # "ISPIN"
    PROVE  Keeps(s, WithSpin(s, m), key)
<1>1. key \notin DOMAIN [ISPIN |-> IF "spin_polarized" \in m THEN "2" ELSE "1"]
  OBVIOUS
<1> QED
  BY <1>1, UpdateKeeps DEF WithSpin, Keeps

LEMMA WithoutUKeeps ==
    ASSUME NEW s, NEW m, NEW key
    PROVE  /\ key # "LDAU" \/ "dft_u" \in m => Keeps(s, WithoutU(s, m), key)
           /\ "dft_u" \notin m => Says(WithoutU(s, m), "LDAU", "None")
<1>1. DOMAIN [LDAU |-> "None"] = {"LDAU"} /\ [LDAU |-> "None"].LDAU = "None"
  OBVIOUS
<1>2. CASE "dft_u" \in m
  BY <1>2 DEF WithoutU, Keeps
<1>3. CASE "dft_u" \notin m
  BY <1>1, <1>3, UpdateKeeps DEF WithoutU
<1> QED BY <1>2, <1>3

SocKeys == {"LSORBIT", "ISYM", "LELF", "ISPIN"}

LEMMA ModifiersKeep ==
    ASSUME NEW s, NEW m, NEW key
    PROVE  LET t == WithModifiers(s, m)
           IN  /\ key \notin {"LSORBIT", "ISYM", "LELF", "ISPIN", "LDAU"} => Keeps(s, t, key)
               /\ "soc" \notin m => Keeps(s, t, "LSORBIT")
               /\ "soc" \in m => /\ Says(t, "LSORBIT", "T") /\ Says(t, "ISYM", "0")
                                 /\ Says(t, "LELF", "None") /\ Says(t, "ISPIN", "None")
               /\ "dft_u" \in m => Keeps(s, t, "LDAU")
               /\ "dft_u" \notin m => Says(t, "LDAU", "None")
<1> DEFINE u   == WithoutU(WithSpin(s, m), m)
           new == [LSORBIT |-> "T", ISYM |-> "0", LELF |-> "None", ISPIN |-> "None"]
<1>1. \A k : k \notin {"ISPIN", "LDAU"} => Keeps(s, u, k)
  BY SpinKeeps, WithoutUKeeps DEF Keeps
<1>2. "dft_u" \in m => Keeps(s, u, "LDAU")
  BY SpinKeeps, WithoutUKeeps DEF Keeps
<1>3. "dft_u" \notin m => Says(u, "LDAU", "None")
  BY WithoutUKeeps
<1>4. /\ DOMAIN new = {"LSORBIT", "ISYM", "LELF", "ISPIN"}
      /\ new.LSORBIT = "T" /\ new.ISYM = "0" /\ new.LELF = "None" /\ new.ISPIN = "None"
  OBVIOUS
<1>5. WithModifiers(s, m) = IF "soc" \in m THEN update(u, new) ELSE u
  BY DEF WithModifiers
<1> HIDE DEF u, new
<1>6. CASE "soc" \notin m
  BY <1>1, <1>2, <1>3, <1>5, <1>6
<1>7. CASE "soc" \in m
  <2>1. \A k : k \notin DOMAIN new => Keeps(u, update(u, new), k)
    BY UpdateKeeps
  <2>2. \A k : k \in DOMAIN new => Says(update(u, new), k, new[k])
    BY UpdateKeeps
  <2> QED
    BY <1>1, <1>2, <1>3, <1>4, <1>5, <1>7, <2>1, <2>2 DEF Keeps, Says
<1> QED BY <1>6, <1>7

LEMMA MomentsKeep ==
    ASSUME NEW s, NEW m, NEW at, NEW key
    PROVE  /\ key # "MAGMOM" => Keeps(s, WithMoments(s, m, at), key)
           /\ "soc" \in m /\ at # Absent => "MAGMOM" \in DOMAIN WithMoments(s, m, at)
           /\ "soc" \notin m => WithMoments(s, m, at) = s
<1> DEFINE new == [MAGMOM |-> IF at.magnetic \/ "spin_polarized" \in m THEN "moments" ELSE "zero"]
<1>1. DOMAIN new = {"MAGMOM"}
  OBVIOUS
<1> HIDE DEF new
<1>2. WithMoments(s, m, at) = IF "soc" \notin m \/ at = Absent THEN s ELSE update(s, new)
  BY DEF WithMoments, new
<1> QED
  BY <1>1, <1>2, UpdateKeeps DEF Keeps, Says

LEMMA FrozenKeeps ==
    ASSUME NEW s, NEW frozen, NEW key
    PROVE  /\ key # "LDAU" \/ frozen = Absent => Keeps(s, WithFrozenU(s, frozen), key)
           /\ frozen # Absent => Says(WithFrozenU(s, frozen), "LDAU", frozen)
<1>1. DOMAIN [LDAU |-> frozen] = {"LDAU"} /\ [LDAU |-> frozen].LDAU = frozen
  OBVIOUS
<1> QED
  BY <1>1, UpdateKeeps DEF Keeps, Says, WithFrozenU

HybridKeys == {"LHFCALC", "AEXX", "GGA", "ALGO", "PRECFOCK", "ISMEAR", "SIGMA"}

LEMMA HybridIncar ==
    ASSUME NEW type \in {"relax", "static", "dos", "band_structure"}
    PROVE  LET hybrid == HSE06_STAGE_INCAR[type]
           IN  /\ DOMAIN hybrid \subseteq HybridKeys /\ {"LHFCALC", "GGA", "ALGO"} \subseteq DOMAIN hybrid
               /\ hybrid.LHFCALC = "T" /\ hybrid.GGA = "PE"
               /\ type \in Analysis => hybrid.ALGO = "Normal"
BY DEF HSE06_STAGE_INCAR, HybridKeys, Analysis, update

LEMMA TheoryKeeps ==
    ASSUME NEW s, NEW theory, NEW type \in {"relax", "static", "dos", "band_structure"}, NEW key
    PROVE  LET t == WithTheory(s, theory, type)
               Given(k) == k \in DOMAIN s
           IN  /\ theory # "hse06" => t = s
               /\ key # "KPAR" /\ (key \notin HybridKeys \/ Given(key)) => Keeps(s, t, key)
               /\ theory = "hse06" =>
                     /\ "KPAR" \notin DOMAIN t
                     /\ ~Given("LHFCALC") => Says(t, "LHFCALC", "T")
                     /\ ~Given("GGA") => Says(t, "GGA", "PE")
                     /\ ~Given("ALGO") /\ type \in Analysis => Says(t, "ALGO", "Normal")
                     /\ "LHFCALC" \in DOMAIN t
<1> DEFINE hybrid == HSE06_STAGE_INCAR[type]
           u      == setdefault(s, hybrid)
<1>1. CASE theory # "hse06"
  BY <1>1 DEF WithTheory, Keeps
<1>2. CASE theory = "hse06"
  <2>1. WithTheory(s, theory, type) = pop(u, "KPAR")
    BY <1>2 DEF WithTheory
  <2>2. \A k : /\ k \in DOMAIN s => Keeps(s, u, k)
               /\ k \notin DOMAIN s => Keeps(hybrid, u, k)
    BY UpdateKeeps
  <2>3. \A k : k # "KPAR" => Keeps(u, pop(u, "KPAR"), k)
    BY PopKeeps
  <2>4. "KPAR" \notin DOMAIN pop(u, "KPAR")
    BY PopKeeps
  <2>5. /\ DOMAIN hybrid \subseteq HybridKeys /\ {"LHFCALC", "GGA", "ALGO"} \subseteq DOMAIN hybrid
        /\ hybrid.LHFCALC = "T" /\ hybrid.GGA = "PE"
        /\ type \in Analysis => hybrid.ALGO = "Normal"
    BY HybridIncar
  <2> HIDE DEF hybrid, u
  <2> QED
    BY <1>2, <2>1, <2>2, <2>3, <2>4, <2>5 DEF Keeps, Says
<1> QED BY <1>1, <1>2

LEMMA FloorKeeps ==
    ASSUME NEW s, NEW floor, NEW key, key # "ENCUT"
    PROVE  Keeps(s, WithEncutFloor(s, floor), key)
<1> DEFINE new == [ENCUT |-> IF "ENCUT" \in DOMAIN s /\ s.ENCUT > floor THEN s.ENCUT ELSE floor]
<1>1. DOMAIN new = {"ENCUT"} /\ WithEncutFloor(s, floor) = update(s, new)
  BY DEF WithEncutFloor
<1> HIDE DEF new
<1> QED
  BY <1>1, UpdateKeeps

\* The floor depends on nothing but the cutoff there is.
LEMMA FloorOfTheSame ==
    ASSUME NEW s, NEW t, NEW floor, Keeps(s, t, "ENCUT")
    PROVE  Keeps(WithEncutFloor(s, floor), WithEncutFloor(t, floor), "ENCUT")
<1> DEFINE e(u) == [ENCUT |-> IF "ENCUT" \in DOMAIN u /\ u.ENCUT > floor THEN u.ENCUT ELSE floor]
<1>1. DOMAIN e(s) = {"ENCUT"} /\ DOMAIN e(t) = {"ENCUT"} /\ e(t).ENCUT = e(s).ENCUT
  BY DEF Keeps
<1>2. WithEncutFloor(s, floor) = update(s, e(s)) /\ WithEncutFloor(t, floor) = update(t, e(t))
  BY DEF WithEncutFloor
<1> HIDE DEF e
<1> QED
  BY <1>1, <1>2, UpdateKeeps DEF Keeps, Says

LEMMA CoresKeep ==
    ASSUME NEW s, NEW type, NEW key, key # "NCORE"
    PROVE  Keeps(s, WithCores(s, type), key)
<1>1. DOMAIN [NCORE |-> "8"] = {"NCORE"}
  OBVIOUS
<1> QED
  BY <1>1, UpdateKeeps DEF Keeps, WithCores

RelaxKeys == {"ENCUT", "GGA", "ALGO", "LCHARG", "LWAVE", "LELF", "LORBIT"}

LEMMA RelaxBaseKeeps ==
    ASSUME NEW s, NEW explicit, NEW key
    PROVE  /\ key \notin RelaxKeys => Keeps(s, WithRelaxBase(s, explicit), key)
           /\ key \in {"ENCUT", "GGA", "ALGO"} /\ key \in DOMAIN s => Keeps(s, WithRelaxBase(s, explicit), key)
<1> DEFINE u   == setdefault(s, RELAX_DEFAULTS)
           new == Restrict(RELAX_UNLESS_EXPLICIT, DOMAIN RELAX_UNLESS_EXPLICIT \ DOMAIN explicit)
<1>1. DOMAIN RELAX_DEFAULTS = {"ENCUT", "GGA", "ALGO"}
  BY DEF RELAX_DEFAULTS
<1>2. DOMAIN new \subseteq {"LCHARG", "LWAVE", "LELF", "LORBIT"}
  BY DEF Restrict, RELAX_UNLESS_EXPLICIT
<1>3. WithRelaxBase(s, explicit) = update(u, new)
  BY DEF WithRelaxBase
<1> HIDE DEF new
<1>4. \A k : k \notin DOMAIN new => Keeps(u, update(u, new), k)
  BY UpdateKeeps
<1>5. \A k : /\ k \in DOMAIN s => Keeps(s, u, k)
             /\ k \notin DOMAIN s => Keeps(RELAX_DEFAULTS, u, k)
  BY UpdateKeeps
<1> HIDE DEF u
<1> QED
  BY <1>1, <1>2, <1>3, <1>4, <1>5 DEF Keeps, RelaxKeys

StaticKeys == {"GGA", "ALGO", "LWAVE", "LCHARG", "ISMEAR", "SIGMA", "LORBIT", "LELF", "ENCUT"}

LEMMA StaticBaseKeeps ==
    ASSUME NEW s, NEW key
    PROVE  /\ key \notin StaticKeys => Keeps(s, WithStaticBase(s), key)
           /\ key # "ENCUT" /\ key \in DOMAIN s => Keeps(s, WithStaticBase(s), key)
           /\ "LCHARG" \notin DOMAIN s => Says(WithStaticBase(s), "LCHARG", "T")
           /\ \A t : Keeps(s, t, "ENCUT") => Keeps(WithStaticBase(s), WithStaticBase(t), "ENCUT")
<1> DEFINE d(t) == setdefault(t, STATIC_FINAL_DEFAULTS)
<1>1. /\ DOMAIN STATIC_FINAL_DEFAULTS = StaticKeys \ {"ENCUT"}
      /\ STATIC_FINAL_DEFAULTS.LCHARG = "T"
  BY DEF STATIC_FINAL_DEFAULTS, StaticKeys
<1>2. \A t : WithStaticBase(t) = WithEncutFloor(d(t), 620)
  BY DEF WithStaticBase
<1>3. \A t, k : /\ k \in DOMAIN t => Keeps(t, d(t), k)
                /\ k \notin DOMAIN t => Keeps(STATIC_FINAL_DEFAULTS, d(t), k)
  BY UpdateKeeps
<1> HIDE DEF d
<1>4. \A k : k # "ENCUT" => Keeps(d(s), WithEncutFloor(d(s), 620), k)
  BY FloorKeeps
<1>5. \A t : Keeps(d(s), d(t), "ENCUT") =>
                Keeps(WithEncutFloor(d(s), 620), WithEncutFloor(d(t), 620), "ENCUT")
  BY FloorOfTheSame
<1>6. \A t : Keeps(s, t, "ENCUT") => Keeps(d(s), d(t), "ENCUT")
  BY <1>1, <1>3 DEF Keeps
<1>7. "LCHARG" \notin DOMAIN s => Says(WithStaticBase(s), "LCHARG", "T")
  BY <1>1, <1>2, <1>3, <1>4 DEF Keeps, Says, StaticKeys
<1>8. \A t : Keeps(s, t, "ENCUT") => Keeps(WithStaticBase(s), WithStaticBase(t), "ENCUT")
  BY <1>2, <1>5, <1>6
<1>9. key \notin StaticKeys => Keeps(s, WithStaticBase(s), key)
  BY <1>1, <1>2, <1>3, <1>4 DEF Keeps, StaticKeys
<1>10. key # "ENCUT" /\ key \in DOMAIN s => Keeps(s, WithStaticBase(s), key)
  BY <1>2, <1>3, <1>4 DEF Keeps
<1> QED BY <1>7, <1>8, <1>9, <1>10

LEMMA HybridBaseKeeps ==
    ASSUME NEW s, NEW key, key \notin {"LORBIT", "ENCUT"}
    PROVE  Keeps(s, WithHybridAnalysisBase(s), key)
<1>1. DOMAIN HSE_ANALYSIS_DEFAULTS = {"LORBIT"}
  BY DEF HSE_ANALYSIS_DEFAULTS
<1>2. Keeps(s, setdefault(s, HSE_ANALYSIS_DEFAULTS), key)
  BY <1>1, UpdateKeeps DEF Keeps
<1> QED
  BY <1>2, FloorKeeps DEF WithHybridAnalysisBase, Keeps

-----------------------------------------------------------------------------
(* What the settings of a stage say of what was decided for it.            *)

\* The stage is given no settings that decide these.
Undecided(s) ==
    /\ DOMAIN s \cap {"GGA", "ALGO", "LDAU", "LSORBIT", "ICHARG"} = {}
    /\ "LHFCALC" \in DOMAIN s => s.LHFCALC = "T"

UIsTold(s, m, frozen) ==
    /\ "dft_u" \notin m => Says(s, "LDAU", "None")
    /\ "dft_u" \in m /\ frozen = Absent => "LDAU" \notin DOMAIN s
    /\ "dft_u" \in m /\ frozen # Absent => Says(s, "LDAU", frozen)

SocIsTold(s, m) ==
    /\ "soc" \in m => /\ Says(s, "LSORBIT", "T") /\ Says(s, "ISYM", "0")
                      /\ Says(s, "LELF", "None") /\ Says(s, "ISPIN", "None")
                      /\ "MAGMOM" \in DOMAIN s
    /\ "soc" \notin m => "LSORBIT" \notin DOMAIN s

HybridIsTold(s, theory) ==
    theory = "hse06" => Says(s, "LHFCALC", "T") /\ Says(s, "GGA", "PE") /\ "KPAR" \notin DOMAIN s

LEMMA RelaxTells ==
    ASSUME NEW g, Undecided(g), NEW theory, NEW m, NEW at, NEW frozen,
           "soc" \notin m, frozen # Absent => "dft_u" \in m
    PROVE  LET s == RelaxSettings(g, theory, m, at, frozen)
           IN  /\ UIsTold(s, m, frozen) /\ SocIsTold(s, m) /\ HybridIsTold(s, theory)
               /\ "ICHARG" \notin DOMAIN s
               /\ \A at2 : RelaxSettings(g, theory, m, at2, frozen) = s
<1> DEFINE a == WithModifiers(g, m)
           b == WithFrozenU(a, frozen)
           new == [ISIF |-> "2"]
           c == IF "ions_only" \in m THEN update(b, new) ELSE b
           d == WithTheory(c, theory, "relax")
           e == WithRelaxBase(d, g)
           s == WithCores(e, "relax")
<1>1. \A at2 : RelaxSettings(g, theory, m, at2, frozen) = s
  BY MomentsKeep DEF RelaxSettings
<1>2. /\ UIsTold(a, m, Absent) /\ "LSORBIT" \notin DOMAIN a
      /\ \A k \in {"ICHARG", "LHFCALC", "GGA"} : Keeps(g, a, k)
  BY ModifiersKeep DEF Undecided, UIsTold, Keeps, Says
<1>3. /\ UIsTold(b, m, frozen) /\ \A k : k # "LDAU" => Keeps(a, b, k)
  BY <1>2, FrozenKeeps DEF UIsTold, Keeps, Says
<1>4. \A k : k # "ISIF" => Keeps(b, c, k)
  <2>1. DOMAIN new = {"ISIF"}
    OBVIOUS
  <2> HIDE DEF new
  <2> QED
    BY <2>1, UpdateKeeps DEF Keeps
<1> HIDE DEF a, b, c
<1>5. /\ \A k : k \notin HybridKeys \cup {"KPAR"} => Keeps(c, d, k)
      /\ "LHFCALC" \in DOMAIN c => Keeps(c, d, "LHFCALC")
      /\ theory = "hse06" =>
            /\ "KPAR" \notin DOMAIN d
            /\ "LHFCALC" \notin DOMAIN c => Says(d, "LHFCALC", "T")
            /\ "GGA" \notin DOMAIN c => Says(d, "GGA", "PE")
  BY TheoryKeeps
<1> HIDE DEF d
<1>6. /\ \A k : k \notin RelaxKeys => Keeps(d, e, k)
      /\ "GGA" \in DOMAIN d => Keeps(d, e, "GGA")
  BY RelaxBaseKeeps
<1> HIDE DEF e
<1>7. \A k : k # "NCORE" => Keeps(e, s, k)
  BY CoresKeep
<1> HIDE DEF s
<1>8. UIsTold(s, m, frozen)
  BY <1>3, <1>4, <1>5, <1>6, <1>7 DEF UIsTold, Keeps, Says, HybridKeys, RelaxKeys
<1>9. "LSORBIT" \notin DOMAIN s /\ "ICHARG" \notin DOMAIN s
  BY <1>2, <1>3, <1>4, <1>5, <1>6, <1>7 DEF Keeps, HybridKeys, RelaxKeys, Undecided
<1>10. HybridIsTold(s, theory)
  <2>1. Keeps(g, c, "LHFCALC") /\ Keeps(g, c, "GGA")
    BY <1>2, <1>3, <1>4 DEF Keeps
  <2>2. theory = "hse06" => Says(d, "LHFCALC", "T") /\ Says(d, "GGA", "PE") /\ "KPAR" \notin DOMAIN d
    BY <1>5, <2>1 DEF Keeps, Says, Undecided
  <2> QED
    BY <2>2, <1>6, <1>7 DEF HybridIsTold, Keeps, Says, RelaxKeys
<1> QED
  BY <1>1, <1>8, <1>9, <1>10 DEF SocIsTold
LEMMA StaticTells ==
    ASSUME NEW g, Undecided(g), NEW theory, NEW m, NEW at, at # Absent, NEW type
    PROVE  LET s == StaticSettings(g, theory, m, at, type)
           IN  /\ UIsTold(s, m, Absent) /\ SocIsTold(s, m) /\ HybridIsTold(s, theory)
               /\ "ICHARG" \notin DOMAIN s
               /\ "LCHARG" \notin DOMAIN g => Says(s, "LCHARG", "T")
<1> DEFINE a == WithModifiers(g, m)
           b == WithMoments(a, m, at)
           c == WithTheory(b, theory, "static")
           d == IF IsHybridIncar(c) THEN pop(c, "KPAR") ELSE c
           e == WithStaticBase(d)
           s == WithCores(e, type)
<1>1. StaticSettings(g, theory, m, at, type) = s
  BY DEF StaticSettings
<1>2. /\ UIsTold(a, m, Absent)
      /\ \A k \in {"ICHARG", "LHFCALC", "GGA", "LCHARG"} : Keeps(g, a, k)
      /\ "soc" \in m => /\ Says(a, "LSORBIT", "T") /\ Says(a, "ISYM", "0")
                        /\ Says(a, "LELF", "None") /\ Says(a, "ISPIN", "None")
      /\ "soc" \notin m => "LSORBIT" \notin DOMAIN a
  BY ModifiersKeep DEF Undecided, UIsTold, Keeps, Says
<1>3. /\ \A k : k # "MAGMOM" => Keeps(a, b, k)
      /\ "soc" \in m => "MAGMOM" \in DOMAIN b
  BY MomentsKeep
<1> HIDE DEF a, b
<1>4. /\ \A k : k \notin HybridKeys \cup {"KPAR"} => Keeps(b, c, k)
      /\ "LHFCALC" \in DOMAIN b => Keeps(b, c, "LHFCALC")
      /\ theory = "hse06" =>
            /\ "KPAR" \notin DOMAIN c
            /\ "LHFCALC" \notin DOMAIN b => Says(c, "LHFCALC", "T")
            /\ "GGA" \notin DOMAIN b => Says(c, "GGA", "PE")
  BY TheoryKeeps
<1> HIDE DEF c
<1>5. /\ \A k : k # "KPAR" => Keeps(c, d, k)
      /\ "KPAR" \notin DOMAIN c => "KPAR" \notin DOMAIN d
  BY PopKeeps DEF Keeps
<1> HIDE DEF d
<1>6. /\ \A k : k \notin StaticKeys => Keeps(d, e, k)
      /\ \A k : k # "ENCUT" /\ k \in DOMAIN d => Keeps(d, e, k)
      /\ "LCHARG" \notin DOMAIN d => Says(e, "LCHARG", "T")
  BY StaticBaseKeeps
<1> HIDE DEF e
<1>7. \A k : k # "NCORE" => Keeps(e, s, k)
  BY CoresKeep
<1> HIDE DEF s
<1>8. UIsTold(s, m, Absent)
  BY <1>2, <1>3, <1>4, <1>5, <1>6, <1>7 DEF UIsTold, Keeps, Says, HybridKeys, StaticKeys
<1>9. "ICHARG" \notin DOMAIN s
  BY <1>2, <1>3, <1>4, <1>5, <1>6, <1>7 DEF Keeps, HybridKeys, StaticKeys, Undecided
<1>10. HybridIsTold(s, theory)
  <2>1. theory = "hse06" => Says(d, "LHFCALC", "T") /\ Says(d, "GGA", "PE") /\ "KPAR" \notin DOMAIN d
    BY <1>2, <1>3, <1>4, <1>5 DEF Keeps, Says, Undecided
  <2> QED
    BY <2>1, <1>6, <1>7 DEF HybridIsTold, Keeps, Says, StaticKeys
<1>11. "LCHARG" \notin DOMAIN g => Says(s, "LCHARG", "T")
  BY <1>2, <1>3, <1>4, <1>5, <1>6, <1>7 DEF Keeps, Says, HybridKeys
<1>12. SocIsTold(s, m)
  <2>1. \A k \in {"LSORBIT", "ISYM", "LELF", "ISPIN", "MAGMOM"} : Keeps(b, d, k)
    BY <1>4, <1>5 DEF Keeps, HybridKeys
  <2>2. CASE "soc" \in m
    BY <1>2, <1>3, <1>6, <1>7, <2>1, <2>2 DEF SocIsTold, Keeps, Says
  <2>3. CASE "soc" \notin m
    BY <1>2, <1>3, <1>6, <1>7, <2>1, <2>3 DEF SocIsTold, Keeps, StaticKeys
  <2> QED BY <2>2, <2>3
<1> QED
  BY <1>1, <1>8, <1>9, <1>10, <1>11, <1>12

\* A static stage and one that restarts from it have the same functional and cutoff.
LEMMA StaticsAgree ==
    ASSUME NEW g, NEW theory, NEW at, NEW m, NEW type, NEW n, NEW type2
    PROVE  LET s == StaticSettings(g, theory, m, at, type)
               t == StaticSettings(g, theory, n, at, type2)
           IN  Keeps(s, t, "LHFCALC") /\ Keeps(s, t, "ENCUT")
<1> DEFINE b(x) == WithMoments(WithModifiers(g, x), x, at)
           c(x) == WithTheory(b(x), theory, "static")
           d(x) == IF IsHybridIncar(c(x)) THEN pop(c(x), "KPAR") ELSE c(x)
           e(x) == WithStaticBase(d(x))
<1>1. /\ StaticSettings(g, theory, m, at, type) = WithCores(e(m), type)
      /\ StaticSettings(g, theory, n, at, type2) = WithCores(e(n), type2)
  BY DEF StaticSettings
<1>2. \A x : Keeps(g, b(x), "LHFCALC") /\ Keeps(g, b(x), "ENCUT")
  BY ModifiersKeep, MomentsKeep DEF Keeps
<1> HIDE DEF b
<1>3. \A x : /\ Keeps(b(x), c(x), "ENCUT")
             /\ "LHFCALC" \in DOMAIN b(x) => Keeps(b(x), c(x), "LHFCALC")
             /\ "LHFCALC" \notin DOMAIN b(x) =>
                   IF theory = "hse06" THEN Says(c(x), "LHFCALC", "T") ELSE "LHFCALC" \notin DOMAIN c(x)
  BY TheoryKeeps DEF HybridKeys, Keeps
<1> HIDE DEF c
<1>4. \A x : Keeps(c(x), d(x), "ENCUT") /\ Keeps(c(x), d(x), "LHFCALC")
  BY PopKeeps DEF Keeps
<1> HIDE DEF d
<1>5. \A x : Keeps(d(x), e(x), "LHFCALC")
  BY StaticBaseKeeps DEF StaticKeys
<1>6. Keeps(d(m), d(n), "ENCUT") => Keeps(e(m), e(n), "ENCUT")
  BY StaticBaseKeeps
<1> HIDE DEF e
<1>7. \A x, y : Keeps(e(x), WithCores(e(x), y), "ENCUT") /\ Keeps(e(x), WithCores(e(x), y), "LHFCALC")
  BY CoresKeep
<1>8. Keeps(d(m), d(n), "ENCUT") /\ Keeps(d(m), d(n), "LHFCALC")
  BY <1>2, <1>3, <1>4 DEF Keeps, Says
<1> QED
  BY <1>1, <1>5, <1>6, <1>7, <1>8 DEF Keeps

LEMMA RestartTells ==
    ASSUME NEW g, Undecided(g), NEW m, NEW at, at # Absent, NEW type
    PROVE  LET s == RestartSettings(g, m, at, type)
           IN  UIsTold(s, m, Absent) /\ SocIsTold(s, m) /\ Says(s, "ICHARG", "11")
<1> DEFINE theory == IF IsHybridIncar(g) THEN "hse06" ELSE "pbe"
           t   == StaticSettings(g, theory, m, at, type)
           new == [ICHARG |-> "11"]
<1>1. RestartSettings(g, m, at, type) = update(t, new)
  BY DEF RestartSettings
<1>2. UIsTold(t, m, Absent) /\ SocIsTold(t, m)
  BY StaticTells
<1>3. DOMAIN new = {"ICHARG"} /\ new.ICHARG = "11"
  OBVIOUS
<1> HIDE DEF t, new
<1>4. /\ Says(update(t, new), "ICHARG", "11")
      /\ \A k : k # "ICHARG" => Keeps(t, update(t, new), k)
  BY <1>3, UpdateKeeps
<1> QED
  BY <1>1, <1>2, <1>4 DEF UIsTold, SocIsTold, Keeps, Says

LEMMA HybridAnalysisTells ==
    ASSUME NEW g, Undecided(g), NEW m, NEW at, at # Absent, NEW type \in Analysis
    PROVE  LET s == HybridAnalysisSettings(g, m, at, type)
           IN  /\ UIsTold(s, m, Absent) /\ SocIsTold(s, m) /\ HybridIsTold(s, "hse06")
               /\ Says(s, "ALGO", "Normal") /\ "ICHARG" \notin DOMAIN s
<1> DEFINE a == WithModifiers(g, m)
           b == WithMoments(a, m, at)
           c == WithHybridAnalysisBase(b)
           d == WithTheory(c, "hse06", type)
           s == WithCores(d, type)
<1>1. HybridAnalysisSettings(g, m, at, type) = s
  BY DEF HybridAnalysisSettings
<1>2. /\ UIsTold(a, m, Absent)
      /\ \A k \in {"ICHARG", "LHFCALC", "GGA", "ALGO"} : Keeps(g, a, k)
      /\ "soc" \in m => /\ Says(a, "LSORBIT", "T") /\ Says(a, "ISYM", "0")
                        /\ Says(a, "LELF", "None") /\ Says(a, "ISPIN", "None")
      /\ "soc" \notin m => "LSORBIT" \notin DOMAIN a
  BY ModifiersKeep DEF Undecided, UIsTold, Keeps, Says
<1>3. /\ \A k : k # "MAGMOM" => Keeps(a, b, k)
      /\ "soc" \in m => "MAGMOM" \in DOMAIN b
  BY MomentsKeep
<1> HIDE DEF a, b
<1>4. \A k : k \notin {"LORBIT", "ENCUT"} => Keeps(b, c, k)
  BY HybridBaseKeeps
<1> HIDE DEF c
<1>5. /\ \A k : k \notin HybridKeys \cup {"KPAR"} => Keeps(c, d, k)
      /\ "LHFCALC" \in DOMAIN c => Keeps(c, d, "LHFCALC")
      /\ "KPAR" \notin DOMAIN d
      /\ "LHFCALC" \notin DOMAIN c => Says(d, "LHFCALC", "T")
      /\ "GGA" \notin DOMAIN c => Says(d, "GGA", "PE")
      /\ "ALGO" \notin DOMAIN c => Says(d, "ALGO", "Normal")
  BY TheoryKeeps DEF Analysis
<1> HIDE DEF d
<1>6. \A k : k # "NCORE" => Keeps(d, s, k)
  BY CoresKeep
<1> HIDE DEF s
<1>7. UIsTold(s, m, Absent)
  BY <1>2, <1>3, <1>4, <1>5, <1>6 DEF UIsTold, Keeps, Says, HybridKeys
<1>8. "ICHARG" \notin DOMAIN s
  BY <1>2, <1>3, <1>4, <1>5, <1>6 DEF Keeps, HybridKeys, Undecided
<1>9. HybridIsTold(s, "hse06") /\ Says(s, "ALGO", "Normal")
  BY <1>2, <1>3, <1>4, <1>5, <1>6 DEF HybridIsTold, Keeps, Says, Undecided
<1>10. SocIsTold(s, m)
  <2>1. \A k \in {"LSORBIT", "ISYM", "LELF", "ISPIN", "MAGMOM"} : Keeps(b, s, k)
    BY <1>4, <1>5, <1>6 DEF Keeps, HybridKeys
  <2> QED
    BY <1>2, <1>3, <2>1 DEF SocIsTold, Keeps, Says
<1> QED
  BY <1>1, <1>7, <1>8, <1>9, <1>10
-----------------------------------------------------------------------------
(* The job of a valid stage.                                               *)

\* A stage of known type and theory; what may be frozen in it is a +U.
IsProper(stage) ==
    /\ stage.type \in StageTypes /\ stage.theory \in Theories /\ stage.modifiers \subseteq Modifiers
    /\ stage.options.dft_u # Absent => stage.options.dft_u # "None"

LEMMA ValidStages ==
    ASSUME NEW stage, IsProper(stage), StageIsValid(stage)
    PROVE  /\ stage.type \in {"relax", "static", "dos", "band_structure"} /\ stage.theory \in {"pbe", "hse06"}
           /\ stage.type = "relax" => "soc" \notin stage.modifiers
           /\ stage.type = "band_structure" => "gamma_only" \notin stage.modifiers
           /\ stage.options.dft_u # Absent =>
                 "dft_u" \in stage.modifiers /\ stage.type \in {"relax", "static"}
           /\ "dispersion" \in stage.modifiers =>
                 stage.type \in {"relax", "static"} /\ DispersionMethod(stage) \in {"dftd3", "dftd3-bj"}
<1>1. stage.type \in {"relax", "static", "dos", "band_structure"} /\ stage.theory \in {"pbe", "hse06"}
  BY DEF IsProper, StageIsValid, StageTypes, Theories, IsExecutable, THEORY_STAGES
<1>2. stage.modifiers \subseteq StageModifiers(stage.type, stage.theory)
  BY DEF StageIsValid
<1>3. stage.type = "relax" => "soc" \notin stage.modifiers
  BY <1>1, <1>2 DEF StageModifiers, ACTIVE_UI
<1>4. stage.type = "band_structure" => "gamma_only" \notin stage.modifiers
  BY <1>1, <1>2 DEF StageModifiers, ACTIVE_UI
<1> QED
  BY <1>1, <1>3, <1>4 DEF StageIsValid, FrozenUIsValid, DispersionIsValid, Is

\* What the job of a stage is, of each type.
JobTells(job, stage, i) ==
    LET incar == job.inputs.incar
    IN  /\ job.from = i - 1
        /\ UIsTold(incar, stage.modifiers, stage.options.dft_u)
        /\ SocIsTold(incar, stage.modifiers)
        /\ HybridIsTold(incar, stage.theory)
        /\ job.inputs.vdw = DispersionMethod(stage)
        /\ job.kwargs.executable = RunKwargs(stage.modifiers).executable
        /\ job.kwargs.auto_gamma = RunKwargs(stage.modifiers).auto_gamma
        /\ Is(stage, Analysis, "hse06") => "auto_nbands" \in job.kwargs.without /\ Says(incar, "ALGO", "Normal")
        /\ IF ReadsChargeDensity(stage) THEN job.prev = i - 1 ELSE "ICHARG" \notin DOMAIN incar

LEMMA RelaxJob ==
    ASSUME NEW stage, IsProper(stage), StageIsValid(stage), stage.type = "relax", NEW i, Undecided(given)
    PROVE  JobTells(StageJob(stage, i), stage, i)
<1> DEFINE at == IF i = 1 THEN structure ELSE Absent
           settings == RelaxSettings(given, stage.theory, stage.modifiers, at, stage.options.dft_u)
           job == StageJob(stage, i)
<1>1. /\ job.from = i - 1 /\ job.kwargs = RunKwargs(stage.modifiers)
      /\ job.inputs.incar = settings /\ job.inputs.vdw = DispersionMethod(stage)
  BY DEF StageJob, FlowJob, RelaxGenerator, Generator
<1>2. /\ UIsTold(settings, stage.modifiers, stage.options.dft_u) /\ SocIsTold(settings, stage.modifiers)
      /\ HybridIsTold(settings, stage.theory) /\ "ICHARG" \notin DOMAIN settings
  BY RelaxTells, ValidStages
<1> HIDE DEF job, settings
<1>3. JobTells(job, stage, i)
  BY <1>1, <1>2 DEF JobTells, Is, Analysis, ReadsChargeDensity
<1> QED
  BY <1>3 DEF job

LEMMA StaticJob ==
    ASSUME NEW stage, IsProper(stage), StageIsValid(stage), stage.type = "static", NEW i, Undecided(given),
           structure # Absent
    PROVE  LET job == StageJob(stage, i)
           IN  /\ JobTells(job, stage, i)
               /\ job.inputs.class = "static"
               /\ "LCHARG" \notin DOMAIN given => Says(job.inputs.incar, "LCHARG", "T")
<1> DEFINE settings == StaticSettings(given, StageTheory(stage.theory), stage.modifiers, structure, "static")
           incar == WithFrozenU(settings, stage.options.dft_u)
           job == StageJob(stage, i)
<1>1. /\ job.from = i - 1 /\ job.kwargs = RunKwargs(stage.modifiers) /\ job.inputs.class = "static"
      /\ job.inputs.incar = incar /\ job.inputs.vdw = DispersionMethod(stage)
  BY DEF StageJob, FlowJob, StaticGenerator, Generator
<1>2. /\ UIsTold(settings, stage.modifiers, Absent) /\ SocIsTold(settings, stage.modifiers)
      /\ HybridIsTold(settings, StageTheory(stage.theory)) /\ "ICHARG" \notin DOMAIN settings
      /\ "LCHARG" \notin DOMAIN given => Says(settings, "LCHARG", "T")
  BY StaticTells
<1> HIDE DEF settings
<1>3. /\ stage.options.dft_u # Absent => "dft_u" \in stage.modifiers
      /\ stage.theory = "hse06" => StageTheory(stage.theory) = "hse06"
  BY ValidStages DEF StageTheory
<1>4. /\ \A k : k # "LDAU" => Keeps(settings, incar, k)
      /\ UIsTold(incar, stage.modifiers, stage.options.dft_u)
  BY <1>2, <1>3, FrozenKeeps DEF UIsTold, Keeps, Says
<1>5. SocIsTold(incar, stage.modifiers) /\ HybridIsTold(incar, stage.theory)
  BY <1>2, <1>3, <1>4 DEF SocIsTold, HybridIsTold, Keeps, Says
<1> HIDE DEF job, incar
<1>6. JobTells(job, stage, i)
  BY <1>1, <1>2, <1>4, <1>5 DEF JobTells, Is, Analysis, ReadsChargeDensity, Keeps
<1>7. "LCHARG" \notin DOMAIN given => Says(job.inputs.incar, "LCHARG", "T")
  BY <1>1, <1>2, <1>4 DEF Keeps, Says
<1> QED
  BY <1>1, <1>6, <1>7 DEF job

LEMMA AnalysisJob ==
    ASSUME NEW stage, IsProper(stage), StageIsValid(stage), stage.type \in Analysis, NEW i, Undecided(given),
           structure # Absent
    PROVE  LET job == StageJob(stage, i)
           IN  /\ JobTells(job, stage, i)
               /\ stage.theory = "pbe" =>
                     job.inputs.incar = RestartSettings(given, stage.modifiers, structure, stage.type)
<1> DEFINE restart == RestartSettings(given, stage.modifiers, structure, stage.type)
           hybrid == HybridAnalysisSettings(given, stage.modifiers, structure, stage.type)
           incar == IF stage.theory = "hse06" THEN hybrid ELSE restart
           job == StageJob(stage, i)
           kwargs == RunKwargs(stage.modifiers)
<1>1. /\ stage.type \in {"dos", "band_structure"} /\ stage.theory \in {"pbe", "hse06"}
      /\ stage.type = "band_structure" => "gamma_only" \notin stage.modifiers
      /\ stage.options.dft_u = Absent /\ DispersionMethod(stage) = Absent
  BY ValidStages DEF Analysis, DispersionMethod
<1>2. /\ job.from = i - 1 /\ job.prev = i - 1
      /\ job.kwargs = IF stage.theory = "hse06" THEN HybridAnalysisKwargs(kwargs) ELSE kwargs
      /\ job.inputs.incar = incar /\ job.inputs.vdw = Absent
  <2>1. CASE stage.type = "dos"
    BY <1>1, <2>1 DEF StageJob, FlowJob, DosGenerator, Generator
  <2>2. CASE stage.type = "band_structure"
    BY <1>1, <2>2 DEF StageJob, FlowJob, BandGenerator, BandIsRefused, Generator
  <2> QED BY <1>1, <2>1, <2>2
<1>3. /\ UIsTold(restart, stage.modifiers, Absent) /\ SocIsTold(restart, stage.modifiers)
  BY RestartTells
<1>4. /\ UIsTold(hybrid, stage.modifiers, Absent) /\ SocIsTold(hybrid, stage.modifiers)
      /\ HybridIsTold(hybrid, "hse06") /\ Says(hybrid, "ALGO", "Normal") /\ "ICHARG" \notin DOMAIN hybrid
  BY HybridAnalysisTells
<1>5. /\ kwargs.executable = HybridAnalysisKwargs(kwargs).executable
      /\ kwargs.auto_gamma = HybridAnalysisKwargs(kwargs).auto_gamma
      /\ "auto_nbands" \in HybridAnalysisKwargs(kwargs).without
  BY DEF RunKwargs, HybridAnalysisKwargs
<1> HIDE DEF job, restart, hybrid, kwargs
<1>6. CASE stage.theory = "hse06"
  <2>1. JobTells(job, stage, i)
    BY <1>1, <1>2, <1>4, <1>5, <1>6 DEF JobTells, Is, ReadsChargeDensity, kwargs
  <2> QED BY <1>6, <2>1 DEF job
<1>7. CASE stage.theory = "pbe"
  <2>1. JobTells(job, stage, i)
    BY <1>1, <1>2, <1>3, <1>7 DEF JobTells, Is, ReadsChargeDensity, HybridIsTold, kwargs
  <2> QED BY <1>2, <1>7, <2>1 DEF job, restart
<1> QED BY <1>1, <1>6, <1>7

LEMMA JobsTell ==
    ASSUME NEW stage, IsProper(stage), StageIsValid(stage), NEW i, Undecided(given), structure # Absent
    PROVE  JobTells(StageJob(stage, i), stage, i)
BY RelaxJob, StaticJob, AnalysisJob, ValidStages DEF Analysis

\* A relaxation has no moments that would depend on the structure it starts from, and the
\* functional is that of the stage when no settings make it hybrid.
LEMMA ShownIsRun ==
    ASSUME NEW stage, IsProper(stage), StageIsValid(stage), NEW i, Undecided(given), ~IsHybridIncar(given)
    PROVE  StageJob(stage, i).inputs = PreviewGenerator(stage)
<1>1. stage.type \in {"relax", "static", "dos", "band_structure"}
  BY ValidStages
<1>2. CASE stage.type = "relax"
  <2>1. \A at : RelaxSettings(given, stage.theory, stage.modifiers, at, stage.options.dft_u)
                 = RelaxSettings(given, stage.theory, stage.modifiers, structure, stage.options.dft_u)
    BY <1>2, RelaxTells, ValidStages
  <2> QED
    BY <1>2, <2>1 DEF StageJob, FlowJob, PreviewGenerator, RelaxGenerator
<1>3. CASE stage.type = "static"
  BY <1>3 DEF StageJob, FlowJob, PreviewGenerator, StageTheory
<1>4. CASE stage.type = "dos"
  BY <1>4 DEF StageJob, FlowJob, PreviewGenerator
<1>5. CASE stage.type = "band_structure"
  BY <1>5 DEF StageJob, FlowJob, PreviewGenerator
<1> QED BY <1>1, <1>2, <1>3, <1>4, <1>5
-----------------------------------------------------------------------------
(* The workflows that are accepted.                                        *)

IsWorkflow(w) ==
    /\ Len(w) \in Nat /\ DOMAIN w = 1..Len(w)
    /\ \A i \in DOMAIN w : IsProper(w[i])
    /\ WorkflowIsValid(w)

LEMMA PlainStagesAreProper ==
    ASSUME NEW type \in StageTypes, NEW theory \in Theories, NEW m \in SUBSET Modifiers
    PROVE  IsProper(Stage(type, theory, m))
BY DEF IsProper, Stage, NoOptions

LEMMA ShortSequences ==
    ASSUME NEW S, NEW a \in S, NEW b \in S, NEW c \in S
    PROVE  <<a>> \in Seq(S) /\ <<a, b>> \in Seq(S) /\ <<a, b, c>> \in Seq(S)
OBVIOUS

LEMMA CalculationsBecomeWorkflows ==
    ASSUME NEW spec \in [purpose : Purposes, theory : Theories, modifiers : SUBSET Modifiers],
           workflow_spec_from_calculation_spec(spec) # Bad
    PROVE  IsWorkflow(workflow_spec_from_calculation_spec(spec))
<1> DEFINE types == PURPOSE_STAGES[spec.purpose]
           w == UniformStages(types, spec.theory, spec.modifiers)
<1>1. workflow_spec_from_calculation_spec(spec) = w /\ WorkflowIsValid(w) /\ spec.purpose \in DOMAIN PURPOSE_STAGES
  BY DEF workflow_spec_from_calculation_spec, validate_workflow_spec
<1>2. \A p \in DOMAIN PURPOSE_STAGES : PURPOSE_STAGES[p] \in Seq(StageTypes)
  <2>1. /\ DOMAIN PURPOSE_STAGES =
               {"relax", "static", "relax_static", "double_relax", "dos", "band_structure"}
        /\ PURPOSE_STAGES["relax"] = <<"relax">> /\ PURPOSE_STAGES["static"] = <<"static">>
        /\ PURPOSE_STAGES["relax_static"] = <<"relax", "static">>
        /\ PURPOSE_STAGES["double_relax"] = <<"relax", "relax">>
        /\ PURPOSE_STAGES["dos"] = <<"relax", "static", "dos">>
        /\ PURPOSE_STAGES["band_structure"] = <<"relax", "static", "band_structure">>
    BY DEF PURPOSE_STAGES
  <2>2. {"relax", "static", "dos", "band_structure"} \subseteq StageTypes
    BY DEF StageTypes
  <2>3. /\ <<"relax">> \in Seq(StageTypes) /\ <<"static">> \in Seq(StageTypes)
        /\ <<"relax", "static">> \in Seq(StageTypes) /\ <<"relax", "relax">> \in Seq(StageTypes)
        /\ <<"relax", "static", "dos">> \in Seq(StageTypes)
        /\ <<"relax", "static", "band_structure">> \in Seq(StageTypes)
    BY <2>2, ShortSequences
  <2> QED
    BY <2>1, <2>3
<1>3. types \in Seq(StageTypes)
  BY <1>1, <1>2
<1>4. Len(types) \in Nat /\ DOMAIN types = 1..Len(types) /\ \A i \in DOMAIN types : types[i] \in StageTypes
  BY <1>3
<1> HIDE DEF types
<1>5. w \in Seq({Stage(type, spec.theory, spec.modifiers) : type \in StageTypes}) /\ Len(w) = Len(types)
  BY <1>4 DEF UniformStages
<1>6. \A i \in DOMAIN w : IsProper(w[i])
  BY <1>4, PlainStagesAreProper DEF UniformStages
<1> QED
  BY <1>1, <1>4, <1>5, <1>6 DEF IsWorkflow

LEMMA RequestsBecomeWorkflows ==
    ASSUME NEW r \in Requests, workflow_spec_from_flow_spec(r) # Bad
    PROVE  IsWorkflow(workflow_spec_from_flow_spec(r))
<1> DEFINE w == workflow_spec_from_flow_spec(r)
<1>1. CASE r.kind \in {"custom", "stages"} /\ r.stages \in Seq(Stages)
  <2>1. w = r.stages /\ WorkflowIsValid(w)
    BY <1>1 DEF workflow_spec_from_flow_spec, validate_user_workflow_spec, validate_workflow_spec
  <2>2. \A i \in DOMAIN w : IsProper(w[i])
    BY <1>1, <2>1, RequestAssumption DEF IsProper
  <2> QED
    BY <1>1, <2>1, <2>2 DEF IsWorkflow
<1>2. CASE /\ r.kind = "calculation"
           /\ r.spec \in [purpose : Purposes, theory : Theories, modifiers : SUBSET Modifiers]
  BY <1>2, CalculationsBecomeWorkflows DEF workflow_spec_from_flow_spec
<1>3. CASE r.kind = "legacy"
  <2> DEFINE spec == calculation_spec_from_legacy(r.name, r.potcar)
  <2>1. w = workflow_spec_from_calculation_spec(spec) /\ spec # Bad
    BY <1>3 DEF workflow_spec_from_flow_spec
  <2>2. \A n \in DOMAIN LEGACY_SPECS :
            LEGACY_SPECS[n] \in [purpose : Purposes, theory : Theories, modifiers : SUBSET Modifiers]
    BY DEF LEGACY_SPECS, CalculationSpec, Purposes, Theories, Modifiers
  <2>3. spec \in [purpose : Purposes, theory : Theories, modifiers : SUBSET Modifiers]
    BY <2>1, <2>2 DEF calculation_spec_from_legacy, validate_calculation_spec
  <2> QED
    BY <2>1, <2>3, CalculationsBecomeWorkflows
<1>4. CASE r.kind = "desired" /\ r.output \in DOMAIN DESIRED_OUTPUTS
  <2>1. w = DESIRED_OUTPUTS[r.output] /\ WorkflowIsValid(w)
    BY <1>4 DEF workflow_spec_from_flow_spec, validate_workflow_spec
  <2>2. \A o \in DOMAIN DESIRED_OUTPUTS :
            DESIRED_OUTPUTS[o] \in Seq({Stage(t, th, {}) : t \in StageTypes, th \in Theories})
    <3> DEFINE S == {Stage(t, th, {}) : t \in StageTypes, th \in Theories}
    <3>1. /\ DOMAIN DESIRED_OUTPUTS =
                {"energy_only", "relaxed_structure", "electronic_dos", "electronic_band_structure"}
          /\ DESIRED_OUTPUTS["energy_only"] = <<Stage("static", "pbe", {})>>
          /\ DESIRED_OUTPUTS["relaxed_structure"] = <<Stage("relax", "pbe", {}), Stage("relax", "pbe", {})>>
          /\ DESIRED_OUTPUTS["electronic_dos"] =
                <<Stage("relax", "pbe", {}), Stage("static", "hse06", {}), Stage("dos", "hse06", {})>>
          /\ DESIRED_OUTPUTS["electronic_band_structure"] =
                <<Stage("relax", "pbe", {}), Stage("static", "hse06", {}), Stage("band_structure", "hse06", {})>>
      BY DEF DESIRED_OUTPUTS
    <3>2. \A t \in {"relax", "static", "dos", "band_structure"}, th \in {"pbe", "hse06"} : Stage(t, th, {}) \in S
      BY DEF StageTypes, Theories
    <3> HIDE DEF S
    <3>3. DESIRED_OUTPUTS["energy_only"] \in Seq(S) /\ DESIRED_OUTPUTS["relaxed_structure"] \in Seq(S)
      BY <3>1, <3>2, ShortSequences
    <3>4. DESIRED_OUTPUTS["electronic_dos"] \in Seq(S)
      <4>1. Stage("relax", "pbe", {}) \in S /\ Stage("static", "hse06", {}) \in S /\ Stage("dos", "hse06", {}) \in S
        BY <3>2
      <4>2. <<Stage("relax", "pbe", {}), Stage("static", "hse06", {}), Stage("dos", "hse06", {})>> \in Seq(S)
        BY <4>1, ShortSequences, Zenon
      <4> QED BY <3>1, <4>2, Zenon
    <3>5. DESIRED_OUTPUTS["electronic_band_structure"] \in Seq(S)
      <4>1. /\ Stage("relax", "pbe", {}) \in S /\ Stage("static", "hse06", {}) \in S
            /\ Stage("band_structure", "hse06", {}) \in S
        BY <3>2
      <4>2. <<Stage("relax", "pbe", {}), Stage("static", "hse06", {}), Stage("band_structure", "hse06", {})>> \in Seq(S)
        BY <4>1, ShortSequences, Zenon
      <4> QED BY <3>1, <4>2, Zenon
    <3>6. \A o \in DOMAIN DESIRED_OUTPUTS : DESIRED_OUTPUTS[o] \in Seq(S)
      <4>1. DOMAIN DESIRED_OUTPUTS =
               {"energy_only", "relaxed_structure", "electronic_dos", "electronic_band_structure"}
        BY <3>1
      <4> QED BY <3>3, <3>4, <3>5, <4>1
    <3> QED BY <3>6 DEF S
  <2>3. w \in Seq({Stage(t, th, {}) : t \in StageTypes, th \in Theories})
    BY <1>4, <2>1, <2>2
  <2>4. \A i \in DOMAIN w : IsProper(w[i])
    BY <2>3, PlainStagesAreProper
  <2> QED
    BY <2>1, <2>3, <2>4 DEF IsWorkflow
<1> QED
  BY <1>1, <1>2, <1>3, <1>4, RequestAssumption

-----------------------------------------------------------------------------
(* The invariant: what is shown and what is built is of the stages.        *)

Shown(stage) == [inputs |-> PreviewGenerator(stage), executable |-> RunKwargs(stage.modifiers).executable]

AskedIsKnown ==
    /\ request \in Requests /\ structure \in Structures /\ given \in Givens /\ mesh \in Meshes
    /\ phase \in {"asked", "previewing", "building", "built", "refused"}
    /\ phase = "asked" => stages = << >> /\ previews = << >>

StagesAreValid == phase \in {"previewing", "building", "built"} => IsWorkflow(stages)

PreviewsAreOfStages ==
    /\ previews \in Seq({Shown(stages[i]) : i \in DOMAIN stages})
    /\ \A i \in DOMAIN previews : i \in DOMAIN stages /\ previews[i] = Shown(stages[i])
    /\ phase \in {"building", "built"} => Len(previews) = Len(stages)

JobsAreOfStages ==
    /\ jobs \in Seq({StageJob(stages[i], i) : i \in DOMAIN stages})
    /\ \A i \in DOMAIN jobs : i \in DOMAIN stages /\ jobs[i] = StageJob(stages[i], i)
    /\ jobs # << >> => phase \in {"building", "built"}
    /\ phase = "built" => Len(jobs) = Len(stages)

\* The stages are those of the request, and a request is refused for a reason.
AnswersAreReal ==
    LET asked == workflow_spec_from_flow_spec(request)
    IN  /\ phase \in {"previewing", "building", "built"} => stages = asked /\ asked # Bad
        /\ phase = "refused" =>
              \/ structure.constrained \/ asked = Bad
              \/ stages = asked /\ IsWorkflow(stages) /\ \E i \in DOMAIN stages : PreviewIsRefused(stages[i])

WorkflowInv == AskedIsKnown /\ StagesAreValid /\ AnswersAreReal /\ PreviewsAreOfStages /\ JobsAreOfStages

LEMMA WorkflowStart == Init => WorkflowInv
BY DEF Init, WorkflowInv, AskedIsKnown, StagesAreValid, AnswersAreReal, PreviewsAreOfStages, JobsAreOfStages

LEMMA InputsStay ==
    ASSUME UNCHANGED <<given, mesh, structure>>
    PROVE  \A stage, i : Shown(stage)' = Shown(stage) /\ StageJob(stage, i)' = StageJob(stage, i)
BY DEF Shown, PreviewGenerator, StageJob, StageTheory

LEMMA AcceptIsSafe == WorkflowInv /\ Accept => WorkflowInv'
<1> SUFFICES ASSUME WorkflowInv, Accept PROVE WorkflowInv'
  OBVIOUS
<1>1. previews = << >> /\ jobs = << >> /\ UNCHANGED <<previews, jobs>>
  BY DEF WorkflowInv, AskedIsKnown, JobsAreOfStages, Accept
<1>2. AskedIsKnown'
  BY DEF WorkflowInv, AskedIsKnown, Accept
<1>3. StagesAreValid'
  <2>1. CASE phase' = "refused"
    BY <2>1 DEF StagesAreValid
  <2>2. CASE phase' = "previewing"
    BY <2>2, RequestsBecomeWorkflows DEF WorkflowInv, AskedIsKnown, Accept, StagesAreValid
  <2> QED BY <2>1, <2>2 DEF Accept
<1>4. PreviewsAreOfStages' /\ JobsAreOfStages'
  <2>1. phase' \in {"refused", "previewing"}
    BY DEF Accept
  <2>2. previews' = << >> /\ jobs' = << >>
    BY <1>1
  <2> QED BY <2>1, <2>2 DEF PreviewsAreOfStages, JobsAreOfStages
<1>5. AnswersAreReal'
  BY DEF Accept, AnswersAreReal
<1> QED BY <1>2, <1>3, <1>4, <1>5 DEF WorkflowInv

LEMMA PreviewIsSafe == WorkflowInv /\ PreviewStage => WorkflowInv'
<1> SUFFICES ASSUME WorkflowInv, PreviewStage PROVE WorkflowInv'
  OBVIOUS
<1> USE DEF WorkflowInv
<1>1. UNCHANGED <<request, structure, given, mesh, stages, jobs>> /\ phase = "previewing"
  BY DEF PreviewStage
<1>2. \A stage, i : Shown(stage)' = Shown(stage) /\ StageJob(stage, i)' = StageJob(stage, i)
  BY <1>1, InputsStay
<1>3. jobs = << >> /\ IsWorkflow(stages)
  BY <1>1 DEF JobsAreOfStages, StagesAreValid
<1>4. AskedIsKnown' /\ StagesAreValid'
  BY <1>1, <1>3 DEF AskedIsKnown, StagesAreValid, PreviewStage, IsWorkflow
<1>5. phase' \in {"refused", "previewing"}
  BY <1>1 DEF PreviewStage
<1>6. JobsAreOfStages'
  BY <1>1, <1>3, <1>5 DEF JobsAreOfStages
<1>7. PreviewsAreOfStages'
  <2> DEFINE S == {Shown(stages[i]) : i \in DOMAIN stages}
             n == Len(previews) + 1
  <2>1. previews \in Seq(S) /\ \A i \in DOMAIN previews : i \in DOMAIN stages /\ previews[i] = Shown(stages[i])
    BY DEF PreviewsAreOfStages
  <2>2. S' = S
    BY <1>1, <1>2
  <2>3. CASE UNCHANGED previews
    BY <1>1, <1>2, <1>5, <2>1, <2>2, <2>3 DEF PreviewsAreOfStages
  <2>4. CASE previews' = Append(previews, Shown(stages[n]))
    <3>1. n \in DOMAIN stages
      BY <1>3, <2>1 DEF PreviewStage, IsWorkflow
    <3>2. Shown(stages[n]) \in S
      BY <3>1
    <3> HIDE DEF S
    <3>3. previews' \in Seq(S) /\ DOMAIN previews' = 1..n /\ previews'[n] = Shown(stages[n])
          /\ \A i \in 1..Len(previews) : previews'[i] = previews[i]
      BY <2>1, <2>4, <3>2
    <3>4. \A i \in DOMAIN previews' : i \in DOMAIN stages /\ previews'[i] = Shown(stages[i])
      BY <2>1, <3>1, <3>3
    <3> QED
      BY <1>1, <1>2, <1>5, <2>2, <3>3, <3>4 DEF PreviewsAreOfStages, S
  <2> QED
    BY <2>3, <2>4 DEF PreviewStage, Shown
<1>8. AnswersAreReal'
  <2> DEFINE stage == stages[Len(previews) + 1]
  <2>1. Len(previews) + 1 \in DOMAIN stages
    BY <1>3 DEF PreviewStage, PreviewsAreOfStages, IsWorkflow
  <2>2. stages = workflow_spec_from_flow_spec(request) /\ stages # Bad
    BY <1>1 DEF AnswersAreReal
  <2>3. phase' = "refused" => PreviewIsRefused(stage)
    BY <1>1 DEF PreviewStage
  <2>4. phase' = "refused" => \E i \in DOMAIN stages : PreviewIsRefused(stages[i])
    BY <2>1, <2>3
  <2>5. \A s : PreviewIsRefused(s)' = PreviewIsRefused(s)
    BY <1>1 DEF PreviewIsRefused, HasActiveU
  <2> QED
    BY <1>1, <1>3, <1>5, <2>2, <2>4, <2>5 DEF AnswersAreReal, IsWorkflow
<1> QED BY <1>4, <1>6, <1>7, <1>8

LEMMA SubmitIsSafe == WorkflowInv /\ Submit => WorkflowInv'
<1> SUFFICES ASSUME WorkflowInv, Submit PROVE WorkflowInv'
  OBVIOUS
<1>1. \A stage, i : Shown(stage)' = Shown(stage) /\ StageJob(stage, i)' = StageJob(stage, i)
  BY InputsStay DEF Submit
<1> QED
  BY <1>1 DEF Submit, WorkflowInv, AskedIsKnown, StagesAreValid, AnswersAreReal, IsWorkflow, PreviewsAreOfStages, JobsAreOfStages

LEMMA BuildIsSafe == WorkflowInv /\ BuildStage => WorkflowInv'
<1> SUFFICES ASSUME WorkflowInv, BuildStage PROVE WorkflowInv'
  OBVIOUS
<1> USE DEF WorkflowInv
<1>1. UNCHANGED <<request, structure, given, mesh, phase, stages, previews>> /\ phase = "building"
  BY DEF BuildStage
<1>2. \A stage, i : Shown(stage)' = Shown(stage) /\ StageJob(stage, i)' = StageJob(stage, i)
  BY <1>1, InputsStay
<1>3. AskedIsKnown' /\ StagesAreValid' /\ AnswersAreReal' /\ PreviewsAreOfStages'
  BY <1>1, <1>2 DEF AskedIsKnown, StagesAreValid, AnswersAreReal, IsWorkflow, PreviewsAreOfStages
<1>4. JobsAreOfStages'
  <2> DEFINE S == {StageJob(stages[i], i) : i \in DOMAIN stages}
             n == Len(jobs) + 1
  <2>1. jobs \in Seq(S) /\ \A i \in DOMAIN jobs : i \in DOMAIN stages /\ jobs[i] = StageJob(stages[i], i)
    BY DEF JobsAreOfStages
  <2>2. n \in DOMAIN stages
    BY <1>1, <2>1 DEF BuildStage, StagesAreValid, IsWorkflow
  <2>3. StageJob(stages[n], n) \in S
    BY <2>2
  <2>4. S' = S
    BY <1>1, <1>2
  <2>5. jobs' = Append(jobs, StageJob(stages[n], n))
    BY DEF BuildStage
  <2> HIDE DEF S
  <2>6. jobs' \in Seq(S) /\ DOMAIN jobs' = 1..n /\ jobs'[n] = StageJob(stages[n], n)
        /\ \A i \in 1..Len(jobs) : jobs'[i] = jobs[i]
    BY <2>1, <2>3, <2>5
  <2>7. \A i \in DOMAIN jobs' : i \in DOMAIN stages /\ jobs'[i] = StageJob(stages[i], i)
    BY <2>1, <2>2, <2>6
  <2> QED
    BY <1>1, <1>2, <2>4, <2>6, <2>7 DEF JobsAreOfStages, S
<1> QED BY <1>3, <1>4

LEMMA FinishIsSafe == WorkflowInv /\ Finish => WorkflowInv'
<1> SUFFICES ASSUME WorkflowInv, Finish PROVE WorkflowInv'
  OBVIOUS
<1>1. \A stage, i : Shown(stage)' = Shown(stage) /\ StageJob(stage, i)' = StageJob(stage, i)
  BY InputsStay DEF Finish
<1> QED
  BY <1>1 DEF Finish, WorkflowInv, AskedIsKnown, StagesAreValid, AnswersAreReal, IsWorkflow, PreviewsAreOfStages, JobsAreOfStages

LEMMA WorkflowStep == WorkflowInv /\ [Next]_vars => WorkflowInv'
<1>1. ASSUME WorkflowInv, UNCHANGED vars PROVE WorkflowInv'
  <2>1. \A stage, i : Shown(stage)' = Shown(stage) /\ StageJob(stage, i)' = StageJob(stage, i)
    BY <1>1, InputsStay DEF vars
  <2> QED
    <3>1. \A stage : PreviewIsRefused(stage)' = PreviewIsRefused(stage)
      BY <1>1 DEF PreviewIsRefused, HasActiveU, vars
    <3>2. AnswersAreReal'
      BY <1>1, <3>1 DEF vars, WorkflowInv, AnswersAreReal, IsWorkflow
    <3> QED
      BY <1>1, <2>1, <3>2 DEF vars, WorkflowInv, AskedIsKnown, StagesAreValid, IsWorkflow,
                              PreviewsAreOfStages, JobsAreOfStages
<1> QED
  BY <1>1, AcceptIsSafe, PreviewIsSafe, SubmitIsSafe, BuildIsSafe, FinishIsSafe DEF Next

\* What is shown and what is built is of the stages of the request, which are valid.
THEOREM WorkflowIsSafe == Spec => []WorkflowInv
BY WorkflowStart, WorkflowStep, PTL DEF Spec
LEMMA JobsAreOfValidStages ==
    ASSUME WorkflowInv, NEW i \in DOMAIN jobs
    PROVE  /\ i \in 1..Len(stages) /\ IsWorkflow(stages) /\ DOMAIN jobs = 1..Len(jobs) /\ Len(jobs) \in Nat
           /\ IsProper(stages[i]) /\ StageIsValid(stages[i]) /\ jobs[i] = StageJob(stages[i], i)
           /\ Undecided(given) /\ structure # Absent
           /\ i \in DOMAIN previews /\ previews[i] = Shown(stages[i])
<1>1. jobs # << >> /\ DOMAIN jobs = 1..Len(jobs) /\ Len(jobs) \in Nat
  BY DEF WorkflowInv, JobsAreOfStages
<1>2. i \in DOMAIN stages /\ jobs[i] = StageJob(stages[i], i) /\ phase \in {"building", "built"}
  BY <1>1 DEF WorkflowInv, JobsAreOfStages
<1>3. IsWorkflow(stages)
  BY <1>2 DEF WorkflowInv, StagesAreValid
<1>4. i \in 1..Len(stages) /\ IsProper(stages[i]) /\ StageIsValid(stages[i])
  BY <1>2, <1>3 DEF IsWorkflow, WorkflowIsValid
<1>5. Undecided(given) /\ structure # Absent
  BY GivenAssumption, RequestAssumption DEF WorkflowInv, AskedIsKnown, Undecided
<1>6. DOMAIN previews = 1..Len(stages)
  BY <1>2, <1>3 DEF WorkflowInv, PreviewsAreOfStages, IsWorkflow
<1>7. previews[i] = Shown(stages[i])
  BY <1>4, <1>6 DEF WorkflowInv, PreviewsAreOfStages
<1> QED BY <1>1, <1>2, <1>3, <1>4, <1>5, <1>6, <1>7

-----------------------------------------------------------------------------
(* What is built.                                                          *)

LEMMA UIsTelling ==
    ASSUME NEW s, NEW stage, IsProper(stage), StageIsValid(stage), UIsTold(s, stage.modifiers, stage.options.dft_u)
    PROVE  /\ "dft_u" \in stage.modifiers <=> ~WithoutHubbard(s)
           /\ stage.options.dft_u # Absent => s.LDAU = stage.options.dft_u
BY ValidStages DEF UIsTold, WithoutHubbard, IsProper, Says

LEMMA TreatmentsReach == WorkflowInv => TreatmentsReachTheInputs
<1> SUFFICES ASSUME WorkflowInv, NEW i \in DOMAIN jobs
             PROVE  LET incar == jobs[i].inputs.incar
                        has(m) == m \in stages[i].modifiers
                    IN  /\ has("dft_u") <=> ~WithoutHubbard(incar)
                        /\ stages[i].options.dft_u # Absent => incar.LDAU = stages[i].options.dft_u
                        /\ has("soc") <=> get(incar, "LSORBIT") = "T"
                        /\ has("soc") =>
                              /\ get(incar, "ISPIN") = "None" /\ get(incar, "LELF") = "None" /\ incar.ISYM = "0"
                              /\ "MAGMOM" \in DOMAIN incar
                              /\ jobs[i].kwargs.executable = "vasp_ncl" /\ ~jobs[i].kwargs.auto_gamma
                        /\ has("dispersion") <=> jobs[i].inputs.vdw # Absent
                        /\ stages[i].theory = "hse06" =>
                              /\ incar.LHFCALC = "T" /\ incar.GGA = "PE" /\ "KPAR" \notin DOMAIN incar
                              /\ stages[i].type \in Analysis =>
                                    "auto_nbands" \in jobs[i].kwargs.without /\ incar.ALGO = "Normal"
  BY DEF TreatmentsReachTheInputs
<1> DEFINE stage == stages[i]
           job   == jobs[i]
           incar == job.inputs.incar
<1>1. IsProper(stage) /\ StageIsValid(stage) /\ JobTells(job, stage, i)
  BY JobsAreOfValidStages, JobsTell
<1> HIDE DEF stage, job
<1>2. /\ UIsTold(incar, stage.modifiers, stage.options.dft_u) /\ SocIsTold(incar, stage.modifiers)
      /\ HybridIsTold(incar, stage.theory) /\ job.inputs.vdw = DispersionMethod(stage)
      /\ job.kwargs.executable = RunKwargs(stage.modifiers).executable
      /\ job.kwargs.auto_gamma = RunKwargs(stage.modifiers).auto_gamma
      /\ Is(stage, Analysis, "hse06") => "auto_nbands" \in job.kwargs.without /\ Says(incar, "ALGO", "Normal")
  BY <1>1 DEF JobTells
<1> HIDE DEF incar
<1>3. /\ "dft_u" \in stage.modifiers <=> ~WithoutHubbard(incar)
      /\ stage.options.dft_u # Absent => incar.LDAU = stage.options.dft_u
  BY <1>1, <1>2, UIsTelling
<1>4. /\ "soc" \in stage.modifiers <=> get(incar, "LSORBIT") = "T"
      /\ "soc" \in stage.modifiers =>
            /\ get(incar, "ISPIN") = "None" /\ get(incar, "LELF") = "None" /\ incar.ISYM = "0"
            /\ "MAGMOM" \in DOMAIN incar
  BY <1>2 DEF SocIsTold, Says, get
<1>5. "soc" \in stage.modifiers => job.kwargs.executable = "vasp_ncl" /\ ~job.kwargs.auto_gamma
  BY <1>2 DEF RunKwargs
<1>6. "dispersion" \in stage.modifiers <=> job.inputs.vdw # Absent
  <2>1. "dispersion" \in stage.modifiers => DispersionMethod(stage) # Absent
    BY <1>1, ValidStages, RequestAssumption
  <2>2. "dispersion" \notin stage.modifiers => DispersionMethod(stage) = Absent
    BY DEF DispersionMethod
  <2> QED BY <1>2, <2>1, <2>2
<1>7. stage.theory = "hse06" =>
         /\ incar.LHFCALC = "T" /\ incar.GGA = "PE" /\ "KPAR" \notin DOMAIN incar
         /\ stage.type \in Analysis => "auto_nbands" \in job.kwargs.without /\ incar.ALGO = "Normal"
  BY <1>2 DEF HybridIsTold, Says, Is
<1> QED
  BY <1>3, <1>4, <1>5, <1>6, <1>7 DEF stage, job, incar

LEMMA RestartsAreOfStatics ==
    ASSUME WorkflowInv, NEW i \in DOMAIN jobs, ReadsChargeDensity(stages[i])
    PROVE  /\ i > 1 /\ i - 1 \in DOMAIN jobs
           /\ stages[i - 1].type = "static" /\ stages[i - 1].theory = "pbe"
           /\ Agree(stages[i - 1], stages[i], "dft_u") /\ Agree(stages[i - 1], stages[i], "soc")
<1>1. i \in 1..Len(stages) /\ IsWorkflow(stages) /\ DOMAIN jobs = 1..Len(jobs) /\ Len(jobs) \in Nat
  BY JobsAreOfValidStages
<1>2. stages[i].type \in Analysis /\ stages[i].theory = "pbe"
  BY DEF ReadsChargeDensity, Is
<1>3. i > 1 /\ stages[i - 1].type = "static" /\ AcceptsPrecursor(stages[i - 1], stages[i])
  BY <1>1, <1>2 DEF IsWorkflow, WorkflowIsValid
<1>4. ElectronicDataFits(stages[i - 1], stages[i])
  BY <1>1, <1>3 DEF IsWorkflow, WorkflowIsValid
<1> QED
  BY <1>1, <1>2, <1>3, <1>4 DEF AcceptsPrecursor, ElectronicDataFits, Is

LEMMA RestartsRead ==
    ASSUME WorkflowInv, NEW i \in DOMAIN jobs, ReadsChargeDensity(stages[i])
    PROVE  LET mine == jobs[i].inputs.incar
               prev == jobs[i - 1].inputs
           IN  /\ prev.class = "static"
               /\ prev.incar.LCHARG = "T" \/ "LCHARG" \in DOMAIN given
               /\ \A key \in {"LHFCALC", "LSORBIT", "ENCUT"} : get(prev.incar, key) = get(mine, key)
               /\ WithoutHubbard(prev.incar) <=> WithoutHubbard(mine)
<1> DEFINE before == stages[i - 1]
           stage  == stages[i]
           mine   == jobs[i].inputs.incar
           prev   == jobs[i - 1].inputs
           theory == IF IsHybridIncar(given) THEN "hse06" ELSE "pbe"
           s == StaticSettings(given, theory, before.modifiers, structure, "static")
           t == StaticSettings(given, theory, stage.modifiers, structure, stage.type)
<1>1. /\ i - 1 \in DOMAIN jobs /\ before.type = "static" /\ before.theory = "pbe"
      /\ Agree(before, stage, "dft_u") /\ Agree(before, stage, "soc")
  BY RestartsAreOfStatics
<1>2. /\ IsProper(before) /\ StageIsValid(before) /\ jobs[i - 1] = StageJob(before, i - 1)
      /\ IsProper(stage) /\ StageIsValid(stage) /\ jobs[i] = StageJob(stage, i)
      /\ Undecided(given) /\ structure # Absent
  BY <1>1, JobsAreOfValidStages
<1>3. /\ JobTells(jobs[i - 1], before, i - 1) /\ prev.class = "static"
      /\ "LCHARG" \notin DOMAIN given => prev.incar.LCHARG = "T"
  BY <1>1, <1>2, StaticJob DEF Says
<1>4. prev.incar = WithFrozenU(s, before.options.dft_u)
  BY <1>1, <1>2 DEF StageJob, FlowJob, StaticGenerator, Generator, StageTheory
<1>5. stage.type \in Analysis /\ stage.theory = "pbe"
  BY DEF ReadsChargeDensity, Is
<1>6. JobTells(jobs[i], stage, i) /\ mine = update(t, [ICHARG |-> "11"])
  BY <1>2, <1>5, AnalysisJob DEF RestartSettings
<1>7. Keeps(s, t, "LHFCALC") /\ Keeps(s, t, "ENCUT")
  BY StaticsAgree
<1> HIDE DEF s, t
<1>8. \A k \in {"LHFCALC", "ENCUT"} : Keeps(s, prev.incar, k)
  BY <1>4, FrozenKeeps
<1>9. \A k \in {"LHFCALC", "ENCUT"} : Keeps(t, mine, k)
  <2>1. DOMAIN [ICHARG |-> "11"] = {"ICHARG"}
    OBVIOUS
  <2> QED BY <1>6, <2>1, UpdateKeeps
<1> HIDE DEF mine, prev
<1>10. \A k \in {"LHFCALC", "ENCUT"} : get(prev.incar, k) = get(mine, k)
  BY <1>7, <1>8, <1>9 DEF Keeps, get
<1>11. /\ UIsTold(prev.incar, before.modifiers, before.options.dft_u) /\ SocIsTold(prev.incar, before.modifiers)
       /\ UIsTold(mine, stage.modifiers, stage.options.dft_u) /\ SocIsTold(mine, stage.modifiers)
  BY <1>3, <1>6 DEF JobTells, mine, prev
<1>12. get(prev.incar, "LSORBIT") = get(mine, "LSORBIT")
  BY <1>1, <1>11 DEF SocIsTold, Says, Agree, get
<1>13. WithoutHubbard(prev.incar) <=> WithoutHubbard(mine)
  BY <1>1, <1>2, <1>11, UIsTelling DEF Agree
<1> QED
  BY <1>3, <1>10, <1>12, <1>13 DEF mine, prev

LEMMA RestartsReadable == WorkflowInv => RestartsAreReadable
<1> SUFFICES ASSUME WorkflowInv, NEW i \in DOMAIN jobs
             PROVE  /\ jobs[i].from = i - 1
                    /\ get(jobs[i].inputs.incar, "ICHARG") = "11" => ReadsChargeDensity(stages[i])
                    /\ ReadsChargeDensity(stages[i]) => jobs[i].prev = i - 1
  BY RestartsAreOfStatics, RestartsRead DEF RestartsAreReadable
<1>1. JobTells(jobs[i], stages[i], i)
  BY JobsAreOfValidStages, JobsTell
<1> QED
  BY <1>1 DEF JobTells, get
-----------------------------------------------------------------------------
(* What is shown.                                                          *)

PurposesOfStages == {"relax", "static", "relax_static", "double_relax", "dos", "band_structure"}

LEMMA StagesOfPurposes ==
    /\ DOMAIN PURPOSE_STAGES = PurposesOfStages
    /\ PURPOSE_STAGES["relax"] = <<"relax">> /\ PURPOSE_STAGES["static"] = <<"static">>
    /\ PURPOSE_STAGES["relax_static"] = <<"relax", "static">>
    /\ PURPOSE_STAGES["double_relax"] = <<"relax", "relax">>
    /\ PURPOSE_STAGES["dos"] = <<"relax", "static", "dos">>
    /\ PURPOSE_STAGES["band_structure"] = <<"relax", "static", "band_structure">>
BY DEF PURPOSE_STAGES, PurposesOfStages

\* A valid stage alone is a supported calculation.
LEMMA OneStageIsSupported ==
    ASSUME NEW stage, IsProper(stage), StageIsValid(stage), stage.type \in {"relax", "static"}
    PROVE  CalculationIsValid(CalculationSpec(stage.type, stage.theory, stage.modifiers))
<1>1. stage.modifiers \subseteq StageModifiers(stage.type, stage.theory) /\ stage.theory \in {"pbe", "hse06"}
  BY ValidStages DEF StageIsValid
<1> QED
  BY <1>1 DEF CalculationIsValid, CalculationSpec, StageModifiers, CompatibilityModifiers

LEMMA OneStageAsCalculation ==
    ASSUME NEW w, IsWorkflow(w), Len(w) = 1, calculation_spec_from_workflow_spec(w) # Absent
    PROVE  /\ w[1].options = NoOptions /\ w[1].type \in {"relax", "static"}
           /\ calculation_spec_from_workflow_spec(w) = CalculationSpec(w[1].type, w[1].theory, w[1].modifiers)
<1> DEFINE types == [i \in DOMAIN w |-> w[i].type]
           fits  == {p \in DOMAIN PURPOSE_STAGES : PURPOSE_STAGES[p] = types}
           q     == CHOOSE p \in fits : TRUE
           As(p) == CalculationSpec(p, w[1].theory, w[1].modifiers)
<1>1. DOMAIN w = {1} /\ IsProper(w[1]) /\ StageIsValid(w[1]) /\ WorkflowIsValid(w)
  BY DEF IsWorkflow, WorkflowIsValid
<1>2. \A p \in fits : p = w[1].type /\ p \in {"relax", "static"}
  BY <1>1, StagesOfPurposes DEF PurposesOfStages
<1>3. w[1].options = NoOptions /\ fits # {}
  BY <1>1 DEF calculation_spec_from_workflow_spec
<1>4. q = w[1].type /\ w[1].type \in {"relax", "static"}
  BY <1>2, <1>3
<1>5. CalculationIsValid(As(q))
  BY <1>1, <1>4, OneStageIsSupported
<1>6. calculation_spec_from_workflow_spec(w) = As(q)
  BY <1>1, <1>3, <1>5 DEF calculation_spec_from_workflow_spec
<1> QED BY <1>3, <1>4, <1>6

LEMMA ShownIsRunAlone ==
    ASSUME WorkflowInv, ~IsHybridIncar(given), phase = "built", Len(stages) = 1
    PROVE  preview_generated_inputs = PreviewGenerator(stages[1])
<1> DEFINE spec == calculation_spec_from_workflow_spec(stages)
<1>1. IsWorkflow(stages)
  BY DEF WorkflowInv, StagesAreValid
<1>2. CASE spec = Absent
  BY <1>2 DEF preview_generated_inputs
<1>3. CASE spec # Absent
  <2>1. /\ stages[1].options = NoOptions /\ stages[1].type \in {"relax", "static"}
        /\ spec = CalculationSpec(stages[1].type, stages[1].theory, stages[1].modifiers)
    BY <1>1, <1>3, OneStageAsCalculation
  <2>2. preview_generated_inputs = build_vasp_input_set_generator_for_spec(spec)
    BY <1>3 DEF preview_generated_inputs
  <2>3. /\ spec.purpose = stages[1].type /\ spec.theory = stages[1].theory /\ spec.modifiers = stages[1].modifiers
        /\ LegacyMethod(spec) = DispersionMethod(stages[1]) /\ stages[1].options.dft_u = Absent
    BY <2>1 DEF CalculationSpec, LegacyMethod, DispersionMethod, NoOptions
  <2> HIDE DEF spec
  <2> QED
    BY <2>1, <2>2, <2>3 DEF build_vasp_input_set_generator_for_spec, PreviewGenerator, StageTheory
<1> QED BY <1>2, <1>3

LEMMA PreviewsRun == WorkflowInv => PreviewIsWhatRuns
<1> SUFFICES ASSUME WorkflowInv, ~IsHybridIncar(given) PROVE PreviewIsWhatRuns
  BY DEF PreviewIsWhatRuns
<1>1. ASSUME NEW i \in DOMAIN jobs
      PROVE  /\ jobs[i].inputs = PreviewGenerator(stages[i]) /\ jobs[i].inputs = previews[i].inputs
             /\ jobs[i].kwargs.executable = previews[i].executable
  <2>1. /\ IsProper(stages[i]) /\ StageIsValid(stages[i]) /\ jobs[i] = StageJob(stages[i], i)
        /\ Undecided(given) /\ structure # Absent /\ previews[i] = Shown(stages[i])
    BY JobsAreOfValidStages
  <2>2. jobs[i].kwargs.executable = RunKwargs(stages[i].modifiers).executable
    BY <2>1, JobsTell DEF JobTells
  <2> QED
    BY <2>1, <2>2, ShownIsRun DEF Shown
<1>2. ASSUME phase = "built", Len(stages) = 1 PROVE preview_generated_inputs = jobs[1].inputs
  <2>1. 1 \in DOMAIN jobs
    BY <1>2 DEF WorkflowInv, JobsAreOfStages
  <2> QED
    BY <1>1, <1>2, <2>1, ShownIsRunAlone
<1> QED
  BY <1>1, <1>2 DEF PreviewIsWhatRuns

\* What the user was shown of a stage is what it is run with, also when one stage is shown as
\* a calculation spec (backend/generated_inputs.py, backend/workflows.py).
THEOREM ShownMeansRun == Spec => []PreviewIsWhatRuns
BY PreviewsRun, WorkflowIsSafe, PTL

\* No layer takes back what another decided: the treatments of a stage reach its inputs and
\* its executable, and a hybrid functional keeps what it needs (backend/workflows.py).
THEOREM TreatmentsArrive == Spec => []TreatmentsReachTheInputs
BY TreatmentsReach, WorkflowIsSafe, PTL

\* A stage that reads a charge density is given that of a static stage before it, of the same
\* functional, cutoff, +U and SOC (backend/workflows.py, calculations/registry.py).
THEOREM RestartsFindTheirDensity == Spec => []RestartsAreReadable
BY RestartsReadable, WorkflowIsSafe, PTL
-----------------------------------------------------------------------------
(* The two notations.                                                      *)

Specs == [purpose : Purposes, theory : Theories, modifiers : SUBSET Modifiers]

LEMMA SupportedCalculations ==
    ASSUME NEW spec \in Specs, CalculationIsValid(spec)
    PROVE  /\ spec.purpose \in PurposesOfStages /\ spec.theory \in {"pbe", "hse06"}
           /\ spec.purpose \in {"double_relax", "dos", "band_structure"} => spec.theory = "pbe"
           /\ spec.purpose # "static" => "soc" \notin spec.modifiers
           /\ spec.purpose \in {"dos", "band_structure"} => "dispersion" \notin spec.modifiers
           /\ "ions_only" \in spec.modifiers => spec.purpose = "relax" /\ spec.theory = "pbe"
BY DEF Specs, CalculationIsValid, CompatibilityModifiers, Purposes, Theories, PurposesOfStages, ACTIVE_UI

\* The types of the stages of a purpose.
Makes(p, type) ==
    \/ p = type
    \/ p \in {"relax_static", "double_relax", "dos", "band_structure"} /\ type = "relax"
    \/ p \in {"relax_static", "dos", "band_structure"} /\ type = "static"

\* The stages of a supported calculation support it.
LEMMA StagesSupportCalculations ==
    ASSUME NEW spec \in Specs, CalculationIsValid(spec), NEW type \in StageTypes, Makes(spec.purpose, type)
    PROVE  StageIsValid(Stage(type, spec.theory, spec.modifiers))
<1> DEFINE stage == Stage(type, spec.theory, spec.modifiers)
<1>1. /\ stage.type = type /\ stage.theory = spec.theory /\ stage.modifiers = spec.modifiers
      /\ stage.options.dispersion = Absent /\ stage.options.dft_u = Absent /\ stage.options.other = FALSE
  BY DEF Stage, NoOptions
<1>2. spec.modifiers \in CompatibilityModifiers(spec.purpose, spec.theory)
  BY DEF CalculationIsValid
<1>3. /\ spec.purpose \in PurposesOfStages /\ spec.theory \in {"pbe", "hse06"}
      /\ spec.purpose \in {"double_relax", "dos", "band_structure"} => spec.theory = "pbe"
  BY SupportedCalculations
<1>4. /\ type \in {"relax", "static", "dos", "band_structure"}
      /\ type = "dos" => spec.purpose = "dos"
      /\ type = "band_structure" => spec.purpose = "band_structure"
  BY <1>3 DEF PurposesOfStages, StageTypes, Makes
<1>5. spec.modifiers \subseteq StageModifiers(type, spec.theory)
  <2>1. CASE spec.theory = "pbe" /\ type = "relax"
    BY <1>2, <1>3, <2>1 DEF CompatibilityModifiers, StageModifiers, ACTIVE_UI, PurposesOfStages, Makes
  <2>2. CASE spec.theory = "pbe" /\ type = "static"
    BY <1>2, <1>3, <2>2 DEF CompatibilityModifiers, StageModifiers, ACTIVE_UI, PurposesOfStages, Makes
  <2>3. CASE spec.theory = "pbe" /\ type = "dos"
    BY <1>2, <1>3, <2>3 DEF CompatibilityModifiers, StageModifiers, ACTIVE_UI, PurposesOfStages, Makes
  <2>4. CASE spec.theory = "pbe" /\ type = "band_structure"
    BY <1>2, <1>3, <2>4 DEF CompatibilityModifiers, StageModifiers, ACTIVE_UI, PurposesOfStages, Makes
  <2>5. CASE spec.theory = "hse06"
    BY <1>2, <1>3, <1>4, <2>5 DEF CompatibilityModifiers, StageModifiers, PurposesOfStages, Makes
  <2> QED BY <1>3, <1>4, <2>1, <2>2, <2>3, <2>4, <2>5
<1>6. "dispersion" \in spec.modifiers => type \in {"relax", "static"} /\ spec.theory = "pbe"
  BY <1>3, <1>4, <1>5 DEF StageModifiers, ACTIVE_UI
<1>7. type \in THEORY_STAGES[spec.theory]
  BY <1>3, <1>4 DEF THEORY_STAGES, StageTypes
<1> HIDE DEF stage
<1>8. StageIsValid(stage)
  BY <1>1, <1>4, <1>5, <1>6, <1>7 DEF StageIsValid, IsExecutable, DispersionIsValid, DispersionMethod, FrozenUIsValid, Is
<1> QED BY <1>8 DEF stage

LEMMA TypesOfPurposes ==
    ASSUME NEW p \in PurposesOfStages
    PROVE  LET types == PURPOSE_STAGES[p]
               n     == Len(types)
           IN  /\ types \in Seq(StageTypes) /\ n \in 1..3
               /\ \A i \in 1..n :
                     /\ Makes(p, types[i])
                     /\ types[i] \in Analysis => i = n /\ i > 1 /\ types[i - 1] = "static"
<1> {"relax", "static", "dos", "band_structure"} \subseteq StageTypes
  BY DEF StageTypes
<1>1. CASE p = "relax"
  BY <1>1, StagesOfPurposes, ShortSequences DEF Analysis, Makes
<1>2. CASE p = "static"
  BY <1>2, StagesOfPurposes, ShortSequences DEF Analysis, Makes
<1>3. CASE p = "relax_static"
  BY <1>3, StagesOfPurposes, ShortSequences DEF Analysis, Makes
<1>4. CASE p = "double_relax"
  BY <1>4, StagesOfPurposes, ShortSequences DEF Analysis, Makes
<1>5. CASE p = "dos"
  BY <1>5, StagesOfPurposes, ShortSequences DEF Analysis, Makes
<1>6. CASE p = "band_structure"
  BY <1>6, StagesOfPurposes, ShortSequences DEF Analysis, Makes
<1> QED BY <1>1, <1>2, <1>3, <1>4, <1>5, <1>6 DEF PurposesOfStages

LEMMA UniformStagesAre ==
    ASSUME NEW types \in Seq(StageTypes), NEW theory, NEW m
    PROVE  LET w == UniformStages(types, theory, m)
           IN  /\ Len(w) = Len(types) /\ DOMAIN w = 1..Len(types)
               /\ \A i \in 1..Len(types) :
                     /\ w[i] = Stage(types[i], theory, m) /\ w[i].type = types[i]
                     /\ w[i].theory = theory /\ w[i].modifiers = m /\ w[i].options = NoOptions
<1>1. Len(types) \in Nat /\ DOMAIN types = 1..Len(types) /\ \A i \in DOMAIN types : types[i] \in StageTypes
  OBVIOUS
<1>2. \A i \in 1..Len(types) : UniformStages(types, theory, m)[i] = Stage(types[i], theory, m)
  BY <1>1 DEF UniformStages
<1>3. /\ Len(UniformStages(types, theory, m)) = Len(types)
      /\ DOMAIN UniformStages(types, theory, m) = 1..Len(types)
  BY <1>1 DEF UniformStages
<1> QED
  BY <1>2, <1>3 DEF Stage

LEMMA CalculationsAreWorkflows ==
    ASSUME NEW spec \in Specs, CalculationIsValid(spec)
    PROVE  LET w == UniformStages(PURPOSE_STAGES[spec.purpose], spec.theory, spec.modifiers)
           IN  WorkflowIsValid(w) /\ workflow_spec_from_calculation_spec(spec) = w /\ w # Bad
<1> DEFINE types == PURPOSE_STAGES[spec.purpose]
           w     == UniformStages(types, spec.theory, spec.modifiers)
           n     == Len(types)
<1>1. spec.purpose \in PurposesOfStages
  BY SupportedCalculations
<1>2. /\ types \in Seq(StageTypes) /\ n \in 1..3
      /\ \A i \in 1..n :
            /\ Makes(spec.purpose, types[i])
            /\ types[i] \in Analysis => i = n /\ i > 1 /\ types[i - 1] = "static"
  BY <1>1, TypesOfPurposes
<1>3. /\ workflow_spec_from_calculation_spec(spec) = IF WorkflowIsValid(w) THEN w ELSE Bad
      /\ w # Bad
  BY <1>1, NoValueAssumption, StagesOfPurposes DEF Specs, workflow_spec_from_calculation_spec, validate_workflow_spec
<1> HIDE DEF types
<1>4. /\ Len(w) = n /\ DOMAIN w = 1..n
      /\ \A i \in 1..n :
            /\ w[i] = Stage(types[i], spec.theory, spec.modifiers) /\ w[i].type = types[i]
            /\ w[i].theory = spec.theory /\ w[i].modifiers = spec.modifiers /\ w[i].options = NoOptions
  <2>1. types \in Seq(StageTypes)
    BY <1>2
  <2> QED
    BY <2>1, UniformStagesAre
<1>5. \A i \in 1..n : StageIsValid(w[i])
  <2> TAKE i \in 1..n
  <2>1. types[i] \in StageTypes /\ Makes(spec.purpose, types[i])
    BY <1>2
  <2>2. StageIsValid(Stage(types[i], spec.theory, spec.modifiers))
    BY <2>1, StagesSupportCalculations
  <2> QED BY <1>4, <2>2
<1> HIDE DEF w, n
<1>6. \A i \in 2..n : DispersionFits(w[i - 1], w[i]) /\ ElectronicDataFits(w[i - 1], w[i])
  <2> TAKE i \in 2..n
  <2>1. /\ w[i - 1].modifiers = w[i].modifiers /\ w[i - 1].options = w[i].options
    BY <1>2, <1>4
  <2> QED
    BY <2>1 DEF DispersionFits, DispersionMethod, ElectronicDataFits, Agree
<1>7. \A i \in 1..n : w[i].type \in Analysis =>
         i = n /\ i > 1 /\ w[i - 1].type = "static" /\ AcceptsPrecursor(w[i - 1], w[i])
  BY <1>2, <1>4 DEF AcceptsPrecursor
<1>8. WorkflowIsValid(w)
  BY <1>2, <1>4, <1>5, <1>6, <1>7 DEF WorkflowIsValid
<1> QED
  BY <1>3, <1>8 DEF w, types

LEMMA PurposesAreTold ==
    ASSUME NEW p \in PurposesOfStages, NEW q \in PurposesOfStages, PURPOSE_STAGES[p] = PURPOSE_STAGES[q]
    PROVE  p = q
<1> DEFINE S(r) == PURPOSE_STAGES[r]
<1>1. /\ Len(S("relax")) = 1 /\ S("relax")[1] = "relax" /\ Len(S("static")) = 1 /\ S("static")[1] = "static"
      /\ Len(S("relax_static")) = 2 /\ S("relax_static")[2] = "static"
      /\ Len(S("double_relax")) = 2 /\ S("double_relax")[2] = "relax"
      /\ Len(S("dos")) = 3 /\ S("dos")[3] = "dos"
      /\ Len(S("band_structure")) = 3 /\ S("band_structure")[3] = "band_structure"
  BY StagesOfPurposes
<1> QED
  BY <1>1 DEF PurposesOfStages

\* A supported calculation is found again in its stages.
LEMMA CalculationsComeBack ==
    ASSUME NEW spec \in Specs, CalculationIsValid(spec)
    PROVE  calculation_spec_from_workflow_spec(workflow_spec_from_calculation_spec(spec)) = spec
<1> DEFINE w     == UniformStages(PURPOSE_STAGES[spec.purpose], spec.theory, spec.modifiers)
           types == [i \in DOMAIN w |-> w[i].type]
           fits  == {p \in DOMAIN PURPOSE_STAGES : PURPOSE_STAGES[p] = types}
<1>1. spec.purpose \in PurposesOfStages
  BY SupportedCalculations
<1>2. PURPOSE_STAGES[spec.purpose] \in Seq(StageTypes) /\ Len(PURPOSE_STAGES[spec.purpose]) \in 1..3
  BY <1>1, TypesOfPurposes
<1>3. 1 \in 1..Len(PURPOSE_STAGES[spec.purpose])
  <2>1. \A n \in 1..3 : 1 \in 1..n
    OBVIOUS
  <2> QED
    BY <1>2, <2>1, Zenon
<1>4. /\ DOMAIN w = 1..Len(PURPOSE_STAGES[spec.purpose]) /\ Len(w) = Len(PURPOSE_STAGES[spec.purpose])
      /\ \A i \in DOMAIN w :
            /\ w[i].type = PURPOSE_STAGES[spec.purpose][i] /\ w[i].theory = spec.theory
            /\ w[i].modifiers = spec.modifiers /\ w[i].options = NoOptions
  BY <1>2, UniformStagesAre
<1>5. workflow_spec_from_calculation_spec(spec) = w /\ WorkflowIsValid(w)
  BY CalculationsAreWorkflows
<1>6. types = PURPOSE_STAGES[spec.purpose]
  BY <1>2, <1>4
<1>7. fits = {spec.purpose}
  BY <1>1, <1>6, StagesOfPurposes, PurposesAreTold
<1>8. (CHOOSE q \in fits : TRUE) = spec.purpose
  BY <1>7
<1>9. 1 \in DOMAIN w
  BY <1>3, <1>4
<1>10. CalculationSpec(spec.purpose, w[1].theory, w[1].modifiers) = spec
  BY <1>4, <1>9 DEF CalculationSpec, Specs
<1> HIDE DEF w
<1>11. calculation_spec_from_workflow_spec(w) = spec
  BY <1>4, <1>5, <1>7, <1>8, <1>9, <1>10 DEF calculation_spec_from_workflow_spec
<1> QED
  BY <1>5, <1>11

\* A workflow that stands for a calculation is the one of that calculation, which is supported.
LEMMA StagesOfCalculations ==
    ASSUME NEW w, IsWorkflow(w), calculation_spec_from_workflow_spec(w) # Absent
    PROVE  LET spec == calculation_spec_from_workflow_spec(w)
           IN  /\ spec \in Specs /\ CalculationIsValid(spec) /\ spec # Bad
               /\ \A i \in DOMAIN w :
                     /\ w[i].theory = spec.theory /\ w[i].modifiers = spec.modifiers
                     /\ w[i].options = NoOptions
               /\ [i \in DOMAIN w |-> w[i].type] = PURPOSE_STAGES[spec.purpose]
<1> DEFINE types == [i \in DOMAIN w |-> w[i].type]
           fits  == {p \in DOMAIN PURPOSE_STAGES : PURPOSE_STAGES[p] = types}
           q     == CHOOSE p \in fits : TRUE
           As(p) == CalculationSpec(p, w[1].theory, w[1].modifiers)
           spec  == calculation_spec_from_workflow_spec(w)
<1>1. /\ WorkflowIsValid(w) /\ 1 \in DOMAIN w /\ \A i \in DOMAIN w : IsProper(w[i]) /\ StageIsValid(w[i])
  BY DEF IsWorkflow, WorkflowIsValid
<1>2. /\ \A i \in DOMAIN w :
            w[i].options = NoOptions /\ w[i].theory = w[1].theory /\ w[i].modifiers = w[1].modifiers
      /\ fits # {}
      /\ spec = IF CalculationIsValid(As(q)) THEN As(q)
                ELSE IF q \in {"relax", "static", "relax_static"} THEN Bad ELSE Absent
  BY <1>1 DEF calculation_spec_from_workflow_spec
<1>3. q \in PurposesOfStages /\ PURPOSE_STAGES[q] = types
  BY <1>2, StagesOfPurposes
<1> HIDE DEF q
<1>4. /\ As(q).purpose = q /\ As(q).theory = w[1].theory /\ As(q).modifiers = w[1].modifiers
      /\ As(q) \in Specs /\ As(q) # Bad
  <2>1. q \in Purposes /\ w[1].theory \in Theories /\ w[1].modifiers \in SUBSET Modifiers
    BY <1>1, <1>3 DEF IsProper, PurposesOfStages, Purposes
  <2>2. As(q) # Bad
    BY <2>1, NoValueAssumption
  <2>3. /\ As(q).purpose = q /\ As(q).theory = w[1].theory /\ As(q).modifiers = w[1].modifiers
        /\ As(q) \in Specs
    BY <2>1 DEF CalculationSpec, Specs
  <2> QED BY <2>2, <2>3
<1>5. ASSUME q \in {"relax", "static", "relax_static"} PROVE CalculationIsValid(As(q))
  <2>1. CASE q \in {"relax", "static"}
    <3>1. w[1].type = q
      BY <1>1, <1>3, <2>1, StagesOfPurposes
    <3> QED
      BY <1>1, <2>1, <3>1, OneStageIsSupported
  <2>2. CASE q = "relax_static"
    <3>1. 2 \in DOMAIN w /\ w[1].type = "relax" /\ w[2].type = "static"
      BY <1>1, <1>3, <2>2, StagesOfPurposes
    <3>2. /\ w[1].theory \in {"pbe", "hse06"}
          /\ w[1].modifiers \subseteq StageModifiers("relax", w[1].theory)
          /\ w[1].modifiers \subseteq StageModifiers("static", w[1].theory)
      BY <1>1, <1>2, <3>1, ValidStages DEF StageIsValid
    <3> QED
      BY <1>4, <2>2, <3>2 DEF CalculationIsValid, StageModifiers, CompatibilityModifiers, ACTIVE_UI
  <2> QED BY <1>5, <2>1, <2>2
<1>6. spec = As(q) /\ CalculationIsValid(As(q))
  BY <1>2, <1>5
<1> QED
  BY <1>1, <1>2, <1>3, <1>4, <1>6

\* Without SOC nothing depends on the structure.
LEMMA MomentsAreOfSoc ==
    ASSUME NEW g, NEW k, NEW theory, NEW m, "soc" \notin m, NEW at, NEW at2, NEW method, NEW frozen
    PROVE  /\ RelaxGenerator(g, k, theory, m, at, method, frozen) = RelaxGenerator(g, k, theory, m, at2, method, frozen)
           /\ StaticGenerator(g, k, theory, m, at, method, frozen) = StaticGenerator(g, k, theory, m, at2, method, frozen)
           /\ DosGenerator(g, k, theory, m, at) = DosGenerator(g, k, theory, m, at2)
           /\ BandGenerator(g, k, theory, m, at) = BandGenerator(g, k, theory, m, at2)
<1>1. \A s : WithMoments(s, m, at) = WithMoments(s, m, at2)
  BY MomentsKeep
<1>2. \A type, t :
         /\ RelaxSettings(g, theory, m, at, frozen) = RelaxSettings(g, theory, m, at2, frozen)
         /\ StaticSettings(g, t, m, at, type) = StaticSettings(g, t, m, at2, type)
         /\ HybridAnalysisSettings(g, m, at, type) = HybridAnalysisSettings(g, m, at2, type)
  BY <1>1 DEF RelaxSettings, StaticSettings, HybridAnalysisSettings
<1>3. \A type : RestartSettings(g, m, at, type) = RestartSettings(g, m, at2, type)
  BY <1>2 DEF RestartSettings
<1> QED
  BY <1>2, <1>3 DEF RelaxGenerator, StaticGenerator, DosGenerator, BandGenerator

\* The i-th job of a calculation, of whose stages the type is told.
PlainJob(spec, type, i, at) ==
    LET m == spec.modifiers
    IN  CASE type = "relax"  -> FlowJob(RelaxGenerator(given, mesh, spec.theory, m, at, LegacyMethod(spec), Absent),
                                        RunKwargs(m), i - 1, 0)
          [] type = "static" -> FlowJob(StaticGenerator(given, mesh, StageTheory(spec.theory), m, at,
                                                        LegacyMethod(spec), Absent), RunKwargs(m), i - 1, i - 1)
          [] type = "dos"    -> FlowJob(DosGenerator(given, mesh, "pbe", m, at), RunKwargs(m), i - 1, i - 1)
          [] type = "band_structure" ->
                FlowJob(BandGenerator(given, mesh, "pbe", m, at), RunKwargs(m), i - 1, i - 1)

LEMMA PlainJobs ==
    ASSUME NEW stage, NEW spec, NEW i, NEW at,
           stage.theory = spec.theory, stage.modifiers = spec.modifiers, stage.options = NoOptions,
           stage.type \in {"relax", "static", "dos", "band_structure"},
           stage.type = "relax" => "soc" \notin spec.modifiers,
           stage.type \in Analysis => spec.theory = "pbe",
           "soc" \notin spec.modifiers \/ at = structure
    PROVE  StageJob(stage, i) = PlainJob(spec, stage.type, i, at)
<1> DEFINE m      == spec.modifiers
           method == LegacyMethod(spec)
           first  == IF i = 1 THEN structure ELSE Absent
<1>1. DispersionMethod(stage) = method /\ stage.options.dft_u = Absent
  BY DEF DispersionMethod, NoOptions, LegacyMethod
<1> HIDE DEF method
<1>2. CASE stage.type = "relax"
  <2>1. RelaxGenerator(given, mesh, spec.theory, m, first, method, Absent)
          = RelaxGenerator(given, mesh, spec.theory, m, at, method, Absent)
    BY <1>2, MomentsAreOfSoc
  <2> QED
    BY <1>1, <1>2, <2>1 DEF StageJob, PlainJob, method
<1>3. CASE stage.type = "static"
  <2>1. StaticGenerator(given, mesh, StageTheory(spec.theory), m, structure, method, Absent)
          = StaticGenerator(given, mesh, StageTheory(spec.theory), m, at, method, Absent)
    BY MomentsAreOfSoc
  <2> QED
    BY <1>1, <1>3, <2>1 DEF StageJob, PlainJob, method
<1>4. CASE stage.type = "dos"
  <2>1. DosGenerator(given, mesh, "pbe", m, structure) = DosGenerator(given, mesh, "pbe", m, at)
    BY MomentsAreOfSoc
  <2> QED
    BY <1>4, <2>1 DEF StageJob, PlainJob, Analysis
<1>5. CASE stage.type = "band_structure"
  <2>1. BandGenerator(given, mesh, "pbe", m, structure) = BandGenerator(given, mesh, "pbe", m, at)
    BY MomentsAreOfSoc
  <2> QED
    BY <1>5, <2>1 DEF StageJob, PlainJob, Analysis
<1> QED BY <1>2, <1>3, <1>4, <1>5

LEMMA ShortFunctions ==
    ASSUME NEW s, NEW n, s = [i \in 1..n |-> s[i]]
    PROVE  /\ n = 1 => s = <<s[1]>>
           /\ n = 2 => s = <<s[1], s[2]>>
           /\ n = 3 => s = <<s[1], s[2], s[3]>>
OBVIOUS

LEMMA Appended ==
    ASSUME NEW a, NEW b, NEW c
    PROVE  Append(<<a>>, b) = <<a, b>> /\ Append(<<a, b>>, c) = <<a, b, c>>
<1>1. /\ <<a>> \in Seq({a, b, c}) /\ <<a, b>> \in Seq({a, b, c}) /\ <<a, b, c>> \in Seq({a, b, c})
  OBVIOUS
<1>2. /\ Append(<<a>>, b) \in Seq({a, b, c}) /\ Append(<<a, b>>, c) \in Seq({a, b, c})
      /\ Len(Append(<<a>>, b)) = 2 /\ Append(<<a>>, b)[1] = a /\ Append(<<a>>, b)[2] = b
      /\ Len(Append(<<a, b>>, c)) = 3
      /\ Append(<<a, b>>, c)[1] = a /\ Append(<<a, b>>, c)[2] = b /\ Append(<<a, b>>, c)[3] = c
  BY <1>1
<1>3. Append(<<a>>, b) = <<a, b>>
  <2> DEFINE s == Append(<<a>>, b)
             t == <<a, b>>
  <2>1. t \in Seq({a, b, c}) /\ Len(t) = 2 /\ t[1] = a /\ t[2] = b
    BY <1>1
  <2> HIDE DEF s, t
  <2> QED
    <3>1. s \in Seq({a, b, c}) /\ Len(s) = Len(t) /\ \A i \in 1..Len(s) : s[i] = t[i]
      BY <1>2, <2>1 DEF s
    <3>2. s = t
      BY <2>1, <3>1, SeqEqual
    <3> QED BY <3>2 DEF s, t
<1>4. Append(<<a, b>>, c) = <<a, b, c>>
  <2> DEFINE s == Append(<<a, b>>, c)
             t == <<a, b, c>>
  <2>1. t \in Seq({a, b, c}) /\ Len(t) = 3 /\ t[1] = a /\ t[2] = b /\ t[3] = c
    BY <1>1
  <2> HIDE DEF s, t
  <2> QED
    <3>1. s \in Seq({a, b, c}) /\ Len(s) = Len(t) /\ \A i \in 1..Len(s) : s[i] = t[i]
      BY <1>2, <2>1 DEF s
    <3>2. s = t
      BY <2>1, <3>1, SeqEqual
    <3> QED BY <3>2 DEF s, t
<1> QED BY <1>3, <1>4

\* The function for the purpose of a calculation makes the jobs of its stages.
LEMMA BuildersAgree ==
    ASSUME WorkflowInv, phase = "built", calculation_spec_from_workflow_spec(stages) # Absent
    PROVE  jobs = build_atomate2_flow_for_spec(calculation_spec_from_workflow_spec(stages))
<1> DEFINE spec  == calculation_spec_from_workflow_spec(stages)
           types == PURPOSE_STAGES[spec.purpose]
           n     == Len(jobs)
<1>1. IsWorkflow(stages) /\ structure # Absent
  BY RequestAssumption DEF WorkflowInv, StagesAreValid, AskedIsKnown
<1>2. /\ spec \in Specs /\ CalculationIsValid(spec)
      /\ \A i \in DOMAIN stages :
            stages[i].theory = spec.theory /\ stages[i].modifiers = spec.modifiers /\ stages[i].options = NoOptions
      /\ [i \in DOMAIN stages |-> stages[i].type] = types
  BY <1>1, StagesOfCalculations
<1>3. /\ spec.purpose \in PurposesOfStages
      /\ spec.purpose \in {"double_relax", "dos", "band_structure"} => spec.theory = "pbe"
      /\ spec.purpose # "static" => "soc" \notin spec.modifiers
  BY <1>2, SupportedCalculations
<1>4. /\ n \in Nat /\ n = Len(stages) /\ DOMAIN stages = 1..n /\ DOMAIN jobs = 1..n
      /\ jobs = [i \in 1..n |-> jobs[i]]
      /\ \A i \in 1..n : jobs[i] = StageJob(stages[i], i)
  BY <1>1 DEF WorkflowInv, JobsAreOfStages, IsWorkflow
<1> HIDE DEF spec, n
<1> SUFFICES jobs = build_atomate2_flow_for_spec(spec)
  BY DEF spec
<1>5. DOMAIN types = 1..n /\ \A i \in 1..n : stages[i].type = types[i]
  BY <1>2, <1>4
<1>6. /\ types \in Seq(StageTypes) /\ \A i \in 1..Len(types) : Makes(spec.purpose, types[i])
  BY <1>3, TypesOfPurposes
<1>7. n = Len(types)
  BY <1>4, <1>5, <1>6
<1> HIDE DEF types
<1>8. \A at : \A i \in 1..n : "soc" \notin spec.modifiers \/ at = structure =>
         jobs[i] = PlainJob(spec, types[i], i, at)
  <2> TAKE at
  <2> TAKE i \in 1..n
  <2> HAVE "soc" \notin spec.modifiers \/ at = structure
  <2>1. /\ stages[i].theory = spec.theory /\ stages[i].modifiers = spec.modifiers
        /\ stages[i].options = NoOptions /\ jobs[i] = StageJob(stages[i], i) /\ stages[i].type = types[i]
    BY <1>2, <1>4, <1>5
  <2>2. Makes(spec.purpose, types[i]) /\ types[i] \in StageTypes
    BY <1>6, <1>7
  <2>3. /\ types[i] \in {"relax", "static", "dos", "band_structure"}
        /\ types[i] = "relax" => "soc" \notin spec.modifiers
        /\ types[i] \in Analysis => spec.theory = "pbe"
    BY <1>3, <2>2 DEF Makes, PurposesOfStages, Analysis, StageTypes
  <2> QED
    BY <2>1, <2>3, PlainJobs
<1>9. /\ build_relax_flow(spec) = <<PlainJob(spec, "relax", 1, structure)>>
      /\ build_static_flow(spec) = <<PlainJob(spec, "static", 1, structure)>>
      /\ build_relax_static_flow(spec) = Append(build_relax_flow(spec), PlainJob(spec, "static", 2, Absent))
      /\ spec.theory = "pbe" =>
            /\ build_double_relax_flow(spec) = Append(build_relax_flow(spec), PlainJob(spec, "relax", 2, Absent))
            /\ build_dos_flow(spec) = Append(build_relax_static_flow(spec), PlainJob(spec, "dos", 3, Absent))
            /\ build_band_structure_flow(spec)
                  = Append(build_relax_static_flow(spec), PlainJob(spec, "band_structure", 3, Absent))
  <2>1. 1 - 1 = 0 /\ 2 - 1 = 1 /\ 3 - 1 = 2
    OBVIOUS
  <2>2. \A at : \A i \in 1..3 :
           /\ PlainJob(spec, "relax", i, at)
                 = FlowJob(RelaxGenerator(given, mesh, spec.theory, spec.modifiers, at, LegacyMethod(spec), Absent),
                           RunKwargs(spec.modifiers), i - 1, 0)
           /\ PlainJob(spec, "static", i, at)
                 = FlowJob(StaticGenerator(given, mesh, StageTheory(spec.theory), spec.modifiers, at,
                                           LegacyMethod(spec), Absent), RunKwargs(spec.modifiers), i - 1, i - 1)
           /\ PlainJob(spec, "dos", i, at)
                 = FlowJob(DosGenerator(given, mesh, "pbe", spec.modifiers, at), RunKwargs(spec.modifiers), i - 1, i - 1)
           /\ PlainJob(spec, "band_structure", i, at)
                 = FlowJob(BandGenerator(given, mesh, "pbe", spec.modifiers, at), RunKwargs(spec.modifiers), i - 1, i - 1)
    BY DEF PlainJob
  <2> QED
    BY <2>1, <2>2 DEF build_relax_flow, build_static_flow, build_relax_static_flow, build_double_relax_flow,
                      build_dos_flow, build_band_structure_flow
<1>10. CASE spec.purpose = "relax"
  <2>1. n = 1 /\ types[1] = "relax"
    BY <1>7, <1>10, StagesOfPurposes DEF types
  <2>2. /\ jobs[1] = PlainJob(spec, "relax", 1, structure)
    BY <1>3, <1>8, <1>10, <2>1
  <2>3. build_atomate2_flow_for_spec(spec)
          = <<PlainJob(spec, "relax", 1, structure)>>
    BY <1>9, <1>10 DEF build_atomate2_flow_for_spec
  <2>4. jobs = <<jobs[1]>>
    BY <1>4, <2>1, ShortFunctions
  <2> QED
    BY <2>2, <2>3, <2>4
<1>11. CASE spec.purpose = "static"
  <2>1. n = 1 /\ types[1] = "static"
    BY <1>7, <1>11, StagesOfPurposes DEF types
  <2>2. /\ jobs[1] = PlainJob(spec, "static", 1, structure)
    BY <1>3, <1>8, <1>11, <2>1
  <2>3. build_atomate2_flow_for_spec(spec)
          = <<PlainJob(spec, "static", 1, structure)>>
    BY <1>9, <1>11 DEF build_atomate2_flow_for_spec
  <2>4. jobs = <<jobs[1]>>
    BY <1>4, <2>1, ShortFunctions
  <2> QED
    BY <2>2, <2>3, <2>4
<1>12. CASE spec.purpose = "relax_static"
  <2>1. n = 2 /\ types[1] = "relax" /\ types[2] = "static"
    BY <1>7, <1>12, StagesOfPurposes DEF types
  <2>2. /\ jobs[1] = PlainJob(spec, "relax", 1, structure)
        /\ jobs[2] = PlainJob(spec, "static", 2, Absent)
    BY <1>3, <1>8, <1>12, <2>1
  <2>3. build_atomate2_flow_for_spec(spec)
          = <<PlainJob(spec, "relax", 1, structure), PlainJob(spec, "static", 2, Absent)>>
    BY <1>3, <1>9, <1>12, Appended DEF build_atomate2_flow_for_spec
  <2>4. jobs = <<jobs[1], jobs[2]>>
    BY <1>4, <2>1, ShortFunctions
  <2> QED
    BY <2>2, <2>3, <2>4
<1>13. CASE spec.purpose = "double_relax"
  <2>1. n = 2 /\ types[1] = "relax" /\ types[2] = "relax"
    BY <1>7, <1>13, StagesOfPurposes DEF types
  <2>2. /\ jobs[1] = PlainJob(spec, "relax", 1, structure)
        /\ jobs[2] = PlainJob(spec, "relax", 2, Absent)
    BY <1>3, <1>8, <1>13, <2>1
  <2>3. build_atomate2_flow_for_spec(spec)
          = <<PlainJob(spec, "relax", 1, structure), PlainJob(spec, "relax", 2, Absent)>>
    BY <1>3, <1>9, <1>13, Appended DEF build_atomate2_flow_for_spec
  <2>4. jobs = <<jobs[1], jobs[2]>>
    BY <1>4, <2>1, ShortFunctions
  <2> QED
    BY <2>2, <2>3, <2>4
<1>14. CASE spec.purpose = "dos"
  <2>1. n = 3 /\ types[1] = "relax" /\ types[2] = "static" /\ types[3] = "dos"
    BY <1>7, <1>14, StagesOfPurposes DEF types
  <2>2. /\ jobs[1] = PlainJob(spec, "relax", 1, structure)
        /\ jobs[2] = PlainJob(spec, "static", 2, Absent)
        /\ jobs[3] = PlainJob(spec, "dos", 3, Absent)
    BY <1>3, <1>8, <1>14, <2>1
  <2>3. build_atomate2_flow_for_spec(spec)
          = <<PlainJob(spec, "relax", 1, structure),
              PlainJob(spec, "static", 2, Absent),
              PlainJob(spec, "dos", 3, Absent)>>
    BY <1>3, <1>9, <1>14, Appended DEF build_atomate2_flow_for_spec
  <2>4. jobs = <<jobs[1], jobs[2], jobs[3]>>
    BY <1>4, <2>1, ShortFunctions
  <2> QED
    BY <2>2, <2>3, <2>4
<1>15. CASE spec.purpose = "band_structure"
  <2>1. n = 3 /\ types[1] = "relax" /\ types[2] = "static" /\ types[3] = "band_structure"
    BY <1>7, <1>15, StagesOfPurposes DEF types
  <2>2. /\ jobs[1] = PlainJob(spec, "relax", 1, structure)
        /\ jobs[2] = PlainJob(spec, "static", 2, Absent)
        /\ jobs[3] = PlainJob(spec, "band_structure", 3, Absent)
    BY <1>3, <1>8, <1>15, <2>1
  <2>3. build_atomate2_flow_for_spec(spec)
          = <<PlainJob(spec, "relax", 1, structure),
              PlainJob(spec, "static", 2, Absent),
              PlainJob(spec, "band_structure", 3, Absent)>>
    BY <1>3, <1>9, <1>15, Appended DEF build_atomate2_flow_for_spec
  <2>4. jobs = <<jobs[1], jobs[2], jobs[3]>>
    BY <1>4, <2>1, ShortFunctions
  <2> QED
    BY <2>2, <2>3, <2>4
<1> QED
  BY <1>3, <1>10, <1>11, <1>12, <1>13, <1>14, <1>15 DEF PurposesOfStages

\* The old name of a supported calculation says its purpose, and if only the ions move.
LEMMA OldNamesAreOf ==
    ASSUME NEW spec \in Specs, CalculationIsValid(spec)
    PROVE  calculation_spec_from_legacy(LegacyName(spec), Absent)
             = CalculationSpec(spec.purpose, "pbe", spec.modifiers \cap {"ions_only"})
<1> DEFINE ions == spec.modifiers \cap {"ions_only"}
<1>1. /\ spec.purpose \in PurposesOfStages
      /\ "ions_only" \in spec.modifiers => spec.purpose = "relax"
  BY SupportedCalculations
<1>2. LegacyName(spec) \in DOMAIN LEGACY_SPECS
  BY <1>1 DEF LegacyName, LEGACY_SPECS, PurposesOfStages, Purposes
<1>3. LEGACY_SPECS[LegacyName(spec)] = CalculationSpec(spec.purpose, "pbe", ions)
  <2>1. CASE "ions_only" \in spec.modifiers
    <3>1. ions = {"ions_only"}
      BY <2>1
    <3> QED
      BY <1>1, <2>1, <3>1 DEF LegacyName, LEGACY_SPECS
  <2>2. CASE "ions_only" \notin spec.modifiers
    <3>1. ions = {}
      BY <2>2
    <3> QED
      BY <1>1, <2>2, <3>1 DEF LegacyName, LEGACY_SPECS, PurposesOfStages, Purposes
  <2> QED BY <2>1, <2>2
<1>4. CalculationIsValid(CalculationSpec(spec.purpose, "pbe", ions))
  <2>1. /\ CalculationSpec(spec.purpose, "pbe", ions).purpose = spec.purpose
        /\ CalculationSpec(spec.purpose, "pbe", ions).theory = "pbe"
        /\ CalculationSpec(spec.purpose, "pbe", ions).modifiers = ions
    BY DEF CalculationSpec
  <2>2. ions \in CompatibilityModifiers(spec.purpose, "pbe")
    BY <1>1 DEF CompatibilityModifiers, PurposesOfStages
  <2> QED
    BY <2>1, <2>2 DEF CalculationIsValid
<1> QED
  BY <1>2, <1>3, <1>4 DEF calculation_spec_from_legacy, validate_calculation_spec

LEMMA RecipesArePlain ==
    ASSUME NEW p \in PurposesOfStages
    PROVE  RECIPES[p] = UniformStages(PURPOSE_STAGES[p], "pbe", {})
BY StagesOfPurposes DEF RECIPES, PurposesOfStages

\* A refusal for the modifiers means that others would do.
LEMMA ReasonsAreReal ==
    ASSUME NEW spec \in Specs
    PROVE  RefusalReason(spec) = "modifiers" <=> CompatibilityModifiers(spec.purpose, spec.theory) # {}
<1>1. spec.purpose \in Purposes /\ spec.theory \in {"pbe", "r2scan", "hse06"}
  BY DEF Specs, Theories
<1>2. /\ THEORY_PURPOSES["pbe"] = Purposes \ {"dielectric"} /\ THEORY_PURPOSES["r2scan"] = {}
      /\ THEORY_PURPOSES["hse06"] = {"relax", "relax_static", "static"}
  BY DEF THEORY_PURPOSES
<1>3. \A S : {} \in SUBSET S
  OBVIOUS
<1>4. CASE spec.theory = "pbe"
  BY <1>1, <1>2, <1>3, <1>4 DEF RefusalReason, CompatibilityModifiers, Purposes
<1>5. CASE spec.theory = "r2scan"
  BY <1>2, <1>5 DEF RefusalReason, CompatibilityModifiers
<1>6. CASE spec.theory = "hse06"
  BY <1>1, <1>2, <1>3, <1>6 DEF RefusalReason, CompatibilityModifiers, Purposes
<1> QED BY <1>1, <1>4, <1>5, <1>6

\* No two desired outputs have the same types and theories.
LEMMA OutputsAreTold ==
    ASSUME NEW o \in DOMAIN DESIRED_OUTPUTS
    PROVE  desired_output_from_workflow_spec(DESIRED_OUTPUTS[o]) = o
<1> DEFINE D        == DESIRED_OUTPUTS
           Shape(s) == [i \in DOMAIN s |-> <<s[i].type, s[i].theory>>]
           same     == {p \in DOMAIN D : Shape(D[p]) = Shape(D[o])}
<1>1. DOMAIN D = {"energy_only", "relaxed_structure", "electronic_dos", "electronic_band_structure"}
  BY DEF DESIRED_OUTPUTS
<1>2. /\ DOMAIN D["energy_only"] = 1..1 /\ DOMAIN D["relaxed_structure"] = 1..2
      /\ DOMAIN D["electronic_dos"] = 1..3 /\ D["electronic_dos"][3].type = "dos"
      /\ DOMAIN D["electronic_band_structure"] = 1..3
      /\ D["electronic_band_structure"][3].type = "band_structure"
  BY DEF DESIRED_OUTPUTS, Stage
<1> HIDE DEF D
<1>3. ASSUME NEW p \in DOMAIN D, Shape(D[p]) = Shape(D[o]) PROVE p = o
  <2>1. DOMAIN D[p] = DOMAIN D[o]
    BY <1>3
  <2>2. 3 \in DOMAIN D[o] => D[p][3].type = D[o][3].type
    BY <1>3, <2>1
  <2> DEFINE upto(n) == 1..n
  <2>3. upto(1) # upto(2) /\ upto(1) # upto(3) /\ upto(2) # upto(3) /\ 3 \in upto(3)
    <3>1. 1 \in 1..1 /\ 2 \notin 1..1 /\ 2 \in 1..2 /\ 3 \notin 1..1 /\ 3 \notin 1..2 /\ 3 \in 1..3
      OBVIOUS
    <3> QED BY <3>1, Zenon
  <2>4. /\ DOMAIN D["energy_only"] = upto(1) /\ DOMAIN D["relaxed_structure"] = upto(2)
        /\ DOMAIN D["electronic_dos"] = upto(3) /\ DOMAIN D["electronic_band_structure"] = upto(3)
    BY <1>2
  <2> HIDE DEF upto
  <2>5. CASE o = "energy_only"
    BY <1>1, <2>1, <2>3, <2>4, <2>5
  <2>6. CASE o = "relaxed_structure"
    BY <1>1, <2>1, <2>3, <2>4, <2>6
  <2>7. CASE o = "electronic_dos"
    BY <1>1, <1>2, <2>1, <2>2, <2>3, <2>4, <2>7
  <2>8. CASE o = "electronic_band_structure"
    BY <1>1, <1>2, <2>1, <2>2, <2>3, <2>4, <2>8
  <2> QED
    BY <1>1, <2>5, <2>6, <2>7, <2>8 DEF D
<1>4. same = {o}
  BY <1>3 DEF D
<1> QED
  BY <1>4 DEF desired_output_from_workflow_spec, D

LEMMA SpecsAgree == WorkflowInv => TheTwoSpecsAgree
<1> SUFFICES ASSUME WorkflowInv PROVE TheTwoSpecsAgree
  OBVIOUS
<1> DEFINE spec  == calculation_spec_from_workflow_spec(stages)
           asked == request.spec
           w     == workflow_spec_from_flow_spec(request)
<1>1. /\ phase \in {"asked", "previewing", "building", "built", "refused"}
      /\ phase \in {"previewing", "building", "built"} => IsWorkflow(stages) /\ stages = w /\ w # Bad
      /\ phase = "refused" =>
            \/ structure.constrained \/ w = Bad
            \/ stages = w /\ IsWorkflow(stages) /\ \E i \in DOMAIN stages : PreviewIsRefused(stages[i])
  BY DEF WorkflowInv, AskedIsKnown, StagesAreValid, AnswersAreReal
<1>2. ASSUME request.kind = "calculation"
      PROVE  asked \in Specs /\ w = workflow_spec_from_calculation_spec(asked)
  BY <1>2, RequestAssumption DEF Specs, WorkflowInv, AskedIsKnown, workflow_spec_from_flow_spec
<1>3. ASSUME phase # "asked", request.kind = "calculation", CalculationIsValid(asked)
      PROVE  /\ phase = "refused" => structure.constrained \/ ("dft_u" \in asked.modifiers /\ ~structure.hubbard)
             /\ phase # "refused" => spec = asked
             /\ asked.modifiers = {} /\ asked.theory = "pbe" /\ phase # "refused" => stages = RECIPES[asked.purpose]
  <2> DEFINE u == UniformStages(PURPOSE_STAGES[asked.purpose], asked.theory, asked.modifiers)
  <2>1. /\ asked \in Specs /\ asked.purpose \in PurposesOfStages /\ w = u /\ w # Bad
        /\ calculation_spec_from_workflow_spec(w) = asked
    BY <1>2, <1>3, CalculationsAreWorkflows, CalculationsComeBack, SupportedCalculations
  <2>2. PURPOSE_STAGES[asked.purpose] \in Seq(StageTypes)
    BY <2>1, TypesOfPurposes
  <2>3. \A i \in DOMAIN u : u[i].modifiers = asked.modifiers
    BY <2>2, UniformStagesAre
  <2> HIDE DEF spec, w, u
  <2>4. ASSUME phase = "refused", ~structure.constrained
        PROVE  "dft_u" \in asked.modifiers /\ ~structure.hubbard
    <3>1. stages = u /\ IsWorkflow(stages) /\ \E i \in DOMAIN stages : PreviewIsRefused(stages[i])
      BY <1>1, <2>1, <2>4
    <3>2. PICK i \in DOMAIN stages : PreviewIsRefused(stages[i])
      BY <3>1
    <3>3. IsProper(stages[i]) /\ StageIsValid(stages[i]) /\ stages[i].modifiers = asked.modifiers
      BY <2>3, <3>1 DEF IsWorkflow, WorkflowIsValid
    <3>4. ~(stages[i].type = "band_structure" /\ BandIsRefused(stages[i].modifiers))
      BY <3>3, ValidStages DEF BandIsRefused
    <3> QED
      BY <3>2, <3>3, <3>4 DEF PreviewIsRefused, HasActiveU
  <2>5. phase # "refused" => stages = w
    BY <1>1, <1>3
  <2> QED
    BY <2>1, <2>4, <2>5, RecipesArePlain DEF spec, u
<1>4. ASSUME phase # "asked", request.kind = "calculation", ~CalculationIsValid(asked)
      PROVE  phase = "refused"
  BY <1>1, <1>2, <1>4 DEF workflow_spec_from_calculation_spec
<1>5. ASSUME phase = "built"
      PROVE  /\ spec # Bad
             /\ spec # Absent => jobs = build_atomate2_flow_for_spec(spec)
             /\ request.kind = "desired" => desired_output_from_workflow_spec(stages) = request.output
  <2>1. spec # Bad
    BY <1>1, <1>5, StagesOfCalculations, NoValueAssumption
  <2>2. spec # Absent => jobs = build_atomate2_flow_for_spec(spec)
    BY <1>5, BuildersAgree
  <2>3. ASSUME request.kind = "desired"
        PROVE  desired_output_from_workflow_spec(stages) = request.output
    <3>1. request.output \in DOMAIN DESIRED_OUTPUTS
      BY <2>3, RequestAssumption DEF WorkflowInv, AskedIsKnown
    <3>2. stages = DESIRED_OUTPUTS[request.output]
      BY <1>1, <1>5, <2>3 DEF workflow_spec_from_flow_spec, validate_workflow_spec
    <3> QED
      BY <3>1, <3>2, OutputsAreTold
  <2> QED BY <2>1, <2>2, <2>3
<1>6. request.kind = "calculation" /\ CalculationIsValid(asked) =>
         calculation_spec_from_legacy(LegacyName(asked), Absent)
           = CalculationSpec(asked.purpose, "pbe", asked.modifiers \cap {"ions_only"})
  BY <1>2, OldNamesAreOf
<1>7. request.kind = "calculation" =>
         (RefusalReason(asked) = "modifiers" <=> CompatibilityModifiers(asked.purpose, asked.theory) # {})
  BY <1>2, ReasonsAreReal
<1> HIDE DEF w
<1> QED
  BY <1>3, <1>4, <1>5, <1>6, <1>7 DEF TheTwoSpecsAgree

\* Both notations and both builders agree: a supported calculation becomes stages that become
\* it again, its own function makes the same jobs of it, and a refusal is told for what it is
\* (calculations/registry.py, calculations/builder.py, backend/workflows.py).
THEOREM SpecsAreOne == Spec => []TheTwoSpecsAgree
BY SpecsAgree, WorkflowIsSafe, PTL

=============================================================================
