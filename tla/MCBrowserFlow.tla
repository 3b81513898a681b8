---------------------------- MODULE MCBrowserFlow ----------------------------
(* Instances of BrowserFlow for TLC.                                        *)
EXTENDS BrowserFlow

CONSTANTS t1, t2

Material(elements, most, dim, guesses) ==
    [elements |-> elements, most |-> most, dim |-> dim, guesses |-> guesses, constrained |-> FALSE]

\* One of each kind the rules tell apart: nothing to treat, spin and U, layered with a U
\* suppressed at d0, heavy and layered, heavy with a U but no assignment of oxidation
\* states, one whose bonds could not be analysed, and one with selective dynamics.
Si    == Material(<<"Si">>, "Si", "3", {})
Fe2O3 == Material(<<"Fe", "O">>, "O", "3", {[Fe |-> 5]})
V2O5  == Material(<<"V", "O">>, "O", "2", {[V |-> 0]})
HfS2  == Material(<<"Hf", "S">>, "S", "2", {})
WO    == Material(<<"W", "Fe", "O">>, "O", "3", {})
Gas   == Material(<<"O">>, "O", "failed", {})
Fixed == [Si EXCEPT !.constrained = TRUE]

AllStructures == {Fe2O3, V2O5, HfS2, WO, Gas, Fixed}
OnlyFe2O3     == {Fe2O3}
OnlySi        == {Si}

\* Stages of a Custom workflow: of no desired output, closed to new calculations, and of
\* the shape of the desired output energy_only.
EnteredStages ==
    {<<Stage("static", "pbe", {"spin_polarized"}), Stage("static", "pbe", {"spin_polarized"})>>,
     <<Stage("static", "hse06", {"soc"})>>}
EnteredEnergy == {<<Stage("static", "pbe", {"soc"})>>}
NoStages      == {}

TabSymmetry == Permutations(Tabs)
=============================================================================
