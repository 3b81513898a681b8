------------------------------ MODULE MCPowerJob ------------------------------
(* An instance of PowerJob: three stages, each of which refers to the one   *)
(* before; the first may ask for a flow of its own.                         *)
EXTENDS PowerJob

ThreeStages  == <<"relax", "static", "dos">>
StageParents == [relax |-> {}, static |-> {"relax"}, dos |-> {"static"},
                 again |-> {}, more |-> {"again"}]
Diverted     == [relax |-> <<"again", "more">>, static |-> << >>, dos |-> << >>,
                 again |-> << >>, more |-> << >>]
=============================================================================
