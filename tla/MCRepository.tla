---------------------------- MODULE MCRepository ----------------------------
EXTENDS Repository

Running(run) == "101" :> Report(run, "power_on", "near_empty", "cat_exist", 0)

\* A packed report, and the separate keys that older devices send; pauses come from
\* actions that are pending.
MCIncoming ==
    {Running("clean_start") @@ ("102" :> [spread |-> 3, color |-> 1]),
     ("101" :> MachineText("power_off")) @@ ("24" :> "completed") @@ ("18" :> 5) @@ ("122" :> "bin_full")}

TaskSymmetry == Permutations(Tasks)
=============================================================================
