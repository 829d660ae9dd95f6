----------------------------- MODULE MCTaskGoal -----------------------------
(* A small instance of TaskGoal: an edit of a file and a new file; the      *)
(* verification command passes with both and with neither.                *)
EXTENDS TaskGoal

CONSTANTS edit, add

MCChanges  == {edit, add}
MCNewFiles == {add}
MCPassing  == {{}, {edit, add}}

Flags(c, auto, isolated) ==
  [checkpoint |-> c, auto |-> auto, isolated |-> isolated, promote |-> isolated]

MCConfigs == {Flags(TRUE, FALSE, FALSE), Flags(TRUE, TRUE, TRUE), Flags(FALSE, TRUE, TRUE)}
=============================================================================
