----------------------------- MODULE MCFileEdit -----------------------------
(* Three texts: an edit makes the second of the first and the first of the *)
(* third, and does not apply to the second; write_file asks for the second.*)
EXTENDS FileEdit, TLC

CONSTANTS first, second, third, i1, i2, i3, i4

MCTexts  == {first, second, third}
MCInodes == {i1, i2, i3, i4}

EditFile  == [t \in MCTexts \cup {None} |->
                CASE t = first -> second [] t = third -> first [] OTHER -> None]
WriteFile == [t \in MCTexts \cup {None} |-> second]

MCCalls == {EditFile, WriteFile}
MCPlatforms == {"exchange", "rename"}

Symmetry == Permutations(MCInodes)
=============================================================================
