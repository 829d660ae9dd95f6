----------------------------- MODULE MCEditText -----------------------------
(* Instances of EditText for TLC: short texts of two letters, a space and a
   newline for edits, and longer ones of one letter and newlines for diffs. *)
EXTENDS EditText

MCContents == BoundedSeq({"x", "y", "sp", "nl"}, 3)
              \cup {s \in BoundedSeq({"x", "sp", "nl"}, 4) : Len(s) = 4}
EditsOf(olds, news) == {Edit(old, new, all) : old \in olds, new \in news, all \in BOOLEAN}
Singles == EditsOf(BoundedSeq({"x", "sp", "nl"}, 3), {<<>>, <<"y">>})
Few == EditsOf({<<"x">>, <<"sp", "x">>}, {<<"nl", "x">>})
MCPatches == {<<e>> : e \in Singles} \cup {<<e, f>> : e \in Few, f \in Few}
MCTexts == BoundedSeq({"x", "nl"}, 5)
MCWrites == MCTexts \X MCTexts
=============================================================================
