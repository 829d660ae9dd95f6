------------------------------ MODULE EditText ------------------------------
(***************************************************************************)
(* A call of write_file, edit_file or apply_patch as a function of texts:  *)
(* the preview prospectiveDiff computes for the user and the text the tool *)
(* computes after the approval, edit by edit.  FileEdit has the files and  *)
(* the other writers; here the file is the same for both.                  *)
(***************************************************************************)
EXTENDS LineDiff

CONSTANTS
  Mark,           \* what texts are made of, "sp" and "nl" among them
  Contents,       \* texts a file may hold
  Patches,        \* sequences of edits, the calls of edit_file and apply_patch
  Writes,         \* pairs of texts, <<file, content of a write_file>>
  MaxDiffBytes    \* prospectiveDiff's maxDiffBytes

EditRecord == [old : Seq(Mark), new : Seq(Mark), all : BOOLEAN]
Result == [ok : BOOLEAN, text : Seq(Mark), count : Nat, fuzzy : Nat]

ASSUME EditTextAssumption ==
  /\ {Context, MaxDiffBytes, MaxLineProduct} \subseteq Nat
  /\ Contents \subseteq Seq(Mark)
  /\ Writes \subseteq Seq(Mark) \X Seq(Mark)
  /\ Patches \subseteq Seq(EditRecord) \ {<<>>}

VARIABLES
  file,     \* the content of the file
  edits,    \* the edits of the call, <<>> for write_file
  whole,    \* the content write_file was given
  mode,     \* what comes next
  next,     \* the edit to apply next
  result,   \* the Result so far
  preview,  \* the lines the user sees, with the counts below them
  shown     \* whether there is a preview

call == <<file, edits, whole>>
vars == <<call, mode, next, result, preview, shown, diffVars>>

NoPreview == [lines |-> <<>>, added |-> 0, removed |-> 0]

TypeOK ==
  /\ file \in Seq(Mark) /\ whole \in Seq(Mark) /\ edits \in Seq(EditRecord)
  /\ mode \in {"preview", "diff", "apply", "done"} /\ next \in 1..(Len(edits) + 1)
  /\ result \in Result
  /\ shown \in BOOLEAN

Init ==
  /\ \/ file \in Contents /\ whole = <<>> /\ edits \in Patches
     \/ \E w \in Writes : file = w[1] /\ whole = w[2] /\ edits = <<>>
  /\ mode = "preview" /\ next = 1
  /\ result = Unchanged(file)
  /\ preview = NoPreview /\ shown = FALSE
  /\ DiffInit

Proposal == IF edits = <<>> THEN Unchanged(whole) ELSE Apply(file, edits)

\* diffLineCount: a newline at the end begins no line.
DiffLineCount(text) ==
  IF text = <<>> THEN 0 ELSE Cardinality(Newlines(text) \ {Len(text)}) + 1

\* prospectiveDiff: no preview of what is too large, fails or changes nothing.
StartPreview ==
  /\ mode = "preview"
  /\ IF /\ Proposal.ok /\ Proposal.text # file
        /\ Len(file) <= MaxDiffBytes /\ Len(Proposal.text) <= MaxDiffBytes
        /\ DiffLineCount(file) * DiffLineCount(Proposal.text) <= MaxLineProduct
     THEN mode' = "diff" /\ StartLines(file, Proposal.text)
     ELSE mode' = "apply" /\ UNCHANGED diffVars
  /\ UNCHANGED <<call, next, result, preview, shown>>

ComputeDiff ==
  /\ mode = "diff" /\ DiffStep
  /\ UNCHANGED <<call, mode, next, result, preview, shown>>

Show ==
  /\ mode = "diff" /\ loop = "done"
  /\ mode' = "apply"
  /\ preview' = [lines |-> rendered, added |-> Added(lines), removed |-> Removed(lines)]
  /\ shown' = TRUE
  /\ UNCHANGED <<call, next, result, diffVars>>

\* One turn of Apply's loop; the first edit that fails ends it.
ApplyEdit ==
  /\ mode = "apply" /\ result.ok /\ next <= Len(edits)
  /\ result' = ApplyOne(result, edits[next])
  /\ next' = next + 1
  /\ UNCHANGED <<call, mode, preview, shown, diffVars>>

\* What the tool gives to the file system: all edits or nothing.
Finish ==
  /\ mode = "apply" /\ (~result.ok \/ next > Len(edits))
  /\ mode' = "done"
  /\ result' = IF edits = <<>> THEN Unchanged(whole) ELSE result
  /\ UNCHANGED <<call, next, preview, shown, diffVars>>

Stop == mode = "done" /\ UNCHANGED vars

Next == StartPreview \/ ComputeDiff \/ Show \/ ApplyEdit \/ Finish \/ Stop

Spec == Init /\ [][Next]_vars

-----------------------------------------------------------------------------
(* An edit replaces one region and leaves everything around it, or with
   replace_all the leftmost occurrences that do not overlap; without an exact
   occurrence the region is the only one of whole lines that equals old_string up
   to trailing white space, or failing that up to indentation; and in every
   other case the edit fails. *)
EditIsExact(before, after, e) ==
  LET exact == Occurrences(before.text, e.old)
      level == CHOOSE s \in Strategies :
                 s = "indentation" <=> Similar(before.text, e.old, "whitespace") = {}
      near  == Similar(before.text, e.old, level)
      first == Min(exact)
  IN IF e.old = <<>> THEN ~after.ok
     ELSE IF exact # {} /\ e.all
     THEN /\ after.ok /\ after.fuzzy = before.fuzzy
          /\ \E S \in SUBSET exact :
               /\ IsLeftmost(S, before.text, e.old)
               /\ after.count = before.count + Cardinality(S)
               /\ after.text = Replaced(before.text, e.old, e.new, S)
     ELSE IF exact # {}
     THEN IF \A i \in exact : i < first + Len(e.old)
          THEN after.ok /\ after.text = Spliced(before.text, first, first + Len(e.old), e.new)
          ELSE ~after.ok
     ELSE IF Cardinality(near) = 1
     THEN /\ after.ok /\ after.fuzzy = before.fuzzy + 1
          /\ \A x \in near : after.text = Spliced(before.text, x.start, x.end, e.new)
     ELSE ~after.ok

PatchIsExact == [][next' = next + 1 => EditIsExact(result, result', edits[next])]_vars

FinalNewlineOnly(s, t) == s = Append(t, "nl") \/ t = Append(s, "nl")

(* What the user sees before the edit is what the tool then computes: of the lines
   of the diff, those removed or kept are the lines of the file and those added or
   kept the lines of the new text, with as many kept as possible; every line added or
   removed is on the screen and counted, a gap hides unchanged lines only; and there
   is at least one, unless the texts differ in a final newline, which is part of no
   line, and in nothing else. *)
DiffIsFaithful ==
  mode = "done" /\ shown =>
    LET old == DiffLines(file)
        new == DiffLines(result.text)
    IN /\ result.ok /\ result.text # file
       /\ Spells(lines, {" ", "-"}, old)
       /\ Spells(lines, {" ", "+"}, new)
       /\ \A f \in Matchings(old, new) : Size(f) <= Cardinality(WithOp(lines, {" "}))
       /\ SameLines(preview.lines, lines, {"-", "+"})
       /\ preview.added + preview.removed = Cardinality(WithOp(preview.lines, {"-", "+"}))
       /\ preview.added + preview.removed > 0 \/ FinalNewlineOnly(file, result.text)
=============================================================================
