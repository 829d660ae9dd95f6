------------------------------ MODULE LineDiff ------------------------------
(***************************************************************************)
(* internal/diff: the line diff by longest common subsequence that a user  *)
(* approves an edit by, and its rendering, turn by turn of their loops.    *)
(* Texts as in PatchEngine; indices count from 1.                          *)
(***************************************************************************)
EXTENDS PatchEngine

CONSTANTS
  Context,        \* unchanged lines shown around a change, 3 in the code
  MaxLineProduct

VARIABLES
  loop,      \* which loop of Lines or UnifiedLines runs
  oldLines, newLines,
  lcs,       \* lcs[i, j]: for the old lines from i and the new ones from j
  row, col,  \* the indices of the loop
  lines,     \* what Lines returns
  rendered,  \* what UnifiedLines has written
  skipping

diffVars == <<loop, oldLines, newLines, lcs, row, col, lines, rendered, skipping>>

\* splitLines of this package, which drops one newline at the end.
DiffLines(text) ==
  IF text = <<>> THEN <<>>
  ELSE Split(IF Last(text) = "nl" THEN Front(text) ELSE text)

Line(op, text) == [op |-> op, text |-> text]
Gap == Line("gap", <<>>)

DiffInit ==
  /\ loop = "off" /\ row = 0 /\ col = 0 /\ lcs = <<>>
  /\ oldLines = <<>> /\ newLines = <<>> /\ lines = <<>>
  /\ rendered = <<>> /\ skipping = FALSE

\* Lines: the table begins as zeroes; what is too large has no lines.
StartLines(old, new) ==
  LET a == DiffLines(old)
      b == DiffLines(new)
  IN /\ loop' = IF Len(a) * Len(b) > MaxLineProduct THEN "done" ELSE "table"
     /\ oldLines' = a /\ newLines' = b
     /\ lcs' = [p \in (1..Len(a) + 1) \X (1..Len(b) + 1) |-> 0]
     /\ row' = Len(a) /\ col' = Len(b)
     /\ UNCHANGED <<lines, rendered, skipping>>

Same == oldLines[row] = newLines[col]
OldFirst == lcs[row + 1, col] >= lcs[row, col + 1]

Entry ==
  IF Same THEN lcs[row + 1, col + 1] + 1
  ELSE IF OldFirst THEN lcs[row + 1, col] ELSE lcs[row, col + 1]

FillEntry ==
  /\ loop = "table" /\ row >= 1 /\ col >= 1
  /\ lcs' = [lcs EXCEPT ![<<row, col>>] = Entry]
  /\ col' = col - 1
  /\ UNCHANGED <<loop, oldLines, newLines, row, lines, rendered, skipping>>

NextRow ==
  /\ loop = "table" /\ row >= 1 /\ col = 0
  /\ row' = row - 1 /\ col' = Len(newLines)
  /\ UNCHANGED <<loop, oldLines, newLines, lcs, lines, rendered, skipping>>

StartWalk ==
  /\ loop = "table" /\ row = 0
  /\ loop' = "walk" /\ row' = 1 /\ col' = 1
  /\ UNCHANGED <<oldLines, newLines, lcs, lines, rendered, skipping>>

\* The walk through the table from its start, and what is left of either text.
InBoth == row <= Len(oldLines) /\ col <= Len(newLines)

KeepLine ==
  /\ loop = "walk" /\ InBoth /\ Same
  /\ lines' = Append(lines, Line(" ", oldLines[row]))
  /\ row' = row + 1 /\ col' = col + 1
  /\ UNCHANGED <<loop, oldLines, newLines, lcs, rendered, skipping>>

RemoveLine ==
  /\ loop = "walk" /\ row <= Len(oldLines)
  /\ InBoth => ~Same /\ OldFirst
  /\ lines' = Append(lines, Line("-", oldLines[row]))
  /\ row' = row + 1
  /\ UNCHANGED <<loop, oldLines, newLines, lcs, col, rendered, skipping>>

AddLine ==
  /\ loop = "walk" /\ col <= Len(newLines)
  /\ InBoth => ~Same /\ ~OldFirst
  /\ lines' = Append(lines, Line("+", newLines[col]))
  /\ col' = col + 1
  /\ UNCHANGED <<loop, oldLines, newLines, lcs, row, rendered, skipping>>

\* A variant that goes on without the rest of the new text.
StartRenderEarly ==
  /\ loop = "walk" /\ row > Len(oldLines)
  /\ loop' = "render" /\ row' = 1
  /\ UNCHANGED <<oldLines, newLines, lcs, col, lines, rendered, skipping>>

StartRender ==
  /\ loop = "walk" /\ row > Len(oldLines) /\ col > Len(newLines)
  /\ loop' = "render" /\ row' = 1
  /\ UNCHANGED <<oldLines, newLines, lcs, col, lines, rendered, skipping>>

\* visible: a change and the lines around it are shown.
Visible(k) == \E c \in DOMAIN lines : lines[c].op # " " /\ c - Context <= k /\ k <= c + Context

\* UnifiedLines: one mark stands for a run of lines that is left out.
Render ==
  /\ loop = "render" /\ row <= Len(lines)
  /\ rendered' = IF Visible(row) THEN Append(rendered, lines[row])
                 ELSE IF skipping THEN rendered ELSE Append(rendered, Gap)
  /\ skipping' = ~Visible(row)
  /\ row' = row + 1
  /\ UNCHANGED <<loop, oldLines, newLines, lcs, col, lines>>

Rendered ==
  /\ loop = "render" /\ row > Len(lines)
  /\ loop' = "done"
  /\ UNCHANGED <<oldLines, newLines, lcs, row, col, lines, rendered, skipping>>

DiffStep ==
  FillEntry \/ NextRow \/ StartWalk \/ KeepLine \/ RemoveLine \/ AddLine \/ StartRender \/ Render \/ Rendered

WithOp(s, ops) == {k \in DOMAIN s : s[k].op \in ops}

\* StatLines
Added(s) == Cardinality(WithOp(s, {"+"}))
Removed(s) == Cardinality(WithOp(s, {"-"}))

-----------------------------------------------------------------------------
(* Reference *)

\* The lines of s with one of ops are those of a text, in order.
Spells(s, ops, text) ==
  /\ Cardinality(WithOp(s, ops)) = Len(text)
  /\ \A k \in WithOp(s, ops) : s[k].text = text[Rank(WithOp(s, ops), k)]

\* The lines of s with one of ops are those of t.
SameLines(s, t, ops) ==
  /\ Cardinality(WithOp(s, ops)) = Cardinality(WithOp(t, ops))
  /\ \A k \in WithOp(s, ops), l \in WithOp(t, ops) :
       Rank(WithOp(s, ops), k) = Rank(WithOp(t, ops), l) => s[k] = t[l]

\* The ways to pick equal lines of a and b without crossing: for each line of a the
\* one of b, or 0.
Matchings(a, b) ==
  {f \in [DOMAIN a -> 0..Len(b)] :
     /\ \A i \in DOMAIN a : f[i] # 0 => a[i] = b[f[i]]
     /\ \A i, j \in DOMAIN a : i < j /\ f[i] # 0 /\ f[j] # 0 => f[i] < f[j]}

Size(f) == Cardinality({i \in DOMAIN f : f[i] # 0})
=============================================================================
