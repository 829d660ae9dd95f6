------------------------------- MODULE Screen -------------------------------
(***************************************************************************)
(* internal/ui: what each operation of UI does to the terminal.  A screen  *)
(* is a sequence of rows, a row a sequence of marks; the cursor is at the  *)
(* end of the last row.  A mark stands for one piece of output: "bar" for  *)
(* the status bar, "think" for a frame of the indicator, "tail" for a row  *)
(* of a live view, and what is to stay: "text" of the assistant, "line",   *)
(* "title" of a live view, "ask" for a prompt or a question.               *)
(* Without a terminal none of the operations that erase write anything.    *)
(***************************************************************************)
EXTENDS Integers, Sequences

Lasting == {"text", "line", "title", "ask"}
Marks == Lasting \cup {"bar", "think", "tail"}

\* wide: the bar fills its row, so that the terminal wraps behind it.
\* said: what was to stay, in the order it was written, and where.
Blank(wide) == [rows |-> << <<>> >>, lineStart |-> TRUE, statusShown |-> FALSE,
                wide |-> wide, said |-> <<>>]

LastRow(s) == s.rows[Len(s.rows)]
WithLast(rows, row) == [rows EXCEPT ![Len(rows)] = row]

NewLine(s) == [s EXCEPT !.rows = Append(@, <<>>)]

Wraps(s) == s.wide /\ LastRow(s) # <<>> /\ LastRow(s)[Len(LastRow(s))] = "bar"

Put(s, mark) ==
  LET t   == IF Wraps(s) THEN NewLine(s) ELSE s
      row == Append(LastRow(t), mark)
      it  == [mark |-> mark, row |-> Len(t.rows), col |-> Len(row)]
  IN [t EXCEPT !.rows = WithLast(@, row),
               !.said = IF mark \in Lasting THEN Append(@, it) ELSE @]

\* fmt.Fprintln
PutLine(s, mark) == [NewLine(Put(s, mark)) EXCEPT !.lineStart = TRUE]

\* The control sequence \r ESC [K
EraseRow(s) == [s EXCEPT !.rows = WithLast(@, <<>>)]

EnsureLineStart(s) == IF s.lineStart THEN s ELSE [NewLine(s) EXCEPT !.lineStart = TRUE]

ShowStatus(s) ==
  [Put(EraseRow(EnsureLineStart(s)), "bar") EXCEPT !.lineStart = TRUE, !.statusShown = TRUE]

HideStatus(s) ==
  [EraseRow(EnsureLineStart(s)) EXCEPT !.lineStart = TRUE, !.statusShown = FALSE]

\* Println, Info, Warn, Error and Done
Println(s) ==
  IF s.statusShown THEN ShowStatus(PutLine(HideStatus(s), "line")) ELSE PutLine(s, "line")

AssistantHeader(s) == PutLine(EnsureLineStart(s), "line")

\* A chunk of text, which may end in a newline.
Assistant(s, ends) ==
  IF ends THEN PutLine(s, "text") ELSE [Put(s, "text") EXCEPT !.lineStart = FALSE]

ToolCall(s) == PutLine(EnsureLineStart(s), "line")

\* ToolResult and Diff
ToolResult(s) == PutLine(s, "line")

\* Confirm and Prompt; the user's Enter moves to a new row without the UI.
Ask(s) == [Put(EnsureLineStart(s), "ask") EXCEPT !.lineStart = FALSE]
Enter(s) == NewLine(s)

DrawThinking(s) == [Put(EraseRow(s), "think") EXCEPT !.lineStart = TRUE]
ClearThinking(s) == [EraseRow(s) EXCEPT !.lineStart = TRUE]

\* LiveView.Update: back over the rows drawn last time, then n rows, at least one.
Tails(s, n) == [s EXCEPT !.rows = SubSeq(@, 1, Len(@) - 1) \o [k \in 1..n |-> <<"tail">>] \o << <<>> >>,
                         !.lineStart = TRUE]
UpFrom(s, up) == [s EXCEPT !.rows = Append(SubSeq(@, 1, Len(@) - up - 1), <<>>)]

\* A variant that goes up over the title as well.
UpdateOverTitle(s, view, n) ==
  IF view.started THEN Tails(UpFrom(s, view.prev + 1), n)
                  ELSE Tails(PutLine(EnsureLineStart(s), "title"), n)

Update(s, view, n) ==
  IF view.started THEN Tails(UpFrom(s, view.prev), n)
                  ELSE Tails(PutLine(EnsureLineStart(s), "title"), n)

-----------------------------------------------------------------------------
\* What is there to stay, and where; of two places the one that is read first.
Shown(s) ==
  UNION {{[mark |-> s.rows[r][c], row |-> r, col |-> c] :
            c \in {c \in DOMAIN s.rows[r] : s.rows[r][c] \in Lasting}} : r \in DOMAIN s.rows}

Before(a, b) == a.row < b.row \/ (a.row = b.row /\ a.col < b.col)
=============================================================================
