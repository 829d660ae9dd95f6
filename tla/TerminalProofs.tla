--------------------------- MODULE TerminalProofs ---------------------------
(***************************************************************************)
(* What was said stays on the screen, and no indicator stays behind.  An   *)
(* operation of the UI that erases goes over rows that hold nothing to     *)
(* stay: lineStart says so of the last row, a live view knows its own.     *)
(***************************************************************************)
EXTENDS Terminal, SequenceTheorems, TLAPS

Items == [mark : Lasting, row : Nat, col : Nat]
Screens == [rows : Seq(Seq(Marks)), lineStart : BOOLEAN, statusShown : BOOLEAN,
            wide : BOOLEAN, said : Seq(Items)]

Has(row, mark) == \E m \in DOMAIN row : row[m] = mark
Clean(row) == \A m \in DOMAIN row : row[m] \notin Lasting

\* TextSurvives, of any screen.
Survives(s) ==
  /\ Shown(s) = {s.said[i] : i \in DOMAIN s.said}
  /\ \A i \in 1..Len(s.said) - 1 : Before(s.said[i], s.said[i + 1])

\* A frame above the last row is in front of a title.
FramesOK(s) ==
  \A r \in DOMAIN s.rows :
    Has(s.rows[r], "think") => r = Len(s.rows) \/ Has(s.rows[r], "title")

\* What may be erased: a row the cursor is at the start of, a frame alone.
LastOK(s) ==
  /\ s.lineStart => Clean(LastRow(s))
  /\ Has(LastRow(s), "think") => LastRow(s) = <<"think">> /\ s.lineStart

\* The rows a live view goes back over are its own.
ViewOK(s, v) ==
  v.started => /\ v.prev < Len(s.rows)
               /\ \A r \in Len(s.rows) - v.prev .. Len(s.rows) - 1 : Clean(s.rows[r])

NoFrame(s) == ~Has(LastRow(s), "think")
Base(s) == s \in Screens /\ s.rows # <<>> /\ Survives(s) /\ FramesOK(s)
Good(s) == Base(s) /\ LastOK(s)

\* One goroutine draws, that of the indicator that runs; the agent waits for one that
\* was started.
IndicatorInv ==
  /\ \A k \in Indicators : loop[k] = "none" <=> k > starts
  /\ \A k \in Indicators : loop[k] \notin {"none", "done"} => k = thinkStop
  /\ thinkStop <= starts
  /\ pc # "idle" => mine \in 1..starts
  /\ pc = "reset" => loop[mine] = "done"

\* The indicator runs while a response is awaited, until the agent has stopped it.
AgentInv ==
  /\ pc # "idle" => stage \in {"content", "end"} /\ thinkStop \in {0, mine}
  /\ pc = "idle" /\ stage # "stream" => thinkStop = 0
  /\ stage = "start" \/ (stage = "stream" /\ thinkStop # 0) => ~open
  /\ stage \in {"start", "content"} => ~view.started

\* What the last row holds: while an indicator runs or a view is drawn nothing to
\* stay, and a frame only as long as the goroutine of the indicator has not cleared it.
ScreenInv ==
  /\ Good(screen) /\ screen.statusShown
  /\ stage = "start" \/ (stage = "stream" /\ view.started) \/ thinkStop # 0 => screen.lineStart
  /\ ~NoFrame(screen) => thinkStop # 0 /\ loop[thinkStop] # "done"
  /\ stage = "stream" => ViewOK(screen, view)

AgentTypes ==
  /\ stage \in {"prompt", "typing", "turn", "start", "stream", "content", "args", "end",
                "dispatch", "called", "shown", "asked", "ran", "stopped"}
  /\ turn \in 0..MaxTurns /\ events \in 0..MaxEvents /\ calls \in 0..MaxCalls
  /\ printed \in BOOLEAN /\ open \in BOOLEAN
  /\ view \in [started : BOOLEAN, prev : 0..MaxTail]
  /\ stage = "typing" => turn < MaxTurns
  /\ stage \in {"start", "stream", "content", "end"} => calls = 0
  /\ stage = "dispatch" => calls < MaxCalls

ThinkTypes ==
  /\ thinkStop \in 0..MaxStarts /\ starts \in 0..MaxStarts
  /\ thinkStopping \in BOOLEAN /\ (thinkStopping => thinkStop # 0)
  /\ loop \in [Indicators -> {"none", "draw", "select", "clear", "done"}]
  /\ closed \subseteq Indicators
  /\ pc \in {"idle", "wait", "reset"} /\ mine \in 0..MaxStarts

IInv == AgentTypes /\ ThinkTypes /\ IndicatorInv /\ AgentInv /\ ScreenInv

-----------------------------------------------------------------------------
(* Rows *)

\* What is there to stay is what there is in the rows.
LEMMA ShownIs ==
  ASSUME NEW s, NEW e
  PROVE  e \in Shown(s) <=>
           \E r \in DOMAIN s.rows : \E c \in DOMAIN s.rows[r] :
             s.rows[r][c] \in Lasting /\ e = [mark |-> s.rows[r][c], row |-> r, col |-> c]
  <1> DEFINE InRow(r) == {[mark |-> s.rows[r][c], row |-> r, col |-> c] :
                            c \in {c \in DOMAIN s.rows[r] : s.rows[r][c] \in Lasting}}
  <1>1. ASSUME NEW r
        PROVE  e \in InRow(r) <=>
                 \E c \in DOMAIN s.rows[r] :
                   s.rows[r][c] \in Lasting /\ e = [mark |-> s.rows[r][c], row |-> r, col |-> c]
    BY Zenon
  <1>2. Shown(s) = UNION {InRow(r) : r \in DOMAIN s.rows}
    BY Zenon DEF Shown
  <1> HIDE DEF InRow
  <1>3. e \in Shown(s) <=> \E r \in DOMAIN s.rows : e \in InRow(r)
    BY <1>2, Zenon
  <1> QED BY <1>1, <1>3, Zenon

\* Every row of s with something to stay is in t.
Covers(s, t) ==
  \A r \in DOMAIN s.rows : ~Clean(s.rows[r]) => r \in DOMAIN t.rows /\ t.rows[r] = s.rows[r]

\* What is covered is shown.
LEMMA CoveredIsShown ==
  ASSUME NEW s, NEW t, Covers(s, t)
  PROVE  Shown(s) \subseteq Shown(t)
  <1>1. SUFFICES ASSUME NEW e \in Shown(s) PROVE e \in Shown(t)
    OBVIOUS
  <1>2. PICK r \in DOMAIN s.rows : \E c \in DOMAIN s.rows[r] :
          s.rows[r][c] \in Lasting /\ e = [mark |-> s.rows[r][c], row |-> r, col |-> c]
    BY <1>1, ShownIs, Zenon
  <1>3. PICK c \in DOMAIN s.rows[r] :
          s.rows[r][c] \in Lasting /\ e = [mark |-> s.rows[r][c], row |-> r, col |-> c]
    BY <1>2
  <1>4. ~Clean(s.rows[r])
    BY <1>3 DEF Clean
  <1>5. r \in DOMAIN t.rows /\ t.rows[r] = s.rows[r]
    BY <1>2, <1>4 DEF Covers
  <1>6. c \in DOMAIN t.rows[r] /\ t.rows[r][c] = s.rows[r][c]
    BY <1>3, <1>5
  <1> QED BY <1>3, <1>5, <1>6, ShownIs, Zenon

\* Rows without anything to stay come and go, the rest survives.
LEMMA Redrawn ==
  ASSUME NEW s, NEW t, Survives(s), t.said = s.said, Covers(s, t), Covers(t, s)
  PROVE  Survives(t)
  <1>1. Shown(s) \subseteq Shown(t) /\ Shown(t) \subseteq Shown(s)
    BY CoveredIsShown, Zenon
  <1> QED BY <1>1 DEF Survives

\* Another last row.
LEMMA LastReplaced ==
  ASSUME NEW rows \in Seq(Seq(Marks)), rows # <<>>, NEW row \in Seq(Marks)
  PROVE  /\ WithLast(rows, row) \in Seq(Seq(Marks)) /\ WithLast(rows, row) # <<>>
         /\ Len(WithLast(rows, row)) = Len(rows) /\ Len(rows) \in Nat \ {0}
         /\ DOMAIN WithLast(rows, row) = 1..Len(rows) /\ DOMAIN rows = 1..Len(rows)
         /\ WithLast(rows, row)[Len(rows)] = row
         /\ \A r \in 1..Len(rows) - 1 : WithLast(rows, row)[r] = rows[r]
  <1>1. Len(rows) \in Nat \ {0} /\ DOMAIN rows = 1..Len(rows)
    BY EmptySeq, LenProperties
  <1>2. WithLast(rows, row) \in Seq(Seq(Marks)) /\ Len(WithLast(rows, row)) = Len(rows)
    BY <1>1, ExceptSeq DEF WithLast
  <1>3. DOMAIN WithLast(rows, row) = DOMAIN rows
    BY DEF WithLast
  <1>4. WithLast(rows, row)[Len(rows)] = row
    BY <1>1 DEF WithLast
  <1>5. ASSUME NEW r \in 1..Len(rows) - 1
        PROVE  WithLast(rows, row)[r] = rows[r]
    <2> DEFINE n == Len(rows)
    <2>1. n \in Nat /\ DOMAIN rows = 1..n /\ r \in 1..n - 1
      BY <1>1
    <2> HIDE DEF n
    <2>2. r \in 1..n /\ r # n
      BY <2>1
    <2>3. r \in DOMAIN rows /\ r # Len(rows)
      BY <2>1, <2>2 DEF n
    <2> QED BY <2>3 DEF WithLast
  <1>6. WithLast(rows, row) # <<>>
    BY <1>1, <1>2, EmptySeq
  <1> QED BY <1>1, <1>2, <1>3, <1>4, <1>5, <1>6

\* The rows above it are kept.
LEMMA RestIsKept ==
  \A rows \in Seq(Seq(Marks)), row \in Seq(Marks) : rows # <<>> =>
    \A r \in 1..Len(rows) - 1 : WithLast(rows, row)[r] = rows[r]
  BY LastReplaced, Zenon

\* A row more.
LEMMA RowAdded ==
  ASSUME NEW rows \in Seq(Seq(Marks)), NEW row \in Seq(Marks)
  PROVE  /\ Append(rows, row) \in Seq(Seq(Marks)) /\ Append(rows, row) # <<>>
         /\ Len(Append(rows, row)) = Len(rows) + 1 /\ Len(rows) \in Nat
         /\ DOMAIN Append(rows, row) = 1..Len(rows) + 1 /\ DOMAIN rows = 1..Len(rows)
         /\ Append(rows, row)[Len(rows) + 1] = row
         /\ \A r \in 1..Len(rows) : Append(rows, row)[r] = rows[r]
  BY AppendProperties, LenProperties

\* The first rows of a screen.
LEMMA Prefixes ==
  ASSUME NEW rows \in Seq(Seq(Marks)), NEW k \in Nat, k <= Len(rows)
  PROVE  /\ SubSeq(rows, 1, k) \in Seq(Seq(Marks)) /\ Len(SubSeq(rows, 1, k)) = k
         /\ \A r \in 1..k : SubSeq(rows, 1, k)[r] = rows[r]
  OBVIOUS

\* Rows below rows.
LEMMA Joined ==
  \A a, b \in Seq(Seq(Marks)) :
    /\ a \o b \in Seq(Seq(Marks)) /\ Len(a \o b) = Len(a) + Len(b)
    /\ \A r \in 1..Len(a) : (a \o b)[r] = a[r]
    /\ \A r \in Len(a) + 1 .. Len(a) + Len(b) : (a \o b)[r] = b[r - Len(a)]
  OBVIOUS

\* An empty row holds nothing.
LEMMA EmptyRow == <<>> \in Seq(Marks) /\ Clean(<<>>) /\ \A m : ~Has(<<>>, m)
  BY DEF Clean, Has

\* A mark that is neither in a row nor appended is not in what results.
LEMMA NotInAppended ==
  ASSUME NEW row \in Seq(Marks), NEW mark \in Marks, NEW other, other # mark, ~Has(row, other)
  PROVE  ~Has(Append(row, mark), other)
  <1>1. /\ DOMAIN Append(row, mark) = 1..Len(row) + 1 /\ DOMAIN row = 1..Len(row)
        /\ Len(row) \in Nat /\ Append(row, mark)[Len(row) + 1] = mark
        /\ \A c \in 1..Len(row) : Append(row, mark)[c] = row[c]
    BY AppendProperties, LenProperties
  <1>2. \A c \in 1..Len(row) + 1 : c \in 1..Len(row) \/ c = Len(row) + 1
    BY <1>1
  <1> QED BY <1>1, <1>2, Zenon DEF Has

\* The rows of a view are above the last one.
LEMMA ViewCarries ==
  ASSUME NEW s, Base(s), NEW t, Len(t.rows) = Len(s.rows),
         \A r \in 1..Len(s.rows) - 1 : t.rows[r] = s.rows[r]
  PROVE  \A v : v.prev \in Nat /\ ViewOK(s, v) => ViewOK(t, v)
  <1>1. SUFFICES ASSUME NEW v, v.prev \in Nat, ViewOK(s, v), v.started PROVE ViewOK(t, v)
    BY DEF ViewOK
  <1>2. Len(s.rows) \in Nat
    BY LenProperties DEF Base, Screens
  <1>3. \A r \in Len(s.rows) - v.prev .. Len(s.rows) - 1 : r \in 1..Len(s.rows) - 1
    BY <1>1, <1>2 DEF ViewOK
  <1> QED BY <1>1, <1>3 DEF ViewOK

-----------------------------------------------------------------------------
(* The terminal *)

\* A new row is added below a row that keeps no frame, but in front of a title.
LEMMA NewLineOK ==
  ASSUME NEW s, Base(s), NoFrame(s) \/ Has(LastRow(s), "title")
  PROVE  /\ Base(NewLine(s)) /\ LastRow(NewLine(s)) = <<>>
         /\ NewLine(s).lineStart = s.lineStart /\ NewLine(s).statusShown = s.statusShown
         /\ NewLine(s).wide = s.wide /\ NewLine(s).said = s.said
         /\ Len(NewLine(s).rows) = Len(s.rows) + 1 /\ Len(s.rows) \in Nat \ {0}
         /\ \A r \in 1..Len(s.rows) : NewLine(s).rows[r] = s.rows[r]
  <1> DEFINE t == NewLine(s)
  <1>1. s \in Screens /\ s.rows \in Seq(Seq(Marks)) /\ s.rows # <<>>
    BY DEF Base, Screens
  <1>2. /\ t \in Screens /\ t.rows = Append(s.rows, <<>>) /\ t.lineStart = s.lineStart
        /\ t.statusShown = s.statusShown /\ t.wide = s.wide /\ t.said = s.said
    BY <1>1, RowAdded, EmptyRow DEF NewLine, Screens
  <1>3. /\ t.rows # <<>> /\ Len(t.rows) = Len(s.rows) + 1 /\ Len(s.rows) \in Nat \ {0}
        /\ DOMAIN t.rows = 1..Len(s.rows) + 1 /\ DOMAIN s.rows = 1..Len(s.rows)
        /\ t.rows[Len(s.rows) + 1] = <<>>
        /\ \A r \in 1..Len(s.rows) : t.rows[r] = s.rows[r]
    BY <1>1, <1>2, RowAdded, EmptyRow, EmptySeq
  <1> HIDE DEF t
  <1>4. Covers(s, t) /\ Covers(t, s)
    BY <1>3, EmptyRow DEF Covers
  <1>5. Survives(t)
    BY <1>2, <1>4, Redrawn DEF Base
  <1>6. FramesOK(t)
    BY <1>3, EmptyRow DEF Base, FramesOK, NoFrame, LastRow
  <1>7. LastRow(t) = <<>>
    BY <1>3 DEF LastRow
  <1> QED BY <1>2, <1>3, <1>5, <1>6, <1>7 DEF Base, t

\* The last row is replaced by one that, like it, holds nothing to stay.
LEMMA LastRedrawn ==
  ASSUME NEW s, Base(s), Clean(LastRow(s)), NEW row \in Seq(Marks), Clean(row), NEW t \in Screens,
         t.rows = WithLast(s.rows, row), t.said = s.said
  PROVE  Base(t) /\ LastRow(t) = row /\ Len(t.rows) = Len(s.rows)
  <1>1. s.rows \in Seq(Seq(Marks)) /\ s.rows # <<>>
    BY DEF Base, Screens
  <1>2. /\ t.rows # <<>> /\ Len(t.rows) = Len(s.rows) /\ Len(s.rows) \in Nat \ {0}
        /\ DOMAIN t.rows = 1..Len(s.rows) /\ DOMAIN s.rows = 1..Len(s.rows)
        /\ t.rows[Len(s.rows)] = row
        /\ \A r \in 1..Len(s.rows) - 1 : t.rows[r] = s.rows[r]
    <2> DEFINE rows == s.rows
    <2>1. rows \in Seq(Seq(Marks)) /\ rows # <<>> /\ t.rows = WithLast(rows, row)
      BY <1>1
    <2> HIDE DEF rows
    <2>2. /\ t.rows # <<>> /\ Len(t.rows) = Len(rows) /\ Len(rows) \in Nat \ {0}
          /\ DOMAIN t.rows = 1..Len(rows) /\ DOMAIN rows = 1..Len(rows)
          /\ t.rows[Len(rows)] = row
          /\ \A r \in 1..Len(rows) - 1 : t.rows[r] = rows[r]
      BY <2>1, LastReplaced
    <2> QED BY <2>2 DEF rows
  <1>3. \A r \in 1..Len(s.rows) : r = Len(s.rows) \/ t.rows[r] = s.rows[r]
    BY <1>2
  <1>4. Covers(s, t) /\ Covers(t, s)
    BY <1>2, <1>3 DEF Covers, LastRow
  <1>5. Survives(t)
    BY <1>4, Redrawn DEF Base
  <1>6. FramesOK(t)
    BY <1>2, <1>3 DEF Base, FramesOK
  <1> QED BY <1>2, <1>5, <1>6 DEF Base, LastRow

\* Erasing a row that holds nothing to stay.
LEMMA EraseRowOK ==
  ASSUME NEW s, Base(s), Clean(LastRow(s))
  PROVE  /\ Base(EraseRow(s)) /\ LastRow(EraseRow(s)) = <<>>
         /\ EraseRow(s).lineStart = s.lineStart /\ EraseRow(s).statusShown = s.statusShown
         /\ EraseRow(s).wide = s.wide /\ Len(EraseRow(s).rows) = Len(s.rows)
  <1> DEFINE t == EraseRow(s)
  <1>1. s \in Screens /\ s.rows \in Seq(Seq(Marks)) /\ s.rows # <<>>
    BY DEF Base, Screens
  <1>2. /\ t \in Screens /\ t.rows = WithLast(s.rows, <<>>) /\ t.lineStart = s.lineStart
        /\ t.statusShown = s.statusShown /\ t.wide = s.wide /\ t.said = s.said
    BY <1>1, LastReplaced, EmptyRow DEF EraseRow, Screens
  <1> HIDE DEF t
  <1>3. Base(t) /\ LastRow(t) = <<>> /\ Len(t.rows) = Len(s.rows)
    BY <1>2, LastRedrawn, EmptyRow
  <1> QED BY <1>2, <1>3 DEF t

\* The flags of a screen change nothing of what is on it.
LEMMA FlagsFree ==
  ASSUME NEW s, Base(s), NEW t \in Screens, t.rows = s.rows, t.said = s.said
  PROVE  Base(t) /\ LastRow(t) = LastRow(s)
  <1>1. Covers(s, t) /\ Covers(t, s)
    BY DEF Covers
  <1>2. Survives(t)
    BY <1>1, Redrawn DEF Base
  <1>3. FramesOK(t)
    BY DEF Base, FramesOK
  <1> QED BY <1>2, <1>3 DEF Base, LastRow

\* A row that ends with the bar has no frame, so a wrap leaves none behind.
LEMMA WrapIsClean ==
  ASSUME NEW s, LastOK(s), Wraps(s)
  PROVE  NoFrame(s)
  <1>1. SUFFICES ASSUME LastRow(s) = <<"think">> PROVE FALSE
    BY DEF LastOK, NoFrame
  <1> QED BY <1>1 DEF Wraps

\* A mark that stays is behind everything there is, and is recorded there.
LEMMA PutOK ==
  ASSUME NEW s, Good(s), NEW mark \in Lasting
  PROVE  /\ Base(Put(s, mark))
         /\ LastRow(Put(s, mark)) = Append(IF Wraps(s) THEN <<>> ELSE LastRow(s), mark)
         /\ Put(s, mark).lineStart = s.lineStart /\ Put(s, mark).statusShown = s.statusShown
         /\ Len(Put(s, mark).rows) \in Nat \ {0}
  <1> DEFINE t == IF Wraps(s) THEN NewLine(s) ELSE s
             row == Append(LastRow(t), mark)
             it == [mark |-> mark, row |-> Len(t.rows), col |-> Len(row)]
             u == Put(s, mark)
  <1>1. /\ Base(t) /\ LastRow(t) = IF Wraps(s) THEN <<>> ELSE LastRow(s)
        /\ t.lineStart = s.lineStart /\ t.statusShown = s.statusShown
    BY NewLineOK, WrapIsClean DEF Good
  <1>2. u = [t EXCEPT !.rows = WithLast(@, row), !.said = Append(@, it)]
    BY DEF Put
  <1> HIDE DEF t, u
  <1>3. /\ t \in Screens /\ t.rows \in Seq(Seq(Marks)) /\ t.rows # <<>> /\ t.said \in Seq(Items)
        /\ Survives(t) /\ FramesOK(t)
    BY <1>1 DEF Base, Screens
  <1>4. Len(t.rows) \in Nat \ {0} /\ DOMAIN t.rows = 1..Len(t.rows)
    BY <1>3, EmptySeq, LenProperties
  <1>5. LastRow(t) \in Seq(Marks)
    BY <1>3, <1>4 DEF LastRow
  <1>6. /\ row \in Seq(Marks) /\ Len(row) = Len(LastRow(t)) + 1 /\ Len(LastRow(t)) \in Nat
        /\ DOMAIN row = 1..Len(row) /\ row[Len(row)] = mark
        /\ DOMAIN LastRow(t) = 1..Len(row) - 1
        /\ \A c \in 1..Len(row) - 1 : row[c] = LastRow(t)[c]
    <2>1. mark \in Marks
      BY DEF Marks
    <2>2. /\ row \in Seq(Marks) /\ Len(row) = Len(LastRow(t)) + 1
          /\ row[Len(LastRow(t)) + 1] = mark
          /\ \A c \in 1..Len(LastRow(t)) : row[c] = LastRow(t)[c]
      BY <1>5, <2>1, AppendProperties
    <2>3. /\ Len(LastRow(t)) \in Nat /\ DOMAIN LastRow(t) = 1..Len(LastRow(t))
          /\ DOMAIN row = 1..Len(row)
      BY <1>5, <2>2, LenProperties
    <2> QED BY <2>2, <2>3
  <1> HIDE DEF row
  <1>7. it \in Items
    BY <1>4, <1>6 DEF Items
  <1>8. /\ u.rows = WithLast(t.rows, row) /\ u.said = Append(t.said, it)
        /\ u.lineStart = t.lineStart /\ u.statusShown = t.statusShown
    BY <1>2, <1>3 DEF Screens
  <1>9. /\ u.rows \in Seq(Seq(Marks)) /\ u.rows # <<>> /\ Len(u.rows) = Len(t.rows)
        /\ DOMAIN u.rows = 1..Len(t.rows) /\ u.rows[Len(t.rows)] = row
        /\ \A r \in 1..Len(t.rows) - 1 : u.rows[r] = t.rows[r]
    <2> DEFINE rows == t.rows
    <2>1. rows \in Seq(Seq(Marks)) /\ rows # <<>> /\ u.rows = WithLast(rows, row)
      BY <1>3, <1>8
    <2> HIDE DEF rows
    <2>2. /\ u.rows \in Seq(Seq(Marks)) /\ u.rows # <<>> /\ Len(u.rows) = Len(rows)
          /\ DOMAIN u.rows = 1..Len(rows) /\ u.rows[Len(rows)] = row
          /\ \A r \in 1..Len(rows) - 1 : u.rows[r] = rows[r]
      BY <1>6, <2>1, LastReplaced
    <2> QED BY <2>2 DEF rows
  \* The mark is the only change.
  <1>old. /\ \A r \in DOMAIN t.rows : r # Len(t.rows) => u.rows[r] = t.rows[r]
          /\ DOMAIN u.rows = DOMAIN t.rows /\ Len(t.rows) \in DOMAIN t.rows
          /\ u.rows[Len(t.rows)] = row /\ t.rows[Len(t.rows)] = LastRow(t)
          /\ \A c \in DOMAIN LastRow(t) : c \in DOMAIN row /\ row[c] = LastRow(t)[c]
          /\ \A c \in DOMAIN row : c # Len(row) => c \in DOMAIN LastRow(t)
    <2>1. \A r \in DOMAIN t.rows : r # Len(t.rows) => r \in 1..Len(t.rows) - 1
      BY <1>4
    <2>2. \A c \in DOMAIN row : c # Len(row) => c \in 1..Len(row) - 1
      BY <1>6
    <2>3. \A c \in 1..Len(row) - 1 : c \in 1..Len(row)
      BY <1>6
    <2>4. Len(t.rows) \in 1..Len(t.rows)
      BY <1>4
    <2> QED BY <1>4, <1>6, <1>9, <2>1, <2>2, <2>3, <2>4, Zenon DEF LastRow
  <1>10. u \in Screens
    <2>1. Append(t.said, it) \in Seq(Items)
      BY <1>3, <1>7, AppendProperties
    <2> QED BY <1>2, <1>3, <1>8, <1>9, <2>1 DEF Screens
  <1>11. Shown(u) = Shown(t) \cup {it}
    <2>1. ASSUME NEW e \in Shown(u) PROVE e \in Shown(t) \cup {it}
      <3>1. PICK r \in DOMAIN u.rows : \E c \in DOMAIN u.rows[r] :
              u.rows[r][c] \in Lasting /\ e = [mark |-> u.rows[r][c], row |-> r, col |-> c]
        BY <2>1, ShownIs, Zenon
      <3>2. PICK c \in DOMAIN u.rows[r] :
              u.rows[r][c] \in Lasting /\ e = [mark |-> u.rows[r][c], row |-> r, col |-> c]
        BY <3>1
      <3>3. CASE r = Len(t.rows) /\ c = Len(row)
        BY <1>6, <1>9, <3>2, <3>3
      <3>4. CASE ~(r = Len(t.rows) /\ c = Len(row))
        <4>1. r \in DOMAIN t.rows /\ c \in DOMAIN t.rows[r] /\ u.rows[r][c] = t.rows[r][c]
          <5>1. CASE r = Len(t.rows)
            BY <1>old, <3>2, <3>4, <5>1
          <5>2. CASE r # Len(t.rows)
            BY <1>old, <3>1, <3>2, <5>2
          <5> QED BY <5>1, <5>2
        <4>2. e \in Shown(t)
          BY <3>2, <4>1, ShownIs, Zenon
        <4> QED BY <4>2
      <3> QED BY <3>3, <3>4
    <2>2. ASSUME NEW e \in Shown(t) PROVE e \in Shown(u)
      <3>1. PICK r \in DOMAIN t.rows : \E c \in DOMAIN t.rows[r] :
              t.rows[r][c] \in Lasting /\ e = [mark |-> t.rows[r][c], row |-> r, col |-> c]
        BY <2>2, ShownIs, Zenon
      <3>2. PICK c \in DOMAIN t.rows[r] :
              t.rows[r][c] \in Lasting /\ e = [mark |-> t.rows[r][c], row |-> r, col |-> c]
        BY <3>1
      <3>3. r \in DOMAIN u.rows /\ c \in DOMAIN u.rows[r] /\ u.rows[r][c] = t.rows[r][c]
        <4>1. CASE r = Len(t.rows)
          BY <1>old, <3>2, <4>1
        <4>2. CASE r # Len(t.rows)
          BY <1>old, <3>1, <3>2, <4>2
        <4> QED BY <4>1, <4>2
      <3> QED BY <3>2, <3>3, ShownIs, Zenon
    <2>3. it \in Shown(u)
      <3>1. /\ Len(t.rows) \in DOMAIN u.rows /\ Len(row) \in DOMAIN u.rows[Len(t.rows)]
            /\ u.rows[Len(t.rows)][Len(row)] = mark
        BY <1>4, <1>6, <1>9
      <3> QED BY <3>1, ShownIs, Zenon
    <2> QED BY <2>1, <2>2, <2>3
  <1>12. \A e \in Shown(t) : Before(e, it)
    <2>1. SUFFICES ASSUME NEW e \in Shown(t) PROVE Before(e, it)
      OBVIOUS
    <2>2. PICK r \in DOMAIN t.rows : \E c \in DOMAIN t.rows[r] :
            t.rows[r][c] \in Lasting /\ e = [mark |-> t.rows[r][c], row |-> r, col |-> c]
      BY <2>1, ShownIs, Zenon
    <2>3. PICK c \in DOMAIN t.rows[r] : e = [mark |-> t.rows[r][c], row |-> r, col |-> c]
      BY <2>2
    <2>4. r \in 1..Len(t.rows) /\ (r = Len(t.rows) => c \in 1..Len(row) - 1)
      BY <1>4, <1>6, <2>2, <2>3 DEF LastRow
    <2>5. e.row = r /\ e.col = c /\ it.row = Len(t.rows) /\ it.col = Len(row)
      BY <2>3
    <2> HIDE DEF it
    <2> QED BY <1>4, <1>6, <2>4, <2>5 DEF Before
  <1> HIDE DEF it
  <1>13. Survives(u)
    <2>1. /\ Len(u.said) = Len(t.said) + 1 /\ Len(t.said) \in Nat
          /\ DOMAIN u.said = 1..Len(t.said) + 1 /\ DOMAIN t.said = 1..Len(t.said)
          /\ u.said[Len(t.said) + 1] = it
          /\ \A i \in 1..Len(t.said) : u.said[i] = t.said[i]
      <3>1. u.said \in Seq(Items) /\ u.said = Append(t.said, it)
        BY <1>3, <1>7, <1>8, AppendProperties
      <3> QED BY <1>3, <1>7, <3>1, AppendProperties, LenProperties
    <2>2. {u.said[i] : i \in DOMAIN u.said} = {t.said[i] : i \in DOMAIN t.said} \cup {it}
      <3>1. Len(t.said) + 1 \in 1..Len(t.said) + 1 /\ 1..Len(t.said) \subseteq 1..Len(t.said) + 1
        BY <2>1
      <3>2. \A i \in 1..Len(t.said) + 1 : i \in 1..Len(t.said) \/ i = Len(t.said) + 1
        BY <2>1
      <3> QED BY <2>1, <3>1, <3>2, Zenon
    <2>3. Shown(u) = {u.said[i] : i \in DOMAIN u.said}
      BY <1>3, <1>11, <2>2 DEF Survives
    <2>4. ASSUME NEW i \in 1..Len(u.said) - 1
          PROVE  Before(u.said[i], u.said[i + 1])
      <3>1. CASE i = Len(t.said)
        <4>1. u.said[i] \in Shown(t) /\ u.said[i + 1] = it
          <5>1. i \in DOMAIN t.said /\ u.said[i] = t.said[i]
            BY <2>1, <2>4, <3>1
          <5>2. t.said[i] \in Shown(t)
            BY <1>3, <5>1 DEF Survives
          <5> QED BY <2>1, <3>1, <5>1, <5>2
        <4> QED BY <1>12, <4>1
      <3>2. CASE i # Len(t.said)
        <4>1. /\ i \in 1..Len(t.said) - 1 /\ u.said[i] = t.said[i] /\ u.said[i + 1] = t.said[i + 1]
          <5>1. Len(t.said) \in Nat /\ i \in 1..Len(t.said) /\ i # Len(t.said)
            BY <2>1, <2>4, <3>2
          <5>2. /\ i \in 1..Len(t.said) - 1 /\ i \in 1..Len(t.said) /\ i + 1 \in 1..Len(t.said)
            BY <5>1
          <5> QED BY <2>1, <5>2
        <4> QED BY <1>3, <4>1 DEF Survives
      <3> QED BY <3>1, <3>2
    <2> QED BY <2>3, <2>4 DEF Survives
  <1>14. FramesOK(u)
    BY <1>3, <1>9, <1>old DEF FramesOK
  <1>15. LastRow(u) = row
    BY <1>9 DEF LastRow
  <1> QED BY <1>1, <1>4, <1>8, <1>9, <1>10, <1>13, <1>14, <1>15 DEF Base, u, row

-----------------------------------------------------------------------------
(* The operations of the UI *)

\* A line to stay, and the cursor at the start of the next row; only the title
\* of a live view is written behind a frame.
LEMMA PutLineOK ==
  ASSUME NEW s, Good(s), NEW mark \in Lasting, NoFrame(s) \/ mark = "title"
  PROVE  LET t == PutLine(s, mark) IN
         /\ Good(t) /\ LastRow(t) = <<>> /\ t.lineStart
         /\ t.statusShown = s.statusShown /\ Len(t.rows) \in Nat \ {0, 1}
  <1> DEFINE p == Put(s, mark)
             n == NewLine(p)
             t == PutLine(s, mark)
  <1>1. /\ Base(p) /\ p.statusShown = s.statusShown /\ Len(p.rows) \in Nat \ {0}
        /\ LastRow(p) = Append(IF Wraps(s) THEN <<>> ELSE LastRow(s), mark)
    BY PutOK
  <1>2. NoFrame(p) \/ Has(LastRow(p), "title")
    <2> DEFINE old == IF Wraps(s) THEN <<>> ELSE LastRow(s)
    <2>1. old \in Seq(Marks)
      <3>1. s.rows \in Seq(Seq(Marks)) /\ Len(s.rows) \in DOMAIN s.rows
        BY EmptySeq, LenProperties DEF Good, Base, Screens
      <3> QED BY <3>1, EmptyRow DEF LastRow
    <2> HIDE DEF old
    <2>2. LastRow(p) = Append(old, mark)
      BY <1>1 DEF old
    <2>3. /\ Len(old) \in Nat /\ DOMAIN LastRow(p) = 1..Len(old) + 1 /\ DOMAIN old = 1..Len(old)
          /\ LastRow(p)[Len(old) + 1] = mark
          /\ \A c \in 1..Len(old) : LastRow(p)[c] = old[c]
      <3>1. mark \in Marks
        BY DEF Marks
      <3>2. LastRow(p) \in Seq(Marks)
        BY <2>1, <2>2, <3>1, AppendProperties
      <3> QED BY <2>1, <2>2, <3>1, <3>2, AppendProperties, LenProperties
    <2>4. CASE mark = "title"
      BY <2>3, <2>4 DEF Has
    <2>5. CASE NoFrame(s) /\ mark # "title"
      <3>1. ~Has(old, "think")
        BY <2>5, EmptyRow DEF NoFrame, old
      <3>2. mark \in Marks /\ mark # "think"
        BY DEF Lasting, Marks
      <3> QED BY <2>1, <2>2, <3>1, <3>2, NotInAppended DEF NoFrame
    <2> QED BY <2>4, <2>5
  <1> HIDE DEF p
  <1>3. /\ Base(n) /\ LastRow(n) = <<>> /\ n.statusShown = p.statusShown
        /\ Len(n.rows) = Len(p.rows) + 1
    BY <1>1, <1>2, NewLineOK
  <1>4. /\ t \in Screens /\ t.rows = n.rows /\ t.said = n.said /\ t.lineStart
        /\ t.statusShown = n.statusShown
    <2>1. n \in Screens /\ t = [n EXCEPT !.lineStart = TRUE]
      BY <1>3 DEF PutLine, Base, p
    <2> HIDE DEF n, t
    <2> QED BY <2>1 DEF Screens
  <1> HIDE DEF n, t
  <1>5. Base(t) /\ LastRow(t) = LastRow(n)
    BY <1>3, <1>4, FlagsFree
  <1>6. LastOK(t)
    BY <1>3, <1>5, EmptyRow DEF LastOK
  <1>7. Len(t.rows) \in Nat \ {0, 1}
    <2>1. Len(t.rows) = Len(p.rows) + 1
      BY <1>3, <1>4
    <2>2. \A k \in Nat \ {0} : k + 1 \in Nat \ {0, 1}
      OBVIOUS
    <2> QED BY <1>1, <2>1, <2>2, Zenon
  <1>8. t.statusShown = s.statusShown /\ LastRow(t) = <<>>
    BY <1>1, <1>3, <1>4, <1>5
  <1> QED BY <1>4, <1>5, <1>6, <1>7, <1>8 DEF Good, t

\* Once at the start of a line, there is nothing to stay on it.
LEMMA EnsureLineStartOK ==
  ASSUME NEW s, Good(s)
  PROVE  LET t == EnsureLineStart(s) IN
         /\ Good(t) /\ t.lineStart /\ Clean(LastRow(t))
         /\ t.statusShown = s.statusShown /\ (NoFrame(s) => NoFrame(t))
  <1> DEFINE t == EnsureLineStart(s)
             n == NewLine(s)
  <1>1. CASE s.lineStart
    BY <1>1 DEF EnsureLineStart, Good, LastOK
  <1>2. CASE ~s.lineStart
    <2>1. NoFrame(s)
      BY <1>2 DEF Good, LastOK, NoFrame
    <2>2. /\ Base(n) /\ LastRow(n) = <<>> /\ n.statusShown = s.statusShown
      BY <2>1, NewLineOK DEF Good
    <2>3. n \in Screens /\ t = [n EXCEPT !.lineStart = TRUE]
      BY <1>2, <2>2 DEF EnsureLineStart, Base
    <2> HIDE DEF n, t
    <2>4. /\ t \in Screens /\ t.rows = n.rows /\ t.said = n.said /\ t.lineStart
          /\ t.statusShown = n.statusShown
      BY <2>3 DEF Screens
    <2>5. Base(t) /\ LastRow(t) = <<>>
      BY <2>2, <2>4, FlagsFree
    <2> QED BY <2>2, <2>4, <2>5, EmptyRow DEF Good, LastOK, NoFrame, t
  <1> QED BY <1>1, <1>2

\* The bar and a frame are drawn over the last row.
Drawn(s, mark) == [Put(EraseRow(s), mark) EXCEPT !.lineStart = TRUE]

\* What they are drawn over is lost.
LEMMA DrawnOK ==
  ASSUME NEW s, Base(s), Clean(LastRow(s)), NEW mark \in {"bar", "think"}
  PROVE  /\ Good(Drawn(s, mark)) /\ Drawn(s, mark).lineStart
         /\ Drawn(s, mark).statusShown = s.statusShown
         /\ LastRow(Drawn(s, mark)) = <<mark>> /\ Len(Drawn(s, mark).rows) = Len(s.rows)
         /\ \A r \in 1..Len(s.rows) - 1 : Drawn(s, mark).rows[r] = s.rows[r]
  <1> DEFINE e == EraseRow(s)
             t == Drawn(s, mark)
  <1>1. s \in Screens /\ s.rows \in Seq(Seq(Marks)) /\ s.rows # <<>>
    BY DEF Base, Screens
  <1>2. e \in Screens /\ e.rows = WithLast(s.rows, <<>>) /\ e.said = s.said
        /\ e.statusShown = s.statusShown
    BY <1>1, LastReplaced, EmptyRow DEF EraseRow, Screens
  <1>3. /\ LastRow(e) = <<>> /\ Base(e) /\ Len(e.rows) = Len(s.rows)
    BY EraseRowOK
  <1>4. Put(e, mark) = [e EXCEPT !.rows = WithLast(@, <<mark>>)]
    <2>1. ~Wraps(e) /\ mark \notin Lasting
      BY <1>3 DEF Wraps, Lasting
    <2>2. Append(LastRow(e), mark) = <<mark>>
      BY <1>3
    <2> HIDE DEF e
    <2>3. Put(e, mark) = [e EXCEPT !.rows = WithLast(@, <<mark>>), !.said = @]
      BY <2>1, <2>2 DEF Put
    <2> QED BY <1>2, <2>3 DEF Screens
  <1> HIDE DEF e
  <1>5. <<mark>> \in Seq(Marks) /\ Clean(<<mark>>)
    BY DEF Marks, Clean, Lasting
  <1>6. e.rows \in Seq(Seq(Marks)) /\ e.rows # <<>>
    BY <1>2, <1>3 DEF Base, Screens
  <1>7. /\ t \in Screens /\ t.rows = WithLast(e.rows, <<mark>>) /\ t.said = s.said /\ t.lineStart
        /\ t.statusShown = s.statusShown
    <2>1. t = [[e EXCEPT !.rows = WithLast(@, <<mark>>)] EXCEPT !.lineStart = TRUE]
      BY <1>4 DEF e, Drawn
    <2> HIDE DEF t
    <2>2. WithLast(e.rows, <<mark>>) \in Seq(Seq(Marks))
      BY <1>5, <1>6, LastReplaced
    <2> QED BY <1>2, <2>1, <2>2 DEF Screens
  <1> HIDE DEF t
  <1>8. Base(t) /\ LastRow(t) = <<mark>> /\ Len(t.rows) = Len(e.rows)
    BY <1>2, <1>3, <1>5, <1>7, LastRedrawn, EmptyRow
  <1>9. LastOK(t)
    <2>1. Has(<<mark>>, "think") => <<mark>> = <<"think">>
      BY DEF Has
    <2> QED BY <1>5, <1>7, <1>8, <2>1 DEF LastOK
  <1>10. \A r \in 1..Len(s.rows) - 1 : t.rows[r] = s.rows[r]
    <2>1. \A r \in 1..Len(s.rows) - 1 : e.rows[r] = s.rows[r]
      BY <1>1, <1>2, RestIsKept, EmptyRow, Zenon
    <2>2. \A r \in 1..Len(e.rows) - 1 : t.rows[r] = e.rows[r]
      <3>1. \A r \in 1..Len(e.rows) - 1 : WithLast(e.rows, <<mark>>)[r] = e.rows[r]
        BY <1>5, <1>6, RestIsKept, Zenon
      <3> QED BY <1>7, <3>1, Zenon
    <2> QED BY <1>3, <2>1, <2>2
  <1> QED BY <1>3, <1>7, <1>8, <1>9, <1>10 DEF Good, t

\* The bar is drawn on a row of its own.
LEMMA ShowStatusOK ==
  ASSUME NEW s, Good(s)
  PROVE  LET t == ShowStatus(s) IN
         Good(t) /\ t.lineStart /\ t.statusShown /\ NoFrame(t)
  <1> DEFINE e == EnsureLineStart(s)
             d == Drawn(e, "bar")
             t == ShowStatus(s)
  <1>1. Good(e) /\ Clean(LastRow(e))
    BY EnsureLineStartOK
  <1>2. Good(d) /\ d.lineStart /\ LastRow(d) = <<"bar">>
    <2> HIDE DEF e
    <2> QED BY <1>1, DrawnOK DEF Good
  <1>3. d \in Screens /\ d.rows \in Seq(Seq(Marks))
    BY <1>2 DEF Good, Base, Screens
  <1>4. t = [d EXCEPT !.statusShown = TRUE]
    <2>1. /\ d = [Put(EraseRow(e), "bar") EXCEPT !.lineStart = TRUE]
          /\ t = [Put(EraseRow(e), "bar") EXCEPT !.lineStart = TRUE, !.statusShown = TRUE]
      BY DEF ShowStatus, Drawn
    <2> HIDE DEF e, t, d
    <2> QED BY <2>1
  <1> HIDE DEF d, t
  <1>5. /\ t \in Screens /\ t.rows = d.rows /\ t.said = d.said /\ t.lineStart /\ t.statusShown
    BY <1>2, <1>3, <1>4 DEF Screens
  <1>6. Base(t) /\ LastRow(t) = <<"bar">>
    BY <1>2, <1>5, FlagsFree DEF Good
  <1>7. Clean(<<"bar">>) /\ ~Has(<<"bar">>, "think")
    BY DEF Clean, Has, Lasting
  <1> QED BY <1>5, <1>6, <1>7 DEF Good, LastOK, NoFrame, t

\* The bar is taken away with its row.
LEMMA HideStatusOK ==
  ASSUME NEW s, Good(s)
  PROVE  LET t == HideStatus(s) IN Good(t) /\ NoFrame(t)
  <1> DEFINE e == EnsureLineStart(s)
             r == EraseRow(e)
             t == HideStatus(s)
  <1>1. Good(e) /\ Clean(LastRow(e))
    BY EnsureLineStartOK
  <1>2. Base(r) /\ LastRow(r) = <<>>
    <2> HIDE DEF e
    <2> QED BY <1>1, EraseRowOK DEF Good
  <1>3. r \in Screens /\ t = [r EXCEPT !.lineStart = TRUE, !.statusShown = FALSE]
    BY <1>2 DEF HideStatus, Base
  <1> HIDE DEF r, t
  <1>4. t \in Screens /\ t.rows = r.rows /\ t.said = r.said
    BY <1>3 DEF Screens
  <1>5. Base(t) /\ LastRow(t) = <<>>
    BY <1>2, <1>4, FlagsFree
  <1> QED BY <1>5, EmptyRow DEF Good, LastOK, NoFrame, t

\* A line to stay goes above the bar.
LEMMA PrintlnOK ==
  ASSUME NEW s, Good(s), s.statusShown
  PROVE  LET t == Println(s) IN Good(t) /\ t.lineStart /\ t.statusShown /\ NoFrame(t)
  <1> DEFINE h == HideStatus(s)
             l == PutLine(h, "line")
  <1>1. Good(h) /\ NoFrame(h)
    BY HideStatusOK
  <1>2. Good(l)
    <2>1. "line" \in Lasting
      BY DEF Lasting
    <2> HIDE DEF h
    <2> QED BY <1>1, <2>1, PutLineOK
  <1>3. Println(s) = ShowStatus(l)
    BY DEF Println
  <1> HIDE DEF l
  <1> QED BY <1>2, <1>3, ShowStatusOK

\* Headers, calls and results are lines without a frame in front.
LEMMA LineOK ==
  ASSUME NEW s, Good(s), s.statusShown, NoFrame(s),
         NEW t \in {AssistantHeader(s), ToolCall(s), ToolResult(s), Assistant(s, TRUE)}
  PROVE  Good(t) /\ NoFrame(t) /\ t.statusShown
  <1> DEFINE e == EnsureLineStart(s)
  <1>1. Good(e) /\ NoFrame(e) /\ e.statusShown
    BY EnsureLineStartOK
  <1>2. {"line", "text"} \subseteq Lasting
    BY DEF Lasting
  <1>3. ASSUME NEW u \in {e, s}, NEW mark \in {"line", "text"}
        PROVE  LET p == PutLine(u, mark) IN Good(p) /\ NoFrame(p) /\ p.statusShown
    <2>1. Good(u) /\ NoFrame(u) /\ u.statusShown
      BY <1>1
    <2> DEFINE p == PutLine(u, mark)
    <2>2. Good(p) /\ LastRow(p) = <<>> /\ p.statusShown = u.statusShown
      BY <1>2, <2>1, PutLineOK
    <2> HIDE DEF p
    <2>3. Good(p) /\ NoFrame(p) /\ p.statusShown
      BY <2>1, <2>2, EmptyRow DEF NoFrame
    <2> QED BY <2>3 DEF p
  <1>4. t \in {PutLine(e, "line"), PutLine(s, "line"), PutLine(s, "text")}
    BY DEF AssistantHeader, ToolCall, ToolResult, Assistant
  <1> HIDE DEF e
  <1> QED BY <1>3, <1>4

\* Text and questions leave the cursor behind them.
LEMMA TextOK ==
  ASSUME NEW s, Good(s), s.statusShown, NoFrame(s), NEW mark \in {"text", "ask"},
         NEW t, t = [Put(s, mark) EXCEPT !.lineStart = FALSE]
  PROVE  Good(t) /\ NoFrame(t) /\ t.statusShown
  <1> DEFINE p == Put(s, mark)
             old == IF Wraps(s) THEN <<>> ELSE LastRow(s)
  <1>1. mark \in Lasting /\ mark \in Marks /\ mark # "think"
    BY DEF Lasting, Marks
  <1>2. Base(p) /\ LastRow(p) = Append(old, mark) /\ p.statusShown = s.statusShown
    BY <1>1, PutOK
  <1>3. p \in Screens /\ t = [p EXCEPT !.lineStart = FALSE]
    BY <1>2 DEF Base
  <1> HIDE DEF p, old
  <1>4. t \in Screens /\ t.rows = p.rows /\ t.said = p.said /\ ~t.lineStart
        /\ t.statusShown = p.statusShown
    BY <1>3 DEF Screens
  <1>5. Base(t) /\ LastRow(t) = Append(old, mark)
    BY <1>2, <1>4, FlagsFree
  <1>6. ~Has(Append(old, mark), "think")
    <2>1. old \in Seq(Marks) /\ ~Has(old, "think")
      <3>1. s.rows \in Seq(Seq(Marks)) /\ Len(s.rows) \in DOMAIN s.rows
        BY EmptySeq, LenProperties DEF Good, Base, Screens
      <3> QED BY <3>1, EmptyRow DEF LastRow, NoFrame, old
    <2> QED BY <1>1, <2>1, NotInAppended
  <1> QED BY <1>2, <1>4, <1>5, <1>6 DEF Good, LastOK, NoFrame

\* What the user types moves the cursor on, and the UI does not know.
LEMMA EnterOK ==
  ASSUME NEW s, Good(s), s.statusShown, NoFrame(s)
  PROVE  LET t == Enter(s) IN Good(t) /\ NoFrame(t) /\ t.statusShown
  <1> DEFINE t == Enter(s)
  <1>1. Base(t) /\ LastRow(t) = <<>> /\ t.statusShown = s.statusShown
    BY NewLineOK DEF Good, Enter
  <1> QED BY <1>1, EmptyRow DEF Good, LastOK, NoFrame

\* A question begins a line.
LEMMA AskOK ==
  ASSUME NEW s, Good(s), s.statusShown, NoFrame(s)
  PROVE  LET t == Ask(s) IN Good(t) /\ NoFrame(t) /\ t.statusShown
  <1>1. Good(EnsureLineStart(s)) /\ NoFrame(EnsureLineStart(s)) /\ EnsureLineStart(s).statusShown
    BY EnsureLineStartOK
  <1> QED BY <1>1, TextOK DEF Ask

\* A frame is drawn, and cleared, on the last row alone.
LEMMA DrawThinkingOK ==
  ASSUME NEW s, Good(s), s.lineStart, s.statusShown
  PROVE  LET t == DrawThinking(s) IN
         /\ Good(t) /\ t.lineStart /\ t.statusShown
         /\ \A v : v.prev \in Nat /\ ViewOK(s, v) => ViewOK(t, v)
  <1> DEFINE t == DrawThinking(s)
  <1>1. Base(s) /\ Clean(LastRow(s))
    BY DEF Good, LastOK
  <1>2. /\ Good(t) /\ t.lineStart /\ t.statusShown /\ Len(t.rows) = Len(s.rows)
        /\ \A r \in 1..Len(s.rows) - 1 : t.rows[r] = s.rows[r]
    <2> DEFINE d == Drawn(s, "think")
    <2>1. /\ Good(d) /\ d.lineStart /\ d.statusShown = s.statusShown
          /\ LastRow(d) = <<"think">> /\ Len(d.rows) = Len(s.rows)
          /\ \A r \in 1..Len(s.rows) - 1 : d.rows[r] = s.rows[r]
      BY <1>1, DrawnOK
    <2>2. t = d
      BY DEF DrawThinking, Drawn
    <2> HIDE DEF d, t
    <2> QED BY <2>1, <2>2
  <1> HIDE DEF t
  <1>3. \A v : v.prev \in Nat /\ ViewOK(s, v) => ViewOK(t, v)
    BY <1>1, <1>2, ViewCarries
  <1> QED BY <1>2, <1>3 DEF t

\* The same for clearing it.
LEMMA ClearThinkingOK ==
  ASSUME NEW s, Good(s), s.lineStart, s.statusShown
  PROVE  LET t == ClearThinking(s) IN
         /\ Good(t) /\ NoFrame(t) /\ t.lineStart /\ t.statusShown
         /\ \A v : v.prev \in Nat /\ ViewOK(s, v) => ViewOK(t, v)
  <1> DEFINE e == EraseRow(s)
             t == ClearThinking(s)
  <1>1. Base(s) /\ Clean(LastRow(s))
    BY DEF Good, LastOK
  <1>2. Base(e) /\ LastRow(e) = <<>> /\ Len(e.rows) = Len(s.rows) /\ e.statusShown
    BY <1>1, EraseRowOK
  <1>3. \A r \in 1..Len(s.rows) - 1 : e.rows[r] = s.rows[r]
    <2>1. s \in Screens /\ s.rows \in Seq(Seq(Marks)) /\ s.rows # <<>>
      BY <1>1 DEF Base, Screens
    <2>2. e.rows = WithLast(s.rows, <<>>)
      BY <2>1 DEF EraseRow, Screens
    <2>3. \A r \in 1..Len(s.rows) - 1 : WithLast(s.rows, <<>>)[r] = s.rows[r]
      BY <2>1, RestIsKept, EmptyRow, Zenon
    <2> QED BY <2>2, <2>3, Zenon
  <1>4. e \in Screens /\ t = [e EXCEPT !.lineStart = TRUE]
    BY <1>2 DEF ClearThinking, Base
  <1> HIDE DEF e, t
  <1>5. t \in Screens /\ t.rows = e.rows /\ t.said = e.said /\ t.lineStart
        /\ t.statusShown = e.statusShown
    BY <1>4 DEF Screens
  <1>6. Base(t) /\ LastRow(t) = <<>>
    BY <1>2, <1>5, FlagsFree
  <1>7. \A v : v.prev \in Nat /\ ViewOK(s, v) => ViewOK(t, v)
    BY <1>1, <1>2, <1>3, <1>5, ViewCarries
  <1> QED BY <1>2, <1>5, <1>6, <1>7, EmptyRow DEF Good, LastOK, NoFrame, t

-----------------------------------------------------------------------------
(* Live views *)

\* Up to the first row of the view, all of which is its own.
LEMMA UpFromOK ==
  ASSUME NEW s, Base(s), Clean(LastRow(s)), NEW up \in Nat, up < Len(s.rows),
         \A r \in Len(s.rows) - up .. Len(s.rows) - 1 : Clean(s.rows[r])
  PROVE  LET t == UpFrom(s, up) IN
         Base(t) /\ LastRow(t) = <<>> /\ t.statusShown = s.statusShown
  <1> DEFINE n == Len(s.rows)
             k == n - up - 1
             top == SubSeq(s.rows, 1, k)
             t == UpFrom(s, up)
  <1>1. s \in Screens /\ s.rows \in Seq(Seq(Marks)) /\ s.rows # <<>>
    BY DEF Base, Screens
  <1>2. n \in Nat \ {0} /\ DOMAIN s.rows = 1..n /\ k \in Nat /\ k < n
    <2>1. n \in Nat \ {0} /\ DOMAIN s.rows = 1..n
      BY <1>1, EmptySeq, LenProperties
    <2> HIDE DEF n
    <2>2. up < n
      BY DEF n
    <2> QED BY <2>1, <2>2
  <1>3. /\ top \in Seq(Seq(Marks)) /\ Len(top) = k
        /\ \A r \in 1..k : top[r] = s.rows[r]
    BY <1>1, <1>2, Prefixes
  <1>4. /\ t.rows = Append(top, <<>>) /\ t.said = s.said /\ t.statusShown = s.statusShown
        /\ t \in Screens
    <2>1. Append(top, <<>>) \in Seq(Seq(Marks))
      BY <1>3, RowAdded, EmptyRow
    <2> QED BY <1>1, <2>1 DEF UpFrom, Screens
  <1>5. /\ t.rows # <<>> /\ Len(t.rows) = k + 1 /\ DOMAIN t.rows = 1..k + 1
        /\ t.rows[k + 1] = <<>> /\ \A r \in 1..k : t.rows[r] = s.rows[r]
    <2> HIDE DEF n, k, top, t
    <2>1. /\ t.rows # <<>> /\ Len(t.rows) = Len(top) + 1 /\ DOMAIN t.rows = 1..Len(top) + 1
          /\ t.rows[Len(top) + 1] = <<>> /\ \A r \in 1..Len(top) : t.rows[r] = top[r]
      <3> DEFINE new == Append(top, <<>>)
      <3>1. /\ new # <<>> /\ Len(new) = Len(top) + 1 /\ DOMAIN new = 1..Len(top) + 1
            /\ new[Len(top) + 1] = <<>> /\ \A r \in 1..Len(top) : new[r] = top[r]
        BY <1>3, RowAdded, EmptyRow
      <3>2. t.rows = new
        BY <1>4
      <3> HIDE DEF new
      <3> QED BY <3>1, <3>2
    <2> QED BY <1>3, <2>1
  <1>6. \A r \in k + 1 .. n : Clean(s.rows[r])
    <2>1. \A r \in k + 1 .. n : r = n \/ r \in n - up .. n - 1
      BY <1>2
    <2> QED BY <2>1 DEF LastRow
  <1> HIDE DEF n, k, top, t
  <1>7. Covers(s, t) /\ Covers(t, s)
    <2>1. \A r \in 1..n : r \in k + 1 .. n \/ (r \in 1..k /\ r \in 1..k + 1)
      BY <1>2
    <2>2. \A r \in 1..k + 1 : r = k + 1 \/ (r \in 1..k /\ r \in 1..n)
      BY <1>2
    <2> QED BY <1>2, <1>5, <1>6, <2>1, <2>2, EmptyRow, Zenon DEF Covers
  <1>8. Survives(t)
    BY <1>4, <1>7, Redrawn DEF Base
  <1>9. FramesOK(t)
    <2>1. ASSUME NEW r \in 1..k, Has(t.rows[r], "think") PROVE Has(t.rows[r], "title")
      <3>1. r \in DOMAIN s.rows /\ r # Len(s.rows)
        BY <1>2 DEF n
      <3> QED BY <1>5, <2>1, <3>1 DEF Base, FramesOK
    <2>2. \A r \in 1..k + 1 : r \in 1..k \/ r = k + 1
      BY <1>2
    <2> QED BY <1>5, <2>1, <2>2 DEF FramesOK
  <1> QED BY <1>4, <1>5, <1>8, <1>9 DEF Base, LastRow, t

\* Its rows are drawn below what there is, and belong to it.
LEMMA TailsOK ==
  ASSUME NEW s, Base(s), LastRow(s) = <<>>, NEW n \in Nat \ {0}
  PROVE  LET t == Tails(s, n) IN
         /\ Good(t) /\ NoFrame(t) /\ t.lineStart /\ t.statusShown = s.statusShown
         /\ ViewOK(t, [started |-> TRUE, prev |-> n])
  <1> DEFINE k == Len(s.rows) - 1
             top == SubSeq(s.rows, 1, k)
             tail == [i \in 1..n |-> <<"tail">>]
             t == Tails(s, n)
  <1>1. s \in Screens /\ s.rows \in Seq(Seq(Marks)) /\ s.rows # <<>>
    BY DEF Base, Screens
  <1>2. k \in Nat /\ Len(s.rows) = k + 1 /\ DOMAIN s.rows = 1..k + 1
    <2>1. Len(s.rows) \in Nat \ {0} /\ DOMAIN s.rows = 1..Len(s.rows)
      BY <1>1, EmptySeq, LenProperties
    <2> QED BY <2>1
  <1>3. /\ top \in Seq(Seq(Marks)) /\ Len(top) = k
        /\ \A r \in 1..k : top[r] = s.rows[r]
    BY <1>1, <1>2, Prefixes
  <1>4. <<"tail">> \in Seq(Marks) /\ Clean(<<"tail">>) /\ ~Has(<<"tail">>, "think")
    BY DEF Marks, Clean, Lasting, Has
  <1>5. tail \in Seq(Seq(Marks)) /\ Len(tail) = n /\ \A i \in 1..n : tail[i] = <<"tail">>
    BY <1>4
  <1>6. /\ t.rows = (top \o tail) \o << <<>> >> /\ t.said = s.said /\ t.lineStart
        /\ t.statusShown = s.statusShown /\ (t.rows \in Seq(Seq(Marks)) => t \in Screens)
    BY <1>1 DEF Tails, Screens
  <1> HIDE DEF k, top, tail, t
  <1>7. /\ t.rows \in Seq(Seq(Marks)) /\ Len(t.rows) = k + n + 1
        /\ \A r \in 1..k : t.rows[r] = s.rows[r]
        /\ \A r \in k + 1 .. k + n : t.rows[r] = <<"tail">>
        /\ t.rows[k + n + 1] = <<>>
    <2>1. /\ top \o tail \in Seq(Seq(Marks)) /\ Len(top \o tail) = k + n
          /\ \A r \in 1..k : (top \o tail)[r] = top[r]
          /\ \A r \in k + 1 .. k + n : (top \o tail)[r] = tail[r - k]
      <3> DEFINE both == top \o tail
      <3>1. /\ both \in Seq(Seq(Marks)) /\ Len(both) = Len(top) + Len(tail)
            /\ \A r \in 1..Len(top) : both[r] = top[r]
            /\ \A r \in Len(top) + 1 .. Len(top) + Len(tail) : both[r] = tail[r - Len(top)]
        BY <1>3, <1>5, Joined, Zenon
      <3> HIDE DEF both
      <3>2. /\ both \in Seq(Seq(Marks)) /\ Len(both) = k + n
            /\ \A r \in 1..k : both[r] = top[r]
            /\ \A r \in k + 1 .. k + n : both[r] = tail[r - k]
        BY <1>3, <1>5, <3>1
      <3> QED BY <3>2 DEF both
    <2>2. << <<>> >> \in Seq(Seq(Marks)) /\ Len(<< <<>> >>) = 1 /\ << <<>> >>[1] = <<>>
      BY EmptyRow
    <2>3. /\ t.rows \in Seq(Seq(Marks)) /\ Len(t.rows) = k + n + 1
          /\ \A r \in 1..k + n : t.rows[r] = (top \o tail)[r]
          /\ t.rows[k + n + 1] = << <<>> >>[1]
      <3> DEFINE both == top \o tail
                 last == << <<>> >>
      <3>1. /\ t.rows \in Seq(Seq(Marks)) /\ Len(t.rows) = Len(both) + Len(last)
            /\ \A r \in 1..Len(both) : t.rows[r] = both[r]
            /\ \A r \in Len(both) + 1 .. Len(both) + Len(last) :
                 t.rows[r] = last[r - Len(both)]
        <4> DEFINE all == both \o last
        <4>1. both \in Seq(Seq(Marks)) /\ last \in Seq(Seq(Marks)) /\ t.rows = all
          BY <1>6, <2>1, <2>2
        <4> HIDE DEF both, last
        <4>2. /\ all \in Seq(Seq(Marks)) /\ Len(all) = Len(both) + Len(last)
              /\ \A r \in 1..Len(both) : all[r] = both[r]
              /\ \A r \in Len(both) + 1 .. Len(both) + Len(last) :
                   all[r] = last[r - Len(both)]
          BY <4>1, Joined, Zenon
        <4> HIDE DEF all
        <4> QED BY <4>1, <4>2
      <3>2. Len(both) = k + n /\ Len(last) = 1
        BY <2>1, <2>2
      <3> HIDE DEF both, last
      <3>3. /\ t.rows \in Seq(Seq(Marks)) /\ Len(t.rows) = k + n + 1
            /\ \A r \in 1..k + n : t.rows[r] = both[r]
            /\ t.rows[k + n + 1] = last[1]
        <4>1. k + n \in Nat
          BY <1>2
        <4>2. \A l \in Nat : l + 1 \in l + 1 .. l + 1 /\ (l + 1) - l = 1
          OBVIOUS
        <4>3. t.rows[(k + n) + 1] = last[((k + n) + 1) - (k + n)]
          BY <3>1, <3>2, <4>1, <4>2, Zenon
        <4>4. t.rows[(k + n) + 1] = last[1]
          BY <4>1, <4>2, <4>3, Zenon
        <4> QED BY <3>1, <3>2, <4>4
      <3> QED BY <3>3 DEF both, last
    <2>4. \A r \in k + 1 .. k + n : r - k \in 1..n /\ r \in 1..k + n
      BY <1>2
    <2>5. \A r \in 1..k : r \in 1..k + n
      BY <1>2
    <2>7. \A r \in 1..k : t.rows[r] = s.rows[r]
      BY <1>3, <2>1, <2>3, <2>5
    <2>8. \A r \in k + 1 .. k + n : t.rows[r] = <<"tail">>
      BY <1>5, <2>1, <2>3, <2>4
    <2>9. t.rows[k + n + 1] = <<>>
      BY <2>2, <2>3
    <2> QED BY <2>3, <2>7, <2>8, <2>9
  <1>8. DOMAIN t.rows = 1..k + n + 1 /\ t.rows # <<>>
    BY <1>2, <1>7, EmptySeq, LenProperties
  <1>9. Covers(s, t) /\ Covers(t, s)
    <2>1. \A r \in 1..k + 1 : r = k + 1 \/ (r \in 1..k /\ r \in 1..k + n + 1)
      BY <1>2
    <2>2. \A r \in 1..k + n + 1 :
            r \in k + 1 .. k + n \/ r = k + n + 1 \/ (r \in 1..k /\ r \in 1..k + 1)
      BY <1>2
    <2>3. s.rows[k + 1] = <<>>
      BY <1>2 DEF LastRow
    <2> QED BY <1>2, <1>4, <1>7, <1>8, <2>1, <2>2, <2>3, EmptyRow, Zenon DEF Covers
  <1>10. Survives(t)
    BY <1>6, <1>9, Redrawn DEF Base
  <1>11. FramesOK(t)
    <2>1. ASSUME NEW r \in 1..k, Has(t.rows[r], "think") PROVE Has(t.rows[r], "title")
      <3>1. r \in DOMAIN s.rows /\ r # Len(s.rows)
        BY <1>2
      <3> QED BY <1>7, <2>1, <3>1 DEF Base, FramesOK
    <2>2. \A r \in 1..k + n + 1 : r \in 1..k \/ r \in k + 1 .. k + n \/ r = k + n + 1
      BY <1>2
    <2> QED BY <1>4, <1>7, <1>8, <2>1, <2>2, Zenon DEF FramesOK
  <1>12. LastRow(t) = <<>>
    BY <1>7 DEF LastRow
  <1>13. ViewOK(t, [started |-> TRUE, prev |-> n])
    <2>1. n < k + n + 1 /\ (k + n + 1) - n = k + 1 /\ (k + n + 1) - 1 = k + n
      BY <1>2
    <2> QED BY <1>4, <1>7, <2>1 DEF ViewOK
  <1> QED BY <1>6, <1>7, <1>8, <1>10, <1>11, <1>12, <1>13, EmptyRow
         DEF Good, Base, LastOK, NoFrame, t

\* Whether a view begins, behind a frame perhaps, or is drawn again.
LEMMA UpdateOK ==
  ASSUME NEW s, Good(s), s.statusShown, NEW v \in [started : BOOLEAN, prev : Nat], ViewOK(s, v),
         v.started => s.lineStart, NEW n \in Nat \ {0}
  PROVE  LET t == Update(s, v, n) IN
         /\ Good(t) /\ NoFrame(t) /\ t.lineStart /\ t.statusShown
         /\ ViewOK(t, [started |-> TRUE, prev |-> n])
  <1> DEFINE view0 == [started |-> TRUE, prev |-> n]
  <1>1. CASE v.started
    <2> DEFINE u == UpFrom(s, v.prev)
    <2>1. Base(s) /\ Clean(LastRow(s)) /\ v.prev \in Nat /\ v.prev < Len(s.rows)
          /\ \A r \in Len(s.rows) - v.prev .. Len(s.rows) - 1 : Clean(s.rows[r])
      BY <1>1 DEF Good, LastOK, ViewOK
    <2>2. Base(u) /\ LastRow(u) = <<>> /\ u.statusShown = s.statusShown
      BY <2>1, UpFromOK
    <2>3. Update(s, v, n) = Tails(u, n)
      BY <1>1 DEF Update
    <2> HIDE DEF u
    <2>4. /\ Good(Tails(u, n)) /\ NoFrame(Tails(u, n)) /\ Tails(u, n).lineStart
          /\ Tails(u, n).statusShown = u.statusShown /\ ViewOK(Tails(u, n), view0)
      BY <2>2, TailsOK
    <2> QED BY <2>2, <2>3, <2>4
  <1>2. CASE ~v.started
    <2> DEFINE e == EnsureLineStart(s)
               u == PutLine(e, "title")
    <2>1. Good(e) /\ e.statusShown = s.statusShown
      BY EnsureLineStartOK
    <2>2. Update(s, v, n) = Tails(u, n)
      BY <1>2 DEF Update
    <2>3. Base(u) /\ LastRow(u) = <<>> /\ u.statusShown = e.statusShown
      <3>1. "title" \in Lasting
        BY DEF Lasting
      <3> HIDE DEF e
      <3> QED BY <2>1, <3>1, PutLineOK DEF Good
    <2> HIDE DEF u
    <2>4. /\ Good(Tails(u, n)) /\ NoFrame(Tails(u, n)) /\ Tails(u, n).lineStart
          /\ Tails(u, n).statusShown = u.statusShown /\ ViewOK(Tails(u, n), view0)
      BY <2>3, TailsOK
    <2> QED BY <2>1, <2>2, <2>3, <2>4
  <1> QED BY <1>1, <1>2

-----------------------------------------------------------------------------
(* The indicator *)

\* What says nothing of the indicator.
LEMMA ThinkSame ==
  ASSUME IInv, UNCHANGED <<thinkVars, callVars>>
  PROVE  ThinkTypes' /\ IndicatorInv'
  <1>1. UNCHANGED <<thinkStop, thinkStopping, loop, closed, starts, pc, mine>>
    BY DEF thinkVars, callVars
  <1>2. ThinkTypes'
    BY <1>1 DEF IInv, ThinkTypes
  <1>3. IndicatorInv'
    BY <1>1 DEF IInv, IndicatorInv
  <1> QED BY <1>2, <1>3

\* StartThinking starts one where there is none.
LEMMA StartKeeps ==
  ASSUME IInv, StartThinking, UNCHANGED callVars
  PROVE  ThinkTypes' /\ IndicatorInv' /\ thinkStop' # 0
         /\ (thinkStop # 0 => thinkStop' = thinkStop /\ loop' = loop)
         /\ (thinkStop = 0 => loop'[thinkStop'] = "draw")
  <1> USE DEF IInv, ThinkTypes, IndicatorInv, Indicators, callVars
  <1>0. MaxStarts \in Nat \ {0}
    BY TerminalAssumption
  <1>1. CASE thinkStop # 0
    BY <1>1, ThinkSame DEF StartThinking, thinkVars
  <1>2. CASE thinkStop = 0
    <2>1. /\ starts' = starts + 1 /\ thinkStop' = starts + 1 /\ starts + 1 \in 1..MaxStarts
          /\ starts \in Nat
          /\ loop' = [loop EXCEPT ![starts + 1] = "draw"]
          /\ UNCHANGED <<thinkStopping, closed, pc, mine>>
      BY <1>0, <1>2 DEF StartThinking
    <2>2. ThinkTypes'
      BY <1>0, <1>2, <2>1
    <2>3. \A k \in Indicators : k # starts + 1 => loop'[k] = loop[k]
      BY <2>1
    <2>4. loop'[starts + 1] = "draw"
      BY <2>1
    <2>5. /\ \A k \in Indicators : loop'[k] = "none" <=> k > starts'
          /\ \A k \in Indicators : loop'[k] \notin {"none", "done"} => k = thinkStop'
      BY <1>2, <2>1, <2>3, <2>4
    <2>6. pc' # "idle" => mine' \in 1..starts' /\ mine' \in Indicators /\ mine' # starts + 1
      BY <2>1
    <2>7. pc' = "reset" => loop'[mine'] = "done"
      BY <2>1, <2>3, <2>6
    <2> QED BY <1>2, <2>1, <2>2, <2>4, <2>5, <2>6, <2>7
  <1> QED BY <1>1, <1>2

\* StopThinking asks the one that runs to stop, and remembers which.
LEMMA StopKeeps ==
  ASSUME IInv, pc = "idle", StopThinking
  PROVE  ThinkTypes' /\ IndicatorInv' /\ thinkStop' = thinkStop /\ loop' = loop
         /\ (pc' = "idle" => thinkStop = 0)
         /\ (pc' # "idle" => mine' = thinkStop)
  <1> USE DEF IInv, ThinkTypes, IndicatorInv, Indicators, callVars
  <1>0. MaxStarts \in Nat \ {0}
    BY TerminalAssumption
  <1>1. CASE thinkStop = 0
    BY <1>1, ThinkSame DEF StopThinking, thinkVars
  <1>2. CASE thinkStop # 0
    <2>1. /\ thinkStopping' = TRUE /\ closed' = closed \cup {thinkStop}
          /\ pc' = "wait" /\ mine' = thinkStop
          /\ UNCHANGED <<thinkStop, loop, starts>> /\ thinkStop \in 1..starts
      BY <1>0, <1>2 DEF StopThinking
    <2>2. ThinkTypes'
      BY <1>0, <1>2, <2>1
    <2> QED BY <2>1, <2>2
  <1> QED BY <1>1, <1>2

\* The steps of the indicators and of the agent that waits for one.
LEMMA LoopSteps ==
  ASSUME IInv, \/ Await \/ Reset
               \/ \E k \in Indicators : Draw(k) \/ Select(k) \/ Clear(k)
  PROVE  ThinkTypes' /\ IndicatorInv'
  <1> USE DEF IInv, ThinkTypes, IndicatorInv, Indicators
  <1>0. MaxStarts \in Nat \ {0}
    BY TerminalAssumption
  <1>1. ASSUME Await PROVE ThinkTypes' /\ IndicatorInv'
    <2>1. /\ pc' = "reset" /\ loop[mine] = "done" /\ pc = "wait"
          /\ UNCHANGED <<thinkStop, thinkStopping, loop, closed, starts, mine>>
      BY <1>1 DEF Await, thinkVars
    <2>2. ThinkTypes'
      BY <2>1
    <2> QED BY <2>1, <2>2
  <1>2. ASSUME Reset PROVE ThinkTypes' /\ IndicatorInv'
    <2>1. /\ pc' = "idle" /\ loop[mine] = "done"
          /\ UNCHANGED <<loop, closed, starts, mine>>
      BY <1>2 DEF Reset
    <2>2. \/ thinkStop = mine /\ thinkStop' = 0 /\ thinkStopping' = FALSE
          \/ UNCHANGED <<thinkStop, thinkStopping>>
      BY <1>2 DEF Reset
    <2>3. ThinkTypes'
      <3>1. thinkStopping' \in BOOLEAN /\ (thinkStopping' => thinkStop' # 0)
        <4>1. CASE thinkStop = mine /\ thinkStop' = 0 /\ thinkStopping' = FALSE
          BY <4>1
        <4>2. CASE UNCHANGED <<thinkStop, thinkStopping>>
          BY <4>2
        <4> QED BY <2>2, <4>1, <4>2
      <3>2. thinkStop' \in 0..MaxStarts
        BY <1>0, <2>2
      <3>3. pc' \in {"idle", "wait", "reset"}
        BY <2>1
      <3> QED BY <2>1, <3>1, <3>2, <3>3
    <2> QED BY <1>0, <2>1, <2>2, <2>3
  <1>3. ASSUME NEW k \in Indicators, NEW to \in {"draw", "select", "clear", "done"},
               loop[k] \notin {"none", "done"}, loop' = [loop EXCEPT ![k] = to],
               UNCHANGED <<thinkStop, thinkStopping, closed, starts, callVars>>
        PROVE  ThinkTypes' /\ IndicatorInv'
    <2>1. UNCHANGED <<thinkStop, thinkStopping, closed, starts, pc, mine>>
      BY <1>3 DEF callVars
    <2>2. ThinkTypes'
      BY <1>3, <2>1
    <2>3. loop'[k] = to /\ \A j \in Indicators : j # k => loop'[j] = loop[j]
      BY <1>3
    <2>4. pc # "idle" => mine \in Indicators
      BY <1>0
    <2>5. k = thinkStop
      BY <1>3
    <2>6. /\ \A j \in Indicators : loop'[j] = "none" <=> j > starts'
          /\ \A j \in Indicators : loop'[j] \notin {"none", "done"} => j = thinkStop'
      BY <1>3, <2>1, <2>3, <2>5
    <2>7. pc' = "reset" => loop'[mine'] = "done"
      BY <1>3, <2>1, <2>3, <2>4
    <2> QED BY <1>0, <2>1, <2>2, <2>6, <2>7
  <1>4. ASSUME NEW k \in Indicators, Draw(k) \/ Select(k) \/ Clear(k)
        PROVE  ThinkTypes' /\ IndicatorInv'
    <2>1. loop[k] \in {"draw", "select", "clear"}
      BY <1>4 DEF Draw, Select, Clear
    <2>2. UNCHANGED <<thinkStop, thinkStopping, closed, starts, callVars>>
      BY <1>4 DEF Draw, Select, Clear
    <2>3. PICK to \in {"draw", "select", "clear", "done"} : loop' = [loop EXCEPT ![k] = to]
      BY <1>4 DEF Draw, Select, Clear
    <2> QED BY <1>3, <2>1, <2>2, <2>3
  <1> QED BY <1>1, <1>2, <1>4

-----------------------------------------------------------------------------
(* The agent *)

\* Outside a response there is no indicator, so what is written follows no frame.
LEMMA Quiet ==
  ASSUME IInv, pc = "idle", stage # "stream"
  PROVE  Good(screen) /\ screen.statusShown /\ NoFrame(screen) /\ thinkStop = 0
  BY DEF IInv, AgentInv, ScreenInv

\* What the agent writes there keeps the invariant.
LEMMA Wrote ==
  ASSUME IInv, pc = "idle", stage # "stream",
         UNCHANGED <<thinkVars, callVars>>, AgentTypes',
         Good(screen'), NoFrame(screen'), screen'.statusShown,
         stage' = "start" => screen'.lineStart /\ ~open',
         stage' \in {"start", "content", "stream"} => ~view'.started
  PROVE  IInv'
  <1>1. thinkStop = 0
    BY Quiet
  <1>2. UNCHANGED <<thinkStop, thinkStopping, loop, closed, starts, pc, mine>>
    BY DEF thinkVars, callVars
  <1>3. ThinkTypes' /\ IndicatorInv'
    BY ThinkSame
  <1>4. AgentInv'
    BY <1>1, <1>2 DEF AgentInv
  <1>5. ScreenInv'
    BY <1>1, <1>2 DEF ScreenInv, ViewOK
  <1> QED BY <1>3, <1>4, <1>5 DEF IInv

\* The steps between responses.
LEMMA BetweenResponses ==
  ASSUME IInv, Prompt \/ Typed \/ Command \/ Turn \/ Call \/ ShowDiff \/ Question \/ Answer
               \/ Result \/ Report
  PROVE  IInv'
  <1>0. {MaxTurns, MaxEvents, MaxCalls, MaxTail} \subseteq Nat \ {0}
    BY TerminalAssumption
  <1>1. /\ pc = "idle" /\ stage # "stream"
        /\ UNCHANGED <<thinkVars, callVars>>
    BY DEF Prompt, Typed, Command, Turn, Call, ShowDiff, Question, Answer, Result, Report, At
  <1>2. Good(screen) /\ screen.statusShown /\ NoFrame(screen)
    BY <1>1, Quiet
  <1>3. AgentTypes'
    <2> USE <1>0 DEF IInv, AgentTypes, Go
    <2>1. CASE Prompt \/ Typed
      BY <2>1 DEF Prompt, Typed
    <2>2. CASE Command
      BY <2>2 DEF Command, At
    <2>3. CASE Turn
      <3>1. printed' \in BOOLEAN /\ open' \in BOOLEAN
        BY <2>3 DEF Turn
      <3>2. view' \in [started : BOOLEAN, prev : 0..MaxTail]
        BY <2>3 DEF Turn, NoView
      <3> QED BY <2>3, <3>1, <3>2 DEF Turn
    <2>4. CASE Call
      BY <2>4 DEF Call, At
    <2>5. CASE ShowDiff \/ Question \/ Answer
      BY <2>5 DEF ShowDiff, Question, Answer
    <2>6. CASE Result \/ Report
      BY <2>6 DEF Result, Report
    <2> QED BY <2>1, <2>2, <2>3, <2>4, <2>5, <2>6
  <1>4. ASSUME NEW s, Good(s), s.statusShown, NoFrame(s)
        PROVE  \A t \in {Ask(s), Enter(s), Println(s), ShowStatus(s), ToolCall(s), ToolResult(s)} :
                 Good(t) /\ t.statusShown /\ NoFrame(t)
    BY <1>4, AskOK, EnterOK, PrintlnOK, ShowStatusOK, LineOK
  <1>5. Good(screen') /\ screen'.statusShown /\ NoFrame(screen')
    <2>1. CASE Prompt \/ Question
      BY <1>2, <1>4, <2>1 DEF Prompt, Question
    <2>2. CASE Typed \/ Answer
      BY <1>2, <1>4, <2>2 DEF Typed, Answer
    <2>3. CASE Command
      BY <1>2, <1>4, <2>3 DEF Command
    <2>4. CASE Turn
      BY <1>2, <1>4, <2>4 DEF Turn
    <2>5. CASE Call
      BY <1>2, <1>4, <2>5 DEF Call
    <2>6. CASE ShowDiff
      BY <1>2, <1>4, <2>6 DEF ShowDiff
    <2>7. CASE Result
      BY <1>2, <1>4, <2>7 DEF Result
    <2>8. CASE Report
      BY <1>2, <1>4, <2>8 DEF Report
    <2> QED BY <2>1, <2>2, <2>3, <2>4, <2>5, <2>6, <2>7, <2>8
  <1>6. stage' = "start" => screen'.lineStart /\ ~open' /\ ~view'.started
    <2>1. CASE Turn
      BY <1>2, <2>1, ShowStatusOK DEF Turn, NoView
    <2>2. CASE ~Turn
      BY <2>2 DEF Prompt, Typed, Command, Call, ShowDiff, Question, Answer, Result, Report, Go
    <2> QED BY <2>1, <2>2
  <1>7. stage' \notin {"content", "stream"}
    BY DEF Prompt, Typed, Command, Turn, Call, ShowDiff, Question, Answer, Result, Report, Go
  <1> QED BY <1>1, <1>3, <1>5, <1>6, <1>7, Wrote

\* A response begins with an indicator.
LEMMA ResponseBegins ==
  ASSUME IInv, Start
  PROVE  IInv'
  <1>1. /\ pc = "idle" /\ stage = "start" /\ stage' = "stream"
        /\ UNCHANGED <<screen, turn, events, calls, printed, open, view, pc, mine>>
        /\ StartThinking /\ UNCHANGED callVars
    BY DEF Start, At, Go, callVars
  <1>2. ThinkTypes' /\ IndicatorInv'
    BY <1>1, StartKeeps
  <1>3. Good(screen) /\ screen.statusShown /\ NoFrame(screen) /\ thinkStop = 0
    BY <1>1, Quiet
  <1>4. AgentTypes'
    BY <1>1 DEF IInv, AgentTypes
  <1>5. AgentInv'
    BY <1>1 DEF IInv, AgentInv
  <1>6. ScreenInv'
    BY <1>1, <1>3 DEF IInv, AgentInv, ScreenInv, ViewOK
  <1> QED BY <1>2, <1>4, <1>5, <1>6 DEF IInv

\* The first text and the end of a response stop it.
LEMMA ResponseStops ==
  ASSUME IInv, ContentArrives \/ ResponseEnds
  PROVE  IInv'
  <1>0. {MaxTurns, MaxEvents, MaxCalls, MaxTail} \subseteq Nat \ {0}
    BY TerminalAssumption
  <1>1. /\ pc = "idle" /\ stage = "stream" /\ stage' \in {"content", "end"}
        /\ UNCHANGED <<screen, turn, calls, printed, open, view>>
        /\ StopThinking /\ (stage' = "content" => view = NoView)
    BY DEF ContentArrives, ResponseEnds, Event, At, Go
  <1>2. ThinkTypes' /\ IndicatorInv' /\ thinkStop' = thinkStop /\ loop' = loop
        /\ (pc' = "idle" => thinkStop = 0)
        /\ (pc' # "idle" => mine' = thinkStop)
    BY <1>0, <1>1, StopKeeps
  <1>3. events' \in 0..MaxEvents
    BY <1>0 DEF ContentArrives, ResponseEnds, Event, IInv, AgentTypes
  <1>4. AgentTypes'
    BY <1>1, <1>3 DEF IInv, AgentTypes
  <1>5. AgentInv'
    BY <1>1, <1>2 DEF IInv, AgentInv, NoView
  <1>6. ScreenInv'
    BY <1>1, <1>2 DEF IInv, ScreenInv
  <1> QED BY <1>2, <1>4, <1>5, <1>6 DEF IInv

\* A line that was left open is closed.
LEMMA EnsureNLOK ==
  ASSUME NEW s, Good(s), s.statusShown, open => NoFrame(s)
  PROVE  Good(EnsureNL(s)) /\ EnsureNL(s).statusShown /\ (NoFrame(s) => NoFrame(EnsureNL(s)))
  <1>1. CASE open
    <2>1. Good(Assistant(s, TRUE)) /\ NoFrame(Assistant(s, TRUE)) /\ Assistant(s, TRUE).statusShown
      BY <1>1, LineOK
    <2> QED BY <1>1, <2>1 DEF EnsureNL
  <1>2. CASE ~open
    BY <1>2 DEF EnsureNL
  <1> QED BY <1>1, <1>2

\* Text is written behind its header.
LEMMA SpeakOK ==
  ASSUME NEW s, Good(s), s.statusShown, NoFrame(s), NEW ends \in BOOLEAN
  PROVE  LET t == Assistant(IF printed THEN s ELSE AssistantHeader(s), ends) IN
         Good(t) /\ t.statusShown /\ NoFrame(t)
  <1> DEFINE h == IF printed THEN s ELSE AssistantHeader(s)
  <1>1. Good(h) /\ h.statusShown /\ NoFrame(h)
    BY LineOK
  <1> HIDE DEF h
  <1>2. Good(Assistant(h, ends)) /\ Assistant(h, ends).statusShown /\ NoFrame(Assistant(h, ends))
    <2>1. CASE ends
      <3> DEFINE t == Assistant(h, TRUE)
      <3>1. Good(t) /\ t.statusShown /\ NoFrame(t)
        BY <1>1, LineOK
      <3>2. Assistant(h, ends) = t
        BY <2>1
      <3> HIDE DEF t
      <3> QED BY <3>1, <3>2
    <2>2. CASE ~ends
      <3> DEFINE t == [Put(h, "text") EXCEPT !.lineStart = FALSE]
      <3>1. Good(t) /\ t.statusShown /\ NoFrame(t)
        BY <1>1, TextOK
      <3>2. Assistant(h, ends) = t
        BY <2>2 DEF Assistant
      <3> HIDE DEF t
      <3> QED BY <3>1, <3>2
    <2> QED BY <2>1, <2>2
  <1> QED BY <1>2 DEF h

\* What the agent says once the indicator is gone.
LEMMA Speaks ==
  ASSUME IInv, Content \/ Settle
  PROVE  IInv'
  <1>0. {MaxTurns, MaxEvents, MaxCalls, MaxTail} \subseteq Nat \ {0}
    BY TerminalAssumption
  <1>1. /\ pc = "idle" /\ stage \in {"content", "end"}
        /\ UNCHANGED <<turn, events, calls, view, thinkVars, callVars>>
    BY DEF Content, Settle, At
  <1>2. Good(screen) /\ screen.statusShown /\ NoFrame(screen)
    BY <1>1, Quiet
  <1>3. /\ Good(screen') /\ screen'.statusShown /\ NoFrame(screen')
        /\ open' \in BOOLEAN /\ printed' \in BOOLEAN
        /\ \/ stage = "content" /\ stage' = "stream"
           \/ stage = "end" /\ stage' \in {"dispatch", "stopped"}
    <2>1. CASE Content
      <3>1. PICK ends \in BOOLEAN :
              /\ screen' = Assistant(IF printed THEN screen ELSE AssistantHeader(screen), ends)
              /\ open' = ~ends
        BY <2>1 DEF Content
      <3>2. Good(screen') /\ screen'.statusShown /\ NoFrame(screen')
        BY <1>2, <3>1, SpeakOK
      <3>3. open' \in BOOLEAN
        BY <3>1
      <3>4. printed' \in BOOLEAN /\ stage = "content" /\ stage' = "stream"
        BY <2>1 DEF Content, At, Go
      <3> QED BY <3>2, <3>3, <3>4
    <2>2. CASE Settle
      <3> DEFINE e == EnsureNL(screen)
                 s == ShowStatus(e)
                 t == Assistant(IF printed THEN s ELSE AssistantHeader(s), FALSE)
      <3>1. Good(e) /\ e.statusShown /\ NoFrame(e)
        BY <1>2, EnsureNLOK
      <3>2. Good(s) /\ s.statusShown /\ NoFrame(s)
        <4> HIDE DEF e
        <4> QED BY <3>1, ShowStatusOK
      <3>3. Good(t) /\ t.statusShown /\ NoFrame(t)
        <4> HIDE DEF s
        <4> QED BY <3>2, SpeakOK
      <3>4. screen' \in {e, s, t}
        BY <2>2 DEF Settle
      <3>5. open' \in BOOLEAN
        BY <2>2 DEF Settle
      <3>6. printed' = printed /\ stage = "end" /\ stage' \in {"dispatch", "stopped"}
        BY <2>2 DEF Settle, At, Go
      <3>7. printed' \in BOOLEAN
        BY <3>6 DEF IInv, AgentTypes
      <3> HIDE DEF e, s, t
      <3> QED BY <3>1, <3>2, <3>3, <3>4, <3>5, <3>6, <3>7
    <2> QED BY <2>1, <2>2
  <1>4. AgentTypes'
    BY <1>0, <1>1, <1>3 DEF IInv, AgentTypes
  <1>5. stage' = "stream" => ~view'.started
    BY <1>1, <1>3 DEF IInv, AgentInv
  <1> QED BY <1>1, <1>2, <1>3, <1>4, <1>5, Wrote

\* What is drawn and said while a response is awaited.
LEMMA DuringResponse ==
  ASSUME IInv, Retry \/ Args
  PROVE  IInv'
  <1>0. {MaxTurns, MaxEvents, MaxCalls, MaxTail} \subseteq Nat \ {0}
    BY TerminalAssumption
  <1>1. /\ pc = "idle" /\ stage = "stream" /\ events' \in 0..MaxEvents
        /\ UNCHANGED <<stage, turn, calls, printed, thinkStop, loop, pc, mine>>
        /\ UNCHANGED <<thinkVars, callVars>>
    BY <1>0 DEF Retry, Args, Event, At, IInv, AgentTypes, thinkVars, callVars
  <1>2. ThinkTypes' /\ IndicatorInv'
    BY <1>1, ThinkSame
  <1>3. Good(screen) /\ screen.statusShown /\ (thinkStop = 0 => NoFrame(screen))
        /\ ViewOK(screen, view) /\ (view.started => screen.lineStart)
        /\ (thinkStop # 0 => ~open) /\ view \in [started : BOOLEAN, prev : 0..MaxTail]
    BY <1>1 DEF IInv, AgentTypes, AgentInv, ScreenInv
  <1>4. /\ Good(screen') /\ screen'.statusShown /\ NoFrame(screen') /\ screen'.lineStart
        /\ ViewOK(screen', view') /\ view' \in [started : BOOLEAN, prev : 0..MaxTail]
        /\ open' \in BOOLEAN /\ (open' => open)
    <2>1. CASE Retry
      <3>1. screen' = Println(screen) /\ view' = view /\ view = NoView /\ open' = open
        BY <2>1 DEF Retry
      <3>2. /\ Good(screen') /\ screen'.statusShown /\ NoFrame(screen') /\ screen'.lineStart
        BY <1>3, <3>1, PrintlnOK
      <3>3. open \in BOOLEAN
        BY DEF IInv, AgentTypes
      <3> QED BY <1>3, <3>1, <3>2, <3>3 DEF ViewOK, NoView
    <2>2. CASE Args
      <3>1. PICK v \in {view, NoView}, n \in 1..MaxTail :
              /\ LET s == IF v = NoView THEN EnsureNL(screen) ELSE screen
                 IN screen' = Update(s, v, n)
              /\ view' = [started |-> TRUE, prev |-> n]
              /\ open' = (v # NoView /\ open)
        BY <2>2 DEF Args
      <3> DEFINE s == IF v = NoView THEN EnsureNL(screen) ELSE screen
      <3>2. Good(s) /\ s.statusShown /\ ViewOK(s, v) /\ (v.started => s.lineStart)
        <4>1. CASE v = NoView
          <5>1. Good(EnsureNL(screen)) /\ EnsureNL(screen).statusShown
            BY <1>3, EnsureNLOK
          <5>2. ~v.started
            BY <4>1 DEF NoView
          <5> QED BY <4>1, <5>1, <5>2 DEF ViewOK
        <4>2. CASE v # NoView
          BY <1>3, <3>1, <4>2
        <4> QED BY <4>1, <4>2
      <3>3. v \in [started : BOOLEAN, prev : Nat] /\ n \in Nat \ {0} /\ n \in 0..MaxTail
        <4>1. view \in [started : BOOLEAN, prev : Nat] /\ NoView \in [started : BOOLEAN, prev : Nat]
          BY <1>0, <1>3 DEF NoView
        <4>2. v \in {view, NoView} /\ n \in 1..MaxTail /\ MaxTail \in Nat
          BY <1>0, <3>1
        <4> QED BY <4>1, <4>2
      <3>4. screen' = Update(s, v, n)
        BY <3>1
      <3> HIDE DEF s
      <3>5. /\ Good(screen') /\ screen'.statusShown /\ NoFrame(screen') /\ screen'.lineStart
            /\ ViewOK(screen', view')
        BY <3>1, <3>2, <3>3, <3>4, UpdateOK
      <3>6. view' \in [started : BOOLEAN, prev : 0..MaxTail]
        BY <3>1, <3>3
      <3>7. open' \in BOOLEAN /\ (open' => open)
        BY <3>1
      <3> QED BY <3>5, <3>6, <3>7
    <2> QED BY <2>1, <2>2
  <1>5. AgentTypes'
    <2>1. printed' \in BOOLEAN
      BY <1>1 DEF IInv, AgentTypes
    <2> QED BY <1>1, <1>4, <2>1 DEF IInv, AgentTypes
  <1>6. AgentInv'
    BY <1>1, <1>3, <1>4 DEF IInv, AgentInv
  <1>7. ScreenInv'
    BY <1>4 DEF ScreenInv
  <1> QED BY <1>2, <1>5, <1>6, <1>7 DEF IInv

-----------------------------------------------------------------------------
(* The indicators, and the agent that waits for one *)

\* Waiting for an indicator, and being the one to reset it.
LEMMA Waits ==
  ASSUME IInv, Await \/ Reset
  PROVE  IInv'
  <1>1. /\ UNCHANGED <<screen, stage, turn, events, calls, printed, open, view, loop, mine>>
        /\ \/ pc = "wait" /\ pc' = "reset" /\ thinkStop' = thinkStop
           \/ /\ pc = "reset" /\ pc' = "idle"
              /\ thinkStop' = IF thinkStop = mine THEN 0 ELSE thinkStop
    BY DEF Await, Reset, agentVars, thinkVars
  <1>2. ThinkTypes' /\ IndicatorInv'
    BY LoopSteps
  <1>3. AgentTypes'
    BY <1>1 DEF IInv, AgentTypes
  <1>4. AgentInv'
    BY <1>1 DEF IInv, AgentInv
  <1>5. ScreenInv'
    BY <1>1 DEF IInv, IndicatorInv, ScreenInv
  <1> QED BY <1>2, <1>3, <1>4, <1>5 DEF IInv

\* A frame is drawn only while nothing to stay is on the last row.
LEMMA Draws ==
  ASSUME IInv, NEW k \in Indicators, Draw(k) \/ Select(k) \/ Clear(k)
  PROVE  IInv'
  <1>0. MaxStarts \in Nat \ {0} /\ MaxTail \in Nat
    BY TerminalAssumption
  <1>1. /\ UNCHANGED <<stage, turn, events, calls, printed, open, view>>
        /\ UNCHANGED <<thinkStop, pc, mine>>
        /\ loop[k] \in {"draw", "select", "clear"}
    BY DEF Draw, Select, Clear, agentVars, callVars
  <1>2. ThinkTypes' /\ IndicatorInv'
    BY LoopSteps
  <1>3. k = thinkStop /\ thinkStop # 0 /\ thinkStop \in Indicators
    BY <1>0, <1>1 DEF IInv, IndicatorInv, Indicators
  <1>4. Good(screen) /\ screen.statusShown /\ screen.lineStart
    BY <1>3 DEF IInv, ScreenInv
  <1>5. AgentTypes'
    BY <1>1 DEF IInv, AgentTypes
  <1>6. AgentInv'
    BY <1>1 DEF IInv, AgentInv
  <1>7. /\ Good(screen') /\ screen'.statusShown /\ screen'.lineStart
        /\ \A v : v.prev \in Nat /\ ViewOK(screen, v) => ViewOK(screen', v)
        /\ NoFrame(screen') \/ loop'[thinkStop] # "done"
    <2>0. DOMAIN loop = Indicators
      BY DEF IInv, ThinkTypes
    <2>1. CASE Draw(k)
      <3>1. screen' = DrawThinking(screen) /\ loop'[k] = "select"
        BY <2>0, <2>1 DEF Draw
      <3> QED BY <1>3, <1>4, <3>1, DrawThinkingOK
    <2>2. CASE Select(k)
      <3>1. screen' = screen /\ loop'[k] \in {"draw", "clear"}
        BY <2>0, <2>2 DEF Select
      <3> QED BY <1>3, <1>4, <3>1
    <2>3. CASE Clear(k)
      <3>1. screen' = ClearThinking(screen)
        BY <2>3 DEF Clear
      <3> QED BY <1>4, <3>1, ClearThinkingOK
    <2> QED BY <2>1, <2>2, <2>3
  <1>8. ScreenInv'
    <2>1. view.prev \in Nat
      BY <1>0 DEF IInv, AgentTypes
    <2> QED BY <1>1, <1>3, <1>7, <2>1 DEF IInv, ScreenInv
  <1> QED BY <1>2, <1>5, <1>6, <1>8 DEF IInv

-----------------------------------------------------------------------------
(* The theorems *)

\* At the start there is a line and the bar.
LEMMA InitIInv == Init => IInv
  <1> SUFFICES ASSUME Init PROVE IInv
    OBVIOUS
  <1>0. {MaxStarts, MaxTurns, MaxEvents, MaxCalls, MaxTail} \subseteq Nat \ {0}
    BY TerminalAssumption
  <1>1. PICK wide \in BOOLEAN : screen = ShowStatus(PutLine(Blank(wide), "line"))
    BY DEF Init
  <1>2. Good(Blank(wide)) /\ NoFrame(Blank(wide))
    <2> DEFINE b == Blank(wide)
    <2>1. /\ b \in Screens /\ b.rows = << <<>> >> /\ b.said = <<>> /\ b.lineStart
      BY EmptyRow DEF Blank, Screens
    <2> HIDE DEF b
    <2>2. b.rows # <<>> /\ DOMAIN b.rows = {1} /\ b.rows[1] = <<>> /\ LastRow(b) = <<>>
      BY <2>1 DEF LastRow
    <2>3. Shown(b) = {}
      <3>1. ASSUME NEW e \in Shown(b) PROVE FALSE
        <4>1. PICK r \in DOMAIN b.rows : \E c \in DOMAIN b.rows[r] : b.rows[r][c] \in Lasting
          BY <3>1, ShownIs, Zenon
        <4> QED BY <2>2, <4>1
      <3> QED BY <3>1
    <2>4. Survives(b)
      BY <2>1, <2>3 DEF Survives
    <2>5. FramesOK(b)
      BY <2>2, EmptyRow DEF FramesOK
    <2> QED BY <2>1, <2>2, <2>4, <2>5, EmptyRow DEF Good, Base, LastOK, NoFrame, b
  <1>3. Good(screen) /\ screen.lineStart /\ screen.statusShown /\ NoFrame(screen)
    <2> DEFINE l == PutLine(Blank(wide), "line")
    <2>1. Good(l)
      <3>1. "line" \in Lasting
        BY DEF Lasting
      <3> QED BY <1>2, <3>1, PutLineOK
    <2>2. screen = ShowStatus(l)
      BY <1>1
    <2> HIDE DEF l
    <2> QED BY <2>1, <2>2, ShowStatusOK
  <1>4. AgentTypes
    <2>1. printed \in BOOLEAN /\ open \in BOOLEAN
      BY DEF Init
    <2>2. view \in [started : BOOLEAN, prev : 0..MaxTail]
      BY <1>0 DEF Init, NoView
    <2> QED BY <1>0, <2>1, <2>2 DEF Init, AgentTypes
  <1>5. ThinkTypes
    <2>1. thinkStopping \in BOOLEAN /\ ~thinkStopping
      BY DEF Init
    <2> QED BY <1>0, <2>1 DEF Init, ThinkTypes
  <1>6. IndicatorInv
    BY <1>0 DEF Init, IndicatorInv, Indicators
  <1>7. AgentInv
    BY <1>0 DEF Init, AgentInv
  <1>8. ScreenInv
    BY <1>3 DEF Init, ScreenInv
  <1> QED BY <1>4, <1>5, <1>6, <1>7, <1>8 DEF IInv

\* Nothing changes.
LEMMA Stutters ==
  ASSUME IInv, UNCHANGED vars
  PROVE  IInv'
  <1>1. /\ UNCHANGED <<screen, stage, turn, events, calls, printed, open, view>>
        /\ UNCHANGED <<thinkStop, loop, pc, mine, thinkVars, callVars>>
    BY DEF vars, agentVars, thinkVars, callVars
  <1>2. ThinkTypes' /\ IndicatorInv'
    BY <1>1, ThinkSame
  <1>3. AgentTypes'
    BY <1>1 DEF IInv, AgentTypes
  <1>4. AgentInv'
    BY <1>1 DEF IInv, AgentInv
  <1>5. ScreenInv'
    BY <1>1 DEF IInv, ScreenInv
  <1> QED BY <1>2, <1>3, <1>4, <1>5 DEF IInv

\* Every step of the agent, of an indicator and of StopThinking keeps the invariant.
LEMMA StepIInv == IInv /\ [Next]_vars => IInv'
  <1> SUFFICES ASSUME IInv, [Next]_vars PROVE IInv'
    OBVIOUS
  <1>1. CASE Agent
    <2>1. CASE Quit
      BY <2>1, Stutters DEF Quit
    <2> QED BY <1>1, <2>1, BetweenResponses, ResponseBegins, ResponseStops, Speaks, DuringResponse
           DEF Agent
  <1>2. CASE Await \/ Reset
    BY <1>2, Waits
  <1>3. CASE \E k \in Indicators : Draw(k) \/ Select(k) \/ Clear(k)
    BY <1>3, Draws
  <1>4. CASE UNCHANGED vars
    BY <1>4, Stutters
  <1> QED BY <1>1, <1>2, <1>3, <1>4 DEF Next

\* The screen, the agent and the indicators keep the invariant.
THEOREM TerminalInvariant == Spec => []IInv
  BY InitIInv, StepIInv, PTL DEF Spec

\* Rows hold marks, and the agent and the indicators keep their types.
THEOREM TerminalTypes == Spec => []TypeOK
  <1>1. IInv => TypeOK
    <2> SUFFICES ASSUME IInv PROVE TypeOK
      OBVIOUS
    <2>1. \A k \in DOMAIN screen.rows : screen.rows[k] \in Seq(Marks)
      BY DEF IInv, ScreenInv, Good, Base, Screens
    <2> QED BY <2>1 DEF IInv, AgentTypes, ThinkTypes, TypeOK
  <1> QED BY <1>1, TerminalInvariant, PTL

\* ui.go and live.go: the bar, the indicator and the live views erase nothing but
\* what they drew themselves.
THEOREM NothingSaidIsErased == Spec => []TextSurvives
  <1>1. IInv => TextSurvives
    BY DEF IInv, ScreenInv, Good, Base, Survives, TextSurvives
  <1> QED BY <1>1, TerminalInvariant, PTL

\* StopThinking and thinkLoop: whatever frames the goroutine draws between the writes
\* of the agent, and whether it takes the tick or the stop first, no goroutine and no
\* frame is left behind when the indicator is stopped.
THEOREM IndicatorsEnd == Spec => []IndicatorIsGone
  <1>1. IInv => IndicatorIsGone
    <2> SUFFICES ASSUME IInv PROVE IndicatorIsGone
      OBVIOUS
    <2>1. \A k \in Indicators : loop[k] \notin {"none", "done"} => k = thinkStop
      BY DEF IInv, IndicatorInv
    <2>2. ASSUME thinkStop = 0, NEW r \in DOMAIN screen.rows,
                 "think" \in {screen.rows[r][m] : m \in DOMAIN screen.rows[r]}
          PROVE  "title" \in {screen.rows[r][m] : m \in DOMAIN screen.rows[r]}
      <3>1. Has(screen.rows[r], "think") /\ NoFrame(screen) /\ FramesOK(screen)
        BY <2>2 DEF Has, IInv, ScreenInv, Good, Base
      <3>2. r # Len(screen.rows)
        BY <3>1 DEF NoFrame, LastRow
      <3> QED BY <3>1, <3>2 DEF FramesOK, Has
    <2> QED BY <2>1, <2>2 DEF IndicatorIsGone
  <1> QED BY <1>1, TerminalInvariant, PTL
=============================================================================
