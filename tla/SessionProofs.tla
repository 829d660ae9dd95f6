--------------------------- MODULE SessionProofs ---------------------------
(***************************************************************************)
(* What a returned command says, what a task reports as interrupted and    *)
(* what is executed without approval, for any limits, any lines the user   *)
(* may type and any number of tasks and signals.                           *)
(***************************************************************************)
EXTENDS Interactive, SequenceTheorems, TLAPS

-----------------------------------------------------------------------------
(* The command that runs *)

\* The sink holds what was copied from the pipe, up to its limit.
Counted ==
  /\ pipe <= written
  /\ kept = Least(written - pipe, OutputLimit)
  /\ cut <=> written - pipe > OutputLimit

\* Wait returns when nothing can be written any more.
Waited == done # "empty" => "shell" \notin alive /\ writers = {} /\ pipe = 0

Fate == {"deadline", "canceled"}
Collecting == {"output", "truncated", "returned"}

\* What is known of a command that was started, statement by statement of Run.
Followed ==
  /\ run \in {"select", "reap", "output", "truncated"} => outcome.started
  /\ run \in {"select", "reap"} => done # "taken"
  /\ run = "select" => outcome.err = "none"
  /\ run = "reap" => outcome.err \in Fate
  /\ run \in Collecting /\ outcome.started =>
       /\ outcome.err = "none" => status = "zero" /\ "shell" \notin alive
       /\ outcome.err \in Fate \/ done = "taken"
       /\ platform = "linux" => done = "taken"
  /\ run \in Collecting \cup {"reap"} /\ outcome.err \in Fate =>
       /\ ctx = outcome.err
       /\ "shell" \notin alive
       /\ platform = "linux" => alive \cap Group = {}
  /\ run \in {"truncated", "returned"} /\ outcome.started /\ done = "taken" =>
       outcome.kept = kept
  /\ run = "returned" /\ outcome.started /\ done = "taken" => (outcome.truncated <=> cut)

CommandInv == ProcessTypeOK /\ Counted /\ Waited /\ Followed

-----------------------------------------------------------------------------
(* The session *)

TaskTypeOK ==
  /\ setup \in Setups
  /\ Running \/ AtRest \/ mode = "drain"
  /\ sig \in BOOLEAN /\ task \in 0..MaxTasks
  /\ watcher \in [Tasks -> {"none", "starting", "parked", "gone"}]
  /\ cancelled \in [Tasks -> BOOLEAN]
  /\ step \in 0..MaxSteps /\ left \in 0..MaxCalls /\ call \in Calls \cup {NoCall}
  /\ result \in {"none", "ok", "failed", "canceled"}
  /\ signals \in 0..MaxSignals /\ struck \in BOOLEAN /\ stolen \in BOOLEAN

InputTypeOK ==
  /\ input \in Lines /\ typed \in 0..Len(input) /\ read \in 0..typed
  /\ mainBuf \in Seq(1..read) /\ uiBuf \in Seq(1..read)
  /\ used \in [line : 0..Len(input), reader : {"none", "prompt", "confirm"}]

\* The steps of a task are counted, and its calls are calls of an answer.
TaskGoesOn ==
  /\ Running => task \in Tasks
  /\ mode = "drain" => task < MaxTasks
  /\ mode \in {"send", "stream"} => step < MaxSteps
  /\ mode \in {"confirm", "execute"} => call \in Calls
  /\ mode = "confirm" => ~(call.tool = "run_command" /\ call.deny)

\* A line is in one place: what a reader holds is in order, and comes after what
\* that reader gave out; at a terminal nothing is read ahead.
LinesInOrder ==
  /\ used.line <= read
  /\ \A i, j \in 1..Len(uiBuf) : i < j => uiBuf[i] < uiBuf[j]
  /\ used.reader = "confirm" => \A i \in 1..Len(uiBuf) : used.line < uiBuf[i]
  /\ ~setup.piped => mainBuf = <<>> /\ uiBuf = <<>> /\ used.line = read

\* A context that was never given to a task is not cancelled.
Untouched(t) == watcher[t] = "none" /\ ~cancelled[t]

\* Where an interruption of the task that runs comes from.
InterruptsAreKnown ==
  /\ Running /\ (sig \/ cancelled[task]) => struck
  /\ \A t \in Tasks : t > task => Untouched(t)
  /\ mode = "watch" => Untouched(task)

InputInv == InputTypeOK /\ LinesInOrder
TaskInv == TaskTypeOK /\ TaskGoesOn /\ InterruptsAreKnown /\ OnlyItsOwnInterrupt
IInv == CommandInv /\ InputInv /\ TaskInv

-----------------------------------------------------------------------------
(* The steps of a command *)

\* The limits of the output, as numbers.
LEMMA Limits == OutputLimit \in Nat /\ MaxWritten \in Nat
  BY ProcessAssumption DEF ProcessAssumption

Outcomes == [started : BOOLEAN, err : {"none", "exit", "deadline", "canceled", "start"},
             kept : 0..OutputLimit, truncated : BOOLEAN]

\* The outcomes a command begins with.
LEMMA FirstOutcomes ==
  /\ NoOutcome \in Outcomes
  /\ [NoOutcome EXCEPT !.started = TRUE] \in Outcomes
  /\ [NoOutcome EXCEPT !.err = "start"] \in Outcomes
  <1>1. NoOutcome \in Outcomes
    BY Limits DEF NoOutcome, Outcomes
  <1> QED BY <1>1, Limits DEF Outcomes

\* No command has run yet.
LEMMA CommandInit ==
  ASSUME ProcessInit
  PROVE  CommandInv
  <1>1. ProcessTypeOK
    <2>1. outcome \in Outcomes
      BY FirstOutcomes DEF ProcessInit
    <2>2. cut \in BOOLEAN
      BY DEF ProcessInit
    <2> QED
      BY <2>1, <2>2, Limits DEF ProcessTypeOK, Outcomes, Group, Helpers, ProcessInit
  <1>2. Counted
    BY Limits DEF ProcessTypeOK, Counted, Least, ProcessInit
  <1>3. Waited
    BY DEF ProcessTypeOK, Waited, ProcessInit
  <1>4. Followed
    BY DEF ProcessTypeOK, Followed, Waited, Collecting, Fate, NoOutcome, ProcessInit
  <1> QED BY <1>1, <1>2, <1>3, <1>4 DEF CommandInv

\* Nothing happens to the command.
LEMMA CommandStays ==
  ASSUME CommandInv, UNCHANGED processVars
  PROVE  CommandInv'
  BY DEF CommandInv, processVars, ProcessTypeOK, Counted, Waited, Followed

\* Run, the two goroutines and the processes, in any order.
LEMMA CommandSteps ==
  ASSUME CommandInv, RunSteps \/ GoroutineSteps \/ ProcessSteps
  PROVE  CommandInv'
  <1> USE Limits
      DEF CommandInv, ProcessTypeOK, Counted, Waited, Followed, Collecting, Fate, Least,
          Group, Helpers
  <1>1. CASE TakeDone
    BY <1>1 DEF TakeDone
  <1>2. CASE TakeCtx
    BY <1>2 DEF TakeCtx, Killed
  <1>3. CASE Reap
    BY <1>3 DEF Reap
  <1>4. CASE ReadOutput
    BY <1>4 DEF ReadOutput
  <1>5. CASE ReadTruncated
    BY <1>5 DEF ReadTruncated
  <1>6. CASE WaitReturns
    BY <1>6 DEF WaitReturns
  <1>7. CASE Copy
    <2>0. PICK n \in 1..pipe : /\ pipe' = pipe - n
                               /\ kept' = kept + Least(n, OutputLimit - kept)
                               /\ cut' = (cut \/ n > OutputLimit - kept)
      BY <1>7 DEF Copy
    <2>1. ProcessTypeOK'
      <3>1. pipe' \in 0..MaxWritten /\ kept' \in 0..OutputLimit
        BY <2>0
      <3>2. cut' \in BOOLEAN
        BY <2>0
      <3> QED BY <1>7, <3>1, <3>2 DEF Copy
    <2>2. Counted'
      <3>1. written' = written
        BY <1>7 DEF Copy
      <3>2. pipe' <= written' /\ kept' = Least(written - pipe', OutputLimit)
        BY <2>0, <3>1
      <3>3. (cut \/ n > OutputLimit - kept) <=> written - (pipe - n) > OutputLimit
        BY <2>0
      <3>4. cut' <=> written - pipe' > OutputLimit
        BY <2>0, <3>3
      <3> QED BY <3>1, <3>2, <3>4
    <2>3. Waited'
      BY <1>7 DEF Copy
    <2>4. Followed'
      BY <1>7 DEF Copy
    <2> QED BY <2>1, <2>2, <2>3, <2>4
  <1>8. CASE Deadline
    BY <1>8 DEF Deadline
  <1>9. CASE Write
    <2>1. ProcessTypeOK'
      BY <1>9 DEF Write
    <2>2. Counted'
      BY <1>9 DEF Write
    <2>3. Waited'
      BY <1>9 DEF Write
    <2>4. Followed'
      BY <1>9 DEF Write
    <2> QED BY <2>1, <2>2, <2>3, <2>4
  <1>10. ASSUME NEW p \in Helpers, Fork(p)
         PROVE  CommandInv'
    BY <1>10 DEF Fork
  <1>11. ASSUME NEW p \in Group \cup Helpers, Exit(p)
         PROVE  CommandInv'
    BY <1>11 DEF Exit
  <1> QED
    BY <1>1, <1>2, <1>3, <1>4, <1>5, <1>6, <1>7, <1>8, <1>9, <1>10, <1>11
       DEF RunSteps, GoroutineSteps, ProcessSteps

\* A task starts a command, or fails to.
LEMMA CommandStarts ==
  ASSUME CommandInv, NEW c \in BOOLEAN, RunStart(c) \/ RunStartFails
  PROVE  CommandInv'
  <1>1. CASE RunStart(c)
    <2>1. ProcessTypeOK'
      <3>1. outcome' \in Outcomes
        BY <1>1, FirstOutcomes DEF CommandInv, RunStart
      <3>2. cut' \in BOOLEAN
        BY <1>1 DEF CommandInv, RunStart
      <3> QED
        BY <1>1, <3>1, <3>2, Limits DEF ProcessTypeOK, Outcomes, Group, Helpers, CommandInv,
             RunStart
    <2>2. Counted'
      BY <1>1, Limits DEF ProcessTypeOK, Counted, Least, CommandInv, RunStart
    <2>3. Waited'
      BY <1>1 DEF ProcessTypeOK, Waited, CommandInv, RunStart
    <2>4. Followed'
      BY <1>1 DEF ProcessTypeOK, Followed, Waited, Collecting, Fate, NoOutcome, CommandInv, RunStart
    <2> QED BY <2>1, <2>2, <2>3, <2>4 DEF CommandInv
  <1>2. CASE RunStartFails
    <2>1. ProcessTypeOK'
      <3>1. outcome' \in Outcomes
        BY <1>2, FirstOutcomes DEF CommandInv, RunStartFails
      <3>2. cut' \in BOOLEAN
        BY <1>2 DEF ProcessTypeOK, CommandInv, RunStartFails
      <3> QED
        BY <1>2, <3>1, <3>2, Limits DEF ProcessTypeOK, Outcomes, Group, Helpers, CommandInv,
             RunStartFails
    <2>2. Counted'
      BY <1>2, Limits DEF ProcessTypeOK, Counted, Least, CommandInv, RunStartFails
    <2>3. Waited'
      BY <1>2 DEF ProcessTypeOK, Waited, CommandInv, RunStartFails
    <2>4. Followed'
      BY <1>2 DEF ProcessTypeOK, Followed, Waited, Collecting, Fate, NoOutcome, CommandInv,
           RunStartFails
    <2> QED BY <2>1, <2>2, <2>3, <2>4 DEF CommandInv
  <1> QED BY <1>1, <1>2

\* The context of the command is cancelled while it runs.
LEMMA CommandCancelled ==
  ASSUME CommandInv, NEW t \in Tasks, Cancel(t)
  PROVE  CommandInv'
  BY DEF CommandInv, ProcessTypeOK, Counted, Waited, Followed, Collecting, Fate, Least, Cancel

\* The task is done with the command.
LEMMA CommandEnds ==
  ASSUME CommandInv, CommandReturns
  PROVE  CommandInv'
  <1>1. ProcessTypeOK'
    <2>1. outcome' \in Outcomes
      BY FirstOutcomes DEF CommandInv, CommandReturns
    <2>2. cut' \in BOOLEAN
      BY DEF CommandInv, CommandReturns
    <2> QED
      BY <2>1, <2>2, Limits DEF ProcessTypeOK, Outcomes, Group, Helpers, CommandInv, CommandReturns
  <1>2. Counted'
    BY Limits DEF ProcessTypeOK, Counted, Least, CommandInv, CommandReturns
  <1>3. Waited'
    BY DEF ProcessTypeOK, Waited, CommandInv, CommandReturns
  <1>4. Followed'
    BY DEF ProcessTypeOK, Followed, Waited, Collecting, Fate, NoOutcome, CommandInv, CommandReturns
  <1> QED BY <1>1, <1>2, <1>3, <1>4 DEF CommandInv

\* The exit code, the timeout and the output that are reported.
LEMMA CommandInvIsTrue == CommandInv => OutcomeIsTrue
  BY Limits
     DEF CommandInv, ProcessTypeOK, Counted, Waited, Followed, Collecting, Fate, Least,
         OutcomeIsTrue, ExitCode, TimedOut

-----------------------------------------------------------------------------
(* Standard input *)

\* What is read at once: the n lines after the first r.
LEMMA LinesRead ==
  ASSUME NEW r \in Nat, NEW n \in Nat \ {0}, NEW s \in [1..n -> Int],
         \A k \in 1..n : s[k] = r + k
  PROVE  /\ s \in Seq(1..(r + n)) /\ s # <<>> /\ Len(s) = n
         /\ Head(s) = r + 1
         /\ Tail(s) \in Seq(1..(r + n)) /\ Len(Tail(s)) = n - 1
         /\ \A k \in 1..(n - 1) : Tail(s)[k] = r + k + 1
  <1>1. s \in Seq(1..(r + n)) /\ Len(s) = n /\ s # <<>>
    <2>1. s \in [1..n -> 1..(r + n)]
      <3>1. \A k \in 1..n : s[k] \in 1..(r + n)
        OBVIOUS
      <3> QED BY <3>1
    <2>2. s \in Seq(1..(r + n))
      BY <2>1, SeqDef
    <2> QED BY <2>1, <2>2
  <1>2. /\ Tail(s) \in Seq(1..(r + n)) /\ Len(Tail(s)) = Len(s) - 1
        /\ \A i \in 1..Len(Tail(s)) : Tail(s)[i] = s[i + 1]
    BY <1>1, HeadTailProperties
  <1>3. Head(s) = s[1]
    BY <1>1
  <1> QED BY <1>1, <1>2, <1>3

\* The line a reader gives out, and what stays in its buffer.
LEMMA BufferTaken ==
  ASSUME InputTypeOK, NEW buf \in Seq(1..read), HasLine(buf),
         NEW now, now = Taken(buf), NEW upto, upto = IF buf # <<>> THEN read ELSE read + Len(now)
  PROVE  /\ upto \in read..typed /\ Head(now) \in 1..upto
         /\ Tail(now) \in Seq(1..upto)
         /\ buf # <<>> => /\ Head(now) = buf[1] /\ Len(Tail(now)) = Len(buf) - 1
                          /\ \A i \in 1..Len(Tail(now)) : Tail(now)[i] = buf[i + 1]
         /\ buf = <<>> => /\ Head(now) = read + 1
                          /\ \A i \in 1..Len(Tail(now)) : Tail(now)[i] = read + 1 + i
                          /\ ~setup.piped => upto = read + 1 /\ Tail(now) = <<>>
  <1>0. read \in Nat /\ typed \in Nat /\ read <= typed
    <2>1. Len(input) \in Nat
      BY SessionAssumption DEF InputTypeOK
    <2> QED BY <2>1 DEF InputTypeOK
  <1>1. CASE buf # <<>>
    BY <1>0, <1>1, HeadTailProperties DEF Taken
  <1>2. CASE buf = <<>>
    <2> DEFINE n == IF setup.piped THEN typed - read ELSE 1
    <2>1. read < typed
      BY <1>2 DEF HasLine
    <2>2. n \in Nat \ {0} /\ n <= typed - read
      BY <1>0, <2>1
    <2>3. now = [k \in 1..n |-> read + k]
      BY <1>2 DEF Taken
    <2> HIDE DEF n
    <2>3a. now \in [1..n -> Int] /\ \A k \in 1..n : now[k] = read + k
      BY <1>0, <2>2, <2>3
    <2>4. /\ now \in Seq(1..(read + n)) /\ now # <<>> /\ Len(now) = n
          /\ Head(now) = read + 1
          /\ Tail(now) \in Seq(1..(read + n)) /\ Len(Tail(now)) = n - 1
          /\ \A k \in 1..(n - 1) : Tail(now)[k] = read + k + 1
      BY <1>0, <2>2, <2>3a, LinesRead
    <2>5. ~setup.piped => n = 1
      BY DEF n
    <2>6. n = 1 => Tail(now) = <<>>
      <3>1. \A q \in Seq(1..(read + n)) : q # <<>> => Len(q) \in Nat \ {0}
        BY EmptySeq
      <3>2. n = 1 => ~(Len(Tail(now)) \in Nat \ {0})
        BY <2>4
      <3>3. Tail(now) # <<>> => Len(Tail(now)) \in Nat \ {0}
        BY <2>4, <3>1
      <3> QED BY <3>2, <3>3
    <2>7. upto = read + n
      BY <1>2, <2>4
    <2> QED BY <1>0, <1>2, <2>2, <2>4, <2>5, <2>6, <2>7
  <1> QED BY <1>1, <1>2

\* A line is taken out of the buffer of its reader, or else out of what is read.
LEMMA LineTaken ==
  ASSUME IInv, NEW reader \in {"prompt", "confirm"}, TakeLine(reader), UNCHANGED setup
  PROVE  /\ InputInv'
         /\ used'.reader = reader /\ used'.line \in 1..Len(input)
         /\ reader = "confirm" => used' # used
         /\ ~setup.piped => used'.line = used.line + 1
  <1> DEFINE buf == IF reader = "prompt" THEN mainBuf ELSE uiBuf
             now == Taken(buf)
  <1>1. /\ InputTypeOK /\ LinesInOrder /\ Len(input) \in Nat
        /\ read \in Nat /\ typed \in Nat /\ read <= typed /\ typed <= Len(input)
        /\ used.line \in Nat /\ used.line <= read
    BY SessionAssumption DEF IInv, InputInv, InputTypeOK, LinesInOrder
  <1>2. /\ buf \in Seq(1..read) /\ HasLine(buf)
        /\ used' = [line |-> Head(now), reader |-> reader]
        /\ read' = IF buf # <<>> THEN read ELSE read + Len(now)
        /\ UNCHANGED <<input, typed>>
    BY <1>1 DEF TakeLine, InputTypeOK
  <1>3. /\ reader = "prompt" => mainBuf' = Tail(now) /\ uiBuf' = uiBuf
        /\ reader = "confirm" => uiBuf' = Tail(now) /\ mainBuf' = mainBuf
    BY DEF TakeLine
  <1> HIDE DEF now
  <1>4. /\ read' \in read..typed /\ Head(now) \in 1..read'
        /\ Tail(now) \in Seq(1..read')
        /\ buf # <<>> => /\ Head(now) = buf[1] /\ Len(Tail(now)) = Len(buf) - 1
                         /\ \A i \in 1..Len(Tail(now)) : Tail(now)[i] = buf[i + 1]
        /\ buf = <<>> => /\ Head(now) = read + 1
                         /\ \A i \in 1..Len(Tail(now)) : Tail(now)[i] = read + 1 + i
                         /\ ~setup.piped => read' = read + 1 /\ Tail(now) = <<>>
    <2>1. InputTypeOK /\ HasLine(buf) /\ now = Taken(buf)
      BY <1>1, <1>2 DEF now
    <2>2. buf \in Seq(1..read) /\ read' = IF buf # <<>> THEN read ELSE read + Len(now)
      BY <1>2
    <2> HIDE DEF buf
    <2> QED BY <2>1, <2>2, BufferTaken, SMTT(30)
  <1>5. used'.line = Head(now) /\ used'.reader = reader /\ used'.line \in 1..Len(input)
    BY <1>1, <1>2, <1>4
  <1>6. mainBuf' \in Seq(1..read') /\ uiBuf' \in Seq(1..read')
    <2>1. 1..read \subseteq 1..read'
      BY <1>1, <1>4
    <2>2. mainBuf \in Seq(1..read') /\ uiBuf \in Seq(1..read')
      BY <1>1, <2>1, SeqMonotonic DEF InputTypeOK
    <2> QED BY <1>3, <1>4, <2>2
  <1>7. InputTypeOK'
    <2>1. used' \in [line : 0..Len(input), reader : {"none", "prompt", "confirm"}]
      BY <1>1, <1>2, <1>5
    <2>2. read' \in 0..typed
      BY <1>1, <1>4
    <2> QED BY <1>1, <1>2, <1>6, <2>1, <2>2 DEF InputTypeOK
  \* What the reader still holds is in order and comes after the line.
  <1>8. ASSUME reader = "confirm"
        PROVE  /\ \A i, j \in 1..Len(uiBuf') : i < j => uiBuf'[i] < uiBuf'[j]
               /\ \A i \in 1..Len(uiBuf') : used'.line < uiBuf'[i]
               /\ used.reader = "confirm" => used.line < used'.line
    <2>1. uiBuf' = Tail(now) /\ buf = uiBuf /\ Len(uiBuf') \in Nat /\ Len(buf) \in Nat
      BY <1>2, <1>3, <1>6, <1>8, LenProperties
    <2>2. buf # <<>> => Len(buf) >= 1
      BY <1>2, EmptySeq
    <2>3. CASE buf # <<>>
      <3>1. /\ used'.line = uiBuf[1] /\ Len(uiBuf') = Len(uiBuf) - 1
            /\ \A i \in 1..Len(uiBuf') : uiBuf'[i] = uiBuf[i + 1]
        BY <1>4, <1>5, <2>1, <2>3
      <3>2. /\ \A i, j \in 1..Len(uiBuf) : i < j => uiBuf[i] < uiBuf[j]
            /\ used.reader = "confirm" => \A i \in 1..Len(uiBuf) : used.line < uiBuf[i]
        BY <1>1 DEF LinesInOrder
      <3>3. \A i \in 1..Len(uiBuf') : i + 1 \in 1..Len(uiBuf) /\ 1 < i + 1
        BY <2>1, <3>1
      <3>4. 1 \in 1..Len(uiBuf)
        BY <2>1, <2>2, <2>3
      <3> QED BY <2>1, <3>1, <3>2, <3>3, <3>4
    <2>4. CASE buf = <<>>
      <3>1. /\ used'.line = read + 1
            /\ \A i \in 1..Len(uiBuf') : uiBuf'[i] = read + 1 + i
        BY <1>4, <1>5, <2>1, <2>4
      <3> QED BY <1>1, <2>1, <3>1
    <2> QED BY <2>3, <2>4
  <1>9. ~setup.piped => /\ buf = <<>> /\ mainBuf' = <<>> /\ uiBuf' = <<>>
                        /\ used'.line = read' /\ used'.line = used.line + 1
    BY <1>1, <1>3, <1>4, <1>5 DEF LinesInOrder
  <1>10. LinesInOrder'
    <2>1. used'.line <= read'
      BY <1>1, <1>4, <1>5
    <2>2. CASE reader = "prompt"
      BY <1>1, <1>3, <1>5, <1>9, <2>1, <2>2 DEF LinesInOrder
    <2>3. CASE reader = "confirm"
      BY <1>5, <1>8, <1>9, <2>1, <2>3 DEF LinesInOrder
    <2> QED BY <2>2, <2>3
  <1>11. reader = "confirm" => used' # used
    BY <1>1, <1>5, <1>8 DEF InputTypeOK
  <1> QED BY <1>5, <1>7, <1>9, <1>10, <1>11 DEF InputInv

-----------------------------------------------------------------------------
(* The steps of the session *)

\* The command is what its own steps and the task that executes it make of it.
LEMMA CommandKept ==
  ASSUME IInv, [Next]_vars
  PROVE  CommandInv'
  <1>0. CommandInv /\ (task \in Tasks => cancelled[task] \in BOOLEAN)
    BY DEF IInv, TaskInv, TaskTypeOK
  <1>1. CASE ReadLine \/ ReadEOF \/ Drain \/ Watch \/ Send \/ Answer \/ Dispatch \/ NextStep
             \/ Confirm \/ Type \/ Quit \/ UNCHANGED vars
    <2>1. UNCHANGED processVars
      BY <1>1 DEF ReadLine, ReadEOF, Drain, Watch, Send, Answer, Dispatch, NextStep, Confirm,
                  Type, Quit, TaskEnds, vars
    <2> QED BY <1>0, <2>1, CommandStays
  <1>2. CASE Execute
    <2>1. UNCHANGED processVars \/ RunStart(cancelled[task]) \/ RunStartFails
      BY <1>2 DEF Execute
    <2>2. cancelled[task] \in BOOLEAN
      BY <1>0, <1>2 DEF Execute, IInv, TaskInv, TaskGoesOn, Running
    <2> QED BY <1>0, <2>1, <2>2, CommandStays, CommandStarts
  <1>3. CASE CommandReturns
    BY <1>0, <1>3, CommandEnds
  <1>4. CASE Signal
    <2>1. UNCHANGED processVars \/ \E t \in Tasks : Cancel(t)
      BY <1>4 DEF Signal
    <2> QED BY <1>0, <2>1, CommandStays, CommandCancelled
  <1>5. ASSUME NEW t \in Tasks, Watcher(t)
        PROVE  CommandInv'
    <2>1. UNCHANGED processVars \/ Cancel(t)
      BY <1>5 DEF Watcher
    <2> QED BY <1>0, <2>1, CommandStays, CommandCancelled
  <1>6. CASE RunSteps \/ GoroutineSteps \/ ProcessSteps
    BY <1>0, <1>6, CommandSteps
  <1> QED BY <1>1, <1>2, <1>3, <1>4, <1>5, <1>6 DEF Next, Main

\* Lines go from the user to the two readers, and each to one of them.
LEMMA InputKept ==
  ASSUME IInv, [Next]_vars
  PROVE  InputInv'
  <1>1. CASE UNCHANGED <<inputVars, setup>>
    BY <1>1 DEF IInv, InputInv, InputTypeOK, LinesInOrder, inputVars
  <1>2. CASE Type
    <2>1. typed' \in 0..Len(input) /\ read \in 0..typed'
      BY <1>2, SessionAssumption DEF Type, IInv, InputInv, InputTypeOK
    <2> QED BY <1>2, <2>1 DEF Type, IInv, InputInv, InputTypeOK, LinesInOrder
  <1>3. CASE ReadLine
    BY <1>3, LineTaken DEF ReadLine
  <1>4. CASE Confirm
    BY <1>1, <1>4, LineTaken DEF Confirm
  <1>5. CASE \/ Main /\ ~ReadLine /\ ~Confirm
             \/ Signal \/ Quit \/ UNCHANGED vars \/ UNCHANGED sessionVars
             \/ \E t \in Tasks : Watcher(t)
    <2>1. UNCHANGED <<inputVars, setup>>
      BY <1>5 DEF Main, ReadEOF, Drain, Watch, Send, Answer, Dispatch, NextStep, Execute,
                  CommandReturns, TaskEnds, Signal, Watcher, Quit, vars, sessionVars, inputVars
    <2> QED BY <1>1, <2>1
  <1> QED BY <1>2, <1>3, <1>4, <1>5 DEF Next, Main

\* A signal reaches a task only while it runs.
LEMMA TaskKept ==
  ASSUME IInv, [Next]_vars
  PROVE  TaskInv'
  <1>0. {MaxTasks, MaxSteps, MaxCalls, MaxSignals} \subseteq Nat \ {0}
    BY SessionAssumption
  <1> USE <1>0 DEF IInv, TaskInv, TaskTypeOK, TaskGoesOn, InterruptsAreKnown, Untouched,
                   OnlyItsOwnInterrupt, Running, AtRest, Tasks
  <1>1. CASE ReadLine \/ ReadEOF
    BY <1>1 DEF ReadLine, ReadEOF, signalVars
  <1>2. CASE Drain
    <2>1. TaskTypeOK'
      <3>1. sig' \in BOOLEAN /\ struck' \in BOOLEAN /\ stolen' \in BOOLEAN
        BY <1>2 DEF Drain
      <3> QED BY <1>2, <3>1 DEF Drain
    <2>2. TaskGoesOn'
      BY <1>2 DEF Drain
    <2>3. InterruptsAreKnown'
      BY <1>2 DEF Drain
    <2>4. OnlyItsOwnInterrupt'
      BY <1>2 DEF Drain
    <2> QED BY <2>1, <2>2, <2>3, <2>4
  <1>3. CASE Watch
    BY <1>3 DEF Watch
  <1>4. ASSUME NEW how \in {"ok", "failed", "canceled"}, TaskEnds(how), Running, mode # "watch",
               how = "canceled" => cancelled[task]
        PROVE  TaskInv'
    <2>1. TaskTypeOK'
      BY <1>4 DEF TaskEnds
    <2>2. TaskGoesOn'
      BY <1>4 DEF TaskEnds
    <2>3. InterruptsAreKnown' /\ OnlyItsOwnInterrupt'
      BY <1>4 DEF TaskEnds
    <2> QED BY <2>1, <2>2, <2>3
  <1>5. CASE Send
    BY <1>4, <1>5 DEF Send, signalVars
  <1>6. CASE Answer
    <2>1. CASE \E n \in 1..MaxCalls :
                 /\ left' = n /\ step' = step + 1
                 /\ mode' = "dispatch"
                 /\ UNCHANGED <<processVars, setup, inputVars, signalVars, task, call, result>>
      <3>1. PICK n \in 1..MaxCalls :
              /\ left' = n /\ step' = step + 1
              /\ mode' = "dispatch"
              /\ UNCHANGED <<processVars, setup, inputVars, signalVars, task, call, result>>
        BY <2>1
      <3>2. TaskTypeOK'
        BY <1>6, <3>1 DEF Answer, signalVars
      <3>3. TaskGoesOn'
        BY <1>6, <3>1 DEF Answer, signalVars
      <3>4. InterruptsAreKnown' /\ OnlyItsOwnInterrupt'
        BY <1>6, <3>1 DEF Answer, signalVars
      <3> QED BY <3>2, <3>3, <3>4
    <2>2. CASE TaskEnds("ok")
      BY <1>4, <1>6, <2>2 DEF Answer
    <2>3. CASE ~cancelled[task] /\ TaskEnds("failed")
      BY <1>4, <1>6, <2>3 DEF Answer
    <2>4. CASE cancelled[task] /\ TaskEnds("canceled")
      BY <1>4, <1>6, <2>4 DEF Answer
    <2> QED BY <1>6, <2>1, <2>2, <2>3, <2>4 DEF Answer
  <1>7. CASE Dispatch
    <2>0. PICK c \in Calls : /\ mode' = AfterPolicy(c)
                             /\ call' = IF mode' = "dispatch" THEN NoCall ELSE c
      BY <1>7 DEF Dispatch
    <2>1. TaskTypeOK'
      <3>1. left' \in 0..MaxCalls /\ call' \in Calls \cup {NoCall}
        BY <1>7, <2>0 DEF Dispatch
      <3>2. mode' \in {"dispatch", "confirm", "execute"}
        BY <2>0 DEF AfterPolicy
      <3> QED BY <1>7, <3>1, <3>2 DEF Dispatch, signalVars
    <2>2. TaskGoesOn'
      <3>1. AfterPolicy(c) = "confirm" => ~(c.tool = "run_command" /\ c.deny)
        BY DEF AfterPolicy, Decide
      <3>2. AfterPolicy(c) \in {"dispatch", "confirm", "execute"}
        BY DEF AfterPolicy
      <3> QED BY <1>7, <2>0, <3>1, <3>2 DEF Dispatch
    <2>3. InterruptsAreKnown'
      BY <1>7 DEF Dispatch, signalVars, AfterPolicy, Calls
    <2>4. OnlyItsOwnInterrupt'
      BY <1>7 DEF Dispatch, signalVars, AfterPolicy, Calls
    <2> QED BY <2>1, <2>2, <2>3, <2>4
  <1>8. CASE NextStep
    <2>1. CASE step = MaxSteps
      BY <1>4, <1>8, <2>1 DEF NextStep
    <2>2. CASE step # MaxSteps
      <3>1. TaskTypeOK'
        BY <1>8, <2>2 DEF NextStep, signalVars
      <3>2. TaskGoesOn'
        BY <1>8, <2>2 DEF NextStep, signalVars
      <3>3. InterruptsAreKnown' /\ OnlyItsOwnInterrupt'
        BY <1>8, <2>2 DEF NextStep, signalVars
      <3> QED BY <3>1, <3>2, <3>3
    <2> QED BY <2>1, <2>2
  <1>9. CASE Confirm
    BY <1>9 DEF Confirm, signalVars
  <1>10. CASE Execute \/ CommandReturns
    BY <1>10 DEF Execute, CommandReturns, signalVars
  <1>11. CASE Signal
    <2>1. TaskTypeOK'
      <3>1. sig' \in BOOLEAN /\ struck' \in BOOLEAN
        BY <1>11 DEF Signal
      <3>2. cancelled' \in [Tasks -> BOOLEAN]
        BY <1>11 DEF Signal, Cancel
      <3>3. watcher' \in [Tasks -> {"none", "starting", "parked", "gone"}]
        BY <1>11 DEF Signal
      <3>4. signals' \in 0..MaxSignals /\ stolen' \in BOOLEAN
        BY <1>11 DEF Signal
      <3>5. UNCHANGED <<setup, mode, task, step, left, call, result>>
        BY <1>11 DEF Signal
      <3> QED BY <3>1, <3>2, <3>3, <3>4, <3>5
    <2>2. TaskGoesOn'
      BY <1>11 DEF Signal, Cancel
    <2>3. InterruptsAreKnown'
      <3>1. Running => struck'
        BY <1>11 DEF Signal
      <3>2. \A t \in Tasks : t > task => Untouched(t)'
        BY <1>11 DEF Signal, Cancel
      <3>3. mode = "watch" => Untouched(task)'
        BY <1>11 DEF Signal, Cancel
      <3>4. UNCHANGED <<mode, task>>
        BY <1>11 DEF Signal
      <3> QED BY <3>1, <3>2, <3>3, <3>4
    <2>4. OnlyItsOwnInterrupt'
      BY <1>11 DEF Signal, Cancel
    <2> QED BY <2>1, <2>2, <2>3, <2>4
  <1>12. ASSUME NEW t \in Tasks, Watcher(t)
         PROVE  TaskInv'
    <2>1. TaskTypeOK'
      <3>1. sig' \in BOOLEAN /\ stolen' \in BOOLEAN
        BY <1>12 DEF Watcher
      <3>2. cancelled' \in [Tasks -> BOOLEAN]
        BY <1>12 DEF Watcher, Cancel
      <3>3. watcher' \in [Tasks -> {"none", "starting", "parked", "gone"}]
        BY <1>12 DEF Watcher
      <3>4. UNCHANGED <<setup, mode, task, step, left, call, result, signals, struck>>
        BY <1>12 DEF Watcher
      <3> QED BY <3>1, <3>2, <3>3, <3>4
    <2>2. TaskGoesOn'
      BY <1>12 DEF Watcher, Cancel
    <2>3. InterruptsAreKnown'
      BY <1>12 DEF Watcher, Cancel
    <2>4. OnlyItsOwnInterrupt'
      BY <1>12 DEF Watcher, Cancel
    <2> QED BY <2>1, <2>2, <2>3, <2>4
  <1>13. CASE Type \/ Quit \/ UNCHANGED vars \/ UNCHANGED sessionVars
    BY <1>13 DEF Type, Quit, vars, sessionVars, signalVars
  <1> QED BY <1>1, <1>2, <1>3, <1>5, <1>6, <1>7, <1>8, <1>9, <1>10, <1>11, <1>12, <1>13
             DEF Next, Main

\* At the start nothing was typed and no signal came.
LEMMA InitIInv == Init => IInv
  <1> SUFFICES ASSUME Init PROVE IInv
    OBVIOUS
  <1>0. {MaxTasks, MaxSteps, MaxCalls, MaxSignals} \subseteq Nat \ {0} /\ Len(input) \in Nat
    BY SessionAssumption DEF Init
  <1>1. CommandInv
    BY CommandInit DEF Init
  <1>2. InputInv
    BY <1>0, EmptySeq DEF Init, InputInv, InputTypeOK, LinesInOrder
  <1>3. TaskInv
    <2>1. sig \in BOOLEAN /\ struck \in BOOLEAN /\ stolen \in BOOLEAN
      BY DEF Init
    <2>2. watcher \in [Tasks -> {"none"}] /\ cancelled \in [Tasks -> {FALSE}]
      BY DEF Init
    <2>3. TaskTypeOK
      BY <1>0, <2>1, <2>2 DEF Init, TaskTypeOK, Running, AtRest
    <2> QED BY <1>0, <2>2, <2>3
            DEF Init, TaskInv, TaskGoesOn, InterruptsAreKnown, Untouched, OnlyItsOwnInterrupt,
                Running, Tasks
  <1> QED BY <1>1, <1>2, <1>3 DEF IInv

\* All that can happen keeps the invariant.
LEMMA StepIInv ==
  ASSUME IInv, [Next]_vars
  PROVE  IInv'
  BY CommandKept, InputKept, TaskKept DEF IInv

\* The invariant has the types, and what the runs check.
LEMMA IInvImplies == IInv => TypeOK /\ OutcomeIsTrue /\ OnlyItsOwnInterrupt
  BY CommandInvIsTrue
     DEF IInv, CommandInv, InputInv, TaskInv, InputTypeOK, TaskTypeOK, TypeOK

\* A call gets to its execution by the policy, by --auto or by an answer.
LEMMA StepApproves ==
  ASSUME IInv, [Next]_vars, mode' = "execute", mode # "execute"
  PROVE  Approved(call')
  <1>1. CASE Dispatch
    <2>1. PICK c \in Calls : "execute" = AfterPolicy(c) /\ call' = c
      BY <1>1 DEF Dispatch
    <2>2. CASE c.tool = "run_command"
      BY <2>1, <2>2 DEF AfterPolicy, Decide, Mutating, AlwaysConfirm, Approved
    <2>3. CASE c.tool = "edit"
      BY <2>1, <2>3 DEF AfterPolicy, Mutating, AlwaysConfirm, Approved
    <2>4. CASE c.tool = "look"
      BY <2>1, <2>4 DEF Approved
    <2>5. CASE c.tool = "git_rollback"
      BY <2>1, <2>5 DEF AfterPolicy, Mutating, AlwaysConfirm
    <2> QED BY <2>2, <2>3, <2>4, <2>5 DEF Calls
  <1>2. CASE Confirm
    <2>1. TakeLine("confirm") /\ input[used'.line] = "yes" /\ call' = call
      BY <1>2 DEF Confirm
    <2>2. SaidYes
      BY <1>2, <2>1, LineTaken DEF Confirm, SaidYes
    <2>3. call \in Calls /\ ~(call.tool = "run_command" /\ call.deny)
      BY <1>2 DEF Confirm, IInv, TaskInv, TaskGoesOn
    <2> QED BY <2>1, <2>2, <2>3 DEF Approved, Calls
  <1>3. ~(UNCHANGED vars \/ UNCHANGED sessionVars)
    BY DEF vars, sessionVars
  <1> QED
    BY <1>1, <1>2, <1>3
       DEF Next, Main, ReadLine, ReadEOF, Drain, Watch, Send, Answer, NextStep, Execute,
           CommandReturns, TaskEnds, Type, Signal, Watcher, Quit

-----------------------------------------------------------------------------
(* The theorems *)

\* The inductive invariant of the session and of the command it runs.
THEOREM SessionInvariant == Spec => []IInv
  BY InitIInv, StepIInv, PTL DEF Spec

\* main.go, agent.go and process.go keep the types of what they share.
THEOREM SessionTypes == Spec => []TypeOK
  BY SessionInvariant, IInvImplies, PTL

(* process.Run and runArgv: whatever the shell leaves running and in whatever
   order the deadline, an interruption, the end of the shell and the copying of
   its output come, the result says what happened. *)
THEOREM OutcomesAreTrue == Spec => []OutcomeIsTrue
  BY SessionInvariant, IInvImplies, PTL

(* taskContext and the drain of the prompt: a task is never ended by a signal
   that came before it. *)
THEOREM InterruptsAreOwn == Spec => []OnlyItsOwnInterrupt
  BY SessionInvariant, IInvImplies, PTL

(* executeCall, the policy and Confirm: no call that changes something is
   executed without its approval, whatever lines were typed ahead. *)
THEOREM ApprovalIsNeeded == Spec => NothingUnapproved
  <1>1. IInv /\ [Next]_vars => [mode' = "execute" /\ mode # "execute" => Approved(call')]_vars
    BY StepApproves
  <1> QED BY <1>1, SessionInvariant, PTL DEF Spec, NothingUnapproved
=============================================================================
