---------------------------- MODULE Interactive ----------------------------
(***************************************************************************)
(* cmd/drea: the prompt, the tasks started from it and what interrupts     *)
(* them.  The user types and presses Ctrl-C when they like.  A task is     *)
(* Agent.Run seen from outside: requests, answers with batches of calls,   *)
(* the policy and the approval of each call, and commands, which run as in *)
(* ProcessRun.  What the model asks for is chosen when its call is         *)
(* dispatched.                                                             *)
(*                                                                         *)
(* Standard input has two readers, the one of the prompt and the one of    *)
(* the user interface, each with a buffer of its own.                      *)
(***************************************************************************)
EXTENDS ProcessRun, Sequences

CONSTANTS
  Setups,             \* AutoApprove, a task among the arguments, standard input is a pipe
  MaxTasks, MaxSteps, \* bounds: tasks of a session; Config.MaxSteps
  MaxCalls,           \* bound: calls in an answer
  MaxSignals,         \* bound: signals
  Lines               \* bound: what may be typed, a set of sequences of line kinds

ASSUME SessionAssumption ==
  /\ Setups \subseteq [auto : BOOLEAN, oneShot : BOOLEAN, piped : BOOLEAN]
  /\ {MaxTasks, MaxSteps, MaxCalls, MaxSignals} \subseteq Nat \ {0}
  /\ \A s \in Lines : s \in Seq({"task", "yes", "command", "exit"})

VARIABLES
  setup,      \* how drea was started
  mode,       \* where the main goroutine is
  input,      \* the lines of standard input from first to last
  typed,      \* how many of them the user has typed
  read,       \* how many of them left the kernel
  mainBuf, uiBuf, \* the lines read ahead by the two readers
  sig,        \* a signal waits in sigCh
  task,       \* the number of the task
  watcher,    \* the goroutine of each task's context
  cancelled,  \* whether that context is cancelled
  step, left, \* of Agent.Run: the turn, and the calls of it still to do
  call,       \* the call that waits for its approval or is executed
  result      \* how the last task ended

VARIABLES
  signals,    \* history: signals sent
  struck,     \* history: one came during this task
  stolen,     \* history: a watcher of an earlier task took it
  used        \* history: the last line that was used, and for what

sessionVars == <<setup, mode, input, typed, read, mainBuf, uiBuf, sig, task, watcher,
                 cancelled, step, left, call, result, signals, struck, stolen, used>>
inputVars == <<input, typed, read, mainBuf, uiBuf, used>>
signalVars == <<sig, watcher, cancelled, signals, struck, stolen>>
vars == <<processVars, sessionVars>>

Tasks == 1..MaxTasks
Calls == [tool : {"look", "edit", "git_rollback"}, deny : {FALSE}, allow : {"none"}]
         \cup [tool : {"run_command"}, deny : BOOLEAN, allow : {"none", "part", "whole"}]
NoCall == [tool |-> "none", deny |-> FALSE, allow |-> "none"]

Running == mode \in {"watch", "send", "stream", "dispatch", "confirm", "execute", "command"}
AtRest == mode \in {"prompt", "quit"}

TypeOK ==
  /\ ProcessTypeOK
  /\ setup \in Setups
  /\ Running \/ AtRest \/ mode = "drain"
  /\ input \in Lines /\ typed \in 0..Len(input) /\ read \in 0..typed
  /\ mainBuf \in Seq(1..read) /\ uiBuf \in Seq(1..read)
  /\ sig \in BOOLEAN /\ task \in 0..MaxTasks
  /\ watcher \in [Tasks -> {"none", "starting", "parked", "gone"}]
  /\ cancelled \in [Tasks -> BOOLEAN]
  /\ step \in 0..MaxSteps /\ left \in 0..MaxCalls /\ call \in Calls \cup {NoCall}
  /\ result \in {"none", "ok", "failed", "canceled"}
  /\ signals \in 0..MaxSignals /\ struck \in BOOLEAN /\ stolen \in BOOLEAN
  /\ used \in [line : 0..Len(input), reader : {"none", "prompt", "confirm"}]

\* A task among the arguments is run once, without the drain of the prompt.
Init ==
  /\ ProcessInit
  /\ setup \in Setups
  /\ mode = IF setup.oneShot THEN "watch" ELSE "prompt"
  /\ input \in Lines /\ typed = 0 /\ read = 0
  /\ mainBuf = <<>> /\ uiBuf = <<>>
  /\ sig = FALSE /\ task = IF setup.oneShot THEN 1 ELSE 0
  /\ watcher = [t \in Tasks |-> "none"] /\ cancelled = [t \in Tasks |-> FALSE]
  /\ step = 0 /\ left = 0 /\ call = NoCall /\ result = "none"
  /\ signals = 0 /\ struck = FALSE /\ stolen = FALSE
  /\ used = [line |-> 0, reader |-> "none"]

-----------------------------------------------------------------------------
(* Standard input *)

\* The user types a line, or the writer of a pipe sends one.
Type ==
  /\ typed < Len(input)
  /\ typed' = typed + 1
  /\ UNCHANGED <<processVars, setup, mode, input, read, mainBuf, uiBuf, signalVars,
                 task, step, left, call, result, used>>

\* A bufio.Reader takes a line of its buffer, or else reads what there is: one
\* line of a terminal, all of a pipe.
Taken(buf) == IF buf # <<>> THEN buf
              ELSE [k \in 1..(IF setup.piped THEN typed - read ELSE 1) |-> read + k]
HasLine(buf) == buf # <<>> \/ read < typed
AtEOF(buf) == buf = <<>> /\ read = Len(input)

TakeLine(reader) ==
  LET buf == IF reader = "prompt" THEN mainBuf ELSE uiBuf
      now == Taken(buf)
  IN /\ HasLine(buf)
     /\ used' = [line |-> Head(now), reader |-> reader]
     /\ read' = IF buf # <<>> THEN read ELSE read + Len(now)
     /\ IF reader = "prompt" THEN mainBuf' = Tail(now) /\ UNCHANGED uiBuf
                             ELSE uiBuf' = Tail(now) /\ UNCHANGED mainBuf
     /\ UNCHANGED <<input, typed>>

-----------------------------------------------------------------------------
(* The prompt *)

ReadLine ==
  /\ mode = "prompt"
  /\ TakeLine("prompt")
  /\ mode' = CASE input[used'.line] = "exit"    -> "quit"
               [] input[used'.line] = "command" -> "prompt"
               [] OTHER -> IF task < MaxTasks THEN "drain" ELSE "quit"
  /\ UNCHANGED <<processVars, setup, signalVars, task, step, left, call, result>>

ReadEOF ==
  /\ mode = "prompt" /\ AtEOF(mainBuf)
  /\ mode' = "quit"
  /\ UNCHANGED <<processVars, setup, inputVars, signalVars, task, step, left, call, result>>

\* A variant that keeps what came at the prompt.
DrainNothing ==
  /\ mode = "drain"
  /\ mode' = "watch"
  /\ task' = task + 1
  /\ struck' = FALSE /\ stolen' = FALSE
  /\ result' = "none"
  /\ UNCHANGED <<processVars, setup, inputVars, sig, watcher, cancelled, signals, step, left, call>>

Drain ==
  /\ mode = "drain"
  /\ mode' = "watch"
  /\ sig' = FALSE
  /\ task' = task + 1
  /\ struck' = FALSE /\ stolen' = FALSE
  /\ result' = "none"
  /\ UNCHANGED <<processVars, setup, inputVars, watcher, cancelled, signals, step, left, call>>

\* taskContext
Watch ==
  /\ mode = "watch"
  /\ mode' = "send"
  /\ watcher' = [watcher EXCEPT ![task] = "starting"]
  /\ step' = 0 /\ left' = 0 /\ call' = NoCall
  /\ UNCHANGED <<processVars, setup, inputVars, sig, cancelled, signals, struck, stolen, task, result>>

\* Run returns and main calls cancel, which ends a watcher that waits.
TaskEnds(how) ==
  /\ mode' = IF setup.oneShot THEN "quit" ELSE "prompt"
  /\ result' = how
  /\ cancelled' = [cancelled EXCEPT ![task] = TRUE]
  /\ watcher' = [watcher EXCEPT ![task] = IF @ = "parked" THEN "gone" ELSE @]
  /\ UNCHANGED <<processVars, setup, inputVars, sig, signals, struck, stolen, task, step, left, call>>

-----------------------------------------------------------------------------
(* Signals: one waits in the channel, a watcher that waits takes it at once,
   and another is dropped. *)

\* The context of task t is cancelled, and with it that of its command.
Cancel(t) ==
  /\ cancelled' = [cancelled EXCEPT ![t] = TRUE]
  /\ ctx' = IF t = task /\ run = "select" /\ ctx = "live" THEN "canceled" ELSE ctx
  /\ UNCHANGED <<platform, run, alive, writers, status, pipe, kept, cut, done, outcome, written>>

Signal ==
  /\ signals < MaxSignals /\ mode # "quit"
  /\ signals' = signals + 1
  /\ struck' = (struck \/ Running)
  /\ \/ \E t \in Tasks :
          /\ watcher[t] = "parked"
          /\ watcher' = [watcher EXCEPT ![t] = "gone"]
          /\ Cancel(t)
          /\ UNCHANGED sig
     \/ /\ \A t \in Tasks : watcher[t] # "parked"
        /\ sig' = TRUE
        /\ UNCHANGED <<processVars, watcher, cancelled>>
  /\ UNCHANGED <<setup, mode, inputVars, task, step, left, call, result, stolen>>

\* The select of taskContext's goroutine; of two ready cases either is taken,
\* so the watcher of a task that ended may take the signal of the next.
Watcher(t) ==
  /\ watcher[t] = "starting"
  /\ \/ /\ sig /\ sig' = FALSE
        /\ watcher' = [watcher EXCEPT ![t] = "gone"]
        /\ stolen' = (stolen \/ (t # task /\ struck))
        /\ Cancel(t)
     \/ /\ cancelled[t]
        /\ watcher' = [watcher EXCEPT ![t] = "gone"]
        /\ UNCHANGED <<processVars, sig, cancelled, stolen>>
     \/ /\ ~sig /\ ~cancelled[t]
        /\ watcher' = [watcher EXCEPT ![t] = "parked"]
        /\ UNCHANGED <<processVars, sig, cancelled, stolen>>
  /\ UNCHANGED <<setup, mode, inputVars, task, step, left, call, result, signals, struck>>

-----------------------------------------------------------------------------
(* A task *)

\* A request on a cancelled context is not sent; one that is under way ends.
Send ==
  /\ mode = "send"
  /\ IF cancelled[task] THEN TaskEnds("canceled")
     ELSE /\ mode' = "stream"
          /\ UNCHANGED <<processVars, setup, inputVars, signalVars, task, step, left, call, result>>

Answer ==
  /\ mode = "stream"
  /\ \/ \E n \in 1..MaxCalls :
          /\ left' = n /\ step' = step + 1
          /\ mode' = "dispatch"
          /\ UNCHANGED <<processVars, setup, inputVars, signalVars, task, call, result>>
     \/ TaskEnds("ok")
     \/ ~cancelled[task] /\ TaskEnds("failed")
     \/ cancelled[task] /\ TaskEnds("canceled")

\* Policy.Decide: a pattern of the deny list may match anywhere, one of the
\* allow list has to match all of the command.
DecideByPrefix(c) == IF c.deny THEN "deny" ELSE IF c.allow # "none" THEN "allow" ELSE "ask" \* a variant
Decide(c) == IF c.deny THEN "deny" ELSE IF c.allow = "whole" THEN "allow" ELSE "ask"

Mutating(c) == c.tool \in {"edit", "run_command"}
AlwaysConfirm(c) == c.tool = "git_rollback"

AfterPolicy(c) ==
  LET decision == IF c.tool = "run_command" THEN Decide(c) ELSE "ask"
      approval == (Mutating(c) /\ ~setup.auto) \/ AlwaysConfirm(c)
  IN CASE decision = "deny"                -> "dispatch"
       [] decision = "ask" /\ approval     -> "confirm"
       [] OTHER                            -> "execute"

Dispatch ==
  /\ mode = "dispatch" /\ left > 0
  /\ left' = left - 1
  /\ \E c \in Calls :
       /\ mode' = AfterPolicy(c)
       /\ call' = IF mode' = "dispatch" THEN NoCall ELSE c
  /\ UNCHANGED <<processVars, setup, inputVars, signalVars, task, step, result>>

\* The batch is done.
NextStep ==
  /\ mode = "dispatch" /\ left = 0
  /\ IF step = MaxSteps THEN TaskEnds("ok")
     ELSE /\ mode' = "send"
          /\ UNCHANGED <<processVars, setup, inputVars, signalVars, task, step, left, call, result>>

\* Confirm waits for a line whatever happens to the context of the task.
Confirm ==
  /\ mode = "confirm"
  /\ \/ /\ TakeLine("confirm")
        /\ IF input[used'.line] = "yes"
           THEN mode' = "execute" /\ UNCHANGED call
           ELSE mode' = "dispatch" /\ call' = NoCall
     \/ /\ AtEOF(uiBuf)
        /\ mode' = "dispatch" /\ call' = NoCall
        /\ UNCHANGED inputVars
  /\ UNCHANGED <<processVars, setup, signalVars, task, step, left, result>>

\* Tools other than run_command do not look at the context before they act.
Execute ==
  /\ mode = "execute"
  /\ IF call.tool = "run_command"
     THEN mode' = "command" /\ (RunStart(cancelled[task]) \/ RunStartFails)
     ELSE mode' = "dispatch" /\ UNCHANGED processVars
  /\ call' = NoCall
  /\ UNCHANGED <<setup, inputVars, signalVars, task, step, left, result>>

\* What a command left running is not followed any further.
CommandReturns ==
  /\ mode = "command" /\ run = "returned"
  /\ mode' = "dispatch"
  /\ run' = "idle" /\ ctx' = "live"
  /\ alive' = {} /\ writers' = {} /\ status' = "none"
  /\ pipe' = 0 /\ kept' = 0 /\ cut' = FALSE
  /\ done' = "empty" /\ outcome' = NoOutcome /\ written' = 0
  /\ UNCHANGED <<platform, setup, inputVars, signalVars, task, step, left, call, result>>

-----------------------------------------------------------------------------
Main ==
  \/ ReadLine \/ ReadEOF \/ Drain \/ Watch
  \/ Send \/ Answer \/ Dispatch \/ NextStep \/ Confirm \/ Execute \/ CommandReturns

Quit == mode = "quit" /\ UNCHANGED vars

Next ==
  \/ Main \/ Type \/ Signal \/ Quit
  \/ \E t \in Tasks : Watcher(t)
  \/ (RunSteps \/ GoroutineSteps \/ ProcessSteps) /\ UNCHANGED sessionVars

\* The goroutines of drea run on, and a request comes to its end (RequestReturns of
\* Stream).  Nothing is assumed of the user, of signals and of the processes.
Fairness ==
  /\ WF_vars(Main)
  /\ \A t \in Tasks : WF_vars(Watcher(t))
  /\ WF_vars(RunSteps /\ UNCHANGED sessionVars)
  /\ WF_vars(WaitReturns /\ UNCHANGED sessionVars)
  /\ WF_vars(Copy /\ UNCHANGED sessionVars)

Spec == Init /\ [][Next]_vars /\ Fairness

-----------------------------------------------------------------------------
(* A task is reported as interrupted only if a signal came while it ran: not
   because of one that was pressed at the prompt or during an earlier task,
   and not when the task's own end cancelled the context. *)
OnlyItsOwnInterrupt == result = "canceled" => struck

(* A call that changes something is executed only under --auto, when the whole
   command is on the allow list, or on a line "yes" that the question itself
   took, and the line after all those used before it when a terminal is read;
   git_rollback always takes such a line, and what the deny list matches is
   never executed. *)
SaidYes ==
  /\ used'.reader = "confirm" /\ used' # used
  /\ input[used'.line] = "yes"
  /\ ~setup.piped => used'.line = used.line + 1

Approved(c) ==
  /\ c.tool = "run_command" => ~c.deny
  /\ \/ c.tool = "look"
     \/ c.tool = "git_rollback" /\ SaidYes
     \/ c.tool = "edit" /\ (setup.auto \/ SaidYes)
     \/ c.tool = "run_command" /\ (setup.auto \/ c.allow = "whole" \/ SaidYes)

NothingUnapproved == [][mode' = "execute" /\ mode # "execute" => Approved(call')]_vars

(* A signal that comes while a task runs ends the task, unless the watcher of an
   earlier task took it, the task waits for an answer of the user for good, or
   a daemon the command left keeps the pipe of its output open for good. *)
Held == platform = "linux" /\ run = "reap" /\ "daemon" \in writers
InterruptEndsTask ==
  \/ <>[](mode = "confirm" \/ Held)
  \/ [](struck /\ Running => <>(AtRest \/ stolen))
=============================================================================
