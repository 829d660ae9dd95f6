----------------------------- MODULE ProcessRun -----------------------------
(***************************************************************************)
(* internal/process: one command, from Start to the result that runArgv    *)
(* turns into an exit code.  The operating system is external: the shell   *)
(* may leave a job in its process group and a daemon outside of it, each   *)
(* with or without the write end of the output pipe.  Output is counted,   *)
(* not spelled out.                                                        *)
(*                                                                         *)
(* The module has no Next of its own: Interactive runs it for each command *)
(* a task executes and owns the context that commands are given.           *)
(***************************************************************************)
EXTENDS Integers, FiniteSets

CONSTANTS
  Platforms,   \* a subset of {"linux", "other"}
  OutputLimit, \* capWriter.limit
  MaxWritten,  \* bound: what a command writes
  MaxForks     \* bound: what the shell leaves running

ASSUME ProcessAssumption ==
  /\ Platforms \subseteq {"linux", "other"}
  /\ {OutputLimit, MaxWritten, MaxForks} \subseteq Nat

VARIABLES
  platform,
  run,        \* the statement Run executes next
  ctx,        \* cctx.Err()
  alive,      \* the processes of the command
  writers,    \* those that hold the write end of the pipe
  status,     \* how the shell ended
  pipe,       \* what was written and not copied yet
  kept, cut,  \* capWriter: how much it holds, truncated
  done,       \* the channel Wait's result is sent on
  outcome     \* the Result, as far as it is known

VARIABLE written \* history: how much the command wrote

processVars == <<platform, run, ctx, alive, writers, status, pipe, kept, cut, done, outcome, written>>

Group == {"shell", "job"}       \* Setpgid: the group of the shell
Helpers == {"job", "daemon"}    \* a daemon called setsid
NoOutcome == [started |-> FALSE, err |-> "none", kept |-> 0, truncated |-> FALSE]

ProcessTypeOK ==
  /\ platform \in Platforms
  /\ run \in {"idle", "select", "reap", "output", "truncated", "returned"}
  /\ ctx \in {"live", "deadline", "canceled"}
  /\ alive \subseteq Group \cup Helpers /\ writers \subseteq alive
  /\ status \in {"none", "zero", "nonzero", "signal"}
  /\ pipe \in 0..MaxWritten /\ kept \in 0..OutputLimit /\ cut \in BOOLEAN
  /\ done \in {"empty", "sent", "taken"}
  /\ outcome \in [started : BOOLEAN, err : {"none", "exit", "deadline", "canceled", "start"},
                  kept : 0..OutputLimit, truncated : BOOLEAN]
  /\ written \in 0..MaxWritten

ProcessInit ==
  /\ platform \in Platforms
  /\ run = "idle" /\ ctx = "live"
  /\ alive = {} /\ writers = {} /\ status = "none"
  /\ pipe = 0 /\ kept = 0 /\ cut = FALSE
  /\ done = "empty" /\ outcome = NoOutcome /\ written = 0

-----------------------------------------------------------------------------
(* Run *)

\* A command that is given a cancelled context is started all the same.
RunStart(cancelled) ==
  /\ run = "idle"
  /\ run' = "select"
  /\ ctx' = IF cancelled THEN "canceled" ELSE "live"
  /\ alive' = {"shell"} /\ writers' = {"shell"} /\ status' = "none"
  /\ pipe' = 0 /\ kept' = 0 /\ cut' = FALSE
  /\ done' = "empty" /\ written' = 0
  /\ outcome' = [NoOutcome EXCEPT !.started = TRUE]
  /\ UNCHANGED platform

RunStartFails ==
  /\ run = "idle"
  /\ run' = "returned"
  /\ outcome' = [NoOutcome EXCEPT !.err = "start"]
  /\ UNCHANGED <<platform, ctx, alive, writers, status, pipe, kept, cut, done, written>>

\* When both cases of the select are ready, either is taken.
TakeDone ==
  /\ run = "select" /\ done = "sent"
  /\ run' = "output" /\ done' = "taken"
  /\ outcome' = [outcome EXCEPT !.err = IF status = "zero" THEN "none" ELSE "exit"]
  /\ UNCHANGED <<platform, ctx, alive, writers, status, pipe, kept, cut, written>>

KilledShellOnly == {"shell"} \* a variant without the process group

\* What killTree kills: the group on Linux, the shell elsewhere.
Killed == IF platform = "linux" THEN Group ELSE {"shell"}

TakeCtx ==
  /\ run = "select" /\ ctx # "live"
  /\ run' = "reap"
  /\ alive' = alive \ Killed /\ writers' = writers \ Killed
  /\ status' = IF "shell" \in alive THEN "signal" ELSE status
  /\ outcome' = [outcome EXCEPT !.err = ctx]
  /\ UNCHANGED <<platform, ctx, pipe, kept, cut, done, written>>

\* waitAfterKill: Linux waits for Wait, elsewhere for 5 seconds at most.
Reap ==
  /\ run = "reap"
  /\ \/ done = "sent" /\ done' = "taken"
     \/ platform = "other" /\ UNCHANGED done
  /\ run' = "output"
  /\ UNCHANGED <<platform, ctx, alive, writers, status, pipe, kept, cut, outcome, written>>

\* The two fields of the sink are read under its mutex, one after the other.
ReadOutput ==
  /\ run = "output"
  /\ run' = "truncated"
  /\ outcome' = [outcome EXCEPT !.kept = kept]
  /\ UNCHANGED <<platform, ctx, alive, writers, status, pipe, kept, cut, done, written>>

ReadTruncated ==
  /\ run = "truncated"
  /\ run' = "returned"
  /\ outcome' = [outcome EXCEPT !.truncated = cut]
  /\ UNCHANGED <<platform, ctx, alive, writers, status, pipe, kept, cut, done, written>>

\* The exit code runArgv reports, -1 when there is none.
ExitCode ==
  CASE outcome.err = "none" -> 0
    [] outcome.err = "exit" -> IF status = "signal" THEN -1 ELSE 1
    [] OTHER                -> -1

TimedOut == outcome.err = "deadline"

RunSteps == TakeDone \/ TakeCtx \/ Reap \/ ReadOutput \/ ReadTruncated

-----------------------------------------------------------------------------
(* The context, the goroutine that waits, and the one that copies *)

Deadline ==
  /\ run = "select" /\ ctx = "live"
  /\ ctx' = "deadline"
  /\ UNCHANGED <<platform, run, alive, writers, status, pipe, kept, cut, done, outcome, written>>

\* Wait returns when the shell has ended and the pipe is at its end, which takes
\* every process that holds it.
WaitReturns ==
  /\ done = "empty" /\ run # "idle" /\ outcome.started
  /\ "shell" \notin alive /\ writers = {} /\ pipe = 0
  /\ done' = "sent"
  /\ UNCHANGED <<platform, run, ctx, alive, writers, status, pipe, kept, cut, outcome, written>>

Least(a, b) == IF a <= b THEN a ELSE b

\* A variant without the limit.
CopyAll ==
  /\ pipe > 0
  /\ \E n \in 1..pipe : pipe' = pipe - n /\ kept' = kept + n
  /\ UNCHANGED <<platform, run, ctx, alive, writers, status, cut, done, outcome, written>>

\* A variant that notices only what a full buffer refuses.
CopyUnnoticed ==
  /\ pipe > 0
  /\ \E n \in 1..pipe :
       /\ pipe' = pipe - n
       /\ kept' = kept + Least(n, OutputLimit - kept)
       /\ cut' = (cut \/ kept = OutputLimit)
  /\ UNCHANGED <<platform, run, ctx, alive, writers, status, done, outcome, written>>

\* One read from the pipe, and capWriter.Write.
Copy ==
  /\ pipe > 0
  /\ \E n \in 1..pipe :
       /\ pipe' = pipe - n
       /\ kept' = kept + Least(n, OutputLimit - kept)
       /\ cut' = (cut \/ n > OutputLimit - kept)
  /\ UNCHANGED <<platform, run, ctx, alive, writers, status, done, outcome, written>>

GoroutineSteps == WaitReturns \/ Copy

-----------------------------------------------------------------------------
(* The processes *)

\* The shell leaves something running, with its output or redirected.
Fork(p) ==
  /\ "shell" \in alive /\ p \notin alive
  /\ Cardinality(alive \cap Helpers) < MaxForks
  /\ alive' = alive \cup {p}
  /\ writers' \in {writers, writers \cup {p}}
  /\ UNCHANGED <<platform, run, ctx, status, pipe, kept, cut, done, outcome, written>>

Write ==
  /\ writers # {}
  /\ \E n \in 1..(MaxWritten - written) : pipe' = pipe + n /\ written' = written + n
  /\ UNCHANGED <<platform, run, ctx, alive, writers, status, kept, cut, done, outcome>>

Exit(p) ==
  /\ p \in alive
  /\ alive' = alive \ {p} /\ writers' = writers \ {p}
  /\ IF p = "shell" THEN status' \in {"zero", "nonzero"} ELSE UNCHANGED status
  /\ UNCHANGED <<platform, run, ctx, pipe, kept, cut, done, outcome, written>>

ProcessSteps ==
  \/ Deadline \/ Write
  \/ \E p \in Helpers : Fork(p)
  \/ \E p \in Group \cup Helpers : Exit(p)

-----------------------------------------------------------------------------
(* What a returned command says is what happened: exit code 0 means that the
   shell ended by itself with 0, a timeout that the deadline passed; on Linux,
   and elsewhere unless the wait for a killed command was given up, the output
   is what the command wrote up to the limit and is marked when more was
   written; and a killed command leaves no process of its group on Linux. *)
OutcomeIsTrue ==
  run = "returned" /\ outcome.started =>
    /\ ExitCode = 0 => status = "zero"
    /\ TimedOut => ctx = "deadline"
    /\ done = "taken" => /\ outcome.kept = Least(written, OutputLimit)
                         /\ outcome.truncated <=> written > OutputLimit
    /\ platform = "linux" => /\ done = "taken"
                             /\ outcome.err \in {"deadline", "canceled"} => alive \cap Group = {}
=============================================================================
