# A verification project for drea

TLA+ models of drea's core, the TLC runs that check them on small instances and
TLAPS proofs of their safety properties for instances of any size. Paths below are
relative to the repository.

- [The system](#the-system)
- [The modules](#the-modules)
- [The runs](#the-runs)
- [Fairness](#fairness)
- [What is proved](#what-is-proved)
- [Where code and documentation disagree](#where-code-and-documentation-disagree)
- [What is not modelled](#what-is-not-modelled)
- [Plan](#plan)
- [Running it](#running-it)

## The system

drea is a command-line coding agent. A user gives an instruction; the program
streams answers from an OpenAI-compatible endpoint, runs the tool calls they
contain after approval, feeds the results back, and stops when the model gives a
final answer, a limit is reached or the user interrupts.

| Component | Source | State it keeps | Operations | What makes it correct |
|---|---|---|---|---|
| Conversation loop | `internal/agent` `agent.go`, `compact.go`, `stall.go`, `fallback.go` | transcript, step, verification rounds, stall detector | `Run`, `Reset`, `Restore`, `maybeCompact`, `observe`, `persist` | every request carries a well-formed transcript; tasks end; a repeated call is stopped; a saved transcript can be resumed |
| Goal | `internal/agent/verify.go`, `internal/vcs` | checkpoint, baseline, objective | `beginTask`, `verify`, `offerRollback`; `Checkpoint`, `Rollback`, `Restore` | only a regression is rolled back, and it is kept on a branch |
| Isolated attempts | `cmd/drea/worktree.go`, `internal/vcs` | worktree, branch, base | `enterWorktree`, `finishWorktree`, `promote`; `MergeFFOnly`, `Changed`, `Remove` | nothing is lost; only verified work is merged |
| Git tools | `internal/tool/git.go` | none | `git_commit`, `git_rollback`, ... | their commits do not escape the two above |
| Session store | `internal/session` | one file per workspace | `Save`, `Load` | saves are atomic between processes and across crashes |
| Settings, key | `internal/settings` | two files | `Save`, `Load`, `SaveKey`, `LoadKey` | the same |
| File edits | `internal/tool` `fs.go`, `patch.go`, `securefs_*.go` | none between calls | `write_file`, `edit_file`, `apply_patch` | no version the user saved is lost unread; no debris |
| Chat client | `internal/llm` | debug log and its mutex | `Stream`, `attempt`, `consume`, `teeReader` | shown once and recorded; a failure is an error; requests return |
| Prompt and interrupts | `cmd/drea/main.go` | signal channel, two readers of standard input | `interactive`, `readInput`, `taskContext` | Ctrl-C ends the task in progress and no other; a line typed for one purpose does not serve another |
| Patch engine | `internal/patch` | none | `Apply` | edits land at the one place they match, or fail |
| Command policy | `internal/policy` | compiled patterns | `Decide` | nothing runs unapproved; deny wins |
| Process runner | `internal/process`, `internal/tool/shell.go` | process group, output buffer | `Run` | returns on exit, timeout and interrupt; reports what happened |
| Configuration | `internal/config`, `cmd/drea/saved.go`, `cmd/drea/main.go` | settings of a run, copied by the client and the agent | `Defaults`, `Normalize`, `command` | what is shown is in force, acceptable, and comes back after `/save` |
| Evaluation | `internal/eval`, `cmd/drea/eval.go` | list of results | `runOne` | scores by the command alone |
| Terminal output | `internal/ui`, `internal/agent/live.go` | line state, bar, indicator, live views | `StartThinking`, `ShowStatus`, `Update`, `Confirm`, ... | nothing that was said is erased; no indicator stays |
| Diff | `internal/diff` | none | `Lines`, `UnifiedLines` | the diff that is approved is the change that is made |
| Search, prompt, conventions | `internal/tool/search.go`, `internal/agent/prompt.go`, `internal/conventions` | none | pure | text |

How they interact. `main.run` builds the client, the tools and one agent, enters
a worktree before that if asked to, and calls `Agent.Run` for each instruction.
`Run` calls the client synchronously; the client calls back with text and
arguments as they arrive. `Run` calls tools one after another; edits go to the
file system the user's editor uses as well, git tools to the repository the
goal's checkpoints use as well. After each turn the transcript goes to the
session store, which other drea processes share. An interrupt cancels the
context that requests and commands were given. When `run` returns, the worktree
is finished with the agent's last objective. The slash commands change the
configuration between tasks, in the copies of the client and the agent as well.
Everything any of them prints goes through one `UI`, on which the goroutine of
the thinking indicator draws too.

The hard parts: the user's editor and git work at the same time as the program;
a crash may fall between any two steps; the loop has five ways to continue and
must still end; a rollback is five commands that can each fail; the client's
debug log adds a goroutine, a pipe and a mutex to each response; and several
decisions (a promotion, a rollback, a preview, the identity of a file) rest on
something read earlier. `PROJECT.json` lists these hazards at their lines.

## The modules

### AgentLoop (`internal/agent`)

`mode` is the statement `Run` executes next, the other variables are the fields
of `Agent` and the locals of one iteration (`batch` is `res.ToolCalls`, `at` the
index of the two loops over it, `nudge` and `abort` what `observe` returned).
`disk` is the saved transcript. A message is its role, its calls and a tag for
its text; a completion is a record of native calls, calls printed as text, and
text, from which `RealCalls` and `RealText` compute what is dispatched and
recorded, as lines 194-245 of `agent.go` do.

One action per step that the loop can be interrupted at: `Submit` (prologue),
`StepLimit`, `SkipCompaction`/`Compact`, `StreamFails`, the four kinds of
`Answer...`, `VerifyRetry`/`VerifyDone`, `Observe` (one iteration), `Dispatch`
(one call), the three kinds of `Settle...`, `Reset`, `Restore`, `Crash`,
`Restart`. `Saved` has both outcomes of a save everywhere, since `persist`
ignores the error. Whether a prompt is over its budget is a free choice, so
every pattern of compactions is covered.

### TaskGoal (`verify.go`, `vcs.go`, `worktree.go`, `git.go`)

A tree is the set of changes it holds over the initial tree; commits are a
sequence of trees with the commits they reach. Git is external: each command has
the effect git documents or fails. The steps of `beginTask`, `verify`,
`offerRollback`, `vcs.Rollback`, `finishWorktree`, `promote` and
`Worktree.Remove` are actions in the order of the code, with `RollbackFails`,
`CheckpointFails`, `PromoteFails`, `RemoveFails` and `CheckChangedFails` for
their error paths, and `ResolveFails` for the `rev-parse` whose failure
`vcs.Rollback` passes over (`unresolved` is the history of it, `measured` of the
tree that was verified last). During a task the model edits, commits some or all paths and
rolls back with the git tools (`Edit`, `ToolCommit`, `ToolRollback`); the user
edits and commits in the main checkout at any moment of an isolated session.
Only files git has never seen survive a reset (`Untracked`); ignored files and a
staged but uncommitted index are left out.

### AtomicStore and FileStore (`session.go`, `settings.go`)

`AtomicStore` is the promise: a save replaces the value at one instant or not at
all, a load returns the value of one instant, the death of a process changes
nothing and a loss of power leaves one of the values saved since the last write
back. `FileStore` has names, inodes, the writes, the flush, the rename and the
mode repair of `writePrivate`, the open and the reads of `Load`, failures of any
step, deaths and losses of power. `IsAtomic` is the refinement: `stored` is the
data of the inode the name leads to, `lasting` the data of those it may lead to
after a loss of power, and what a reader with an open file has "seen" is already
the data of its inode.

### FileEdit (`dispatch`, `fs.go`, `patch.go`, `securefs_*.go`)

One tool call: `Preview`, `Approve`/`Deny`, `Read`, then on Linux `WriteTemp`,
`PublishNew` or `Exchange`, `Compare`, `Unlink`, `Fsync`, with the deferred
`SwapBack`; elsewhere `Check` and `Rename`. A call is a function from the text
there is to the text it wants, so `write_file` (constant) and an edit (partial)
differ as in the code. The user saves by replacing the file, by rewriting it in
place or by deleting it, at any step. The file system gives out inodes no name leads
to, also those that were in use before (`Issue`); `reissued` records whether the one
the call had looked at was among them, and `acts` how and when the user saved.

### Stream (`client.go`, `types.go`)

`mode` is the step of `StreamWithOptions`; `content`, `toolCalls` and `native`
are `res.Content`, `res.ToolCalls` and the accumulator. A body arrives in chunks
of frames; a frame is a piece of content, a native call, `[DONE]` or something
ignored. Without a debug log `consume` reads the body; with one it reads the
pipe that the goroutine of `teeReader` (`TeeStart` ... `TeeClose`) fills while it
holds `debugMu` (`lock`). A pipe write returns when its reader has taken the
chunk, so `ReadPipe` is the step of both. Which contents parse as calls is the
constant `Serialized`.

### ProcessRun and Interactive (`process`, `shell.go`, `main.go`, `policy.go`, `dispatch`)

`ProcessRun` is one command: `run` is the statement of `process.Run`, `done` its
channel, `ctx` the context with the timeout, `pipe`, `kept` and `cut` the output
on its way into `capWriter`. The shell, children of its group and a daemon that
left the group fork, write and exit when they like; `Killed` is the kill of the
group on Linux and of the shell alone elsewhere. `written` is history.

`Interactive` extends it to a session. Standard input is a sequence of lines of
which the user has typed some; the prompt and the question each read it through
a buffer of their own, line by line from a terminal and in blocks from a pipe.
Each task has a context and a `watcher` goroutine that takes the signal from
`sigCh` (a buffer of one). `Agent.Run` is reduced to requests, answers with some
calls, the policy and the approval of each call, and its execution.

### PatchEngine, LineDiff and EditText (`patch.go`, `diff.go`, `prospectiveDiff`)

`PatchEngine` is the engine as operators: recursive functions where the code searches
from left to right, ranks where it walks places in order. `LineDiff` is the diff as a
machine whose steps are the turns of the loops of `Lines` and `UnifiedLines`: the
table of the longest common subsequence, entry by entry from its end (`FillEntry`,
`NextRow`), the walk through it (`KeepLine`, `RemoveLine`, `AddLine`), the rendering
(`Render`). `EditText` composes them: it previews a patch or a write with that machine,
applies the edits one after another as `patch.Apply` does and finishes as the tool
does. The reference definitions at the end of the modules are not built from the
algorithms: `Occurrences`, `IsLeftmost` and `Similar`, `Spells` and `Matchings`.

### Screen and Terminal (`ui.go`, `live.go`, the output of `Run`)

A row of a `Screen` is a sequence of marks, one per piece of output; what is erased
is the last row or the rows of a live view. Each operation of `UI` under its mutex
is an operator on screens, with `lineStart` and `statusShown` as in the code; `said`
collects what was meant to stay and the place where it was written. `Terminal`
composes them: the agent's output step by step, the goroutine of the indicator
(`Draw`, `Select`, `Clear`) with its stop and done channels, and the three parts of
`StopThinking` (`StopThinking`, `Await`, `Reset`), between which the indicator goes on.
Only the agent starts and stops it, here as in the program. Of a response the model
takes text before calls and one call at a time, which is how endpoints stream them.

### Commands (`config.go`, `saved.go`, `settings.go`, `main.go`, `worktree.go`)

`Defaults`, `WithFlags` and the two halves of `Normalize` (`Canonical`, what it
rewrites; `Acceptable`, what it accepts) make the `Config` of a start, twice in a
worktree. The commands change it and the copies of it in `client` and `agent`;
`HostRefused` and `KeyRefused` are the inputs that `Normalize` refuses. `AgentReads` are
the fields the agent reads of its copy: those it works by, and the model, which
`persist` writes into a transcript and which `/model` does not change. `Save` and
`SaveKey` write the two files, and a start at any later time reads them.

### Proof modules

`AgentLoopProofs`, `TaskGoalProofs`, `FileEditProofs`, `StreamProofs`, `EditTextProofs`
and `TerminalProofs` extend the module they are named after, `SessionProofs` extends
`Interactive` and with it `ProcessRun`, `SettingsProofs` extends `Commands` and
`FileStore`, which model what `internal/settings` is used for and how it writes. Each
states its inductive invariant first (`IInv`; in `AgentLoopProofs` one per
question), then lemmas about the operators, one lemma per action or group of
actions, and the theorems at the end.

## The runs

Nine runs pass.

- **agent_loop** checks the loop with seven answers: one call, native or printed
  as text next to a blank reply; a batch that repeats a call, holds a reply and
  then another call; replies; prose; nothing. `MaxSteps` 3 with the limits of the
  stall detector at 2 and 3 lets a task be warned and stopped across turns and
  inside one batch; `KeepRecent` 3 is less than the length of the longest turn,
  so the cut of a compaction falls inside a turn; two tasks show what a task
  inherits; one fault is a crash at any step or a failed save.
- **task_goal** has one change to a file and one new file; the verification
  command passes with both or neither, so an attempt can regress and recover.
  Two tasks of two edits and two rounds in three configurations (checkpoints
  with confirmation in place; checkpoints under `--auto` in a worktree; a
  worktree without checkpoints), one failing command and one edit and commit by
  the user. Two changes are enough to tell a tree from its parts, tracked from
  untracked and the user's from the agent's.
- **file_store** has two writers, one reader, two values, four saves, two faults
  and five inodes: the most that are in use at once. Writers, values and inodes
  are symmetric.
- **file_edit** has three texts, an edit that applies to two of them and a
  `write_file`, both platforms, two saves by the user and one failure. Inodes
  are symmetric and may be given out again; four are one more than the file, its
  temporary file and a version of the user need, so that a save may take an inode
  that was in use before or another one.
- **stream** has two requests of at most two attempts and three chunks, in both
  modes, with and without a log, and one interrupt. Two requests are needed for
  one to wait for the other's goroutine; three chunks for content, `[DONE]` and
  a chunk after it.
- **session** has a task among the arguments under `--auto`, a terminal and a
  pipe; two tasks of two turns with one call each, two signals, one fork per
  command and output of one more than the limit. Two tasks and two signals are
  what it takes for one to be meant for the other task.
- **edit_text** applies every edit of up to three characters, with and without
  `replace_all`, and pairs of edits, to every text of up to three and some of four
  characters over two letters, a space and a newline, and diffs every pair of
  texts of up to five letters and newlines; that is enough for overlapping matches,
  missing last newlines and diffs that are cut off or too large.
- **terminal** has two turns with a call each, three events of a response, tails
  of two rows, a bar that fills its row or not, and two starts of the indicator:
  the goroutine of the first must have ended when the second is started.
- **commands** has four hosts (two schemes, one that is refused, one with a
  trailing slash), one key, three environments, ten command lines and four files
  of settings, of which some are refused. Nothing in it counts, so every sequence
  of commands, saves and starts over these values is covered.

What the properties say is written above each of them. Bounds that belong to the
instance and not to the code (`MaxTasks`, `MaxFaults`, `MaxEdits`, `MaxUser`,
`MaxOps`, `MaxCalls`, `MaxChunks`, `MaxRequests`, `MaxInterrupts`, `MaxSignals`,
`MaxForks`, `MaxWritten`, `MaxStarts`, `MaxTurns`, `MaxEvents`, `MaxTail`) are
guards of the actions they bound. `CHECK_DEADLOCK FALSE` is set in the first five
because the models stop when their bounds are used up; that a task or a request
does not get stuck is what `TaskEnds` and `RequestReturns` say. The other four
are checked for deadlock.

Three runs find a violation of a statement of the documentation; they are listed
[below](#where-code-and-documentation-disagree).

## Fairness

- `AgentLoop!FairSpec`: weak fairness of the steps of a task in progress as a
  whole. The loop is one goroutine; requests and commands carry timeouts, and a
  prompt for approval is assumed to be answered. No fairness on which answer the
  model gives.
- `Stream!FairSpec`: weak fairness of the client and of the copying goroutine,
  each as a whole: the scheduler runs a goroutine that can run, timers fire, and
  `http.Client.Timeout` ends every wait for a response and for its body. Nothing
  is assumed about retries succeeding.

- `Interactive!Spec`: weak fairness of the main goroutine, of each watcher, of
  `process.Run`, of the goroutine that waits for the command and of the one that
  copies its output, each by itself. A goroutine that can run runs; requests
  end (`RequestReturns` of `Stream`). Nothing is assumed of the user, of signals
  and of the processes a command starts: `InterruptEndsTask` names the ways in
  which they can hold a task for good (a question nobody answers, a daemon that
  keeps the output open).

The other specifications state safety only.

## What is proved

Every invariant and every action property of a passing run is a theorem of its
specification for every value of the constants; so is the refinement of the store. Of the constants the proofs use only the assumptions the
modules state by name (`LimitsAssumption`, `StoreAssumption`, `GoalAssumption`,
...), which say what kind of thing each constant is and are evaluated in the
runs; no theorem has a hypothesis of its own. Two of the assumptions deserve a look:

- `LimitsAssumption`: `MinEvict >= 2`. The code's `minEvict` is 4
  (`compact.go:17`); evicting a single message would replace it by a summary
  of the same length.
- `SessionAssumption`: what the user may type is lines of the four kinds the model
  tells apart.

Four theorems are about properties that name an exception, since the code has a fault
there ([below](#where-code-and-documentation-disagree)); without the exception TLC finds
each property violated. `AttemptsAreKept` excepts a `rev-parse` that failed, `UnreadIsKept`
an inode the call had looked at that was given out again; `SettingsAreInForce` leaves the
model out of what the agent works by, and `PreviewIsFaithful` allows a preview without a
change where the texts differ in a final newline and in nothing else.

Hardly any of the properties below is inductive by itself. What each module adds, and why:

**AgentLoopProofs.** `TypeCorrect` needs the index `at` to lie in the batch while it
is observed and dispatched, and a transcript that is never empty; Booleans, what
is stored and the control are kept apart (`FlagsOK`, `StoreOK`, `ControlOK`).

- `StallsAreDetected` (`StallIsStopped`): the detector keeps one call and one count,
  the property speaks of all the calls of a task. `StallInv` relates the two:
  the count is the length of the run of equal calls that ends what was observed
  so far (`Seen`), no run before it reached the limit (`Counted`) unless the task
  is about to be stopped (`TooOften`). Lemmas say what appending a call does to
  the runs of a sequence.
- `TranscriptCorrect`, `SavedCorrect`: `PairInv` adds which turn is pending while a
  batch is executed (`Pending(m, j, b, p)`: the turn at `j` asked for `b`, its
  first `p` results are there and nothing else follows it) and says the same of
  the file as of the memory. Lemmas: what was issued stays issued when a
  transcript grows; a plain message completes nothing and breaks nothing; the
  next result belongs to the pending turn; the last one completes it; and a tail
  whose first message is not a result is paired without what precedes it
  (`TailIsPaired`), which is what the backing up of the cut in `maybeCompact` is for.
- `CrashCost` (`CrashLosesOneTurn`), from `FreshInv`: when a prompt is composed
  nothing is unsaved, unless the latest save failed.
- `AnswersAreMeaningful`, from `AnswerInv`: while the work is verified the transcript
  ends with the answer.
- `CompactionIsSafe` (`CompactionKeepsTheTail`), from `TypeInv` and what `Compact`
  makes of a transcript (`CompactShape`, `TailIsKept`).

**SettingsProofs, the files.** `SavesAreAtomic` is `StoreSpec => IsAtomic`, the refinement
of `AtomicStore`: `StoreInit` implies its `Init`, and each action of `FileStore` is one of
its actions or leaves the abstract state alone. The temporary file begins a save,
the rename is `Publish`, the mode repair after it and every failure `Return`, the
open is `Read`; the writes, the flush and the reads after the open are stutters. For
that a file in preparation must belong to one writer and be reachable neither by
name nor by a reader (`TempsArePrivate`), a save must have come as far as its
temporary file holds (`SavesProgress`), and what a name leads to, now or after a
loss of power, must be flushed and whole (`PublishedIsWhole`, `OpenIsWhole`). With
`SavesProgress` alone another writer could write into the inode that is about to be
published.

**TaskGoalProofs.** `IInv` adds what git guarantees (`GitOK`: a commit reaches
itself and all that those it reaches reach, a branch points at a commit), that the
worktree is there until the session ends (`Isolation`), what the rounds of
verification say of the measure (`Measured`), and how far a rollback and the end of
a session have come, step by step (`RollbackOK`, `FinishOK`: before the reset the
checked out tree is the attempt; after it and before the clean it holds, beside what
there was at the start, at most new files). From it: `RollbacksAreJustified`, `RollbacksRestoreTheStart`,
`AttemptsAreKept`, `PromotionsPassed`, `RemovalsLoseNothing`, `GoalTypes`, and the
action property `UsersBranchMovesForward`.

**FileEditProofs.** `IInv` says where things are at each step: the temporary name and
when it exists (`TempOK`), what is about to be published (`NewOK`), the version
the user saved last (`VersionOK`), the text that was shown (`PreviewOK`) and the inode
that was read (`SourceOK`: what it holds is what was read, or the user rewrote it, or it
was given out again). From it `CallsCleanUp`, `VersionsSurvive`,
`ApprovedIsWritten`, `UnreadIsKept` and `EditTypes`.

**StreamProofs.** `IInv` adds that a backoff is only entered while attempts are
left (`AttemptOK`), that nothing is shown before the attempt that streams
(`ShownOK`), that without a log a frame that ends an answer is read only when
the whole body came (`BodyOK`), and who holds the mutex of the log and what was
logged last (`LogOK`): at most one goroutine copies, until it has the mutex the
client waits for it, and while it has it no request is logged. From it
`HandlersSeeTheAnswer`, `LogIsInOrder`, `BrokenAnswersAreErrors`, `InterruptsAreObeyed` and
`StreamTypes`.

**SessionProofs.** Three invariants. `CommandInv` follows a command through the
statements of `process.Run`: the sink holds what was copied from the pipe up to its
limit, a `Wait` that returned leaves nobody who can write, and at each statement
what is known of the outcome agrees with the processes (`Followed`); this gives
`OutcomesAreTrue`. `InputInv` says that a reader holds lines in order which come
after those it gave out; `TaskInv` that a signal or a cancelled context while a task
runs means a signal during that task, and that contexts not yet given to a task
are untouched (`InterruptsAreKnown`), and where the calls of a task stand
(`TaskGoesOn`). They give `InterruptsAreOwn`, `SessionTypes` and the action property
`ApprovalIsNeeded`.

**SettingsProofs, the commands.** `IInv` adds the types that `Normalize` relies on (`ConfigOK`)
and what the files hold between and after the two writes of `/save`
(`FilesInStep`). The lemmas say what `Normalize` makes of each field, and that
it accepts and leaves alone what it made. From it `ConfigStaysNormal`,
`SettingsAreInForce` (with it: no key travels in the clear unless that was
allowed) and `SavedSettingsAreRestored`.

**TerminalProofs.** An operation that erases must find nothing to stay in the rows
it erases. `LastOK` is what makes `lineStart` sufficient for the last row: where
it is set the row holds nothing to stay, and a frame is alone on its row.
`ViewOK` says that the rows a live view goes back over are its own.
One lemma per operation of `UI` shows what it preserves (`Good`) and where it
leaves the cursor. `IndicatorInv` (only the running indicator has a goroutine) and
`AgentInv` (at which stages of the agent it may run) say when a frame can be drawn
into them. From these `NothingSaidIsErased`, `IndicatorsEnd` and `TerminalTypes`.

**EditTextProofs.** The one proof about algorithms on data.

- `PreviewIsFaithful` (`DiffIsFaithful`), from `DiffInv`, the invariant of the loops of the
  diff. While the table is filled, an entry that is done is the size of a largest
  matching of the lines from there on: it is reached by none that is larger, by the
  case distinction of `Entry` on any matching, and the walk through the table keeps
  exactly that many. During the walk the lines so far spell both texts up to `row` and
  `col`, and the lines kept plus the entry at that place are the entry at the start.
  While it is rendered, what was written has the changes of what was read. That the
  diff is of the text the tool then writes is part of `IInv`: the preview and the tool
  go through the same Results, and a patch that fails late fails in the preview. A diff
  without a change keeps all lines of both texts; texts with the same lines are equal or
  differ in the final newline that splitting them drops (`LinesTell`).
- `PatchEditsAreExact` (`PatchIsExact`). The search from left to right finds the leftmost
  occurrences that do not overlap (`FoundIsLeftmost`) and one of them only if all
  occurrences overlap with the first (`FoundOne`). For the fallbacks, the algorithm
  compares lines and the reference compares whole regions after deleting what
  a strategy ignores, so the proof relates the two: a block of whole lines has the lines
  of the text, in order (`BlockLines`), and what is kept of it depends on the
  block alone (`BlockPlaces`); what is kept of one line is the line as the strategy
  normalizes it (`KeptLine`); hence two texts are alike line by line exactly if the
  same is kept of both (`KeptAlike`). With the cases of a newline at the end of
  `old_string`, of the text or of neither, `Located` finds exactly the regions of
  `Similar` (`LocatedIsSimilar`).
- `TextsAreTyped`: what every edit returns is a text, and a failure is final.

Induction is done without the library's rules, which take an operator as a
parameter: a set of numbers that contains 0 and the successor of each of its members
is `Nat`, since otherwise its complement had a least member (`Smallest`,
`SetInduction`, from `WFMin`). A function that is defined by recursion is proved to
exist (`Recursion`, with the step given as a function, or `TakenExists`) before its
defining equation is used, since `CHOOSE` gives the equation only then.

What had to change to be reasoned about, without changing what it says: no module has a
`RECURSIVE` operator; `said` records where each mark was written, so that
`TextSurvives` compares sets of places and an order instead of flattening rows;
`RealCalls` filters by a recursive function, so that its type is a lemma
(`RealTypes`) and not an assumption; the diff became a machine, so that its table and its
walk have invariants; ordered `CASE`s are chains of `IF`, since TLA+ does not order the
arms of a `CASE`. One definition was wrong: two arms of the policy's decision in
`Interactive` overlapped, and a proof that split on them failed.

Only model-checked:

- liveness (`TaskEnds`, `RequestReturns`, `InterruptEndsTask`), which is beyond the
  prover, as is anything with `ENABLED`;
- the runs that find a violation, which are about one behaviour each.

## Where code and documentation disagree

Three are runs in which TLC refutes the statement; the quotations are in
`PROJECT.json`.

| Run | What happens |
|---|---|
| `goal_promote` | with `--checkpoint`, a task that ends without verification keeps the objective of the tree before it, and unverified work is promoted |
| `stream_debug` | with a debug log, a response the client stops reading early blocks the next request for ever |
| `stream_split` | in JSON mode, calls that arrive after a prefix of the content parsed are dropped |

Met while modelling, and part of the models as the code has them:

- `vcs.go:276`: when a `rev-parse` fails, the branch that keeps an attempt is left out
  and the reset is not. Each git command is a process with a timeout of its own, so one
  can fail between two that work (`ResolveFails`; `AttemptIsKept` says what holds).
- `verify.go:99`: the repair made after the last failed round is rolled back without
  having been measured; `RollbackIsJustified` speaks of the last measure there was.
- `securefs_linux.go:149`: a file replaced during an edit is recognised by its inode
  number only. Where a freed number is given out again, the user's file is deleted
  unread (`OnlyWhatWasReadIsReplaced` says what holds).
- `agent.go:462`: when the user saves after the preview, what is written is not what was
  approved (`WrittenIsShown` says when it is).
- `diff.go:157`: a change of the final newline alone is previewed as a diff without a
  change, a gap with +0 and -0 (`DiffIsFaithful` allows this case alone).
- `main.go:323`: `/model` changes the `Config` and the client, and not the copy of the
  agent, which goes on naming the model of the start in the transcripts it saves
  (`SettingsInForce` says what the agent does follow).
- `stall.go:60`: the warning of a repeated call describes the last call of its batch.
- `stall.go:47`: one batch of five identical calls aborts without a warning.
- `client.go:349`: with a debug log, a body that breaks off is taken for a complete
  answer. `client.go:213`: `OnRetry` counts from the failed attempt. `client.go:272`:
  not every 5xx is retried.
- `agent.go:270`: a crash loses the turn in progress (`CrashLosesOneTurn` says what
  holds).
- `patch.go:91`: matches are counted without overlap, so an edit of `xx` in `xxx` is
  not ambiguous to it. `PatchIsExact` states what it does.
- `config.go:167`: `DREA_CHECKPOINT=0` does not override a saved checkpoint.
- `worktree.go:66`: `--worktree` with a debug log in the workspace is refused, since
  the path is checked against the worktree the second time.
- `ui.go:91`: the bar is not always the last line. `live.go:78` does not stop the
  indicator, so the title of a call that comes without text is written behind a
  frame of it (`IndicatorIsGone` excepts this row).

`/save` writes two files. When the second write fails, the next start pairs the new
host with the old key; `Normalize` still refuses a key that would travel in the
clear, and `SavedIsRestored` speaks of saves that wrote both. Settings saved under
`--allow-insecure-key-transport` are refused by a start without it.

## What is not modelled

- Texts: prompts, tool results, colours and widths. No property is about them.
- Evaluation: a sequential loop over task files, each with an agent of its own.
- The read-only tools, the system prompt and the conventions: no state.
- `git_init` and `git_read`: nothing a goal depends on.
- Multi-line input, the commands that only print, and `/resume` and `/reset` at the
  prompt (they are actions of `AgentLoop`).
- Sizes: limits on bytes are a choice of the environment (`LimitExceeded`,
  `Compact`), so a property cannot depend on a length. The limits on loading a
  session and on loading settings (a larger file can be saved) are not covered.
- Links and the walk of directories in `securefs_*.go`: the file's name is one
  entry of one directory.
- The death of drea while a command runs: what the command does then is the system's.

## Plan

Modelled first: the loop, then what can destroy work (goal, store, edits), then
the client; then the session around them (prompt, processes, approval), the
algorithms an edit rests on, the screen and the settings. What is left of the
plan to model is `AgentLoop` over `AtomicStore` with two processes on one
workspace; every other component is modelled or listed above with its reason.

Every safety property of a passing run is proved. Worth adding is the refinement of
the conversation loop's save by `AtomicStore`, once that composition is modelled.

## Running it

    tlc -workers 2 -config AgentLoop.cfg MCAgentLoop
    tlapm AgentLoopProofs.tla

Each run of `PROJECT.json` names its module and configuration. The passing
runs take from seconds to three minutes each on two cores. Each property of a passing run
has a mutant in `PROJECT.json`: a definition of the model changed the way a bug
would change the code, which makes TLC find the property violated.
