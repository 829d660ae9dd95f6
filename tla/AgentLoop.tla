----------------------------- MODULE AgentLoop -----------------------------
(***************************************************************************)
(* The conversation loop of internal/agent: one call of Agent.Run per      *)
(* instruction of the user, the transcript it grows, the compaction that   *)
(* shortens it, the detector of repeated calls, the rounds of verification *)
(* and the copy of the transcript that survives a crash.                   *)
(*                                                                         *)
(* What the model answers, whether a request fails, how long a prompt is   *)
(* and what the verification command reports are choices of the            *)
(* environment.  The wording of a message is reduced to what the loop      *)
(* tells apart: its role, the calls it carries and a tag for its text.     *)
(***************************************************************************)
EXTENDS Integers, Sequences, FiniteSets

CONSTANTS
  Calls,          \* tool calls; one value is one name with one set of arguments
  Replies,        \* calls of the reply pseudo-tool that carry a message
  BlankReplies,   \* calls of the reply pseudo-tool whose message is blank
  Completions,    \* what the model may answer
  MaxSteps,       \* cfg.MaxSteps: turns of the model per task
  VerifyAttempts, \* cfg.VerifyAttempts, after the default was filled in
  StallNudge, StallAbort, \* identical calls in a row: warned at, stopped at
  KeepRecent, MinEvict,   \* compaction: kept verbatim, worth evicting
  MaxTasks, MaxFaults,    \* bounds: instructions given; crashes and failed saves
  NoCall          \* stallDetector.last before the first call

ASSUME LimitsAssumption ==
  /\ {MaxSteps, VerifyAttempts, KeepRecent, StallNudge} \subseteq Nat \ {0}
  /\ MinEvict \in Nat /\ MinEvict >= 2  \* or the summary is no shorter
  /\ StallAbort \in Nat /\ StallNudge < StallAbort
  /\ MaxTasks \in Nat /\ MaxFaults \in Nat

ReplyCalls == Replies \cup BlankReplies

\* A completion: native calls, calls found printed as JSON in the text, text.
ASSUME CompletionsAssumption ==
  /\ NoCall \notin Calls
  /\ Calls \cap ReplyCalls = {}
  /\ \A r \in Completions :
       /\ r.calls \in Seq(Calls \cup ReplyCalls)
       /\ r.printed \in Seq(Calls \cup ReplyCalls)
       /\ r.text \in {"", "prose"}
       /\ r.printed # <<>> => r.text = "prose"

VARIABLES
  mode,        \* where Run is: the statement it executes next
  messages,    \* Agent.messages
  disk,        \* the saved session's messages, <<>> when none was saved
  step, verifyRounds, emptyNudged, stall,
  batch,       \* res.ToolCalls of the turn being executed
  at,          \* index in batch of the next call to observe, then to dispatch
  nudge, abort, \* what observe returned
  outcome      \* how the last call of Run returned

\* History: nothing in the code reads these.
VARIABLES
  fresh,       \* messages appended since the last save that succeeded
  saveOk,      \* whether the latest save succeeded
  done,        \* calls dispatched in this task
  tasks, faults

turn   == <<batch, at, nudge, abort>>
memory == <<messages, step, verifyRounds, emptyNudged, stall, turn>>
store  == <<disk, fresh, saveOk, faults>>
vars   == <<mode, memory, store, outcome, done, tasks>>

-----------------------------------------------------------------------------
(* Messages *)

Roles == {"system", "user", "assistant", "tool"}
Texts == {"", "prompt", "summary", "task", "feedback", "empty", "stall", "prose", "result"}
Message == [role : Roles, calls : Seq(Calls), text : Texts]

SystemPrompt == [role |-> "system", calls |-> <<>>, text |-> "prompt"]
Summary      == [role |-> "system", calls |-> <<>>, text |-> "summary"]
User(t)      == [role |-> "user", calls |-> <<>>, text |-> t]
Assistant(t, cs) == [role |-> "assistant", calls |-> cs, text |-> t]
ToolResult(c)    == [role |-> "tool", calls |-> <<c>>, text |-> "result"]

(* The calls of a completion: the native ones, else those printed as text. *)
Requested(r) == IF r.calls # <<>> THEN r.calls ELSE r.printed

OnlyReplies(cs) == cs # <<>> /\ \A i \in 1 .. Len(cs) : cs[i] \in ReplyCalls

(* The calls that are run: replies mixed with real calls are dropped, and  *)
(* a turn of replies alone has none.                                       *)
RealCalls(r) ==
  LET cs == Requested(r)
      real[k \in 0 .. Len(cs)] ==
        IF k = 0 THEN <<>>
        ELSE IF cs[k] \in ReplyCalls THEN real[k - 1] ELSE Append(real[k - 1], cs[k])
  IN real[Len(cs)]

(* The text recorded: a turn of replies alone is its joined messages, and  *)
(* text that held the calls is cleared.                                    *)
RealText(r) ==
  LET cs == Requested(r) IN
  CASE OnlyReplies(cs) ->
         IF \E i \in 1 .. Len(cs) : cs[i] \in Replies THEN "prose" ELSE ""
    [] ~OnlyReplies(cs) /\ r.calls = <<>> /\ cs # <<>> -> ""
    [] OTHER -> r.text

-----------------------------------------------------------------------------
(* Saving.  A failed save is ignored by its caller, so every operation     *)
(* that saves has both outcomes.                                           *)

Saved(m, new) ==
  \/ /\ disk' = m
     /\ fresh' = <<>>
     /\ saveOk' = TRUE
     /\ UNCHANGED faults
  \/ /\ faults < MaxFaults
     /\ faults' = faults + 1
     /\ fresh' = fresh \o new
     /\ saveOk' = FALSE
     /\ UNCHANGED disk

SayAndSave(new) ==
  /\ messages' = messages \o new
  /\ Saved(messages', new)

\* Appends without saving.
Say(new) ==
  /\ messages' = messages \o new
  /\ fresh' = fresh \o new
  /\ UNCHANGED <<disk, saveOk, faults>>

\* The batch and observe's verdict are locals of one iteration.
EndAtZero == batch' = <<>> /\ at' = 0 /\ nudge' = FALSE /\ abort' = FALSE
EndOfTurn == batch' = <<>> /\ at' = 1 /\ nudge' = FALSE /\ abort' = FALSE

NoStall == [last |-> NoCall, count |-> 0, nudged |-> FALSE]

Init ==
  /\ mode = "idle"
  /\ messages = <<SystemPrompt>>
  /\ disk = <<>>
  /\ step = 0 /\ verifyRounds = 0 /\ emptyNudged = FALSE
  /\ stall = NoStall
  /\ batch = <<>> /\ at = 1 /\ nudge = FALSE /\ abort = FALSE
  /\ outcome = "none"
  /\ fresh = <<>> /\ saveOk = TRUE /\ done = <<>>
  /\ tasks = 0 /\ faults = 0

-----------------------------------------------------------------------------
(* One task *)

(* The prologue of Run: the instruction is recorded and saved, and what    *)
(* the previous task left behind is reset.                                 *)
Submit ==
  /\ mode = "idle" /\ tasks < MaxTasks
  /\ tasks' = tasks + 1
  /\ SayAndSave(<<User("task")>>)
  /\ step' = 0 /\ verifyRounds' = 0 /\ emptyNudged' = FALSE
  /\ stall' = NoStall
  /\ done' = <<>> /\ outcome' = "none"
  /\ mode' = "prompt"
  /\ UNCHANGED turn

Return(o) == mode' = "idle" /\ outcome' = o /\ EndOfTurn

NextTurn == mode' = "prompt" /\ step' = step + 1 /\ EndOfTurn /\ UNCHANGED outcome

StepLimit ==
  /\ mode = "prompt" /\ step >= MaxSteps
  /\ Return("limit")
  /\ UNCHANGED <<messages, step, verifyRounds, emptyNudged, stall, store, done, tasks>>

FirstOfTail(m, f) == f \in 2 .. Len(m) /\ f = Len(m) - KeepRecent + 1
FirstOfShorterTail(m, f) ==
  LET f0 == Len(m) - KeepRecent + 2 IN
  /\ f \in 2 .. f0 /\ f <= Len(m)
  /\ m[f].role = "tool" => f = 2
  /\ \A i \in (f + 1 .. f0) \cap DOMAIN m : m[i].role = "tool"

(* f is the first message compaction keeps: the newest KeepRecent, backed  *)
(* up so that the tail does not begin with the result of a call.           *)
FirstKept(m, f) ==
  LET f0 == Len(m) - KeepRecent + 1 IN
  /\ f \in 2 .. f0
  /\ m[f].role = "tool" => f = 2
  /\ \A i \in f + 1 .. f0 : m[i].role = "tool"

(* The prompt fits its budget, or too little would be evicted.             *)
SkipCompaction ==
  /\ mode = "prompt" /\ step < MaxSteps
  /\ mode' = "stream"
  /\ UNCHANGED <<memory, store, outcome, done, tasks>>

(* The prompt is over its budget: what lies between the system prompt and  *)
(* the tail becomes one summary.  The shorter transcript is not saved yet. *)
Compact ==
  /\ mode = "prompt" /\ step < MaxSteps
  /\ \E f \in 2 .. Len(messages) :
       /\ FirstKept(messages, f)
       /\ f >= 3 /\ f - 2 >= MinEvict
       /\ messages' = <<messages[1], Summary>> \o SubSeq(messages, f, Len(messages))
  /\ mode' = "stream"
  /\ UNCHANGED <<step, verifyRounds, emptyNudged, stall, turn,
                 store, outcome, done, tasks>>

(* The request fails, or the task was interrupted: Run returns the error.  *)
StreamRetries ==
  /\ mode = "stream"
  /\ mode' = "prompt"
  /\ UNCHANGED <<memory, store, outcome, done, tasks>>
StreamFails ==
  /\ mode = "stream"
  /\ Return("error")
  /\ UNCHANGED <<messages, step, verifyRounds, emptyNudged, stall, store, done, tasks>>

(* The answer holds calls: it is recorded and its calls are looked at.     *)
AnswerWithCalls(r) ==
  /\ mode = "stream" /\ RealCalls(r) # <<>>
  /\ Say(<<Assistant(RealText(r), RealCalls(r))>>)
  /\ batch' = RealCalls(r) /\ at' = 1
  /\ nudge' = FALSE /\ abort' = FALSE
  /\ mode' = "observe"
  /\ UNCHANGED <<step, verifyRounds, emptyNudged, stall, outcome, done, tasks>>

(* The answer says nothing, for the first time in this task: the model is  *)
(* asked again.                                                            *)
AnswerEmpty(r) ==
  /\ mode = "stream" /\ RealCalls(r) = <<>> /\ RealText(r) = ""
  /\ ~emptyNudged
  /\ emptyNudged' = TRUE
  /\ SayAndSave(<<Assistant("", <<>>), User("empty")>>)
  /\ NextTurn
  /\ UNCHANGED <<verifyRounds, stall, done, tasks>>

(* ... and for the second: Run gives up, and does not save.                *)
AnswerEmptyAgain(r) ==
  /\ mode = "stream" /\ RealCalls(r) = <<>> /\ RealText(r) = ""
  /\ emptyNudged
  /\ Say(<<Assistant("", <<>>)>>)
  /\ Return("error")
  /\ UNCHANGED <<step, verifyRounds, emptyNudged, stall, done, tasks>>

AnswerFinalEvenEmpty(r) ==
  /\ mode = "stream" /\ RealCalls(r) = <<>>
  /\ Say(<<Assistant(RealText(r), <<>>)>>)
  /\ mode' = "verify"
  /\ UNCHANGED <<step, verifyRounds, emptyNudged, stall, turn,
                 outcome, done, tasks>>

(* The answer is final: it is recorded and the work is verified.           *)
AnswerFinal(r) ==
  /\ mode = "stream" /\ RealCalls(r) = <<>> /\ RealText(r) # ""
  /\ Say(<<Assistant(RealText(r), <<>>)>>)
  /\ mode' = "verify"
  /\ UNCHANGED <<step, verifyRounds, emptyNudged, stall, turn,
                 outcome, done, tasks>>

(* The verification command fails within the budget of rounds: its output  *)
(* goes back to the model.                                                 *)
VerifyRetry ==
  /\ mode = "verify" /\ verifyRounds < VerifyAttempts
  /\ verifyRounds' = verifyRounds + 1
  /\ SayAndSave(<<User("feedback")>>)
  /\ NextTurn
  /\ UNCHANGED <<emptyNudged, stall, done, tasks>>

(* No command is configured, it passes, it cannot be run, or the rounds    *)
(* are used up (then it is not run).                                       *)
VerifyDone ==
  /\ mode = "verify"
  /\ verifyRounds' \in {verifyRounds} \cup
       {n \in {verifyRounds + 1} : verifyRounds < VerifyAttempts}
  /\ SayAndSave(<<>>)
  /\ Return("answered")
  /\ UNCHANGED <<step, emptyNudged, stall, done, tasks>>

(* One iteration of observe's loop over the batch.  The call that brings   *)
(* the count to the limit ends the loop: the rest is never looked at.     *)
ObserveUpTo(limit) ==
  LET c == batch[at]
      same  == c = stall.last
      count == IF same THEN stall.count + 1 ELSE 1
      told  == same /\ stall.nudged
      warn  == count >= StallNudge /\ ~told
      stop  == count >= limit
  IN
  /\ mode = "observe"
  /\ stall' = [last |-> c, count |-> count, nudged |-> told \/ (warn /\ ~stop)]
  /\ abort' = stop
  /\ nudge' = ((nudge \/ warn) /\ ~stop)
  /\ IF stop \/ at = Len(batch)
       THEN mode' = "dispatch" /\ at' = 1
       ELSE at' = at + 1 /\ UNCHANGED mode
  /\ UNCHANGED <<messages, step, verifyRounds, emptyNudged, batch, store, outcome, done, tasks>>

ObserveOneMore == ObserveUpTo(StallAbort + 1)
Observe == ObserveUpTo(StallAbort)

(* The next call of the batch is dispatched and its result recorded.       *)
Dispatch ==
  /\ mode = "dispatch"
  /\ Say(<<ToolResult(batch[at])>>)
  /\ done' = Append(done, batch[at])
  /\ at' = at + 1
  /\ mode' = IF at = Len(batch) THEN "settle" ELSE "dispatch"
  /\ UNCHANGED <<step, verifyRounds, emptyNudged, stall, batch, nudge, abort, outcome, tasks>>

SettleAbort ==
  /\ mode = "settle" /\ abort
  /\ SayAndSave(<<>>)
  /\ Return("stalled")
  /\ UNCHANGED <<step, verifyRounds, emptyNudged, stall, done, tasks>>

SettleNudge ==
  /\ mode = "settle" /\ ~abort /\ nudge
  /\ SayAndSave(<<User("stall")>>)
  /\ NextTurn
  /\ UNCHANGED <<verifyRounds, emptyNudged, stall, done, tasks>>

SettleUnsaved ==
  /\ mode = "settle" /\ ~abort /\ ~nudge
  /\ Say(<<>>)
  /\ NextTurn
  /\ UNCHANGED <<verifyRounds, emptyNudged, stall, done, tasks>>

Settle ==
  /\ mode = "settle" /\ ~abort /\ ~nudge
  /\ SayAndSave(<<>>)
  /\ NextTurn
  /\ UNCHANGED <<verifyRounds, emptyNudged, stall, done, tasks>>

-----------------------------------------------------------------------------
(* Between tasks, and the process itself *)

(* /reset: only the system prompt is kept, and that is saved.              *)
Reset ==
  /\ mode = "idle"
  /\ messages' = SubSeq(messages, 1, 1)
  /\ Saved(messages', <<>>)
  /\ UNCHANGED <<mode, step, verifyRounds, emptyNudged, stall, turn,
                 outcome, done, tasks>>

(* --resume and /resume: the saved transcript replaces the current one.    *)
Restore ==
  /\ mode = "idle" /\ disk # <<>>
  /\ messages' = disk
  /\ fresh' = <<>> /\ saveOk' = TRUE
  /\ UNCHANGED <<mode, step, verifyRounds, emptyNudged, stall, turn,
                 disk, faults, outcome, done, tasks>>

Crash ==
  /\ mode # "down" /\ faults < MaxFaults
  /\ faults' = faults + 1
  /\ mode' = "down"
  /\ UNCHANGED <<memory, disk, fresh, saveOk, outcome, done, tasks>>

(* A new process: the agent New returns.                                   *)
Restart ==
  /\ mode = "down"
  /\ mode' = "idle" /\ outcome' = "none"
  /\ messages' = <<SystemPrompt>>
  /\ step' = 0 /\ verifyRounds' = 0 /\ emptyNudged' = FALSE /\ stall' = NoStall
  /\ EndOfTurn
  /\ fresh' = <<>> /\ saveOk' = TRUE /\ done' = <<>>
  /\ UNCHANGED <<disk, tasks, faults>>

-----------------------------------------------------------------------------
Answer(r) ==
  \/ AnswerWithCalls(r) \/ AnswerEmpty(r) \/ AnswerEmptyAgain(r) \/ AnswerFinal(r)

(* The steps of a task in progress.                                        *)
Run ==
  \/ StepLimit \/ SkipCompaction \/ Compact \/ StreamFails
  \/ \E r \in Completions : Answer(r)
  \/ VerifyRetry \/ VerifyDone
  \/ Observe \/ Dispatch \/ SettleAbort \/ SettleNudge \/ Settle

Next == Submit \/ Run \/ Reset \/ Restore \/ Crash \/ Restart

Spec == Init /\ [][Next]_vars

(* Every call the loop makes returns: requests and commands carry timeouts *)
(* and a prompt for approval is answered.                                  *)
FairSpec == Spec /\ WF_vars(Run)

-----------------------------------------------------------------------------
(* Properties *)

Modes == {"idle", "prompt", "stream", "verify", "observe", "dispatch", "settle", "down"}
Outcomes == {"none", "answered", "error", "stalled", "limit"}

TypeOK ==
  /\ mode \in Modes /\ outcome \in Outcomes
  /\ messages \in Seq(Message) /\ disk \in Seq(Message) /\ fresh \in Seq(Message)
  /\ step \in Nat /\ verifyRounds \in Nat /\ at \in Nat \ {0}
  /\ tasks \in Nat /\ faults \in Nat
  /\ emptyNudged \in BOOLEAN /\ nudge \in BOOLEAN /\ abort \in BOOLEAN /\ saveOk \in BOOLEAN
  /\ stall \in [last : Calls \cup {NoCall}, count : Nat, nudged : BOOLEAN]
  /\ batch \in Seq(Calls) /\ done \in Seq(Calls)

\* The message at j issued the call whose result is the message at i.
Issued(m, j, i) ==
  /\ m[j].role = "assistant"
  /\ i - j \in 1 .. Len(m[j].calls)
  /\ m[i].calls = <<m[j].calls[i - j]>>
  /\ \A k \in j + 1 .. i : m[k].role = "tool"

\* Results follow the turn that asked for them, in its order.
ResultsHaveCalls(m) ==
  \A i \in 1 .. Len(m) : m[i].role = "tool" => \E j \in 1 .. i - 1 : Issued(m, j, i)

\* Every call of the turns up to n has its result.
CallsHaveResults(m, n) ==
  \A j \in 1 .. n : \A k \in 1 .. Len(m[j].calls) :
    m[j].role = "assistant" => j + k <= Len(m) /\ m[j + k].role = "tool"

\* The transcript that is sent to the model is one an endpoint accepts: it
\* begins with the system prompt, every result directly follows the turn that
\* asked for it, and only the turn being executed lacks results, across
\* compaction, /reset, /resume and restarts.
TranscriptIsPaired ==
  /\ messages[1] = SystemPrompt
  /\ ResultsHaveCalls(messages)
  /\ mode \notin {"observe", "dispatch", "down"} => CallsHaveResults(messages, Len(messages))

\* Whatever the moment of a crash, what is on disk is a complete transcript
\* that --resume can continue from.
SavedIsResumable ==
  disk # <<>> => /\ disk[1] = SystemPrompt
                 /\ ResultsHaveCalls(disk)
                 /\ CallsHaveResults(disk, Len(disk))

\* Unless the latest save failed, a crash loses at most the turn in progress:
\* one assistant message and the results of its calls.
CrashLosesOneTurn ==
  saveOk => \A i \in 1 .. Len(fresh) : fresh[i].role = (IF i = 1 THEN "assistant" ELSE "tool")

\* How often the last call of s was repeated, counted from the sequence itself.
RunAt(s, k) == Cardinality({i \in 1 .. k : \A n \in i .. k : s[n] = s[k]})

\* The detector agrees with the calls really made: no turn of the model is
\* asked for once some call was made StallAbort times in a row, and a task is
\* stopped as stalled only when that happened.
StallIsStopped ==
  /\ mode \in {"prompt", "stream"} => \A k \in 1 .. Len(done) : RunAt(done, k) < StallAbort
  /\ outcome = "stalled" => \E k \in 1 .. Len(done) : RunAt(done, k) >= StallAbort

\* A task is reported answered only on a final message that says something:
\* no blank reply and no turn of calls passes for a result.
AnsweredIsMeaningful ==
  [][outcome' = "answered" /\ outcome # "answered" =>
       LET last == messages[Len(messages)] IN
       last.role = "assistant" /\ last.text # "" /\ last.calls = <<>>]_vars

\* A step of Run that shortens the transcript keeps the system prompt and the
\* newest KeepRecent messages verbatim.
CompactionKeepsTheTail ==
  [][mode = "prompt" /\ mode' = "stream" /\ messages' # messages =>
       /\ messages'[1] = messages[1]
       /\ Len(messages') < Len(messages)
       /\ \A i \in 0 .. KeepRecent - 1 :
            messages'[Len(messages') - i] = messages[Len(messages) - i]]_vars

\* Every task comes to an end, whatever the model answers.
TaskEnds == mode \notin {"idle", "down"} ~> mode \in {"idle", "down"}
=============================================================================
