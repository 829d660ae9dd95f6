------------------------------ MODULE TaskGoal ------------------------------
(***************************************************************************)
(* What drea does to a git repository around and after a task: the         *)
(* checkpoint before it, the measure of the goal, the rollback of an       *)
(* attempt that made things worse (internal/agent/verify.go over           *)
(* internal/vcs), and the scratch worktree whose work is promoted, kept or *)
(* removed when the session ends (cmd/drea/worktree.go).                   *)
(*                                                                         *)
(* A tree is the set of changes it holds over the initial one; a change in *)
(* NewFiles adds a file.  Git is external: each command succeeds with the  *)
(* effect git documents or, within MaxFaults, fails with none.  Meanwhile  *)
(* the user works in the main checkout of an isolated session.             *)
(***************************************************************************)
EXTENDS Integers, Sequences, FiniteSets

CONSTANTS
  Changes, NewFiles,  \* changes to a tree; those that add a file
  Passing,            \* the trees on which the verification command passes
  VerifyAttempts,
  Configs,            \* the flags: [checkpoint, auto, isolated, promote]
  MaxTasks, MaxEdits, MaxFaults, MaxUser  \* bounds

ASSUME GoalAssumption ==
  /\ NewFiles \subseteq Changes /\ Passing \subseteq SUBSET Changes
  /\ Configs \subseteq [checkpoint : BOOLEAN, auto : BOOLEAN,
                        isolated : BOOLEAN, promote : BOOLEAN]
  /\ VerifyAttempts \in Nat \ {0}
  /\ {MaxTasks, MaxEdits, MaxFaults, MaxUser} \subseteq Nat

Dirs == {"main", "wt"}
Measures == {"unknown", "passing", "failing"}

VARIABLES
  cfg,
  mode,       \* the statement the harness executes next
  commits,    \* the object store: a tree, and the commits reachable from it
  head,       \* the commit the branch of each checkout points at
  work,       \* the tree in each checkout
  kept,       \* the commits drea/attempt branches point at
  checkpoint, baseline, objective, verifyRounds, \* of Agent; 0 is no checkpoint
  base,       \* Worktree.Base
  wtDir, wtBranch  \* whether the worktree and its branch exist

\* History: nothing in the code reads these.
VARIABLES
  start,      \* the tree when the task began
  measured,   \* the tree last measured in this task, as a set of at most one
  attempt,    \* the tree when a rollback began
  rolledBack, \* whether this task was reported as rolled back
  unresolved, \* whether git rev-parse failed in its rollback
  report,     \* what finishWorktree reported
  tasks, edits, faults, user

git     == <<commits, head, work, kept>>
goal    == <<checkpoint, baseline, objective, verifyRounds>>
wt      == <<base, wtDir, wtBranch>>
history == <<start, measured, attempt, rolledBack, unresolved>>
bounds  == <<tasks, edits, faults, user>>
vars    == <<cfg, mode, git, goal, wt, history, report, bounds>>

-----------------------------------------------------------------------------
(* Git *)

Here == IF cfg.isolated THEN "wt" ELSE "main"
HeadTree(d) == commits[head[d]].tree
Dirty(d) == work[d] # HeadTree(d)

\* A file git does not know of: reset leaves it, clean removes it.
Untracked(d) == (work[d] \cap NewFiles) \ HeadTree(d)

Fault == faults < MaxFaults /\ faults' = faults + 1 /\ UNCHANGED <<tasks, edits, user>>

\* What differs between two trees.
Delta(s, t) == (s \ t) \cup (t \ s)

CommitTree(d, t) ==
  LET id == Len(commits) + 1 IN
  /\ commits' = Append(commits, [tree |-> t, anc |-> commits[head[d]].anc \cup {id}])
  /\ head' = [head EXCEPT ![d] = id]
  /\ UNCHANGED <<work, kept>>

\* git add -A and git commit; nothing when the tree is clean.
CommitAll(d) == IF Dirty(d) THEN CommitTree(d, work[d]) ELSE UNCHANGED git

ResetMixed(d, c) ==
  /\ head' = [head EXCEPT ![d] = c]
  /\ UNCHANGED <<commits, work, kept>>

ResetHard(d, c) ==
  /\ head' = [head EXCEPT ![d] = c]
  /\ work' = [work EXCEPT ![d] = commits[c].tree \cup Untracked(d)]
  /\ UNCHANGED <<commits, kept>>

Clean(d) ==
  /\ work' = [work EXCEPT ![d] = @ \ Untracked(d)]
  /\ UNCHANGED <<commits, head, kept>>

\* The commits some branch reaches.
Reachable ==
  UNION {commits[c].anc : c \in kept \cup {head["main"]} \cup
                               (IF wtBranch THEN {head["wt"]} ELSE {})}

Init ==
  /\ cfg \in Configs
  /\ mode = "idle"
  /\ commits = <<[tree |-> {}, anc |-> {1}]>>
  /\ head = [d \in Dirs |-> 1]
  /\ work \in {[d \in Dirs |-> IF d = "main" THEN w ELSE {}] : w \in {{}} \cup {{c} : c \in Changes}}
  /\ kept = {}
  /\ checkpoint = 0 /\ baseline = "unknown" /\ objective = "unknown" /\ verifyRounds = 0
  /\ base = 1 /\ wtDir = cfg.isolated /\ wtBranch = cfg.isolated
  /\ start = {} /\ measured = {} /\ attempt = {} /\ rolledBack = FALSE /\ unresolved = FALSE /\ report = "none"
  /\ tasks = 0 /\ edits = 0 /\ faults = 0 /\ user = 0

-----------------------------------------------------------------------------
(* Before a task *)

\* What a task must forget of the one before, and a variant that keeps the
\* count of rounds.
ForgetGoal == checkpoint' = 0 /\ baseline' = "unknown" /\ objective' = "unknown"
KeepRounds == ForgetGoal /\ UNCHANGED verifyRounds
ResetGoal  == ForgetGoal /\ verifyRounds' = 0

\* Run's reset and the part of beginTask before the checkpoint.
BeginTask ==
  /\ mode = "idle" /\ tasks < MaxTasks
  /\ tasks' = tasks + 1 /\ edits' = 0
  /\ ResetGoal
  /\ mode' = IF cfg.checkpoint THEN "checkpoint" ELSE "work"
  /\ start' = work[Here] /\ measured' = {} /\ attempt' = {}
  /\ rolledBack' = FALSE /\ unresolved' = FALSE
  /\ UNCHANGED <<cfg, git, wt, report, faults, user>>

Checkpoint ==
  /\ mode = "checkpoint"
  /\ CommitAll(Here)
  /\ checkpoint' = head'[Here]
  /\ mode' = "baseline"
  /\ UNCHANGED <<cfg, baseline, objective, verifyRounds, wt, history, report, bounds>>

\* A git command fails, possibly the last one, after the commit was made: the
\* task runs without a checkpoint and without a starting measure.
CheckpointFails ==
  /\ mode = "checkpoint"
  /\ Fault
  /\ CommitAll(Here) \/ UNCHANGED git
  /\ mode' = "work"
  /\ UNCHANGED <<cfg, goal, wt, history, report>>

\* The outcomes of one run of the verification command on tree t: it may also
\* time out, which counts as failing, or not start at all.
Outcomes(t) == {"failing", "unknown"} \cup (IF t \in Passing THEN {"passing"} ELSE {})

MeasureBaseline ==
  /\ mode = "baseline"
  /\ \E m \in Outcomes(work[Here]) : baseline' = m /\ objective' = m
  /\ measured' = {work[Here]}
  /\ mode' = "work"
  /\ UNCHANGED <<cfg, git, checkpoint, verifyRounds, wt, start, attempt, rolledBack, unresolved, report, bounds>>

-----------------------------------------------------------------------------
(* During a task *)

Edit ==
  /\ mode = "work" /\ edits < MaxEdits
  /\ \E c \in Changes :
       work' = [work EXCEPT ![Here] = IF c \in @ THEN @ \ {c} ELSE @ \cup {c}]
  /\ edits' = edits + 1
  /\ UNCHANGED <<cfg, mode, commits, head, kept, goal, wt, history, report, tasks, faults, user>>

\* The git_commit tool commits what has changed at the paths it was given, all
\* of them by default.
ToolCommit ==
  /\ mode = "work"
  /\ \E paths \in SUBSET Changes :
       LET staged == Delta(HeadTree(Here), work[Here]) \cap paths IN
       /\ staged # {}
       /\ CommitTree(Here, Delta(HeadTree(Here), staged))
  /\ UNCHANGED <<cfg, mode, goal, wt, history, report, bounds>>

\* The git_rollback tool, approved by the user, to HEAD or an earlier commit;
\* the reset and the optional clean.
ToolRollback ==
  /\ mode = "work" /\ edits < MaxEdits
  /\ edits' = edits + 1
  /\ \E c \in commits[head[Here]].anc, clean \in BOOLEAN :
       /\ head' = [head EXCEPT ![Here] = c]
       /\ work' = [work EXCEPT ![Here] = commits[c].tree \cup
                                         (IF clean THEN {} ELSE Untracked(Here))]
  /\ UNCHANGED <<cfg, mode, commits, kept, goal, wt, history, report, tasks, faults, user>>

\* Run returns without verifying: the step limit, a stall, an error, Ctrl-C.
Stop ==
  /\ mode = "work"
  /\ mode' = "idle"
  /\ UNCHANGED <<cfg, git, goal, wt, history, report, bounds>>

\* The model gives a final answer; its turns up to here are in Edit and the
\* tools.
Answer ==
  /\ mode = "work"
  /\ mode' = "verify"
  /\ UNCHANGED <<cfg, git, goal, wt, history, report, bounds>>

OneRoundMore == verifyRounds <= VerifyAttempts
RoundsLeft   == verifyRounds < VerifyAttempts

Verify ==
  /\ mode = "verify" /\ RoundsLeft
  /\ verifyRounds' = verifyRounds + 1
  /\ \E m \in Outcomes(work[Here]) :
       /\ objective' = IF m = "unknown" THEN objective ELSE m
       /\ mode' = IF m = "failing" THEN "work" ELSE "idle"
       /\ measured' = IF m = "unknown" THEN measured ELSE {work[Here]}
  /\ UNCHANGED <<cfg, git, checkpoint, baseline, wt, start, attempt, rolledBack, unresolved, report, bounds>>

\* The rounds are used up: nothing is measured.  Unless the measure passed
\* before the task the work is kept, and so it is when the user declines.
GiveUp ==
  /\ mode = "verify" /\ ~RoundsLeft
  /\ checkpoint = 0 \/ baseline # "passing" \/ ~cfg.auto
  /\ mode' = "idle"
  /\ UNCHANGED <<cfg, git, goal, wt, history, report, bounds>>

StartRollback ==
  /\ mode = "verify" /\ ~RoundsLeft
  /\ checkpoint # 0 /\ baseline = "passing"
  /\ mode' = "preserve"
  /\ attempt' = work[Here]
  /\ UNCHANGED <<cfg, git, goal, wt, start, measured, rolledBack, unresolved, report, bounds>>

-----------------------------------------------------------------------------
(* Rollback *)

PreserveCommitsOnly ==
  /\ mode = "preserve"
  /\ mode' = "branch"
  /\ UNCHANGED <<cfg, git, goal, wt, history, report, bounds>>

\* What the attempt has not committed is committed first.
Preserve ==
  /\ mode = "preserve"
  /\ CommitAll(Here)
  /\ mode' = "branch"
  /\ UNCHANGED <<cfg, goal, wt, history, report, bounds>>

\* The attempt gets a branch, unless HEAD is where the rollback goes ...
Branch ==
  /\ mode = "branch"
  /\ kept' = IF head[Here] # checkpoint THEN kept \cup {head[Here]} ELSE kept
  /\ mode' = "reset"
  /\ UNCHANGED <<cfg, commits, head, work, goal, wt, history, report, bounds>>

\* ... or one of the two does not resolve, which ends nothing.
ResolveFails ==
  /\ mode = "branch"
  /\ Fault
  /\ unresolved' = TRUE
  /\ mode' = "reset"
  /\ UNCHANGED <<cfg, git, goal, wt, start, measured, attempt, rolledBack, report>>

Reset ==
  /\ mode = "reset"
  /\ ResetHard(Here, checkpoint)
  /\ mode' = "clean"
  /\ UNCHANGED <<cfg, goal, wt, history, report, bounds>>

RemoveNewFiles ==
  /\ mode = "clean"
  /\ Clean(Here)
  /\ rolledBack' = TRUE
  /\ mode' = "idle"
  /\ UNCHANGED <<cfg, goal, wt, start, measured, attempt, unresolved, report, bounds>>

\* Any command of the rollback fails: it ends there, reported as failed.
RollbackFails ==
  /\ mode \in {"preserve", "branch", "reset", "clean"}
  /\ Fault
  /\ mode' = "idle"
  /\ UNCHANGED <<cfg, git, goal, wt, history, report>>

-----------------------------------------------------------------------------
(* The end of an isolated session: finishWorktree *)

Quit ==
  /\ mode = "idle"
  /\ mode' = IF cfg.isolated THEN "changed" ELSE "exited"
  /\ UNCHANGED <<cfg, git, goal, wt, history, report, bounds>>

Leave == mode' = "exited" /\ report' = "left"

\* Worktree.Changed: uncommitted changes, or commits of its own.
Uncommitted == Dirty("wt")
Changed == Dirty("wt") \/ head["wt"] # base

CheckChanged ==
  /\ mode = "changed"
  /\ mode' = IF Changed THEN "promote" ELSE "remove"
  /\ UNCHANGED <<cfg, git, goal, wt, history, report, bounds>>

CheckChangedFails ==
  /\ mode = "changed"
  /\ Fault
  /\ mode' = "promote"
  /\ UNCHANGED <<cfg, git, goal, wt, history, report>>

\* promote needs the flag and a passing objective, then commits the work in
\* the worktree.
NotFailing == cfg.promote /\ objective # "failing"
MayPromote == cfg.promote /\ objective = "passing"

Refuse ==
  /\ mode = "promote" /\ ~(MayPromote /\ wtDir)
  /\ Leave
  /\ UNCHANGED <<cfg, git, goal, wt, history, bounds>>

CommitWork ==
  /\ mode = "promote" /\ MayPromote /\ wtDir
  /\ CommitAll("wt")
  /\ mode' = "isClean"
  /\ UNCHANGED <<cfg, goal, wt, history, report, bounds>>

\* MergeFFOnly refuses a dirty checkout ...
CheckMainClean ==
  /\ mode = "isClean"
  /\ IF Dirty("main") THEN Leave ELSE mode' = "merge" /\ UNCHANGED report
  /\ UNCHANGED <<cfg, git, goal, wt, history, bounds>>

\* ... and git refuses to merge unless the checkout is behind, and when the
\* merge would overwrite a change made to it since.
Overwrites(d, t) == Delta(work[d], HeadTree(d)) \cap Delta(HeadTree(d), t) # {}

NoConflict == ~Overwrites("main", HeadTree("wt"))
CanFastForward == NoConflict /\ head["main"] \in commits[head["wt"]].anc

MergeFF ==
  /\ mode = "merge"
  /\ IF CanFastForward
       THEN /\ head' = [head EXCEPT !["main"] = head["wt"]]
            /\ work' = [work EXCEPT !["main"] = Delta(@, Delta(HeadTree("main"), HeadTree("wt")))]
            /\ mode' = "removePromoted" /\ UNCHANGED report
       ELSE Leave /\ UNCHANGED <<head, work>>
  /\ UNCHANGED <<cfg, commits, kept, goal, wt, history, bounds>>

PromoteFails ==
  /\ mode \in {"promote", "isClean", "merge"} /\ MayPromote
  /\ Fault
  /\ Leave
  /\ UNCHANGED <<cfg, git, goal, wt, history>>

\* What follows a removal that failed is decided by who asked for it.
Promoted == mode = "removePromoted"
AfterRemoval(ok) ==
  IF ok \/ Promoted
    THEN mode' = "exited" /\ report' = IF Promoted THEN "promoted" ELSE "removed"
    ELSE mode' = "promote" /\ UNCHANGED report

\* Worktree.Remove: git worktree remove, which refuses a dirty worktree, then
\* git branch -d, which refuses a branch the main checkout has not merged.
Remove ==
  /\ mode \in {"remove", "removePromoted"}
  /\ wtDir' = Dirty("wt")
  /\ wtBranch' = (wtDir' \/ head["wt"] \notin commits[head["main"]].anc)
  /\ AfterRemoval(~wtBranch')
  /\ UNCHANGED <<cfg, git, goal, base, history, bounds>>

\* The first command fails, or the second alone.
RemoveFails ==
  /\ mode \in {"remove", "removePromoted"}
  /\ Fault
  /\ wtDir' \in {TRUE, Dirty("wt")} /\ UNCHANGED wtBranch
  /\ AfterRemoval(FALSE)
  /\ UNCHANGED <<cfg, git, goal, base, history>>

-----------------------------------------------------------------------------
(* The user, in the main checkout of an isolated session *)

UserEdits ==
  /\ cfg.isolated /\ user < MaxUser
  /\ user' = user + 1
  /\ \E c \in Changes : work' = [work EXCEPT !["main"] = @ \cup {c}]
  /\ UNCHANGED <<cfg, mode, commits, head, kept, goal, wt, history, report, tasks, edits, faults>>

UserCommits ==
  /\ cfg.isolated /\ user < MaxUser /\ Dirty("main")
  /\ user' = user + 1
  /\ CommitAll("main")
  /\ UNCHANGED <<cfg, mode, goal, wt, history, report, tasks, edits, faults>>

-----------------------------------------------------------------------------
Task ==
  \/ BeginTask \/ Checkpoint \/ CheckpointFails \/ MeasureBaseline
  \/ Edit \/ ToolCommit \/ ToolRollback \/ Stop \/ Answer
  \/ Verify \/ GiveUp \/ StartRollback
  \/ Preserve \/ Branch \/ ResolveFails \/ Reset \/ RemoveNewFiles \/ RollbackFails

Finish ==
  \/ Quit \/ CheckChanged \/ CheckChangedFails \/ Refuse \/ CommitWork
  \/ CheckMainClean \/ MergeFF \/ PromoteFails \/ Remove \/ RemoveFails

Next == Task \/ Finish \/ UserEdits \/ UserCommits

Spec == Init /\ [][Next]_vars

-----------------------------------------------------------------------------
(* Properties *)

Modes == {"idle", "checkpoint", "baseline", "work", "verify", "preserve", "branch", "reset",
          "clean", "changed", "promote", "isClean", "merge", "remove", "removePromoted", "exited"}

CommitIds == 1 .. Len(commits)
Commit == [tree : SUBSET Changes, anc : SUBSET Nat]

TypeOK ==
  /\ cfg \in Configs /\ mode \in Modes
  /\ commits \in Seq(Commit)
  /\ head \in [Dirs -> CommitIds] /\ work \in [Dirs -> SUBSET Changes] /\ kept \subseteq CommitIds
  /\ checkpoint \in CommitIds \cup {0} /\ base \in CommitIds
  /\ baseline \in Measures /\ objective \in Measures /\ verifyRounds \in 0 .. VerifyAttempts
  /\ wtDir \in BOOLEAN /\ wtBranch \in BOOLEAN
  /\ rolledBack \in BOOLEAN /\ unresolved \in BOOLEAN
  /\ start \subseteq Changes /\ attempt \subseteq Changes /\ measured \subseteq SUBSET Changes
  /\ report \in {"none", "left", "removed", "promoted"}
  /\ {tasks, edits, faults, user} \subseteq Nat

InMain(c) == c \in commits[head["main"]].anc

\* Undoing an attempt does not destroy it: from the reset on, the tree the
\* rollback began with is that of a commit some branch reaches, wherever the
\* rollback fails or the process dies, unless git rev-parse failed in it, which
\* Rollback passes over (vcs.go:276).
AttemptIsReachable == \E c \in Reachable : commits[c].tree = attempt
AttemptIsKept == (mode = "clean" \/ rolledBack) /\ ~unresolved => AttemptIsReachable

\* The harness rolls back only what it saw regress: the measure passed before
\* the task and the last one failed.
RollbackIsJustified ==
  mode \in {"preserve", "branch", "reset", "clean"} \/ rolledBack =>
    checkpoint # 0 /\ baseline = "passing" /\ objective = "failing"

\* A task reported as rolled back leaves the tree it found, uncommitted work
\* and new files of the user included.
RollbackRestoresStart == rolledBack /\ mode = "idle" => work[Here] = start

\* Without checkpoints, what is promoted is exactly the tree the verification
\* command passed on, and it is in the user's branch.
PromotedPassedWithoutCheckpoints ==
  (mode = "removePromoted" \/ report = "promoted") /\ ~cfg.checkpoint =>
    /\ HeadTree("wt") \in Passing /\ measured = {HeadTree("wt")}
    /\ InMain(head["wt"])

\* A worktree is only removed when it holds nothing of its own, or what it
\* holds was merged: cleanup never loses work, committed or not.
OnlyMergedWorkIsRemoved ==
  cfg.isolated /\ ~wtDir => ~Dirty("wt") /\ (head["wt"] = base \/ InMain(head["wt"]))

\* Of the checkout it isolates, a session moves only the branch, forwards,
\* and keeps every uncommitted change of the user.
MainOnlyMovesForward ==
  [][cfg.isolated /\ user' = user =>
       /\ head["main"] \in commits'[head'["main"]].anc
       /\ Delta(work["main"], HeadTree("main")) =
            Delta(work'["main"], commits'[head'["main"]].tree)]_vars

\* The README's terms of a promotion: the command passes on what is merged.
PromotedPassed ==
  report = "promoted" => HeadTree("wt") \in Passing
=============================================================================
