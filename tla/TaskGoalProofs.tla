--------------------------- MODULE TaskGoalProofs ---------------------------
(***************************************************************************)
(* What drea promises about the user's repository, for any trees, any      *)
(* number of tasks, edits, commits and failing git commands: a rollback is *)
(* justified, complete and loses nothing, what is promoted passed, and a   *)
(* worktree is removed only when nothing is lost with it.                  *)
(***************************************************************************)
EXTENDS TaskGoal, SequenceTheorems, TLAPS

-----------------------------------------------------------------------------
(* The inductive invariant *)

Rollback == {"preserve", "branch", "reset", "clean"}
InTask == {"checkpoint", "baseline", "work", "verify"} \cup Rollback
AtEnd == {"changed", "promote", "isClean", "merge", "remove", "removePromoted"}

\* A commit reaches itself, the first one and all that the commits it reaches
\* reach; a branch points at a commit.
GitOK ==
  /\ commits \in Seq(Commit) /\ Len(commits) >= 1
  /\ head \in [Dirs -> CommitIds] /\ work \in [Dirs -> SUBSET Changes] /\ kept \subseteq CommitIds
  /\ \A c \in CommitIds : /\ commits[c].anc \subseteq CommitIds /\ c \in commits[c].anc
                          /\ \A b \in commits[c].anc : commits[b].anc \subseteq commits[c].anc

\* The worktree is there until the session ends, and only an isolated one has an end.
Isolation ==
  /\ mode \in InTask \cup {"idle", "changed"} => wtDir = cfg.isolated /\ wtBranch = cfg.isolated
  /\ mode \in {"isClean", "merge", "remove", "removePromoted"} => wtDir
  /\ mode \in AtEnd => wtBranch
  /\ mode \in AtEnd => cfg.isolated
  /\ report # "none" => mode = "exited"

\* What the rounds of verification say of the measure.
Measured ==
  /\ mode \in {"work", "verify"} /\ verifyRounds > 0 => objective = "failing"
  /\ mode \in {"checkpoint", "baseline"} => verifyRounds = 0 /\ cfg.checkpoint
  /\ objective = "passing" /\ ~cfg.checkpoint =>
       mode \notin InTask /\ work[Here] \in Passing /\ measured = {work[Here]}

\* How far a rollback has come.
RollbackOK ==
  /\ rolledBack => mode \notin InTask
  /\ mode = "checkpoint" => work[Here] = start
  /\ checkpoint # 0 => commits[checkpoint].tree = start
  /\ mode \in {"preserve", "branch", "reset"} => work[Here] = attempt
  /\ mode \in {"branch", "reset"} => HeadTree(Here) = attempt
  /\ mode = "reset" => unresolved \/ head[Here] \in kept \cup {checkpoint}
  /\ mode = "clean" => /\ head[Here] = checkpoint /\ start \subseteq work[Here]
                       /\ work[Here] \ start \subseteq NewFiles

\* How far the end of a session has come.
FinishOK ==
  /\ mode = "remove" => ~Dirty("wt") /\ head["wt"] = base
  /\ mode \in {"isClean", "merge", "removePromoted"} => ~Dirty("wt") /\ objective = "passing"
  /\ mode = "removePromoted" => InMain(head["wt"])

IInv ==
  /\ TypeOK /\ GitOK /\ Isolation /\ Measured /\ RollbackOK /\ FinishOK
  /\ RollbackIsJustified /\ RollbackRestoresStart
  /\ AttemptIsKept
  /\ PromotedPassedWithoutCheckpoints /\ OnlyMergedWorkIsRemoved

-----------------------------------------------------------------------------
(* Git *)

\* The object store only grows.
Grows == /\ Len(commits) <= Len(commits')
         /\ \A c \in CommitIds : commits'[c] = commits[c]

\* What a commit in checkout d leaves and moves.
Commits(d) ==
  /\ GitOK' /\ Grows
  /\ head[d] \in commits'[head'[d]].anc
  /\ \A e \in Dirs \ {d} : head'[e] = head[e]
  /\ UNCHANGED <<work, kept>>

\* The checkout a task works in.
LEMMA HereIsADir == Here \in Dirs
BY DEF Here, Dirs

\* A commit is one more commit, on top of the one its branch pointed at.
LEMMA CommitTreeCommits ==
  ASSUME GitOK, NEW d \in Dirs, NEW t \in SUBSET Changes, CommitTree(d, t)
  PROVE  Commits(d) /\ commits'[head'[d]].tree = t
<1> DEFINE id == Len(commits) + 1
           new == [tree |-> t, anc |-> commits[head[d]].anc \cup {id}]
<1>1. /\ commits \in Seq(Commit) /\ head \in [Dirs -> CommitIds] /\ head[d] \in CommitIds
      /\ Len(commits) \in Nat /\ Len(commits) >= 1
  BY DEF GitOK
<1>2. commits' = Append(commits, new) /\ head' = [head EXCEPT ![d] = id]
      /\ UNCHANGED <<work, kept>>
  BY DEF CommitTree
<1>3. commits[head[d]].anc \subseteq CommitIds
  BY <1>1 DEF GitOK
<1>4. new \in Commit
  BY <1>1, <1>3 DEF Commit, CommitIds
<1>5. /\ commits' \in Seq(Commit) /\ Len(commits') = id /\ commits'[id] = new
      /\ \A c \in CommitIds : commits'[c] = commits[c]
  BY <1>1, <1>2, <1>4, AppendProperties DEF CommitIds
<1>6. head'[d] = id /\ \A e \in Dirs \ {d} : head'[e] = head[e]
  BY <1>1, <1>2
<1>7. CommitIds' = CommitIds \cup {id} /\ id \notin CommitIds
  BY <1>1, <1>5 DEF CommitIds
<1>8. GitOK'
  <2>1. head' \in [Dirs -> CommitIds']
    BY <1>1, <1>2, <1>7
  <2>2. work' \in [Dirs -> SUBSET Changes] /\ kept' \subseteq CommitIds'
    BY <1>2, <1>7 DEF GitOK
  <2>3. ASSUME NEW c \in CommitIds'
        PROVE  /\ commits'[c].anc \subseteq CommitIds' /\ c \in commits'[c].anc
               /\ \A b \in commits'[c].anc : commits'[b].anc \subseteq commits'[c].anc
    <3>1. CASE c \in CommitIds
      BY <3>1, <1>5, <1>7 DEF GitOK
    <3>2. CASE c = id
      BY <3>2, <1>1, <1>3, <1>5, <1>7 DEF GitOK
    <3> QED
      BY <3>1, <3>2, <1>7
  <2> QED
    BY <1>1, <1>5, <2>1, <2>2, <2>3 DEF GitOK
<1>9. Grows
  BY <1>1, <1>5 DEF Grows
<1>10. head[d] \in commits'[head'[d]].anc
  BY <1>1, <1>5, <1>6 DEF GitOK
<1> QED
  BY <1>2, <1>5, <1>6, <1>8, <1>9, <1>10 DEF Commits

\* Nothing at all is a commit of nothing.
LEMMA NothingCommits ==
  ASSUME GitOK, NEW d \in Dirs, UNCHANGED git
  PROVE  Commits(d) /\ HeadTree(d)' = HeadTree(d)
<1>1. commits' = commits /\ head' = head /\ work' = work /\ kept' = kept
  BY DEF git
<1>2. GitOK'
  BY <1>1 DEF GitOK, CommitIds
<1>3. Grows
  BY <1>1 DEF GitOK, Grows
<1>4. head[d] \in commits'[head'[d]].anc
  BY <1>1 DEF GitOK
<1> QED
  BY <1>1, <1>2, <1>3, <1>4 DEF Commits, HeadTree

\* git add -A and git commit leave a clean checkout.
LEMMA CommitAllCommits ==
  ASSUME GitOK, NEW d \in Dirs, CommitAll(d)
  PROVE  Commits(d) /\ HeadTree(d)' = work[d] /\ ~Dirty(d)'
<1>1. CASE Dirty(d)
  <2>1. work[d] \in SUBSET Changes
    BY DEF GitOK
  <2>2. CommitTree(d, work[d])
    BY <1>1 DEF CommitAll
  <2>3. Commits(d) /\ commits'[head'[d]].tree = work[d]
    BY <2>1, <2>2, CommitTreeCommits
  <2> QED
    BY <2>3 DEF Commits, HeadTree, Dirty
<1>2. CASE ~Dirty(d)
  <2>1. UNCHANGED git
    BY <1>2 DEF CommitAll
  <2>2. Commits(d) /\ HeadTree(d)' = HeadTree(d)
    BY <2>1, NothingCommits
  <2> QED
    BY <1>2, <2>2 DEF Dirty, Commits
<1> QED
  BY <1>1, <1>2

\* The other commands move a branch to a commit, change trees and keep commits.
LEMMA MovesKeepGit ==
  ASSUME GitOK, commits' = commits, head' \in [Dirs -> CommitIds],
         work' \in [Dirs -> SUBSET Changes], kept' \subseteq CommitIds
  PROVE  GitOK' /\ Grows
<1>1. GitOK'
  BY DEF GitOK, CommitIds
<1>2. Grows
  BY DEF GitOK, Grows
<1> QED
  BY <1>1, <1>2

\* What a checkout and its branch point at.
LEMMA HeadTreeTypes ==
  ASSUME GitOK, NEW d \in Dirs
  PROVE  /\ head[d] \in CommitIds /\ work[d] \subseteq Changes /\ HeadTree(d) \subseteq Changes
         /\ head[d] \in commits[head[d]].anc /\ commits[head[d]].anc \subseteq CommitIds
<1>1. head[d] \in CommitIds /\ work[d] \in SUBSET Changes
  BY DEF GitOK
<1>2. commits[head[d]] \in Commit
  BY <1>1 DEF GitOK, CommitIds
<1> QED
  BY <1>1, <1>2 DEF GitOK, HeadTree, Commit

\* The tree of a commit.
LEMMA TreeTypes ==
  ASSUME GitOK, NEW c \in CommitIds
  PROVE  commits[c].tree \subseteq Changes
<1>1. commits[c] \in Commit
  BY DEF GitOK, CommitIds
<1> QED
  BY <1>1 DEF Commit

-----------------------------------------------------------------------------
(* What a step does to git *)

\* Each step commits in a checkout, moves branches and trees, or leaves git alone.
LEMMA StepGit ==
  ASSUME TypeOK, GitOK, RollbackIsJustified, [Next]_vars
  PROVE  GitOK' /\ Grows
<1> USE HereIsADir, HeadTreeTypes
<1>0. /\ head \in [Dirs -> CommitIds] /\ work \in [Dirs -> SUBSET Changes]
      /\ kept \subseteq CommitIds
      /\ NewFiles \subseteq Changes
  BY GoalAssumption DEF GitOK
<1>1. ASSUME UNCHANGED git PROVE GitOK' /\ Grows
  BY <1>1, NothingCommits DEF Commits
<1>2. ASSUME NEW d \in Dirs, CommitAll(d) PROVE GitOK' /\ Grows
  BY <1>2, CommitAllCommits DEF Commits
<1>3. CASE Checkpoint \/ CheckpointFails \/ Preserve \/ CommitWork \/ UserCommits
  BY <1>1, <1>2, <1>3 DEF Checkpoint, CheckpointFails, Preserve, CommitWork, UserCommits, Dirs
<1>4. CASE ToolCommit
  <2>1. PICK paths \in SUBSET Changes :
          CommitTree(Here, Delta(HeadTree(Here), Delta(HeadTree(Here), work[Here]) \cap paths))
    BY <1>4 DEF ToolCommit
  <2> DEFINE t == Delta(HeadTree(Here), Delta(HeadTree(Here), work[Here]) \cap paths)
  <2>2. t \in SUBSET Changes
    BY DEF Delta
  <2> QED
    BY <2>1, <2>2, CommitTreeCommits DEF Commits
<1>5. CASE Edit
  <2>1. PICK c \in Changes :
          work' = [work EXCEPT ![Here] = IF c \in @ THEN @ \ {c} ELSE @ \cup {c}]
    BY <1>5 DEF Edit
  <2>2. work' \in [Dirs -> SUBSET Changes]
    BY <1>0, <2>1
  <2> QED
    BY <1>0, <1>5, <2>2, MovesKeepGit DEF Edit
<1>6. CASE ToolRollback
  <2>1. PICK c \in commits[head[Here]].anc, clean \in BOOLEAN :
          /\ head' = [head EXCEPT ![Here] = c]
          /\ work' = [work EXCEPT ![Here] = commits[c].tree \cup
                                            (IF clean THEN {} ELSE Untracked(Here))]
    BY <1>6 DEF ToolRollback
  <2>2. c \in CommitIds
    OBVIOUS
  <2>3. commits[c].tree \cup (IF clean THEN {} ELSE Untracked(Here)) \in SUBSET Changes
    BY <1>0, <2>2, TreeTypes DEF Untracked
  <2> QED
    BY <1>0, <1>6, <2>1, <2>2, <2>3, MovesKeepGit DEF ToolRollback
<1>7. CASE Branch
  BY <1>0, <1>7, MovesKeepGit DEF Branch
<1>8. CASE Reset
  <2>1. checkpoint \in CommitIds
    BY <1>8 DEF Reset, TypeOK, RollbackIsJustified
  <2>2. commits[checkpoint].tree \cup Untracked(Here) \in SUBSET Changes
    BY <1>0, <2>1, TreeTypes DEF Untracked
  <2> QED
    BY <1>0, <1>8, <2>1, <2>2, MovesKeepGit DEF Reset, ResetHard
<1>9. CASE RemoveNewFiles
  BY <1>0, <1>9, MovesKeepGit DEF RemoveNewFiles, Clean
<1>10. CASE MergeFF
  <2>1. "main" \in Dirs /\ "wt" \in Dirs
    BY DEF Dirs
  <2>2. Delta(work["main"], Delta(HeadTree("main"), HeadTree("wt"))) \in SUBSET Changes
    BY <2>1 DEF Delta
  <2> QED
    BY <1>0, <1>10, <2>1, <2>2, MovesKeepGit DEF MergeFF
<1>11. CASE UserEdits
  BY <1>0, <1>11, MovesKeepGit DEF UserEdits
<1>12. CASE \/ BeginTask \/ MeasureBaseline \/ Stop \/ Answer \/ Verify \/ GiveUp \/ StartRollback
            \/ ResolveFails \/ RollbackFails \/ Quit \/ CheckChanged \/ CheckChangedFails
            \/ Refuse \/ CheckMainClean \/ PromoteFails \/ Remove \/ RemoveFails \/ UNCHANGED vars
  BY <1>1, <1>12 DEF BeginTask, MeasureBaseline, Stop, Answer, Verify, GiveUp, StartRollback,
       ResolveFails, RollbackFails, Quit, CheckChanged, CheckChangedFails, Refuse, CheckMainClean,
       PromoteFails, Remove, RemoveFails, vars
<1> QED
  BY <1>3, <1>4, <1>5, <1>6, <1>7, <1>8, <1>9, <1>10, <1>11, <1>12 DEF Next, Task, Finish

-----------------------------------------------------------------------------
(* The types *)

\* The flags and where the worktree began never change.
LEMMA StepConstants ==
  ASSUME [Next]_vars
  PROVE  cfg' = cfg /\ base' = base
BY DEF Next, Task, Finish, vars, wt, BeginTask, Checkpoint, CheckpointFails, MeasureBaseline,
       Edit, ToolCommit, ToolRollback, Stop, Answer, Verify, GiveUp, StartRollback, Preserve,
       Branch, ResolveFails, Reset, RemoveNewFiles, RollbackFails, Quit, CheckChanged,
       CheckChangedFails, Refuse, CommitWork, CheckMainClean, MergeFF, PromoteFails, Remove, RemoveFails,
       UserEdits, UserCommits

\* A step of a task leaves the worktree and the end of the session alone.
LEMMA TaskConstants ==
  ASSUME Task
  PROVE  UNCHANGED <<wtDir, wtBranch, report>>
BY DEF Task, wt, BeginTask, Checkpoint, CheckpointFails, MeasureBaseline,
       Edit, ToolCommit, ToolRollback, Stop, Answer, Verify, GiveUp, StartRollback, Preserve,
       Branch, ResolveFails, Reset, RemoveNewFiles, RollbackFails

\* The end of a session and the user leave the goal and its history alone.
LEMMA FinishConstants ==
  ASSUME Finish \/ UserEdits \/ UserCommits \/ UNCHANGED vars
  PROVE  UNCHANGED <<checkpoint, baseline, objective, verifyRounds, start, measured, attempt,
                     rolledBack, unresolved, tasks, edits>>
BY DEF Finish, vars, goal, history, bounds, Fault, Quit, CheckChanged, CheckChangedFails, Refuse,
       CommitWork, CheckMainClean, MergeFF, PromoteFails, Remove, RemoveFails,
       UserEdits, UserCommits

\* Every step leads to a statement of the code.
LEMMA StepModes ==
  ASSUME mode \in Modes, [Next]_vars
  PROVE  mode' \in Modes
BY DEF Modes, Next, Task, Finish, vars, Leave, AfterRemoval,
       BeginTask, Checkpoint, CheckpointFails, MeasureBaseline,
       Edit, ToolCommit, ToolRollback, Stop, Answer, Verify, GiveUp, StartRollback, Preserve,
       Branch, ResolveFails, Reset, RemoveNewFiles, RollbackFails, Quit, CheckChanged,
       CheckChangedFails, Refuse, CommitWork, CheckMainClean, MergeFF, PromoteFails, Remove, RemoveFails,
       UserEdits, UserCommits

\* Every step keeps the report of the session one of four.
LEMMA StepReports ==
  ASSUME TypeOK, [Next]_vars
  PROVE  report' \in {"none", "left", "removed", "promoted"}
<1>1. CASE Task
  BY <1>1, TaskConstants DEF TypeOK
<1>2. CASE Finish \/ UserEdits \/ UserCommits \/ UNCHANGED vars
  BY <1>2 DEF TypeOK, Finish, vars, Leave, AfterRemoval,
       Quit, CheckChanged, CheckChangedFails, Refuse,
       CommitWork, CheckMainClean, MergeFF, PromoteFails, Remove, RemoveFails,
       UserEdits, UserCommits
<1> QED
  BY <1>1, <1>2 DEF Next

\* Every step keeps the two flags of the worktree.
LEMMA StepWorktree ==
  ASSUME TypeOK, [Next]_vars
  PROVE  wtDir' \in BOOLEAN /\ wtBranch' \in BOOLEAN
<1>1. CASE Task
  BY <1>1, TaskConstants DEF TypeOK
<1>2. CASE Remove
  BY <1>2 DEF Remove, Dirty
<1>3. CASE RemoveFails
  BY <1>3 DEF RemoveFails, Dirty, TypeOK
<1>4. CASE \/ Quit \/ CheckChanged \/ CheckChangedFails \/ Refuse \/ CommitWork
           \/ CheckMainClean \/ MergeFF \/ PromoteFails \/ UserEdits \/ UserCommits
           \/ UNCHANGED vars
  BY <1>4 DEF TypeOK, wt, vars, Quit, CheckChanged, CheckChangedFails, Refuse, CommitWork,
       CheckMainClean, MergeFF, PromoteFails, UserEdits, UserCommits
<1> QED
  BY <1>1, <1>2, <1>3, <1>4 DEF Next, Finish

\* Every step keeps the fields of the goal.
LEMMA StepGoal ==
  ASSUME TypeOK, GitOK, GitOK', Grows, [Next]_vars
  PROVE  /\ checkpoint' \in CommitIds' \cup {0} /\ baseline' \in Measures
         /\ objective' \in Measures /\ verifyRounds' \in 0 .. VerifyAttempts
<1> USE GoalAssumption, HereIsADir
<1>1. CommitIds \subseteq CommitIds'
  BY DEF Grows, GitOK, CommitIds
<1>2. ASSUME UNCHANGED goal
      PROVE  /\ checkpoint' \in CommitIds' \cup {0} /\ baseline' \in Measures
             /\ objective' \in Measures /\ verifyRounds' \in 0 .. VerifyAttempts
  BY <1>1, <1>2 DEF goal, TypeOK
<1>3. CASE BeginTask
  BY <1>3 DEF BeginTask, ResetGoal, ForgetGoal, Measures
<1>4. CASE Checkpoint
  BY <1>4 DEF Checkpoint, TypeOK, GitOK
<1>5. CASE MeasureBaseline
  BY <1>1, <1>5 DEF MeasureBaseline, Outcomes, Measures, TypeOK
<1>6. CASE Verify
  BY <1>1, <1>6 DEF Verify, RoundsLeft, Outcomes, Measures, TypeOK
<1>7. CASE Finish \/ UserEdits \/ UserCommits \/ UNCHANGED vars
  BY <1>1, <1>7, FinishConstants DEF TypeOK
<1>8. CASE \/ CheckpointFails \/ Edit \/ ToolCommit \/ ToolRollback \/ Stop \/ Answer
           \/ GiveUp \/ StartRollback \/ Preserve \/ Branch \/ Reset \/ RemoveNewFiles
           \/ ResolveFails \/ RollbackFails
  BY <1>2, <1>8 DEF CheckpointFails, Edit, ToolCommit, ToolRollback, Stop, Answer, GiveUp,
       StartRollback, Preserve, Branch, ResolveFails, Reset, RemoveNewFiles, RollbackFails
<1> QED
  BY <1>3, <1>4, <1>5, <1>6, <1>7, <1>8 DEF Next, Task

\* Every step keeps the history a set of trees.
LEMMA StepHistory ==
  ASSUME TypeOK, GitOK, [Next]_vars
  PROVE  /\ start' \subseteq Changes /\ attempt' \subseteq Changes
         /\ measured' \subseteq SUBSET Changes /\ rolledBack' \in BOOLEAN
         /\ unresolved' \in BOOLEAN
<1>1. work[Here] \subseteq Changes
  BY HereIsADir, HeadTreeTypes
<1>2. CASE BeginTask
  BY <1>1, <1>2 DEF BeginTask
<1>3. CASE MeasureBaseline
  BY <1>1, <1>3 DEF MeasureBaseline, TypeOK
<1>4. CASE Verify
  BY <1>1, <1>4 DEF Verify, TypeOK
<1>5. CASE StartRollback
  BY <1>1, <1>5 DEF StartRollback, TypeOK
<1>6. CASE RemoveNewFiles
  BY <1>6 DEF RemoveNewFiles, TypeOK
<1>7. CASE Finish \/ UserEdits \/ UserCommits \/ UNCHANGED vars
  BY <1>7, FinishConstants DEF TypeOK
<1>8. CASE \/ Checkpoint \/ CheckpointFails \/ Edit \/ ToolCommit \/ ToolRollback \/ Stop
           \/ Answer \/ GiveUp \/ Preserve \/ Branch \/ ResolveFails \/ Reset \/ RollbackFails
  BY <1>8 DEF TypeOK, history, Checkpoint, CheckpointFails, Edit, ToolCommit, ToolRollback,
       Stop, Answer, GiveUp, Preserve, Branch, ResolveFails, Reset, RollbackFails
<1> QED
  BY <1>2, <1>3, <1>4, <1>5, <1>6, <1>7, <1>8 DEF Next, Task

\* Every step keeps the bounded counters numbers.
LEMMA StepBounds ==
  ASSUME TypeOK, [Next]_vars
  PROVE  {tasks', edits', faults', user'} \subseteq Nat
<1>1. tasks \in Nat /\ edits \in Nat /\ faults \in Nat /\ user \in Nat
  BY DEF TypeOK
<1>2. CASE BeginTask
  BY <1>1, <1>2 DEF BeginTask
<1>3. CASE Edit \/ ToolRollback
  BY <1>1, <1>3 DEF Edit, ToolRollback
<1>4. CASE \/ CheckpointFails \/ ResolveFails \/ RollbackFails \/ CheckChangedFails
           \/ PromoteFails \/ RemoveFails
  <2>1. Fault
    BY <1>4 DEF CheckpointFails, ResolveFails, RollbackFails, CheckChangedFails, PromoteFails,
         RemoveFails
  <2> QED
    BY <1>1, <2>1 DEF Fault
<1>5. CASE UserEdits \/ UserCommits
  BY <1>1, <1>5 DEF UserEdits, UserCommits
<1>6. CASE \/ Checkpoint \/ MeasureBaseline \/ ToolCommit \/ Stop \/ Answer \/ Verify \/ GiveUp
           \/ StartRollback \/ Preserve \/ Branch \/ Reset \/ RemoveNewFiles \/ Quit
           \/ CheckChanged \/ Refuse \/ CommitWork \/ CheckMainClean \/ MergeFF \/ Remove
           \/ UNCHANGED vars
  <2>1. UNCHANGED bounds
    BY <1>6 DEF Checkpoint, MeasureBaseline, ToolCommit, Stop, Answer, Verify, GiveUp,
         StartRollback, Preserve, Branch, Reset, RemoveNewFiles, Quit, CheckChanged, Refuse,
         CommitWork, CheckMainClean, MergeFF, Remove, vars
  <2> QED
    BY <1>1, <2>1 DEF bounds
<1> QED
  BY <1>2, <1>3, <1>4, <1>5, <1>6 DEF Next, Task, Finish

\* Every step keeps the types.
LEMMA StepTypes ==
  ASSUME TypeOK, GitOK, RollbackIsJustified, [Next]_vars
  PROVE  TypeOK'
<1>1. GitOK' /\ Grows
  BY StepGit
<1>2. base' \in CommitIds'
  BY <1>1, StepConstants DEF TypeOK, GitOK, Grows, CommitIds
<1>3. cfg' \in Configs /\ mode' \in Modes
  BY StepConstants, StepModes DEF TypeOK
<1> QED
  BY <1>1, <1>2, <1>3, StepReports, StepWorktree, StepGoal, StepHistory, StepBounds
     DEF TypeOK, GitOK

-----------------------------------------------------------------------------
(* What a step leaves alone *)

\* A session does not change the checkout it works in.
LEMMA HereStays ==
  ASSUME [Next]_vars
  PROVE  Here' = Here
BY StepConstants DEF Here

\* A task works in one checkout and leaves the other as it is.
LEMMA TaskStaysHere ==
  ASSUME GitOK, Task, NEW d \in Dirs, d # Here
  PROVE  head'[d] = head[d] /\ work'[d] = work[d]
<1> USE HereIsADir
<1>0. head \in [Dirs -> CommitIds] /\ work \in [Dirs -> SUBSET Changes]
  BY DEF GitOK
<1>1. ASSUME UNCHANGED git PROVE head'[d] = head[d] /\ work'[d] = work[d]
  BY <1>1 DEF git
<1>2. ASSUME CommitAll(Here) PROVE head'[d] = head[d] /\ work'[d] = work[d]
  BY <1>0, <1>1, <1>2 DEF CommitAll, CommitTree
<1>3. CASE Checkpoint \/ CheckpointFails \/ Preserve
  BY <1>1, <1>2, <1>3 DEF Checkpoint, CheckpointFails, Preserve
<1>4. CASE ToolCommit
  BY <1>0, <1>4 DEF ToolCommit, CommitTree
<1>5. CASE Edit
  BY <1>0, <1>5 DEF Edit
<1>6. CASE ToolRollback
  BY <1>0, <1>6 DEF ToolRollback
<1>7. CASE Branch
  BY <1>7 DEF Branch
<1>8. CASE Reset \/ RemoveNewFiles
  BY <1>0, <1>8 DEF Reset, ResetHard, RemoveNewFiles, Clean
<1>9. CASE \/ BeginTask \/ MeasureBaseline \/ Stop \/ Answer \/ Verify \/ GiveUp
           \/ StartRollback \/ ResolveFails \/ RollbackFails
  BY <1>1, <1>9 DEF BeginTask, MeasureBaseline, Stop, Answer, Verify, GiveUp, StartRollback,
       ResolveFails, RollbackFails
<1> QED
  BY <1>3, <1>4, <1>5, <1>6, <1>7, <1>8, <1>9 DEF Task

\* The user works in the main checkout of an isolated session only.
LEMMA UserStaysInMain ==
  ASSUME TypeOK, GitOK, UserEdits \/ UserCommits
  PROVE  /\ cfg.isolated /\ user' # user
         /\ UNCHANGED <<mode, kept, wtDir, wtBranch, report>>
         /\ head'["wt"] = head["wt"] /\ work'["wt"] = work["wt"]
         /\ head["main"] \in commits'[head'["main"]].anc
<1>1. "main" \in Dirs /\ "wt" \in Dirs /\ user \in Nat
  BY DEF Dirs, TypeOK
<1>2. CASE UserEdits
  <2>1. UNCHANGED <<commits, head>>
    BY <1>2 DEF UserEdits
  <2>2. work'["wt"] = work["wt"]
    BY <1>1, <1>2 DEF UserEdits, GitOK
  <2>3. head["main"] \in commits'[head'["main"]].anc
    BY <1>1, <2>1, HeadTreeTypes
  <2> QED
    BY <1>1, <1>2, <2>1, <2>2, <2>3 DEF UserEdits, wt
<1>3. CASE UserCommits
  <2>1. Commits("main")
    BY <1>1, <1>3, CommitAllCommits DEF UserCommits
  <2> QED
    BY <1>1, <1>3, <2>1 DEF UserCommits, wt, Commits
<1> QED
  BY <1>2, <1>3

\* The end of a session leaves the worktree's files as they are.
LEMMA FinishStays ==
  ASSUME GitOK, Finish
  PROVE  /\ work'["wt"] = work["wt"] /\ kept' = kept
         /\ mode \in AtEnd \cup {"idle"} /\ mode' \in AtEnd \cup {"exited"}
<1>1. "main" \in Dirs /\ "wt" \in Dirs
  BY DEF Dirs
<1>2. CASE CommitWork
  <2>1. Commits("wt")
    BY <1>1, <1>2, CommitAllCommits DEF CommitWork
  <2> QED
    BY <1>2, <2>1 DEF CommitWork, Commits, AtEnd
<1>3. CASE MergeFF
  BY <1>1, <1>3 DEF MergeFF, AtEnd, Leave, GitOK
<1>4. CASE \/ Quit \/ CheckChanged \/ CheckChangedFails \/ Refuse \/ CheckMainClean
           \/ PromoteFails \/ Remove \/ RemoveFails
  <2>1. UNCHANGED git
    BY <1>4 DEF Quit, CheckChanged, CheckChangedFails, Refuse, CheckMainClean, PromoteFails,
         Remove, RemoveFails
  <2>2. mode \in AtEnd \cup {"idle"} /\ mode' \in AtEnd \cup {"exited"}
    BY <1>4 DEF Quit, CheckChanged, CheckChangedFails, Refuse, CheckMainClean, PromoteFails,
         Remove, RemoveFails, Leave, AfterRemoval, AtEnd
  <2> QED
    BY <2>1, <2>2 DEF git
<1> QED
  BY <1>2, <1>3, <1>4 DEF Finish

\* A task begins and ends at the prompt.
LEMMA TaskModes ==
  ASSUME Task
  PROVE  mode \in InTask \cup {"idle"} /\ mode' \in InTask \cup {"idle"}
BY DEF InTask, Rollback, Task, BeginTask, Checkpoint, CheckpointFails, MeasureBaseline,
       Edit, ToolCommit, ToolRollback, Stop, Answer, Verify, GiveUp, StartRollback, Preserve,
       Branch, ResolveFails, Reset, RemoveNewFiles, RollbackFails

-----------------------------------------------------------------------------
(* Each part of the invariant is kept *)

\* Every step keeps the worktree while it is needed.
LEMMA StepIsolation ==
  ASSUME TypeOK, GitOK, Isolation, [Next]_vars
  PROVE  Isolation'
<1>1. CASE Task
  BY <1>1, TaskModes, TaskConstants, StepConstants DEF Isolation, InTask, Rollback, AtEnd
<1>2. CASE Finish
  <2>1. CASE Quit \/ CheckChanged \/ CheckChangedFails \/ CommitWork
    BY <2>1, StepConstants DEF Quit, CheckChanged, CheckChangedFails, CommitWork, wt,
         Isolation, InTask, Rollback, AtEnd
  <2>2. CASE Refuse \/ CheckMainClean \/ MergeFF \/ PromoteFails
    BY <2>2, StepConstants DEF Refuse, CheckMainClean, MergeFF, PromoteFails, wt, Leave,
         Isolation, InTask, Rollback, AtEnd
  <2>3. CASE Remove \/ RemoveFails
    BY <2>3, StepConstants DEF Remove, RemoveFails, AfterRemoval, Promoted,
         Isolation, InTask, Rollback, AtEnd
  <2> QED
    BY <1>2, <2>1, <2>2, <2>3 DEF Finish
<1>3. CASE UserEdits \/ UserCommits
  BY <1>3, UserStaysInMain, StepConstants DEF Isolation
<1>4. CASE UNCHANGED vars
  BY <1>4, StepConstants DEF vars, wt, Isolation
<1> QED
  BY <1>1, <1>2, <1>3, <1>4 DEF Next

\* Every step keeps the objective in agreement with the trees measured.
LEMMA StepMeasured ==
  ASSUME TypeOK, GitOK, Isolation, Measured, [Next]_vars
  PROVE  Measured'
<1> USE HereStays, StepConstants
<1>1. CASE BeginTask
  BY <1>1 DEF BeginTask, ResetGoal, ForgetGoal, Measured, InTask, Rollback
<1>2. CASE Checkpoint \/ CheckpointFails
  BY <1>2 DEF Checkpoint, CheckpointFails, goal, history, Measured, InTask, Rollback
<1>3. CASE MeasureBaseline
  BY <1>3 DEF MeasureBaseline, Measured, InTask, Rollback
<1>4. CASE Edit \/ ToolCommit \/ ToolRollback \/ Answer \/ StartRollback
  BY <1>4 DEF Edit, ToolCommit, ToolRollback, Answer, StartRollback, goal, Measured, InTask,
       Rollback
<1>5. CASE Stop \/ GiveUp
  BY <1>5 DEF Stop, GiveUp, goal, Measured, InTask, Rollback
<1>6. CASE Verify
  BY <1>6 DEF Verify, git, Outcomes, Measured, InTask, Rollback
<1>7. CASE Preserve \/ Branch \/ ResolveFails \/ Reset \/ RemoveNewFiles \/ RollbackFails
  BY <1>7 DEF Preserve, Branch, ResolveFails, Reset, RemoveNewFiles, RollbackFails, goal,
       Measured, InTask, Rollback
<1>8. CASE Finish
  <2>1. work'[Here] = work[Here]
    <3>1. CASE mode \in AtEnd
      BY <1>8, <3>1, FinishStays DEF Isolation, Here
    <3>2. CASE mode = "idle"
      BY <1>8, <3>2 DEF Finish, Quit, CheckChanged, CheckChangedFails, Refuse, CommitWork,
           CheckMainClean, MergeFF, PromoteFails, Remove, RemoveFails, git
    <3> QED
      BY <1>8, <3>1, <3>2, FinishStays
  <2> QED
    BY <1>8, <2>1, FinishStays, FinishConstants DEF Measured, InTask, Rollback, AtEnd
<1>9. CASE UserEdits \/ UserCommits
  <2>1. work'[Here] = work[Here]
    BY <1>9, UserStaysInMain DEF Here
  <2> QED
    BY <1>9, <2>1, UserStaysInMain, FinishConstants DEF Measured
<1>10. CASE UNCHANGED vars
  BY <1>10 DEF vars, git, goal, history, Measured
<1> QED
  BY <1>1, <1>2, <1>3, <1>4, <1>5, <1>6, <1>7, <1>8, <1>9, <1>10 DEF Next, Task

\* Only a regression leads to a rollback.
LEMMA StepRollbackIsJustified ==
  ASSUME TypeOK, Measured, RollbackOK, RollbackIsJustified, [Next]_vars
  PROVE  RollbackIsJustified'
<1>1. CASE BeginTask
  BY <1>1 DEF BeginTask, RollbackIsJustified
<1>2. CASE Checkpoint \/ CheckpointFails \/ MeasureBaseline
  BY <1>2 DEF Checkpoint, CheckpointFails, MeasureBaseline, history, RollbackOK, InTask,
       RollbackIsJustified
<1>3. CASE Edit \/ ToolCommit \/ ToolRollback \/ Stop \/ Answer \/ Verify \/ GiveUp
  BY <1>3 DEF Edit, ToolCommit, ToolRollback, Stop, Answer, Verify, GiveUp, history, RollbackOK,
       InTask, RollbackIsJustified
<1>4. CASE StartRollback
  <2>1. verifyRounds > 0
    BY <1>4, GoalAssumption DEF StartRollback, RoundsLeft, TypeOK
  <2> QED
    BY <1>4, <2>1 DEF StartRollback, Measured, goal, RollbackIsJustified
<1>5. CASE Preserve \/ Branch \/ ResolveFails \/ Reset \/ RemoveNewFiles \/ RollbackFails
  BY <1>5 DEF Preserve, Branch, ResolveFails, Reset, RemoveNewFiles, RollbackFails, goal, history,
       RollbackIsJustified
<1>6. CASE Finish \/ UserEdits \/ UserCommits \/ UNCHANGED vars
  <2>1. mode' \in {"preserve", "branch", "reset", "clean"} => mode' = mode
    BY <1>6 DEF Finish, Quit, CheckChanged, CheckChangedFails, Refuse, CommitWork,
         CheckMainClean, MergeFF, PromoteFails, Remove, RemoveFails, Leave, AfterRemoval,
         UserEdits, UserCommits, vars
  <2> QED
    BY <1>6, <2>1, FinishConstants DEF RollbackIsJustified
<1> QED
  BY <1>1, <1>2, <1>3, <1>4, <1>5, <1>6 DEF Next, Task

\* The tree the commit at the checkpoint holds does not change.
LEMMA CheckpointStays ==
  ASSUME TypeOK, Grows, RollbackOK, checkpoint' = checkpoint, start' = start
  PROVE  checkpoint' # 0 => commits'[checkpoint'].tree = start'
BY DEF TypeOK, Grows, RollbackOK

\* Every step of a rollback leads on from what the one before it did.
LEMMA StepRollbackOK ==
  ASSUME TypeOK, GitOK, Grows, Isolation, RollbackOK, RollbackIsJustified, [Next]_vars
  PROVE  RollbackOK'
<1> USE HereStays, HereIsADir
<1>0. Here' = Here
  OBVIOUS
<1>1. CASE BeginTask
  BY <1>1 DEF BeginTask, ResetGoal, ForgetGoal, git, RollbackOK
<1>2. CASE Checkpoint
  <2>1. HeadTree(Here)' = work[Here]
    BY <1>2, CommitAllCommits DEF Checkpoint
  <2> QED
    BY <1>2, <2>1 DEF Checkpoint, history, HeadTree, RollbackOK, InTask
<1>3. CASE CheckpointFails \/ MeasureBaseline
  BY <1>3, CheckpointStays DEF CheckpointFails, MeasureBaseline, goal, history, RollbackOK, InTask
<1>4. CASE Edit \/ ToolCommit \/ ToolRollback \/ Stop \/ Answer \/ Verify \/ GiveUp
  <2>1. /\ checkpoint' = checkpoint /\ start' = start /\ rolledBack' = rolledBack
        /\ mode \in InTask /\ mode' \in {"idle", "work", "verify"}
    BY <1>4 DEF Edit, ToolCommit, ToolRollback, Stop, Answer, Verify, GiveUp, goal, history,
         InTask
  <2> QED
    BY <2>1, CheckpointStays DEF RollbackOK
<1>5. CASE StartRollback
  BY <1>5, CheckpointStays DEF StartRollback, git, goal, RollbackOK, InTask
<1>6. CASE Preserve
  <2>1. HeadTree(Here)' = work[Here] /\ work' = work
    BY <1>6, CommitAllCommits DEF Preserve, Commits
  <2> QED
    BY <1>0, <1>6, <2>1, CheckpointStays DEF Preserve, goal, history, HeadTree, RollbackOK,
         InTask, Rollback
<1>7. CASE Branch
  <2>1. head'[Here] \in kept' \cup {checkpoint}
    BY <1>7 DEF Branch
  <2>2. HeadTree(Here)' = HeadTree(Here) /\ work' = work
    BY <1>0, <1>7 DEF Branch, HeadTree
  <2> QED
    BY <1>0, <1>7, <2>1, <2>2, CheckpointStays DEF Branch, goal, history, RollbackOK, InTask,
         Rollback
<1>8. CASE Reset
  <2>1. /\ head \in [Dirs -> CommitIds] /\ work \in [Dirs -> SUBSET Changes]
        /\ commits[checkpoint].tree = start
    BY <1>8 DEF GitOK, Reset, RollbackOK, RollbackIsJustified
  <2>2. head'[Here] = checkpoint /\ work'[Here] = start \cup Untracked(Here)
    BY <1>8, <2>1 DEF Reset, ResetHard
  <2>3. Untracked(Here) \subseteq NewFiles
    BY DEF Untracked
  <2> QED
    BY <1>0, <1>8, <2>2, <2>3, CheckpointStays DEF Reset, goal, history, RollbackOK, InTask,
         Rollback
<1>9. CASE RemoveNewFiles \/ RollbackFails
  BY <1>9, CheckpointStays DEF RemoveNewFiles, RollbackFails, goal, history, RollbackOK, InTask,
       Rollback
<1>10. CASE Finish
  BY <1>10, FinishStays, FinishConstants, CheckpointStays DEF AtEnd, RollbackOK, InTask, Rollback
<1>11. CASE UserEdits \/ UserCommits
  <2>1. /\ work'[Here] = work[Here] /\ head'[Here] = head[Here]
        /\ HeadTree(Here)' = HeadTree(Here)
    BY <1>0, <1>11, UserStaysInMain, HeadTreeTypes DEF Here, HeadTree, Grows
  <2> QED
    BY <1>0, <1>11, <2>1, UserStaysInMain, FinishConstants, CheckpointStays DEF RollbackOK
<1>12. CASE UNCHANGED vars
  BY <1>0, <1>12 DEF vars, git, goal, history, HeadTree, RollbackOK
<1>13. CASE ResolveFails
  BY <1>0, <1>13, CheckpointStays DEF ResolveFails, git, goal, HeadTree, RollbackOK, InTask, Rollback
<1> QED
  BY <1>1, <1>2, <1>3, <1>4, <1>5, <1>6, <1>7, <1>8, <1>9, <1>10, <1>11, <1>12, <1>13
     DEF Next, Task

\* The last step of a rollback completes it.
LEMMA StepRestoresStart ==
  ASSUME TypeOK, GitOK, Isolation, RollbackOK, RollbackIsJustified, RollbackRestoresStart,
         [Next]_vars
  PROVE  RollbackRestoresStart'
<1> USE HereStays, HereIsADir
<1>1. CASE RemoveNewFiles
  <2>1. /\ commits[checkpoint].tree = start /\ head[Here] = checkpoint
        /\ start \subseteq work[Here] /\ work[Here] \ start \subseteq NewFiles
    BY <1>1 DEF RemoveNewFiles, RollbackOK, RollbackIsJustified
  <2>2. work'[Here] = work[Here] \ ((work[Here] \cap NewFiles) \ start)
    BY <1>1, <2>1 DEF RemoveNewFiles, Clean, Untracked, HeadTree, GitOK
  <2>3. work'[Here] = start
    BY <2>1, <2>2
  <2> QED
    BY <1>1, <2>3 DEF RemoveNewFiles, RollbackRestoresStart
<1>2. CASE BeginTask
  BY <1>2 DEF BeginTask, RollbackRestoresStart
<1>3. CASE \/ Checkpoint \/ CheckpointFails \/ MeasureBaseline \/ Edit \/ ToolCommit
           \/ ToolRollback \/ Stop \/ Answer \/ Verify \/ GiveUp \/ StartRollback \/ Preserve
           \/ Branch \/ ResolveFails \/ Reset \/ RollbackFails
  <2>1. mode \in InTask /\ rolledBack' = rolledBack
    BY <1>3 DEF Checkpoint, CheckpointFails, MeasureBaseline, Edit, ToolCommit, ToolRollback,
         Stop, Answer, Verify, GiveUp, StartRollback, Preserve, Branch, ResolveFails, Reset,
         RollbackFails, history, InTask, Rollback
  <2> QED
    BY <2>1 DEF RollbackOK, RollbackRestoresStart
<1>4. CASE Finish
  BY <1>4, FinishStays DEF AtEnd, RollbackRestoresStart
<1>5. CASE UserEdits \/ UserCommits
  BY <1>5, UserStaysInMain, FinishConstants DEF Here, RollbackRestoresStart
<1>6. CASE UNCHANGED vars
  BY <1>6 DEF vars, git, history, RollbackRestoresStart
<1> QED
  BY <1>1, <1>2, <1>3, <1>4, <1>5, <1>6 DEF Next, Task

\* A commit in a branch stays in it when the branch moves to a commit that
\* reaches where it was.
LEMMA StaysReached ==
  ASSUME GitOK, GitOK', Grows, NEW b \in CommitIds, NEW e \in CommitIds', b \in commits'[e].anc,
         NEW c \in commits[b].anc
  PROVE  c \in commits'[e].anc
BY DEF GitOK, Grows

\* What some branch reached is still reached when no branch but a merged one
\* is given up.
LEMMA ReachableGrows ==
  ASSUME GitOK, GitOK', Grows, kept \subseteq kept',
         head["main"] \in commits'[head'["main"]].anc,
         wtBranch => \/ wtBranch' /\ head["wt"] \in commits'[head'["wt"]].anc
                     \/ head["wt"] \in commits'[head'["main"]].anc
  PROVE  Reachable \subseteq Reachable'
<1>1. /\ head["main"] \in CommitIds /\ head["wt"] \in CommitIds
      /\ head'["main"] \in CommitIds' /\ head'["wt"] \in CommitIds'
      /\ kept \subseteq CommitIds /\ kept' \subseteq CommitIds'
  BY DEF GitOK, Dirs
<1> SUFFICES ASSUME NEW c \in Reachable PROVE c \in Reachable'
  OBVIOUS
<1>2. PICK b \in kept \cup {head["main"]} \cup (IF wtBranch THEN {head["wt"]} ELSE {}) :
        c \in commits[b].anc
  BY DEF Reachable
<1>3. CASE b \in kept
  BY <1>1, <1>2, <1>3 DEF Grows, Reachable
<1>4. CASE b = head["main"]
  <2>1. c \in commits'[head'["main"]].anc
    BY <1>1, <1>2, <1>4, StaysReached
  <2> QED
    BY <2>1 DEF Reachable
<1>5. CASE wtBranch /\ b = head["wt"]
  <2>1. \/ wtBranch' /\ c \in commits'[head'["wt"]].anc
        \/ c \in commits'[head'["main"]].anc
    BY <1>1, <1>2, <1>5, StaysReached
  <2> QED
    BY <2>1 DEF Reachable
<1> QED
  BY <1>2, <1>3, <1>4, <1>5

\* The end of a session moves the branches forwards.
LEMMA FinishMovesForward ==
  ASSUME GitOK, GitOK', Grows, Finish
  PROVE  /\ head["main"] \in commits'[head'["main"]].anc
         /\ head["wt"] \in commits'[head'["wt"]].anc
         /\ wtBranch => wtBranch' \/ head["wt"] \in commits'[head'["main"]].anc
<1>1. /\ "main" \in Dirs /\ "wt" \in Dirs
      /\ head["main"] \in commits[head["main"]].anc /\ head["wt"] \in commits[head["wt"]].anc
  BY HeadTreeTypes DEF Dirs
<1>2. CASE CommitWork
  <2>1. Commits("wt") /\ wtBranch' = wtBranch
    BY <1>1, <1>2, CommitAllCommits DEF CommitWork, wt
  <2>2. head'["main"] = head["main"] /\ commits'[head["main"]] = commits[head["main"]]
    BY <1>1, <2>1, HeadTreeTypes DEF Commits, Grows
  <2> QED
    BY <1>1, <2>1, <2>2 DEF Commits
<1>3. CASE MergeFF
  <2>1. commits' = commits /\ wtBranch' = wtBranch /\ head'["wt"] = head["wt"]
    BY <1>1, <1>3 DEF MergeFF, wt, GitOK
  <2>2. head'["main"] = head["main"] \/ (CanFastForward /\ head'["main"] = head["wt"])
    BY <1>1, <1>3 DEF MergeFF, GitOK
  <2> QED
    BY <1>1, <2>1, <2>2 DEF CanFastForward
<1>4. CASE Remove
  BY <1>1, <1>4 DEF Remove, git
<1>5. CASE \/ Quit \/ CheckChanged \/ CheckChangedFails \/ Refuse \/ CheckMainClean
           \/ PromoteFails \/ RemoveFails
  <2>1. UNCHANGED git /\ wtBranch' = wtBranch
    BY <1>5 DEF Quit, CheckChanged, CheckChangedFails, Refuse, CheckMainClean, PromoteFails,
         RemoveFails, wt
  <2> QED
    BY <1>1, <2>1 DEF git
<1> QED
  BY <1>2, <1>3, <1>4, <1>5 DEF Finish

\* Every step keeps the commit of an attempt within reach.
LEMMA StepAttemptIsKept ==
  ASSUME TypeOK, GitOK, GitOK', Grows, Isolation, RollbackOK,
         RollbackIsJustified, AttemptIsKept, [Next]_vars
  PROVE  AttemptIsKept'
<1>0. \A c \in Reachable : c \in CommitIds
  BY DEF Reachable, GitOK, Dirs
<1>1. ASSUME Reachable \subseteq Reachable', attempt' = attempt, unresolved' = unresolved,
             mode' = "clean" \/ rolledBack' => mode = "clean" \/ rolledBack
      PROVE  AttemptIsKept'
  BY <1>0, <1>1 DEF AttemptIsKept, AttemptIsReachable, Grows
<1>2. CASE Reset /\ ~unresolved
  <2>1. /\ HeadTree(Here) = attempt /\ head[Here] \in kept \cup {checkpoint}
        /\ head[Here] \in commits[head[Here]].anc /\ checkpoint \in CommitIds
    BY <1>2, HereIsADir, HeadTreeTypes DEF Reset, RollbackOK, RollbackIsJustified, TypeOK
  <2>2. commits' = commits /\ head'[Here] = checkpoint /\ kept' = kept /\ wtBranch' = wtBranch
        /\ attempt' = attempt
    BY <1>2, HereIsADir DEF Reset, ResetHard, GitOK, wt, history
  <2>3. Here = "main" \/ (Here = "wt" /\ wtBranch)
    BY <1>2 DEF Here, Isolation, Reset, InTask, Rollback
  <2>4. head[Here] \in Reachable'
    BY <2>1, <2>2, <2>3 DEF Reachable
  <2> QED
    BY <2>1, <2>2, <2>4 DEF AttemptIsKept, AttemptIsReachable, HeadTree
<1>3. CASE RemoveNewFiles
  <2>1. UNCHANGED <<commits, head, kept, wtBranch, attempt, unresolved>> /\ mode = "clean"
    BY <1>3 DEF RemoveNewFiles, Clean, wt
  <2> QED
    BY <1>1, <2>1 DEF Reachable
<1>4. CASE \/ BeginTask \/ Checkpoint \/ CheckpointFails \/ MeasureBaseline \/ Edit
           \/ ToolCommit \/ ToolRollback \/ Stop \/ Answer \/ Verify \/ GiveUp \/ StartRollback
           \/ Preserve \/ Branch \/ ResolveFails \/ RollbackFails
  <2>1. mode' # "clean" /\ ~rolledBack'
    BY <1>4 DEF BeginTask, Checkpoint, CheckpointFails, MeasureBaseline, Edit, ToolCommit,
         ToolRollback, Stop, Answer, Verify, GiveUp, StartRollback, Preserve, Branch,
         ResolveFails, RollbackFails, history, RollbackOK, InTask, Rollback
  <2> QED
    BY <2>1 DEF AttemptIsKept
<1>5. CASE Finish
  <2>1. Reachable \subseteq Reachable'
    BY <1>5, FinishMovesForward, FinishStays, ReachableGrows
  <2> QED
    BY <1>1, <1>5, <2>1, FinishConstants, FinishStays DEF AtEnd
<1>6. CASE UserEdits \/ UserCommits
  <2>1. head["wt"] \in commits'[head'["wt"]].anc
    BY <1>6, UserStaysInMain, HeadTreeTypes DEF Grows, Dirs
  <2>2. Reachable \subseteq Reachable'
    BY <1>6, <2>1, UserStaysInMain, ReachableGrows
  <2> QED
    BY <1>1, <1>6, <2>2, UserStaysInMain, FinishConstants
<1>7. CASE UNCHANGED vars
  BY <1>7 DEF vars, git, history, wt, Reachable, AttemptIsKept, AttemptIsReachable
<1>8. CASE Reset /\ unresolved
  BY <1>8 DEF Reset, history, AttemptIsKept
<1> QED
  BY <1>2, <1>3, <1>4, <1>5, <1>6, <1>7, <1>8 DEF Next, Task

-----------------------------------------------------------------------------
(* The end of a session *)

\* A user's commit keeps what is in the main branch.
LEMMA UserKeepsMain ==
  ASSUME TypeOK, GitOK, GitOK', Grows, UserEdits \/ UserCommits
  PROVE  /\ HeadTree("wt")' = HeadTree("wt") /\ Dirty("wt")' = Dirty("wt")
         /\ InMain(head["wt"]) => InMain(head["wt"])'
<1>1. /\ head["wt"] \in CommitIds /\ head["main"] \in CommitIds /\ head'["main"] \in CommitIds'
      /\ head'["wt"] = head["wt"] /\ work'["wt"] = work["wt"]
      /\ head["main"] \in commits'[head'["main"]].anc
  BY UserStaysInMain DEF GitOK, Dirs
<1>2. HeadTree("wt")' = HeadTree("wt") /\ Dirty("wt")' = Dirty("wt")
  BY <1>1 DEF HeadTree, Dirty, Grows
<1>3. InMain(head["wt"]) => InMain(head["wt"])'
  BY <1>1, StaysReached DEF InMain
<1> QED
  BY <1>2, <1>3

\* Every step of the end of a session leads on from the one before it.
LEMMA StepFinishOK ==
  ASSUME TypeOK, GitOK, GitOK', Grows, FinishOK, [Next]_vars
  PROVE  FinishOK'
<1>1. CASE Task
  BY <1>1, TaskModes DEF FinishOK, InTask, Rollback
<1>2. CASE CheckChanged
  BY <1>2 DEF CheckChanged, Changed, Dirty, HeadTree, git, wt, goal, FinishOK
<1>3. CASE CommitWork
  BY <1>3, CommitAllCommits DEF CommitWork, MayPromote, goal, FinishOK, Dirs
<1>4. CASE CheckMainClean
  BY <1>4 DEF CheckMainClean, Leave, Dirty, HeadTree, git, goal, FinishOK
<1>5. CASE MergeFF
  <2>1. /\ head \in [Dirs -> CommitIds] /\ work \in [Dirs -> SUBSET Changes]
        /\ "main" \in Dirs /\ "wt" \in Dirs /\ head["wt"] \in commits[head["wt"]].anc
    BY HeadTreeTypes DEF GitOK, Dirs
  <2>2. /\ commits' = commits /\ head'["wt"] = head["wt"] /\ work'["wt"] = work["wt"]
        /\ objective' = objective
        /\ mode' = "exited" \/ (mode' = "removePromoted" /\ head'["main"] = head["wt"])
    BY <1>5, <2>1 DEF MergeFF, Leave, goal
  <2> QED
    BY <1>5, <2>1, <2>2 DEF MergeFF, Dirty, HeadTree, InMain, FinishOK
<1>6. CASE Quit \/ CheckChangedFails \/ Refuse \/ PromoteFails \/ Remove \/ RemoveFails
  BY <1>6 DEF Quit, CheckChangedFails, Refuse, PromoteFails, Leave, Remove, RemoveFails,
       AfterRemoval, FinishOK
<1>7. CASE UserEdits \/ UserCommits
  BY <1>7, UserStaysInMain, UserKeepsMain, FinishConstants, StepConstants DEF FinishOK
<1>8. CASE UNCHANGED vars
  BY <1>8 DEF vars, git, goal, wt, Dirty, HeadTree, InMain, FinishOK
<1> QED
  BY <1>1, <1>2, <1>3, <1>4, <1>5, <1>6, <1>7, <1>8 DEF Next, Finish

\* A promotion follows a measure that passed.
LEMMA StepPromotedPassed ==
  ASSUME TypeOK, GitOK, GitOK', Grows, Isolation, Measured, FinishOK,
         PromotedPassedWithoutCheckpoints, [Next]_vars
  PROVE  PromotedPassedWithoutCheckpoints'
<1> USE StepConstants
<1>1. CASE Task
  <2>1. mode' # "removePromoted" /\ report' # "promoted"
    BY <1>1, TaskModes, TaskConstants DEF Isolation, InTask, Rollback
  <2> QED
    BY <2>1 DEF PromotedPassedWithoutCheckpoints
<1>2. CASE Quit \/ CheckChanged \/ CheckChangedFails \/ Refuse \/ CommitWork \/ CheckMainClean
           \/ PromoteFails
  <2>1. mode' # "removePromoted" /\ report' # "promoted"
    BY <1>2 DEF Quit, CheckChanged, CheckChangedFails, Refuse, CommitWork, CheckMainClean,
         PromoteFails, Leave, Isolation
  <2> QED
    BY <2>1 DEF PromotedPassedWithoutCheckpoints
<1>3. CASE MergeFF
  <2>1. CASE ~CanFastForward
    BY <1>3, <2>1 DEF MergeFF, Leave, PromotedPassedWithoutCheckpoints
  <2>2. CASE CanFastForward /\ ~cfg.checkpoint
    <3>1. work["wt"] \in Passing /\ measured = {work["wt"]} /\ HeadTree("wt") = work["wt"]
      BY <1>3, <2>2 DEF MergeFF, FinishOK, Measured, Isolation, AtEnd, InTask, Rollback, Dirty,
           Here
    <3>2. /\ head \in [Dirs -> CommitIds] /\ "main" \in Dirs /\ "wt" \in Dirs
          /\ head["wt"] \in commits[head["wt"]].anc
      BY HeadTreeTypes DEF GitOK, Dirs
    <3>3. /\ commits' = commits /\ head'["wt"] = head["wt"] /\ head'["main"] = head["wt"]
          /\ measured' = measured
      BY <1>3, <2>2, <3>2 DEF MergeFF, history
    <3> QED
      BY <3>1, <3>2, <3>3 DEF PromotedPassedWithoutCheckpoints, HeadTree, InMain
  <2>3. CASE cfg.checkpoint
    BY <2>3 DEF PromotedPassedWithoutCheckpoints
  <2> QED
    BY <2>1, <2>2, <2>3
<1>4. CASE Remove \/ RemoveFails
  <2>1. UNCHANGED <<git, measured>>
    BY <1>4 DEF Remove, RemoveFails, history
  <2>2. mode' # "removePromoted" /\ (report' = "promoted" => mode = "removePromoted")
    BY <1>4 DEF Remove, RemoveFails, AfterRemoval, Promoted, Isolation
  <2> QED
    BY <2>1, <2>2 DEF git, HeadTree, InMain, PromotedPassedWithoutCheckpoints
<1>5. CASE UserEdits \/ UserCommits
  BY <1>5, UserKeepsMain, UserStaysInMain, FinishConstants
     DEF PromotedPassedWithoutCheckpoints
<1>6. CASE UNCHANGED vars
  BY <1>6 DEF vars, git, history, HeadTree, InMain, PromotedPassedWithoutCheckpoints
<1> QED
  BY <1>1, <1>2, <1>3, <1>4, <1>5, <1>6 DEF Next, Finish

\* A removal follows a merge, or finds nothing to merge.
LEMMA StepOnlyMerged ==
  ASSUME TypeOK, GitOK, GitOK', Grows, Isolation, FinishOK, OnlyMergedWorkIsRemoved,
         [Next]_vars
  PROVE  OnlyMergedWorkIsRemoved'
<1> USE StepConstants
<1>1. CASE Task
  BY <1>1, TaskModes, TaskConstants DEF Isolation, OnlyMergedWorkIsRemoved
<1>2. CASE Remove \/ RemoveFails
  <2>1. UNCHANGED git
    BY <1>2 DEF Remove, RemoveFails
  <2>2. ~Dirty("wt") /\ (head["wt"] = base \/ InMain(head["wt"]))
    BY <1>2 DEF Remove, RemoveFails, FinishOK
  <2> QED
    BY <2>1, <2>2 DEF git, Dirty, HeadTree, InMain, OnlyMergedWorkIsRemoved
<1>3. CASE CommitWork \/ MergeFF
  <2>1. wtDir' /\ wtDir' = wtDir
    BY <1>3 DEF CommitWork, MergeFF, Isolation, wt
  <2> QED
    BY <2>1 DEF OnlyMergedWorkIsRemoved
<1>4. CASE Quit \/ CheckChanged \/ CheckChangedFails \/ Refuse \/ CheckMainClean \/ PromoteFails
  BY <1>4 DEF Quit, CheckChanged, CheckChangedFails, Refuse, CheckMainClean, PromoteFails,
       git, wt, Dirty, HeadTree, InMain, OnlyMergedWorkIsRemoved
<1>5. CASE UserEdits \/ UserCommits
  BY <1>5, UserKeepsMain, UserStaysInMain DEF OnlyMergedWorkIsRemoved
<1>6. CASE UNCHANGED vars
  BY <1>6 DEF vars, git, wt, Dirty, HeadTree, InMain, OnlyMergedWorkIsRemoved
<1> QED
  BY <1>1, <1>2, <1>3, <1>4, <1>5, <1>6 DEF Next, Finish

-----------------------------------------------------------------------------
(* The theorems *)

\* A session begins with one commit and nothing done.
LEMMA InitIInv ==
  ASSUME Init
  PROVE  IInv
<1>1. /\ cfg.isolated \in BOOLEAN /\ {} \in SUBSET Changes /\ 1 \in Nat
  BY GoalAssumption DEF Init
<1>2. Len(commits) = 1 /\ CommitIds = {1} /\ commits[1] = [tree |-> {}, anc |-> {1}]
  BY DEF Init, CommitIds
<1>3. commits[1] \in Commit /\ commits \in Seq(Commit)
  BY <1>2 DEF Init, Commit
<1>4. work \in [Dirs -> SUBSET Changes]
  BY DEF Init
<1>5. head \in [Dirs -> CommitIds] /\ head["main"] = 1 /\ head["wt"] = 1
  BY <1>2 DEF Init, Dirs
<1>6. GitOK
  BY <1>2, <1>3, <1>4, <1>5 DEF Init, GitOK
<1>7. TypeOK
  <2>1. verifyRounds \in 0 .. VerifyAttempts /\ {tasks, edits, faults, user} \subseteq Nat
    BY GoalAssumption DEF Init
  <2>2. wtDir \in BOOLEAN /\ wtBranch \in BOOLEAN
    BY <1>1 DEF Init
  <2>3. base \in CommitIds /\ kept \subseteq CommitIds /\ mode \in Modes
    BY <1>2 DEF Init, Modes
  <2>4. baseline \in Measures /\ objective \in Measures /\ checkpoint \in CommitIds \cup {0}
    BY DEF Init, Measures
  <2> QED
    BY <1>3, <1>4, <1>5, <2>1, <2>2, <2>3, <2>4 DEF Init, TypeOK
<1>8. Isolation
  BY DEF Init, Isolation, AtEnd, InTask, Rollback
<1>9. Measured /\ RollbackOK
  BY DEF Init, Measured, RollbackOK, InTask, Rollback
<1>10. FinishOK /\ RollbackIsJustified /\ RollbackRestoresStart
  BY DEF Init, FinishOK, RollbackIsJustified, RollbackRestoresStart
<1>11. AttemptIsKept /\ PromotedPassedWithoutCheckpoints /\ OnlyMergedWorkIsRemoved
  BY DEF Init, AttemptIsKept, PromotedPassedWithoutCheckpoints, OnlyMergedWorkIsRemoved
<1> QED
  BY <1>6, <1>7, <1>8, <1>9, <1>10, <1>11 DEF IInv

\* Every step keeps the invariant.
LEMMA StepIInv ==
  ASSUME IInv, [Next]_vars
  PROVE  IInv'
<1>1. GitOK' /\ Grows
  BY StepGit DEF IInv
<1> QED
  BY <1>1, StepTypes, StepIsolation, StepMeasured, StepRollbackOK, StepFinishOK,
     StepRollbackIsJustified, StepRestoresStart, StepAttemptIsKept, StepPromotedPassed,
     StepOnlyMerged DEF IInv

\* The inductive invariant of tasks, rollbacks and the end of a session, for
\* any flags, trees, tasks, edits and failing git commands.
THEOREM GoalInvariant == Spec => []IInv
<1>1. Init => IInv
  BY InitIInv
<1>2. IInv /\ [Next]_vars => IInv'
  BY StepIInv
<1> QED
  BY <1>1, <1>2, PTL DEF Spec

\* Checkpoints, measures, trees and branches keep their types; a branch points
\* at a commit.
THEOREM GoalTypes == Spec => []TypeOK
<1>1. IInv => TypeOK
  BY DEF IInv
<1> QED
  BY <1>1, GoalInvariant, PTL

\* The harness rolls back only an attempt after which a measure that passed
\* before the task failed.
THEOREM RollbacksAreJustified == Spec => []RollbackIsJustified
<1>1. IInv => RollbackIsJustified
  BY DEF IInv
<1> QED
  BY <1>1, GoalInvariant, PTL

\* A task reported as rolled back leaves the user's tree as it found it.
THEOREM RollbacksRestoreTheStart == Spec => []RollbackRestoresStart
<1>1. IInv => RollbackRestoresStart
  BY DEF IInv
<1> QED
  BY <1>1, GoalInvariant, PTL

\* Whichever git commands fail and wherever the process dies, a rollback loses
\* no attempt but the one in which git rev-parse itself failed: the code takes
\* that for an attempt without commits.
THEOREM AttemptsAreKept == Spec => []AttemptIsKept
<1>1. IInv => AttemptIsKept
  BY DEF IInv
<1> QED
  BY <1>1, GoalInvariant, PTL

\* Without checkpoints, what is promoted is the tree that was measured, the
\* measure passed on it, and the user's branch holds it.
THEOREM PromotionsPassed == Spec => []PromotedPassedWithoutCheckpoints
<1>1. IInv => PromotedPassedWithoutCheckpoints
  BY DEF IInv
<1> QED
  BY <1>1, GoalInvariant, PTL

\* Cleaning up removes only a worktree whose work is none or merged.
THEOREM RemovalsLoseNothing == Spec => []OnlyMergedWorkIsRemoved
<1>1. IInv => OnlyMergedWorkIsRemoved
  BY DEF IInv
<1> QED
  BY <1>1, GoalInvariant, PTL

-----------------------------------------------------------------------------
(* The user's branch *)

\* What moved forward is the branch, and the user's uncommitted changes are
\* the same over where it is now.
Forward ==
  /\ head["main"] \in commits'[head'["main"]].anc
  /\ Delta(work["main"], HeadTree("main")) =
       Delta(work'["main"], commits'[head'["main"]].tree)

\* Carrying the difference between two trees over to a third.
LEMMA DeltaCarriesOver ==
  ASSUME NEW w, NEW s, NEW t
  PROVE  Delta(w, s) = Delta(Delta(w, Delta(s, t)), t)
BY DEF Delta

\* In an isolated session no step of the program moves the main branch but
\* to a commit that reaches it.
LEMMA StepForward ==
  ASSUME TypeOK, GitOK, GitOK', Grows, Isolation, [Next]_vars, cfg.isolated, user' = user
  PROVE  Forward
<1>0. /\ "main" \in Dirs /\ "wt" \in Dirs /\ Here = "wt"
      /\ head \in [Dirs -> CommitIds] /\ work \in [Dirs -> SUBSET Changes]
      /\ head["main"] \in CommitIds /\ head["main"] \in commits[head["main"]].anc
  BY HeadTreeTypes DEF Dirs, Here, GitOK
<1>1. ASSUME head'["main"] = head["main"], work'["main"] = work["main"]
      PROVE  Forward
  BY <1>0, <1>1 DEF Forward, HeadTree, Grows
<1>2. CASE Task
  BY <1>0, <1>1, <1>2, TaskStaysHere
<1>3. CASE MergeFF
  <2>1. CASE ~CanFastForward
    BY <1>1, <1>3, <2>1 DEF MergeFF
  <2>2. CASE CanFastForward
    <3>1. /\ commits' = commits /\ head'["main"] = head["wt"]
          /\ work'["main"] = Delta(work["main"], Delta(HeadTree("main"), HeadTree("wt")))
      BY <1>0, <1>3, <2>2 DEF MergeFF
    <3>2. head["main"] \in commits'[head'["main"]].anc
      BY <2>2, <3>1 DEF CanFastForward
    <3>3. commits'[head'["main"]].tree = HeadTree("wt")
      BY <3>1 DEF HeadTree
    <3> QED
      BY <3>1, <3>2, <3>3, DeltaCarriesOver DEF Forward
  <2> QED
    BY <2>1, <2>2
<1>4. CASE CommitWork
  <2>1. Commits("wt")
    BY <1>0, <1>4, CommitAllCommits DEF CommitWork
  <2> QED
    BY <1>0, <1>1, <2>1 DEF Commits
<1>5. CASE \/ Quit \/ CheckChanged \/ CheckChangedFails \/ Refuse \/ CheckMainClean
           \/ PromoteFails \/ Remove \/ RemoveFails \/ UNCHANGED vars
  BY <1>1, <1>5 DEF Quit, CheckChanged, CheckChangedFails, Refuse, CheckMainClean, PromoteFails,
       Remove, RemoveFails, git, vars
<1>6. CASE UserEdits \/ UserCommits
  BY <1>6, UserStaysInMain
<1> QED
  BY <1>2, <1>3, <1>4, <1>5, <1>6 DEF Next, Finish

\* A session that works in a worktree of its own moves the user's branch only
\* forwards and keeps the user's uncommitted changes.
THEOREM UsersBranchMovesForward == Spec => MainOnlyMovesForward
<1>1. IInv /\ IInv' /\ [Next]_vars => [cfg.isolated /\ user' = user => Forward]_vars
  <2> SUFFICES ASSUME IInv, IInv', [Next]_vars, cfg.isolated, user' = user
               PROVE  Forward
    OBVIOUS
  <2>1. Grows
    BY StepGit DEF IInv
  <2> QED
    BY <2>1, StepForward DEF IInv
<1> QED
  BY <1>1, GoalInvariant, PTL DEF Spec, MainOnlyMovesForward, Forward
=============================================================================
