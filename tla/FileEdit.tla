------------------------------ MODULE FileEdit ------------------------------
(***************************************************************************)
(* One call of write_file, edit_file or apply_patch, from the preview that *)
(* Agent.dispatch shows to the file it publishes, while the user saves     *)
(* other versions of the same file with an editor.                         *)
(*                                                                         *)
(* A call is the function from the text of a file, None when there is no   *)
(* file, to the text it asks for, None when it cannot be applied.  The     *)
(* file system is external: a name leads to an inode, and an inode nothing *)
(* leads to may be given out again.                                        *)
(***************************************************************************)
EXTENDS Integers

CONSTANTS
  Texts, None,
  Calls,           \* the calls the model may make
  Platforms,       \* "exchange" on Linux, "rename" elsewhere
  Inodes,
  MaxCalls, MaxUser, MaxFaults \* bounds: calls; saves by the user; failures

Old == Texts \cup {None}

\* write_file replaces whatever there is; an edit needs a file.
Whole(c) == c[None] # None

ASSUME EditAssumption ==
  /\ None \notin Texts \cup Inodes
  /\ Calls \subseteq [Old -> Old]
  /\ \A c \in Calls : Whole(c) => \A t \in Texts : c[t] = c[None]
  /\ Platforms \subseteq {"exchange", "rename"}
  /\ {MaxCalls, MaxUser, MaxFaults} \subseteq Nat

VARIABLES
  platform,
  text,       \* per inode, what it holds
  name, temp, \* the inodes the file's and the temporary file's names lead to
  mode,       \* the step dispatch executes next
  call,
  shown,      \* the text of the preview, None when there is none
  expected,   \* the inode the call looked at, None when there was no file
  read, new,  \* the text an edit read, the text to publish
  result

\* History: nothing in the code reads these.
VARIABLES
  own,        \* the text the file has in the eyes of the user
  acts,       \* how and when the user saved since the preview
  reissued,   \* whether the inode the call looked at was given out again
  calls, user, faults

disk    == <<text, name, temp, reissued>>
request == <<platform, call, shown>>
target  == <<expected, read, new>>
bounds  == <<calls, user, faults>>
vars    == <<disk, mode, request, target, result, own, acts, bounds>>

Text(i) == IF i = None THEN None ELSE text[i]
Free    == Inodes \ {name, temp}

\* The file system gives out inode i, which may be the one the call has looked at.
Issue(i) == i \in Free /\ reissued' = (reissued \/ i = expected)

Init ==
  /\ platform \in Platforms
  /\ \E t \in Texts : text = [i \in Inodes |-> t]
  /\ name \in Inodes \cup {None} /\ temp = None /\ reissued = FALSE
  /\ mode = "idle" /\ call \in Calls /\ shown = None
  /\ expected = None /\ read = None /\ new = None
  /\ result = "none"
  /\ own = Text(name) /\ acts = {}
  /\ calls = 0 /\ user = 0 /\ faults = 0

-----------------------------------------------------------------------------
(* Agent.dispatch *)

\* The text the call asks for is shown, unless it is no change, cannot be
\* applied or is too large to compare.
Preview ==
  /\ mode = "idle" /\ calls < MaxCalls
  /\ calls' = calls + 1
  /\ call' \in Calls
  /\ LET wanted == call'[Text(name)] IN
     shown' \in {None, IF wanted = Text(name) THEN None ELSE wanted}
  /\ mode' = "confirm"
  /\ expected' = None /\ read' = None /\ new' = None /\ result' = "none"
  /\ own' = Text(name) /\ acts' = {} /\ reissued' = FALSE
  /\ UNCHANGED <<text, name, temp, platform, user, faults>>

\* Confirmed by the user, or by --auto.
Approve ==
  /\ mode = "confirm"
  /\ mode' = "read"
  /\ UNCHANGED <<disk, request, target, result, own, acts, bounds>>

Return(r) == mode' = "idle" /\ result' = r

Deny ==
  /\ mode = "confirm"
  /\ Return("denied")
  /\ UNCHANGED <<disk, request, target, own, acts, bounds>>

-----------------------------------------------------------------------------
(* The tool *)

NextAfterRead == IF platform = "exchange" THEN "write" ELSE "check"

\* A variant that writes whatever the patch engine returned.
ReadUnchecked ==
  /\ mode = "read"
  /\ expected' = name
  /\ read' = Text(name) /\ new' = call[read']
  /\ mode' = NextAfterRead
  /\ UNCHANGED <<disk, request, result, own, acts, bounds>>

\* write_file looks at what is there; an edit reads it and is applied.
Read ==
  /\ mode = "read"
  /\ expected' = name
  /\ read' = IF Whole(call) THEN None ELSE Text(name)
  /\ new' = call[read']
  /\ IF new' = None THEN Return("error") ELSE mode' = NextAfterRead /\ UNCHANGED result
  /\ UNCHANGED <<disk, request, own, acts, bounds>>

\* Not on Linux: the name still leads to what was looked at.
Check ==
  /\ mode = "check"
  /\ IF name = expected THEN mode' = "write" /\ UNCHANGED result ELSE Return("error")
  /\ UNCHANGED <<disk, request, target, own, acts, bounds>>

\* The temporary file is created, written and flushed.
WriteTemp ==
  /\ mode = "write"
  /\ \E i \in Inodes :
       /\ Issue(i)
       /\ temp' = i
       /\ text' = [text EXCEPT ![i] = new]
  /\ mode' = "publish"
  /\ UNCHANGED <<name, request, target, result, own, acts, bounds>>

\* A variant without the deferred removal.
GiveUpOnly == Return("error") /\ UNCHANGED disk

\* The temporary file is removed and the call fails.
GiveUp == temp' = None /\ Return("error") /\ UNCHANGED <<text, name, reissued>>

\* The temporary name is gone and the file's name leads to the new text.
Published ==
  /\ name' = temp /\ temp' = None
  /\ own' = new
  /\ UNCHANGED <<text, reissued>>

\* Not on Linux: rename replaces whatever the name leads to by now.
Rename ==
  /\ mode = "publish" /\ platform = "rename"
  /\ Published
  /\ Return("ok")
  /\ UNCHANGED <<request, target, acts, bounds>>

\* Linux, a new file: rename, unless a file has appeared.
PublishNew ==
  /\ mode = "publish" /\ platform = "exchange" /\ expected = None
  /\ IF name = None
       THEN Published /\ mode' = "fsync" /\ UNCHANGED result
       ELSE GiveUp /\ UNCHANGED own
  /\ UNCHANGED <<request, target, acts, bounds>>

\* Linux, a known file: the two names change places, unless it has gone.
Exchange ==
  /\ mode = "publish" /\ platform = "exchange" /\ expected # None
  /\ IF name # None
       THEN name' = temp /\ temp' = name /\ mode' = "compare" /\ UNCHANGED <<text, reissued, result>>
       ELSE GiveUp
  /\ UNCHANGED <<request, target, own, acts, bounds>>

\* A variant without the comparison.
AcceptAny ==
  /\ mode = "compare"
  /\ mode' = "unlink"
  /\ UNCHANGED <<disk, request, target, result, own, acts, bounds>>

\* What was taken out is what was looked at, by the number of its inode.
Compare ==
  /\ mode = "compare"
  /\ mode' = IF temp = expected THEN "unlink" ELSE "restore"
  /\ UNCHANGED <<disk, request, target, result, own, acts, bounds>>

\* A variant that has the deferred swap undo a success.
UnlinkLast ==
  /\ mode = "unlink"
  /\ name' = temp /\ temp' = None
  /\ own' = Text(name')
  /\ mode' = "fsync"
  /\ UNCHANGED <<text, reissued, request, target, result, acts, bounds>>

Unlink ==
  /\ mode = "unlink"
  /\ temp' = None
  /\ own' = Text(name)
  /\ mode' = "fsync"
  /\ UNCHANGED <<text, name, reissued, request, target, result, acts, bounds>>

Fsync ==
  /\ mode = "fsync"
  /\ Return("ok")
  /\ UNCHANGED <<disk, request, target, own, acts, bounds>>

\* A variant that only removes the temporary file.
RemoveTempOnly ==
  /\ mode = "restore"
  /\ GiveUp
  /\ UNCHANGED <<request, target, own, acts, bounds>>

\* The deferred calls: the names change places again, which fails when the
\* file has gone, and the temporary file is removed.
SwapBack ==
  /\ mode = "restore"
  /\ name' = IF name # None THEN temp ELSE None
  /\ temp' = None
  /\ Return("error")
  /\ UNCHANGED <<text, reissued, request, target, own, acts, bounds>>

-----------------------------------------------------------------------------
(* Failures *)

Fault == faults < MaxFaults /\ faults' = faults + 1 /\ UNCHANGED <<calls, user>>

\* Before the exchange, a failing system call leaves everything as it is; so
\* does the flush of the directory, after it.
CallFails ==
  /\ mode \in {"read", "check", "write", "publish", "fsync"}
  /\ Fault
  /\ GiveUp
  /\ UNCHANGED <<request, target, own, acts>>

\* What was taken out cannot be looked at or removed: it is put back.
CompareFails ==
  /\ mode \in {"compare", "unlink"}
  /\ Fault
  /\ mode' = "restore"
  /\ UNCHANGED <<disk, request, target, result, own, acts>>

\* ... and when that fails it is removed.
SwapBackFails ==
  /\ mode = "restore"
  /\ Fault
  /\ GiveUp
  /\ UNCHANGED <<request, target, own, acts>>

Crash ==
  /\ mode \notin {"idle", "down"}
  /\ mode' = "down"
  /\ UNCHANGED <<disk, request, target, result, own, acts, bounds>>

-----------------------------------------------------------------------------
(* The user's editor *)

UserSaves(how, t) ==
  /\ user < MaxUser
  /\ user' = user + 1
  /\ own' = t
  /\ acts' = acts \cup {[how |-> how, mode |-> mode]}
  /\ UNCHANGED <<temp, mode, request, target, result, calls, faults>>

\* Most editors write another file and rename it.
UserReplaces ==
  \E t \in Texts, i \in Inodes :
    /\ UserSaves("replace", t)
    /\ Issue(i) /\ name' = i
    /\ text' = [text EXCEPT ![i] = t]

\* Some write into the same file.
UserRewrites ==
  \E t \in Texts :
    /\ name # None
    /\ UserSaves("rewrite", t)
    /\ text' = [text EXCEPT ![name] = t]
    /\ UNCHANGED <<name, reissued>>

UserDeletes ==
  /\ name # None
  /\ UserSaves("delete", None)
  /\ name' = None
  /\ UNCHANGED <<text, reissued>>

-----------------------------------------------------------------------------
Next ==
  \/ Preview \/ Approve \/ Deny
  \/ Read \/ Check \/ WriteTemp \/ Rename \/ PublishNew
  \/ Exchange \/ Compare \/ Unlink \/ Fsync \/ SwapBack
  \/ CallFails \/ CompareFails \/ SwapBackFails \/ Crash
  \/ UserReplaces \/ UserRewrites \/ UserDeletes

Spec == Init /\ [][Next]_vars

-----------------------------------------------------------------------------
(* Properties *)

Modes == {"idle", "confirm", "read", "check", "write", "publish", "compare", "unlink",
          "fsync", "restore", "down"}

TypeOK ==
  /\ platform \in Platforms /\ mode \in Modes /\ call \in Calls
  /\ text \in [Inodes -> Texts]
  /\ name \in Inodes \cup {None} /\ temp \in Inodes \cup {None} /\ reissued \in BOOLEAN
  /\ expected \in Inodes \cup {None}
  /\ shown \in Old /\ read \in Old /\ new \in Old /\ own \in Old
  /\ result \in {"none", "ok", "error", "denied"}
  /\ acts \subseteq [how : {"replace", "rewrite", "delete"}, mode : Modes]
  /\ {calls, user, faults} \subseteq Nat

\* The user saved at one of these steps of the call.
SavedAt(steps) == \E a \in acts : a.mode \in steps
RewroteAt(steps) == \E a \in acts : a.how = "rewrite" /\ a.mode \in steps

\* On Linux an edit never throws away a version it did not read, however the
\* user's saves fall between its steps, but in two ways: the version is written
\* into the very file it had read, or into one that was given its inode, which
\* is all that is compared (securefs_linux.go:149).
OnlyWhatWasReadIsReplaced ==
  [][platform = "exchange" /\ mode = "unlink" /\ mode' = "fsync" /\ ~Whole(call) =>
       text[temp] = read \/ RewroteAt({"write", "publish"}) \/ reissued]_vars

\* On Linux, until the call succeeds, what the user saved last is in place, or
\* under the temporary name when the process dies: a call that fails or that
\* dies loses no version, unless the user saves again while the names are
\* exchanged or a system call fails.
UsersVersionSurvives ==
  platform = "exchange" /\ faults = 0 /\ ~SavedAt({"compare", "restore"}) =>
    own \in {Text(name)} \cup (IF mode = "idle" THEN {} ELSE {Text(temp)})

\* What is published is what the preview showed, when the user left the file
\* alone from the preview on.
WrittenIsShown ==
  [][result' = "ok" /\ result # "ok" /\ shown # None /\ acts = {} => Text(name)' = shown]_vars

\* A call that returns leaves no temporary file behind.
NoTempIsLeft == mode = "idle" => temp = None
=============================================================================
