--------------------------- MODULE FileEditProofs ---------------------------
(***************************************************************************)
(* What one call of a writing tool promises, for any texts, calls, inodes  *)
(* and failures and whenever the user saves: what is published was shown,  *)
(* what is thrown away was read, what fails loses nothing.                 *)
(***************************************************************************)
EXTENDS FileEdit, TLAPS

-----------------------------------------------------------------------------
(* The inductive invariant *)

\* The temporary name exists while there is something to publish or take back,
\* and never leads where the file's name leads.
TempOK ==
  /\ mode \in {"idle", "confirm", "read", "check", "write", "fsync"} => temp = None
  /\ mode \in {"publish", "compare", "unlink", "restore"} => temp # None
  /\ temp # None => temp # name

\* What is about to be published is a text, under the temporary name.
NewOK ==
  /\ mode \in {"check", "write", "publish"} => new # None
  /\ mode = "publish" => text[temp] = new
  /\ platform = "exchange" => mode # "check"

\* Where the version the user saved last is at each step, on Linux.
VersionOK ==
  platform = "exchange" /\ faults = 0 /\ ~SavedAt({"compare", "restore"}) =>
    /\ mode \in {"idle", "confirm", "read", "write", "publish", "fsync"} => own = Text(name)
    /\ mode \in {"compare", "restore"} => own = Text(temp) /\ name # None
    /\ mode \in {"unlink", "down"} => own \in {Text(name), Text(temp)}

\* Where the text of the preview is, when the user left the file alone.
PreviewOK ==
  acts = {} /\ shown # None =>
    /\ mode \in {"confirm", "read"} => shown = call[Text(name)]
    /\ mode \in {"check", "write", "publish"} => new = shown
    /\ mode \in {"compare", "unlink", "fsync"} => Text(name) = shown

\* What an edit read is still in the inode it read it from, or was rewritten there,
\* unless that inode was given out again: to the temporary file, or to a file of
\* the user's that then takes the name.
SourceOK ==
  /\ mode \in {"compare", "unlink"} => expected # None
  /\ mode = "unlink" => temp = expected
  /\ ~reissued =>
       /\ mode = "publish" /\ expected # None => temp # expected
       /\ mode \in {"compare", "unlink"} => name # expected
       /\ platform = "exchange" /\ ~Whole(call) /\ expected # None
            /\ mode \in {"write", "publish", "compare", "unlink"} =>
            text[expected] = read \/ RewroteAt({"write", "publish"})

IInv == TypeOK /\ TempOK /\ NewOK /\ VersionOK /\ PreviewOK /\ SourceOK

-----------------------------------------------------------------------------
(* The user and failures *)

\* What a save by the user leaves in the history.
LEMMA UserIsRecorded ==
  ASSUME NEW how, NEW t, UserSaves(how, t), NEW steps
  PROVE  /\ own' = t /\ acts' # {}
         /\ SavedAt(steps) => SavedAt(steps)'
         /\ mode \in steps => SavedAt(steps)'
         /\ RewroteAt(steps) => RewroteAt(steps)'
         /\ how = "rewrite" /\ mode \in steps => RewroteAt(steps)'
<1> DEFINE a == [how |-> how, mode |-> mode]
<1>1. own' = t /\ acts' = acts \cup {a} /\ a.how = how /\ a.mode = mode
  BY DEF UserSaves
<1> QED
  BY <1>1 DEF SavedAt, RewroteAt

\* A failure is counted.
LEMMA FaultIsCounted ==
  ASSUME TypeOK, Fault
  PROVE  faults' \in Nat /\ faults' # 0
<1>1. faults \in Nat
  BY DEF TypeOK
<1> QED
  BY <1>1 DEF Fault

\* An inode given out is one no name leads to; when it is the one the call looked
\* at, that is on record.
LEMMA IssuedIsFresh ==
  ASSUME NEW i \in Inodes, Issue(i)
  PROVE  /\ i # None /\ i # name /\ i # temp
         /\ reissued' = (reissued \/ i = expected)
BY EditAssumption DEF Issue, Free

-----------------------------------------------------------------------------
(* Each part of the invariant is kept *)

\* What a call makes of a text is a text.
LEMMA NewText ==
  ASSUME TypeOK, NEW c \in Calls, NEW t \in Old
  PROVE  c[t] \in Old
BY EditAssumption

\* Every step keeps the types.
LEMMA StepTypes ==
  ASSUME TypeOK, TempOK, NewOK, [Next]_vars
  PROVE  TypeOK'
<1>0. /\ text \in [Inodes -> Texts] /\ name \in Inodes \cup {None}
      /\ temp \in Inodes \cup {None} /\ None \notin Inodes
      /\ calls \in Nat /\ user \in Nat /\ faults \in Nat /\ mode \in Modes
  BY EditAssumption DEF TypeOK
<1>1. Text(name) \in Old /\ Text(temp) \in Old
  BY <1>0 DEF Text, Old
<1>2. CASE Preview
  <2>1. shown' \in Old
    BY <1>1, <1>2, NewText DEF Preview, Old
  <2>2. UNCHANGED <<platform, text, name, temp, faults, user>> /\ calls' \in Nat /\ own' \in Old
    BY <1>0, <1>1, <1>2 DEF Preview
  <2> QED
    BY <1>2, <2>1, <2>2 DEF Preview, TypeOK, Modes, disk, Old
<1>3. CASE Approve
  BY <1>3 DEF Approve, TypeOK, Modes, disk, request, target, bounds
<1>4. CASE Deny
  BY <1>4 DEF Deny, Return, TypeOK, Modes, disk, request, target, bounds
<1>5. CASE Read
  <2>1. read' \in Old /\ expected' \in Inodes \cup {None}
    BY <1>0, <1>1, <1>5 DEF Read, Old
  <2>2. new' \in Old
    BY <1>5, <2>1, NewText DEF Read, TypeOK
  <2>3. mode' \in Modes /\ result' \in {"none", "ok", "error", "denied"}
    BY <1>5 DEF Read, Return, NextAfterRead, TypeOK, Modes
  <2> QED
    BY <1>5, <2>1, <2>2, <2>3 DEF Read, TypeOK, disk, request, bounds
<1>6. CASE Check
  BY <1>6 DEF Check, Return, TypeOK, Modes, disk, request, target, bounds
<1>7. CASE WriteTemp
  <2>1. PICK i \in Inodes : Issue(i) /\ temp' = i /\ text' = [text EXCEPT ![i] = new]
    BY <1>7 DEF WriteTemp
  <2>2. i \in Inodes /\ new \in Texts
    BY <1>7, IssuedIsFresh DEF WriteTemp, NewOK, TypeOK, Old
  <2>3. text' \in [Inodes -> Texts]
    BY <1>0, <2>1, <2>2
  <2>4. reissued' \in BOOLEAN
    BY <2>1 DEF Issue, TypeOK
  <2> QED
    BY <1>7, <2>1, <2>2, <2>3, <2>4 DEF WriteTemp, TypeOK, Modes, request, target, bounds
<1>8. CASE Rename \/ PublishNew
  BY <1>0, <1>8 DEF Rename, PublishNew, Published, GiveUp, Return, TypeOK, Modes, request,
       target, bounds
<1>9. CASE Exchange
  BY <1>0, <1>9 DEF Exchange, GiveUp, Return, TypeOK, Modes, request, target, bounds
<1>10. CASE Compare
  BY <1>10 DEF Compare, TypeOK, Modes, disk, request, target, bounds
<1>11. CASE Unlink
  BY <1>0, <1>1, <1>11 DEF Unlink, TypeOK, Modes, request, target, bounds
<1>12. CASE Fsync
  BY <1>12 DEF Fsync, Return, TypeOK, Modes, disk, request, target, bounds
<1>13. CASE SwapBack
  BY <1>0, <1>13 DEF SwapBack, Return, TypeOK, Modes, request, target, bounds
<1>14. CASE CallFails \/ SwapBackFails
  BY <1>0, <1>14 DEF CallFails, SwapBackFails, Fault, GiveUp, Return, TypeOK, Modes, request, target
<1>15. CASE CompareFails
  BY <1>0, <1>15 DEF CompareFails, Fault, TypeOK, Modes, disk, request, target
<1>16. CASE Crash
  BY <1>16 DEF Crash, TypeOK, Modes, disk, request, target, bounds
<1>17. ASSUME NEW how \in {"replace", "rewrite", "delete"}, NEW t \in Old, UserSaves(how, t)
       PROVE  /\ own' \in Old /\ UNCHANGED <<temp, mode, request, target, result>>
              /\ acts' \subseteq [how : {"replace", "rewrite", "delete"}, mode : Modes]
              /\ {calls', user', faults'} \subseteq Nat
  <2>1. [how |-> how, mode |-> mode] \in [how : {"replace", "rewrite", "delete"}, mode : Modes]
    BY <1>0
  <2> QED
    BY <1>0, <1>17, <2>1 DEF UserSaves, TypeOK
<1>18. CASE UserReplaces
  <2>1. PICK t \in Texts, i \in Inodes :
          /\ UserSaves("replace", t) /\ text' = [text EXCEPT ![i] = t]
          /\ name' = i /\ Issue(i)
    BY <1>18 DEF UserReplaces
  <2>2. text' \in [Inodes -> Texts] /\ i \in Inodes /\ t \in Old
    BY <1>0, <2>1, IssuedIsFresh DEF Old
  <2>3. reissued' \in BOOLEAN
    BY <2>1 DEF Issue, TypeOK
  <2> QED
    BY <1>17, <2>1, <2>2, <2>3 DEF TypeOK, request, target
<1>19. CASE UserRewrites
  <2>1. PICK t \in Texts :
          /\ UserSaves("rewrite", t) /\ text' = [text EXCEPT ![name] = t]
          /\ UNCHANGED <<name, reissued>>
    BY <1>19 DEF UserRewrites
  <2>2. text' \in [Inodes -> Texts] /\ t \in Old
    BY <1>0, <2>1 DEF Old
  <2> QED
    BY <1>17, <2>1, <2>2 DEF TypeOK, request, target
<1>20. CASE UserDeletes
  <2>1. UserSaves("delete", None) /\ name' = None /\ UNCHANGED <<text, reissued>> /\ None \in Old
    BY <1>20 DEF UserDeletes, Old
  <2> QED
    BY <1>17, <2>1 DEF TypeOK, request, target
<1>21. CASE UNCHANGED vars
  BY <1>21 DEF vars, TypeOK, disk, request, target, bounds
<1> QED
  BY <1>2, <1>3, <1>4, <1>5, <1>6, <1>7, <1>8, <1>9, <1>10, <1>11, <1>12, <1>13, <1>14, <1>15,
     <1>16, <1>18, <1>19, <1>20, <1>21 DEF Next

\* Every step keeps the temporary name apart from the file.
LEMMA StepTemp ==
  ASSUME TypeOK, TempOK, [Next]_vars
  PROVE  TempOK'
<1>0. None \notin Inodes /\ temp \in Inodes \cup {None} /\ name \in Inodes \cup {None}
  BY EditAssumption DEF TypeOK
<1>1. CASE Preview \/ Approve \/ Deny \/ Read \/ Check \/ Compare \/ Fsync \/ CompareFails \/ Crash
  BY <1>1 DEF Preview, Approve, Deny, Read, NextAfterRead, Check, Compare, Fsync, CompareFails,
       Crash, Return, disk, TempOK
<1>2. CASE WriteTemp
  BY <1>2, IssuedIsFresh DEF WriteTemp, TempOK
<1>3. CASE Rename \/ PublishNew \/ Unlink \/ SwapBack \/ CallFails \/ SwapBackFails
  BY <1>3 DEF Rename, PublishNew, Published, GiveUp, Unlink, SwapBack, CallFails, SwapBackFails,
       Return, TempOK
<1>4. CASE Exchange
  BY <1>0, <1>4 DEF Exchange, GiveUp, Return, TempOK
<1>5. CASE UserReplaces \/ UserRewrites \/ UserDeletes
  BY <1>5, IssuedIsFresh DEF UserReplaces, UserRewrites, UserDeletes, UserSaves, TempOK
<1>6. CASE UNCHANGED vars
  BY <1>6 DEF vars, disk, TempOK
<1> QED
  BY <1>1, <1>2, <1>3, <1>4, <1>5, <1>6 DEF Next

\* Every step keeps what is about to be published.
LEMMA StepNew ==
  ASSUME TypeOK, TempOK, NewOK, [Next]_vars
  PROVE  NewOK'
<1>0. /\ text \in [Inodes -> Texts] /\ name \in Inodes \cup {None}
      /\ temp \in Inodes \cup {None} /\ None \notin Inodes
  BY EditAssumption DEF TypeOK
<1>1. CASE \/ Preview \/ Approve \/ Deny \/ Rename \/ PublishNew \/ Exchange \/ Compare \/ Unlink
           \/ Fsync \/ SwapBack \/ CallFails \/ CompareFails \/ SwapBackFails \/ Crash
  <2>1. mode' \notin {"check", "write", "publish"}
    BY <1>1 DEF Preview, Approve, Deny, Rename, PublishNew, Exchange, Compare, Unlink, Fsync,
         SwapBack, CallFails, CompareFails, SwapBackFails, Crash, GiveUp, Return
  <2> QED
    BY <2>1 DEF NewOK
<1>2. CASE Read
  BY <1>2 DEF Read, NextAfterRead, Return, request, NewOK
<1>3. CASE Check
  BY <1>3 DEF Check, Return, request, target, NewOK
<1>4. CASE WriteTemp
  <2>1. PICK i \in Inodes : Issue(i) /\ temp' = i /\ text' = [text EXCEPT ![i] = new]
    BY <1>4 DEF WriteTemp
  <2> QED
    BY <1>0, <1>4, <2>1, IssuedIsFresh DEF WriteTemp, target, NewOK
<1>5. CASE UserReplaces
  <2>1. PICK t \in Texts, i \in Inodes :
          UserSaves("replace", t) /\ Issue(i) /\ text' = [text EXCEPT ![i] = t]
    BY <1>5 DEF UserReplaces
  <2> QED
    BY <1>0, <2>1, IssuedIsFresh DEF UserSaves, request, target, TempOK, NewOK
<1>6. CASE UserRewrites
  <2>1. PICK t \in Texts : UserSaves("rewrite", t) /\ text' = [text EXCEPT ![name] = t]
    BY <1>6 DEF UserRewrites
  <2> QED
    BY <1>0, <2>1 DEF UserSaves, request, target, TempOK, NewOK
<1>7. CASE UserDeletes
  BY <1>7 DEF UserDeletes, UserSaves, request, target, NewOK
<1>8. CASE UNCHANGED vars
  BY <1>8 DEF vars, disk, request, target, NewOK
<1> QED
  BY <1>1, <1>2, <1>3, <1>4, <1>5, <1>6, <1>7, <1>8 DEF Next

\* Every step keeps track of the version the user saved last.
LEMMA StepVersion ==
  ASSUME TypeOK, TempOK, NewOK, VersionOK, [Next]_vars
  PROVE  VersionOK'
<1> DEFINE S == {"compare", "restore"}
<1>0. /\ text \in [Inodes -> Texts] /\ name \in Inodes \cup {None}
      /\ temp \in Inodes \cup {None} /\ None \notin Inodes /\ faults \in Nat
  BY EditAssumption DEF TypeOK
<1>1. CASE Preview
  BY <1>1 DEF Preview, disk, Text, VersionOK, SavedAt
<1>2. CASE Approve \/ Deny \/ Read \/ Check
  BY <1>2 DEF Approve, Deny, Read, NextAfterRead, Check, Return, disk, request, bounds, Text,
       VersionOK, SavedAt, NewOK
<1>3. CASE WriteTemp
  <2>1. PICK i \in Inodes : Issue(i) /\ temp' = i /\ text' = [text EXCEPT ![i] = new]
    BY <1>3 DEF WriteTemp
  <2>2. Text(name)' = Text(name)
    BY <1>0, <1>3, <2>1, IssuedIsFresh DEF WriteTemp, Text
  <2> QED
    BY <1>3, <2>2 DEF WriteTemp, request, bounds, VersionOK, SavedAt
<1>4. CASE Rename
  BY <1>4 DEF Rename, request, VersionOK
<1>5. CASE PublishNew
  <2>1. CASE name = None
    <3>1. own' = new /\ Text(name)' = new /\ mode' = "fsync"
      BY <1>5, <2>1 DEF PublishNew, Published, Text, TempOK, NewOK
    <3> QED
      BY <3>1 DEF VersionOK
  <2>2. CASE name # None
    BY <1>5, <2>2 DEF PublishNew, GiveUp, Return, request, bounds, Text, VersionOK, SavedAt
  <2> QED
    BY <2>1, <2>2
<1>6. CASE Exchange
  BY <1>6 DEF Exchange, GiveUp, Return, request, bounds, Text, VersionOK, SavedAt, TempOK
<1>7. CASE Compare
  BY <1>7 DEF Compare, disk, request, bounds, Text, VersionOK, SavedAt
<1>8. CASE Unlink
  BY <1>8 DEF Unlink, Text, VersionOK
<1>9. CASE Fsync
  BY <1>9 DEF Fsync, Return, disk, request, bounds, Text, VersionOK, SavedAt
<1>10. CASE SwapBack
  BY <1>10 DEF SwapBack, Return, request, bounds, Text, VersionOK, SavedAt
<1>11. CASE CallFails \/ CompareFails \/ SwapBackFails
  <2>1. faults' # 0
    BY <1>11, FaultIsCounted DEF CallFails, CompareFails, SwapBackFails
  <2> QED
    BY <2>1 DEF VersionOK
<1>12. CASE Crash
  <2>1. mode \in Modes
    BY DEF TypeOK
  <2> QED
    BY <1>12, <2>1 DEF Crash, disk, request, bounds, Text, VersionOK, SavedAt, NewOK, Modes
<1>13. ASSUME NEW how, NEW t, UserSaves(how, t), Text(name)' = t
       PROVE  VersionOK'
  <2>1. /\ own' = t /\ (SavedAt(S) => SavedAt(S)') /\ (mode \in S => SavedAt(S)')
    BY <1>13, UserIsRecorded
  <2>2. UNCHANGED <<mode, platform, faults>>
    BY <1>13 DEF UserSaves, request
  <2> QED
    BY <1>13, <2>1, <2>2 DEF VersionOK
<1>14. CASE UserReplaces
  <2>1. PICK t \in Texts, i \in Inodes :
          UserSaves("replace", t) /\ Issue(i) /\ text' = [text EXCEPT ![i] = t] /\ name' = i
    BY <1>14 DEF UserReplaces
  <2>2. Text(name)' = t
    BY <1>0, <2>1, IssuedIsFresh DEF Text
  <2> QED
    BY <1>13, <2>1, <2>2
<1>15. CASE UserRewrites
  <2>1. PICK t \in Texts :
          /\ name # None /\ UserSaves("rewrite", t)
          /\ text' = [text EXCEPT ![name] = t] /\ name' = name
    BY <1>15 DEF UserRewrites
  <2>2. Text(name)' = t
    BY <1>0, <2>1 DEF Text
  <2> QED
    BY <1>13, <2>1, <2>2
<1>16. CASE UserDeletes
  <2>1. UserSaves("delete", None) /\ Text(name)' = None
    BY <1>16 DEF UserDeletes, Text
  <2> QED
    BY <1>13, <2>1
<1>17. CASE UNCHANGED vars
  BY <1>17 DEF vars, disk, request, bounds, Text, VersionOK, SavedAt
<1> QED
  BY <1>1, <1>2, <1>3, <1>4, <1>5, <1>6, <1>7, <1>8, <1>9, <1>10, <1>11, <1>12, <1>14, <1>15,
     <1>16, <1>17 DEF Next

\* Every step keeps track of the text of the preview.
LEMMA StepPreview ==
  ASSUME TypeOK, TempOK, NewOK, PreviewOK, [Next]_vars
  PROVE  PreviewOK'
<1>0. /\ text \in [Inodes -> Texts] /\ name \in Inodes \cup {None}
      /\ temp \in Inodes \cup {None} /\ None \notin Inodes
  BY EditAssumption DEF TypeOK
<1>1. CASE Preview
  BY <1>1 DEF Preview, disk, Text, PreviewOK
<1>2. CASE Approve \/ Deny \/ Check \/ Compare \/ Fsync \/ Crash \/ CompareFails
  BY <1>2 DEF Approve, Deny, Check, Compare, Fsync, Crash, CompareFails, Return, disk, request,
       target, Text, PreviewOK
<1>3. CASE Read
  <2>1. Whole(call) => call[Text(name)] = call[None]
    BY <1>0, EditAssumption DEF TypeOK, Text
  <2>2. new' = call[Text(name)]
    BY <1>3, <2>1 DEF Read
  <2> QED
    BY <1>3, <2>2 DEF Read, NextAfterRead, Return, request, PreviewOK
<1>4. CASE WriteTemp
  BY <1>4 DEF WriteTemp, request, target, PreviewOK
<1>5. CASE Rename
  BY <1>5 DEF Rename, Return, PreviewOK
<1>6. CASE PublishNew \/ Exchange
  <2>1. Text(temp) = new
    BY <1>6 DEF PublishNew, Exchange, TempOK, NewOK, Text
  <2> QED
    BY <1>6, <2>1 DEF PublishNew, Exchange, Published, GiveUp, Return, request, Text, PreviewOK
<1>7. CASE Unlink
  BY <1>7 DEF Unlink, request, Text, PreviewOK
<1>8. CASE SwapBack \/ CallFails \/ SwapBackFails
  BY <1>8 DEF SwapBack, CallFails, SwapBackFails, GiveUp, Return, PreviewOK
<1>9. CASE UserReplaces \/ UserRewrites \/ UserDeletes
  <2>1. acts' # {}
    BY <1>9, UserIsRecorded DEF UserReplaces, UserRewrites, UserDeletes
  <2> QED
    BY <2>1 DEF PreviewOK
<1>10. CASE UNCHANGED vars
  BY <1>10 DEF vars, disk, request, target, Text, PreviewOK
<1> QED
  BY <1>1, <1>2, <1>3, <1>4, <1>5, <1>6, <1>7, <1>8, <1>9, <1>10 DEF Next

\* Until it is given out again, the inode an edit read keeps its text but for
\* what the user writes into it.
LEMMA StepSource ==
  ASSUME TypeOK, TempOK, NewOK, SourceOK, [Next]_vars
  PROVE  SourceOK'
<1> DEFINE P == {"write", "publish"}
<1>0. /\ text \in [Inodes -> Texts] /\ name \in Inodes \cup {None}
      /\ temp \in Inodes \cup {None} /\ expected \in Inodes \cup {None} /\ None \notin Inodes
  BY EditAssumption DEF TypeOK
<1>1. CASE Preview
  BY <1>1 DEF Preview, disk, SourceOK
<1>2. CASE Approve \/ Deny \/ Check \/ Fsync \/ Crash \/ CompareFails
  BY <1>2 DEF Approve, Deny, Check, Fsync, Crash, CompareFails, Return, disk, request, target,
       SourceOK, NewOK, RewroteAt
<1>3. CASE Read
  BY <1>3 DEF Read, NextAfterRead, Return, Text, disk, request, SourceOK
<1>4. CASE WriteTemp
  <2>1. PICK i \in Inodes : Issue(i) /\ temp' = i /\ text' = [text EXCEPT ![i] = new]
    BY <1>4 DEF WriteTemp
  <2>2. i # None /\ reissued' = (reissued \/ i = expected)
    BY <2>1, IssuedIsFresh
  <2>3. ~reissued' /\ expected # None => text'[expected] = text[expected] /\ i # expected
    BY <1>0, <2>1, <2>2 DEF SourceOK
  <2> QED
    BY <1>4, <2>1, <2>2, <2>3 DEF WriteTemp, request, target, SourceOK, RewroteAt
<1>5. CASE Rename \/ PublishNew \/ SwapBack \/ CallFails \/ SwapBackFails
  BY <1>5 DEF Rename, PublishNew, Published, SwapBack, CallFails, SwapBackFails, GiveUp, Return,
       request, target, SourceOK
<1>6. CASE Exchange
  BY <1>6 DEF Exchange, GiveUp, Return, request, target, SourceOK, TempOK, RewroteAt
<1>7. CASE Compare
  BY <1>7 DEF Compare, disk, request, target, SourceOK, RewroteAt
<1>8. CASE Unlink
  BY <1>8 DEF Unlink, request, target, SourceOK
<1>9. CASE UserReplaces
  <2>1. PICK t \in Texts, i \in Inodes :
          /\ UserSaves("replace", t) /\ text' = [text EXCEPT ![i] = t]
          /\ name' = i /\ Issue(i)
    BY <1>9 DEF UserReplaces
  <2>2. i # None /\ reissued' = (reissued \/ i = expected)
    BY <2>1, IssuedIsFresh
  <2>3. ~reissued' /\ expected # None => text'[expected] = text[expected] /\ i # expected
    BY <1>0, <2>1, <2>2 DEF SourceOK
  <2>4. UNCHANGED <<temp, mode, platform, call, expected, read>>
    BY <2>1 DEF UserSaves, request, target
  <2>5. RewroteAt(P) => RewroteAt(P)'
    BY <2>1, UserIsRecorded
  <2> QED
    BY <2>1, <2>2, <2>3, <2>4, <2>5 DEF SourceOK
<1>10. CASE UserRewrites
  <2>1. PICK t \in Texts :
          /\ UserSaves("rewrite", t) /\ text' = [text EXCEPT ![name] = t]
          /\ name # None /\ UNCHANGED <<name, reissued>>
    BY <1>10 DEF UserRewrites
  <2>2. ~reissued /\ expected # None /\ mode \in {"compare", "unlink"} => text'[expected] = text[expected]
    BY <1>0, <2>1 DEF SourceOK
  <2>3. UNCHANGED <<temp, mode, platform, call, expected, read>>
    BY <2>1 DEF UserSaves, request, target
  <2>4. (RewroteAt(P) => RewroteAt(P)') /\ (mode \in P => RewroteAt(P)')
    BY <2>1, UserIsRecorded
  <2> QED
    BY <2>1, <2>2, <2>3, <2>4 DEF SourceOK
<1>11. CASE UserDeletes
  <2>1. UserSaves("delete", None) /\ name' = None /\ UNCHANGED <<text, reissued>>
    BY <1>11 DEF UserDeletes
  <2>2. UNCHANGED <<temp, mode, platform, call, expected, read>>
    BY <2>1 DEF UserSaves, request, target
  <2>3. RewroteAt(P) => RewroteAt(P)'
    BY <2>1, UserIsRecorded
  <2> QED
    BY <2>1, <2>2, <2>3 DEF SourceOK
<1>12. CASE UNCHANGED vars
  BY <1>12 DEF vars, disk, request, target, SourceOK, RewroteAt
<1> QED
  BY <1>1, <1>2, <1>3, <1>4, <1>5, <1>6, <1>7, <1>8, <1>9, <1>10, <1>11, <1>12 DEF Next

-----------------------------------------------------------------------------
(* The theorems *)

\* A call begins with the file as the user left it.
LEMMA InitIInv ==
  ASSUME Init
  PROVE  IInv
<1>1. PICK t \in Texts : text = [i \in Inodes |-> t]
  BY DEF Init
<1>2. name \in Inodes \cup {None} /\ reissued = FALSE
  BY DEF Init
<1>3. own \in Old
  BY <1>1, <1>2 DEF Init, Text, Old
<1>4. TypeOK
  <2>1. shown \in Old /\ read \in Old /\ new \in Old /\ None \in Inodes \cup {None}
    BY DEF Init, Old
  <2>2. text \in [Inodes -> Texts]
    BY <1>1
  <2>3. temp \in Inodes \cup {None} /\ expected \in Inodes \cup {None} /\ acts = {}
    BY DEF Init
  <2>4. platform \in Platforms /\ call \in Calls /\ mode = "idle" /\ result = "none"
        /\ {calls, user, faults} \subseteq Nat
    BY DEF Init
  <2> QED
    BY <1>2, <1>3, <2>1, <2>2, <2>3, <2>4 DEF TypeOK, Modes
<1>5. TempOK /\ NewOK /\ PreviewOK
  BY DEF Init, TempOK, NewOK, PreviewOK
<1>6. VersionOK
  BY DEF Init, VersionOK
<1>7. SourceOK
  BY <1>2 DEF Init, SourceOK
<1> QED
  BY <1>4, <1>5, <1>6, <1>7 DEF IInv

\* Every step keeps the invariant.
LEMMA StepIInv ==
  ASSUME IInv, [Next]_vars
  PROVE  IInv'
BY StepTypes, StepTemp, StepNew, StepVersion, StepPreview, StepSource DEF IInv

\* The inductive invariant of a call and of the user's saves in between.
THEOREM EditInvariant == Spec => []IInv
<1>1. Init => IInv
  BY InitIInv
<1>2. IInv /\ [Next]_vars => IInv'
  BY StepIInv
<1> QED
  BY <1>1, <1>2, PTL DEF Spec

\* Names lead to inodes or nowhere, and inodes hold texts: what a call
\* publishes is always a text, never the outcome of an edit that did not apply.
THEOREM EditTypes == Spec => []TypeOK
<1>1. IInv => TypeOK
  BY DEF IInv
<1> QED
  BY <1>1, EditInvariant, PTL

\* A call that returns, however it does, has removed its temporary file.
THEOREM CallsCleanUp == Spec => []NoTempIsLeft
<1>1. IInv => NoTempIsLeft
  BY DEF IInv, TempOK, NoTempIsLeft
<1> QED
  BY <1>1, EditInvariant, PTL

\* On Linux a call that fails or dies loses no version of the user's, but for
\* a second save while the names are exchanged and a failing system call.
THEOREM VersionsSurvive == Spec => []UsersVersionSurvives
<1>1. IInv => UsersVersionSurvives
  <2> SUFFICES ASSUME IInv, platform = "exchange", faults = 0,
                      ~SavedAt({"compare", "restore"})
               PROVE  own \in {Text(name)} \cup (IF mode = "idle" THEN {} ELSE {Text(temp)})
    BY DEF UsersVersionSurvives
  <2>1. mode \in Modes /\ mode # "check"
    BY DEF IInv, TypeOK, NewOK
  <2> QED
    BY <2>1 DEF IInv, VersionOK, Modes
<1> QED
  BY <1>1, EditInvariant, PTL

\* What is published without the user's interference is what was shown and
\* approved, on every platform.
THEOREM ApprovedIsWritten == Spec => WrittenIsShown
<1> DEFINE A == result' = "ok" /\ result # "ok" /\ shown # None /\ acts = {}
                  => Text(name)' = shown
<1>1. IInv /\ [Next]_vars => [A]_vars
  <2> SUFFICES ASSUME IInv, Next, result' = "ok", result # "ok", shown # None, acts = {}
               PROVE  Text(name)' = shown
    OBVIOUS
  <2>1. Rename \/ Fsync
    BY DEF Next, Preview, Approve, Deny, Read, Check, WriteTemp, PublishNew, Exchange, Compare,
         Unlink, SwapBack, CallFails, CompareFails, SwapBackFails, Crash, GiveUp, Return,
         UserReplaces, UserRewrites, UserDeletes, UserSaves
  <2>2. CASE Rename
    BY <2>2 DEF IInv, TempOK, NewOK, PreviewOK, Rename, Published, Text
  <2>3. CASE Fsync
    BY <2>3 DEF IInv, PreviewOK, Fsync, disk, Text
  <2> QED
    BY <2>1, <2>2, <2>3
<1> QED
  BY <1>1, EditInvariant, PTL DEF Spec, WrittenIsShown

\* On Linux an edit throws away no version it did not read, but for one the user
\* wrote into the very file it had read or that was given its inode: the code
\* compares inodes.
THEOREM UnreadIsKept == Spec => OnlyWhatWasReadIsReplaced
<1> DEFINE A == platform = "exchange" /\ mode = "unlink" /\ mode' = "fsync" /\ ~Whole(call)
                  => text[temp] = read \/ RewroteAt({"write", "publish"}) \/ reissued
<1>1. IInv => A
  BY DEF IInv, SourceOK
<1>2. IInv /\ [Next]_vars => [A]_vars
  BY <1>1
<1> QED
  BY <1>2, EditInvariant, PTL DEF Spec, OnlyWhatWasReadIsReplaced
=============================================================================
