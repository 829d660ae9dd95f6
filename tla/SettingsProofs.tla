--------------------------- MODULE SettingsProofs ---------------------------
(***************************************************************************)
(* The files of the settings, in two machines that share no variable.      *)
(*                                                                         *)
(* FileStore: the temporary file, the flush and the rename implement the   *)
(* atomic store of AtomicStore, for any number of processes, values and    *)
(* inodes.  Commands takes each such write for one step, as that allows.   *)
(*                                                                         *)
(* Commands: the slash commands keep the Config normalized and the client  *)
(* and the agent in step with it, and /save keeps what a later start       *)
(* needs, for any hosts, keys, models, environments, flags and settings    *)
(* files.                                                                  *)
(***************************************************************************)
EXTENDS Commands, FileStore, TLAPS

-----------------------------------------------------------------------------
(* FileStore: the inductive invariant *)

Saving == {"write", "writing", "sync", "rename"}

\* A temporary file belongs to one save in progress; neither a name nor a reader leads to it.
TempsArePrivate ==
  \A w \in Writers :
    /\ tmp[w] # None <=> pc[w] \in Saving
    /\ tmp[w] # None => /\ tmp[w] \notin onDisk \cup {path}
                        /\ \A r \in Readers : fd[r] # tmp[w]
                        /\ \A u \in Writers : tmp[u] = tmp[w] => u = w

\* How far a save has come is what its temporary file holds.
SavesProgress ==
  \A w \in Writers :
    /\ IF pc[w] = "idle" THEN value[w] = None ELSE value[w] \in Values
    /\ pc[w] \in {"sync", "rename"} => data[tmp[w]] = value[w]
    /\ pc[w] = "rename" => tmp[w] \in flushed

\* What a name may lead to, now or after a loss of power, is whole and on the disk.
PublishedIsWhole ==
  \A i \in (onDisk \cup {path}) \ {None} : i \in flushed /\ data[i] \in Values

\* ... and what a reader has open is whole.
OpenIsWhole == \A r \in Readers : fd[r] # None => data[fd[r]] \in Values

StoreInv == StoreTypes /\ TempsArePrivate /\ SavesProgress /\ PublishedIsWhole /\ OpenIsWhole

\* At the start nothing is being saved and what is stored is on the disk.
LEMMA StoreInitInv == StoreInit => StoreInv
  BY StoreAssumption
     DEF StoreInit, StoreInv, StoreTypes, TempsArePrivate, SavesProgress, PublishedIsWhole, OpenIsWhole,
         Saving

\* Each step of a save, a load, a process or the machine keeps the invariant.
LEMMA StoreStepInv ==
  ASSUME StoreInv, [StoreNext]_storeVars
  PROVE  StoreInv'
  <1> USE StoreAssumption
      DEF StoreInv, StoreTypes, TempsArePrivate, SavesProgress, PublishedIsWhole, OpenIsWhole, Saving,
          disk, save, load, bounds, At, Goto
  <1>1. ASSUME NEW w \in Writers, CreateTemp(w)
        PROVE  StoreInv'
    <2>1. StoreTypes'
      BY <1>1 DEF CreateTemp, Free
    <2>2. TempsArePrivate'
      BY <1>1 DEF CreateTemp, Free
    <2>3. SavesProgress'
      BY <1>1 DEF CreateTemp, Free
    <2>4. PublishedIsWhole'
      BY <1>1 DEF CreateTemp, Free
    <2>5. OpenIsWhole'
      BY <1>1 DEF CreateTemp, Free
    <2> QED BY <2>1, <2>2, <2>3, <2>4, <2>5
  <1>2. ASSUME NEW w \in Writers, WriteSome(w)
        PROVE  StoreInv'
    BY <1>2 DEF WriteSome
  <1>3. ASSUME NEW w \in Writers, WriteRest(w)
        PROVE  StoreInv'
    BY <1>3 DEF WriteRest
  <1>4. ASSUME NEW w \in Writers, Sync(w)
        PROVE  StoreInv'
    BY <1>4 DEF Sync
  <1>5. ASSUME NEW w \in Writers, Rename(w)
        PROVE  StoreInv'
    <2>1. StoreTypes'
      BY <1>5 DEF Rename
    <2>2. TempsArePrivate'
      BY <1>5 DEF Rename
    <2>3. SavesProgress'
      BY <1>5 DEF Rename
    <2>4. PublishedIsWhole'
      BY <1>5 DEF Rename
    <2>5. OpenIsWhole'
      BY <1>5 DEF Rename
    <2> QED BY <2>1, <2>2, <2>3, <2>4, <2>5
  <1>6. ASSUME NEW w \in Writers, Chmod(w)
        PROVE  StoreInv'
    BY <1>6 DEF Chmod, Ends
  <1>7. ASSUME NEW w \in Writers, SaveFails(w)
        PROVE  StoreInv'
    BY <1>7 DEF SaveFails, Ends
  <1>8. ASSUME NEW w \in Writers, Remove(w)
        PROVE  StoreInv'
    BY <1>8 DEF Remove
  <1>9. ASSUME NEW w \in Writers, Crash(w)
        PROVE  StoreInv'
    BY <1>9 DEF Crash, Ends
  <1>10. ASSUME NEW r \in Readers, Open(r)
         PROVE  StoreInv'
    <2>1. StoreTypes'
      BY <1>10 DEF Open
    <2>2. TempsArePrivate'
      BY <1>10 DEF Open
    <2>3. SavesProgress'
      BY <1>10 DEF Open
    <2>4. PublishedIsWhole'
      BY <1>10 DEF Open
    <2>5. OpenIsWhole'
      BY <1>10 DEF Open
    <2> QED BY <2>1, <2>2, <2>3, <2>4, <2>5
  <1>11. ASSUME NEW r \in Readers, ReadAll(r)
         PROVE  StoreInv'
    BY <1>11 DEF ReadAll
  <1>12. CASE WriteBack
    BY <1>12 DEF WriteBack
  <1>13. CASE PowerLoss
    <2>1. StoreTypes'
      BY <1>13 DEF PowerLoss
    <2>2. TempsArePrivate'
      BY <1>13 DEF PowerLoss
    <2>3. SavesProgress'
      BY <1>13 DEF PowerLoss
    <2>4. PublishedIsWhole'
      BY <1>13 DEF PowerLoss
    <2>5. OpenIsWhole'
      BY <1>13 DEF PowerLoss
    <2> QED BY <2>1, <2>2, <2>3, <2>4, <2>5
  <1>14. CASE UNCHANGED storeVars
    BY <1>14 DEF storeVars
  <1> QED
    BY <1>1, <1>2, <1>3, <1>4, <1>5, <1>6, <1>7, <1>8, <1>9, <1>10, <1>11, <1>12, <1>13, <1>14
       DEF StoreNext

(* Whatever saves, loads, crashes and losses of power have gone before: a file in
   preparation is reached by no name and no reader, and a file that is reached,
   now or after a loss of power, holds one whole value that was flushed. *)
THEOREM StoreInvariant == StoreSpec => []StoreInv
  BY StoreInitInv, StoreStepInv, PTL DEF StoreSpec

-----------------------------------------------------------------------------
(* FileStore: the refinement *)

\* The initial states are initial states of the atomic store.
LEMMA InitRefines == StoreInit => Store!Init
  BY DEF StoreInit, Store!Init, Store!Idle, OpOf, Content

Stored  == Content(path)
Lasting == {Content(i) : i \in onDisk}
Ops  == [w \in Writers |-> OpOf(w)]
Seen == [r \in Readers |-> IF fd[r] # None THEN data[fd[r]] ELSE got[r]]

\* The abstract operations after a step of one writer, and after a step of none.
LEMMA OpsChange ==
  ASSUME NEW w \in Writers, NEW x, OpOf(w)' = x,
         \A u \in Writers \ {w} : OpOf(u)' = OpOf(u)
  PROVE  Ops' = [Ops EXCEPT ![w] = x]
  BY DEF Ops

\* A step that changes no save in progress.
LEMMA OpsStay ==
  ASSUME UNCHANGED <<pc, value>>
  PROVE  UNCHANGED Ops
  BY DEF Ops, OpOf

\* A step that leaves the names and the files they or a reader lead to alone is
\* not seen.
LEMMA FilesStay ==
  ASSUME StoreTypes, PublishedIsWhole, OpenIsWhole, UNCHANGED <<path, onDisk, fd, got>>,
         \A i \in Inodes : data'[i] # data[i] => /\ i \notin onDisk \cup {path}
                                                /\ \A r \in Readers : fd[r] # i
  PROVE  Stored' = Stored /\ Lasting' = Lasting /\ Seen' = Seen
  <1> USE StoreAssumption DEF StoreTypes, Content
  <1>1. UNCHANGED Stored
    BY DEF Stored
  <1>2. UNCHANGED Lasting
    BY DEF Lasting
  <1>3. UNCHANGED Seen
    BY DEF Seen
  <1> QED BY <1>1, <1>2, <1>3

\* Each step is a step of the atomic store, or changes nothing there.
LEMMA StepRefines ==
  ASSUME StoreInv, [StoreNext]_storeVars
  PROVE  [Store!Next]_(Store!vars)
  <1> USE StoreAssumption DEF StoreInv, disk, save, load, bounds, At, Goto
  \* A value that is being written is nowhere to be seen.
  <1>1. ASSUME NEW w \in Writers, CreateTemp(w)
        PROVE  \E v \in Values : Store!Begin(w, v)
    <2>1. PICK v \in Values, i \in Free : /\ value' = [value EXCEPT ![w] = v]
                                        /\ data' = [data EXCEPT ![i] = "empty"]
      BY <1>1 DEF CreateTemp
    <2>2. Ops' = [Ops EXCEPT ![w] = [state |-> "saving", value |-> v]]
      <3>1. OpOf(w)' = [state |-> "saving", value |-> v]
        BY <1>1, <2>1 DEF CreateTemp, OpOf, StoreTypes
      <3>2. \A u \in Writers \ {w} : OpOf(u)' = OpOf(u)
        BY <1>1, <2>1 DEF CreateTemp, OpOf, StoreTypes
      <3> QED BY <3>1, <3>2, OpsChange
    <2>3. Stored' = Stored /\ Lasting' = Lasting /\ Seen' = Seen
      BY <1>1, <2>1, FilesStay DEF CreateTemp, Free, StoreTypes
    <2>4. Ops[w].state = "idle"
      BY <1>1 DEF CreateTemp, Ops, OpOf
    <2>5. result' = [result EXCEPT ![w] = "none"]
      BY <1>1 DEF CreateTemp
    <2> QED BY <2>2, <2>3, <2>4, <2>5 DEF Store!Begin, Ops, Stored, Lasting, Seen
  <1>2. ASSUME NEW w \in Writers, WriteSome(w) \/ WriteRest(w)
        PROVE  UNCHANGED Store!vars
    <2>1. Stored' = Stored /\ Lasting' = Lasting /\ Seen' = Seen
      BY <1>2, FilesStay DEF WriteSome, WriteRest, StoreTypes, TempsArePrivate, Saving
    <2>2. UNCHANGED <<Ops, result>>
      <3>1. \A u \in Writers : OpOf(u)' = OpOf(u)
        BY <1>2 DEF WriteSome, WriteRest, OpOf, StoreTypes
      <3> QED BY <1>2, <3>1 DEF Ops, WriteSome, WriteRest
    <2> QED BY <2>1, <2>2 DEF Store!vars, Ops, Stored, Lasting, Seen
  <1>3. ASSUME NEW w \in Writers, Sync(w)
        PROVE  UNCHANGED Store!vars
    <2>1. Stored' = Stored /\ Lasting' = Lasting /\ Seen' = Seen
      BY <1>3, FilesStay DEF Sync
    <2>2. \A u \in Writers : OpOf(u)' = OpOf(u)
      BY <1>3 DEF Sync, OpOf, StoreTypes
    <2> QED BY <1>3, <2>1, <2>2 DEF Sync, Store!vars, Ops, Stored, Lasting, Seen
  \* The rename is the instant of the save.
  <1>4. ASSUME NEW w \in Writers, Rename(w)
        PROVE  Store!Publish(w)
    <2>1. /\ Ops[w] = [state |-> "saving", value |-> value[w]]
          /\ OpOf(w)' = [state |-> "saved", value |-> value[w]]
      BY <1>4 DEF Rename, Ops, OpOf, StoreTypes
    <2>2. \A u \in Writers \ {w} : OpOf(u)' = OpOf(u)
      BY <1>4 DEF Rename, OpOf, StoreTypes
    <2>3. Ops' = [Ops EXCEPT ![w] = [state |-> "saved", value |-> value[w]]]
      BY <2>1, <2>2, OpsChange
    <2>5. tmp[w] # None /\ data[tmp[w]] = value[w]
      BY <1>4 DEF Rename, TempsArePrivate, SavesProgress, Saving
    <2>6. Stored' = value[w] /\ Lasting' = Lasting \cup {value[w]}
      BY <1>4, <2>5 DEF Rename, Stored, Content, Lasting
    <2>7. UNCHANGED <<result, Seen>>
      BY <1>4 DEF Rename, Seen
    <2>4. /\ Ops[w].state = "saving"
          /\ Ops' = [Ops EXCEPT ![w] = [state |-> "saved", value |-> Ops[w].value]]
          /\ Stored' = Ops[w].value /\ Lasting' = Lasting \cup {Ops[w].value}
      BY <2>1, <2>3, <2>6
    <2> QED BY <2>4, <2>7 DEF Store!Publish, Ops, Stored, Lasting, Seen
  <1>5. ASSUME NEW w \in Writers, NEW r \in {"ok", "error", "none"}, Ends(w, r),
               UNCHANGED <<disk, load>>
        PROVE  /\ Ops' = [Ops EXCEPT ![w] = Store!Idle]
               /\ result' = [result EXCEPT ![w] = r]
               /\ Stored' = Stored /\ Lasting' = Lasting /\ Seen' = Seen
    <2>1. OpOf(w)' = Store!Idle /\ \A u \in Writers \ {w} : OpOf(u)' = OpOf(u)
      BY <1>5 DEF Ends, OpOf, Store!Idle, StoreTypes
    <2>2. Ops' = [Ops EXCEPT ![w] = Store!Idle]
      BY <2>1, OpsChange
    <2>3. Stored' = Stored /\ Lasting' = Lasting /\ Seen' = Seen
      BY <1>5, FilesStay
    <2> QED BY <1>5, <2>2, <2>3 DEF Ends
  <1>6. ASSUME NEW w \in Writers, Chmod(w)
        PROVE  Store!Return(w, TRUE)
    <2>1. Ends(w, "ok") /\ UNCHANGED <<disk, load>> /\ Ops[w].state = "saved"
      BY <1>6 DEF Chmod, Ops, OpOf
    <2> QED BY <1>5, <2>1 DEF Store!Return, Ops, Stored, Lasting, Seen
  <1>7. ASSUME NEW w \in Writers, SaveFails(w)
        PROVE  Store!Return(w, FALSE)
    <2>1. Ends(w, "error") /\ UNCHANGED <<disk, load>> /\ Ops[w].state # "idle"
      BY <1>7 DEF SaveFails, Ops, OpOf
    <2> QED BY <1>5, <2>1 DEF Store!Return, Ops, Stored, Lasting, Seen
  <1>8. ASSUME NEW w \in Writers, Remove(w)
        PROVE  Store!Delete(w)
    <2>1. Ops[w].state = "idle" /\ UNCHANGED <<Ops, Seen>>
      BY <1>8, OpsStay DEF Remove, Ops, OpOf, Seen
    <2>2. Stored' = None /\ Lasting' = Lasting \cup {None}
      BY <1>8 DEF Remove, Stored, Content, Lasting
    <2> QED BY <1>8, <2>1, <2>2 DEF Remove, Store!Delete, Ops, Stored, Lasting, Seen
  <1>9. ASSUME NEW w \in Writers, Crash(w)
        PROVE  Store!Crash(w)
    <2>1. Ends(w, "none") /\ UNCHANGED <<disk, load>>
      BY <1>9 DEF Crash
    <2> QED BY <1>5, <2>1 DEF Store!Crash, Ops, Stored, Lasting, Seen
  \* The open is the instant of the load.
  <1>10. ASSUME NEW r \in Readers, Open(r)
         PROVE  Store!Read(r)
    <2>1. Seen' = [Seen EXCEPT ![r] = Stored]
      BY <1>10 DEF Open, Seen, Stored, Content, StoreTypes
    <2>2. UNCHANGED <<Stored, Lasting, Ops, result>>
      BY <1>10, OpsStay DEF Open, Stored, Content, Lasting
    <2> QED BY <2>1, <2>2 DEF Store!Read, Ops, Stored, Lasting, Seen
  <1>11. ASSUME NEW r \in Readers, ReadAll(r)
         PROVE  UNCHANGED Store!vars
    <2>1. UNCHANGED Seen
      BY <1>11 DEF ReadAll, Seen, StoreTypes
    <2>2. UNCHANGED <<Stored, Lasting, Ops, result>>
      BY <1>11, OpsStay DEF ReadAll, Stored, Content, Lasting
    <2> QED BY <2>1, <2>2 DEF Store!vars, Ops, Stored, Lasting, Seen
  <1>12. ASSUME WriteBack
         PROVE  Store!Settle
    <2>1. Lasting' = {Stored}
      BY <1>12 DEF WriteBack, Stored, Content, Lasting
    <2>2. UNCHANGED <<Content(path), Ops, result, Seen>>
      BY <1>12, OpsStay DEF WriteBack, Stored, Content, Seen
    <2> QED BY <2>1, <2>2 DEF Store!Settle, Ops, Stored, Lasting, Seen
  \* What was published was flushed before, so it is there after a loss of power.
  <1>13. ASSUME PowerLoss
         PROVE  Store!PowerLoss
    <2>1. Stored' \in Lasting
      BY <1>13 DEF PowerLoss, PublishedIsWhole, Stored, Content, Lasting, StoreTypes
    <2>2. Lasting' = {Stored'}
      BY <1>13 DEF PowerLoss, Stored, Content, Lasting
    <2>3. Ops' = [w \in Writers |-> Store!Idle]
      BY <1>13 DEF PowerLoss, Ops, OpOf, Store!Idle
    <2>4. Seen' = [r \in Readers |-> None] /\ result' = [w \in Writers |-> "none"]
      BY <1>13 DEF PowerLoss, Seen
    <2> QED BY <2>1, <2>2, <2>3, <2>4 DEF Store!PowerLoss, Ops, Stored, Lasting, Seen
  <1>14. ASSUME UNCHANGED storeVars
         PROVE  UNCHANGED Store!vars
    BY <1>14 DEF storeVars, Store!vars, Content, OpOf
  <1> QED
    BY <1>1, <1>2, <1>3, <1>4, <1>6, <1>7, <1>8, <1>9, <1>10, <1>11, <1>12, <1>13, <1>14
       DEF StoreNext, Store!Next

(* Save and Load of internal/session, and the settings and keys saved the same
   way, implement the atomic store: a save happens at one instant or not at all. *)
THEOREM SavesAreAtomic == StoreSpec => IsAtomic
  BY StoreInvariant, InitRefines, StepRefines, PTL DEF StoreSpec, IsAtomic, Store!Spec

-----------------------------------------------------------------------------
(* Commands: the inductive invariant *)

Fields == Persisted \cup DOMAIN Unsaved \cup {"key"}

IsConfig(c) == DOMAIN c = Fields /\ c = [f \in Fields |-> c[f]]

\* A Config has all its fields, of the types that Normalize relies on.
ConfigOK(c) ==
  /\ IsConfig(c)
  /\ c.host \in Hosts /\ c.key \in Keys \cup {""}
  /\ c.attempts \in Int /\ c.checkpoint \in BOOLEAN
  /\ c.workdir # "relative"

\* What a start needs of the settings file to take its values as they are.
SettingsOK(s) ==
  /\ DOMAIN s = Persisted
  /\ s.host \in Hosts /\ s.attempts \in Int /\ s.checkpoint \in BOOLEAN

Loadable(s) ==
  /\ s.host.at # "" /\ ~s.host.slash /\ s.model # ""
  /\ s.topP \in 0..10 /\ s.attempts > 0
  /\ s.effort \in Efforts \cup {""} /\ s.format \in Formats
  /\ "(" \notin s.policy

\* Between the two writes of /save the settings file holds those of the session;
\* after both, the two files hold what was stored, until somebody writes again.
FilesInStep ==
  /\ SettingsOK(settings)
  /\ mode = "saving" => settings = [f \in Persisted |-> cfg[f]] /\ readable /\ ~stored.whole
  /\ stored.whole =>
       /\ settings = stored.values /\ keyFile = stored.key /\ Loadable(settings)
       /\ \/ keyFile = "" \/ settings.host.scheme = "https"
          \/ settings.host.scheme = "http" /\ stored.insecure

\* The agent's copy agrees with the Config on all but the model.
Follows(a, c) == DOMAIN a = AgentReads /\ \A f \in AgentReads \ {"model"} : a[f] = c[f]

IInv ==
  /\ TypeOK /\ SettingsInForce /\ FilesInStep
  /\ mode # "out" => ConfigOK(cfg) /\ DOMAIN agent = AgentReads

-----------------------------------------------------------------------------
(* Normalize *)

\* What Normalize makes of each field.
LEMMA CanonicalFields ==
  ASSUME NEW c, ConfigOK(c)
  PROVE  /\ ConfigOK(Canonical(c))
         /\ Canonical(c).host = [c.host EXCEPT !.slash = FALSE]
         /\ Canonical(c).attempts = IF c.attempts <= 0 THEN 3 ELSE c.attempts
         /\ Canonical(c).format = IF c.format = "" THEN "json_schema" ELSE c.format
         /\ Canonical(c).debug = IF c.debug = "relative" THEN c.workdir ELSE c.debug
         /\ \A f \in Fields \ {"host", "attempts", "format", "debug"} : Canonical(c)[f] = c[f]
  <1>1. Fields = {"host", "model", "effort", "format", "attempts", "topP", "verify", "checkpoint",
                  "policy", "auto", "debug", "insecure", "external", "worktree", "workdir", "key"}
    BY DEF Fields, Persisted, Blank, Unsaved
  <1>2. Default.attempts = 3 /\ Default.format = "json_schema"
    BY DEF Default, Blank
  <1>3. [c.host EXCEPT !.slash = FALSE] \in Hosts
    BY CommandsAssumption DEF ConfigOK
  <1>4. IsConfig(Canonical(c))
    BY DEF ConfigOK, IsConfig, Canonical
  <1>5. Canonical(c).host = [c.host EXCEPT !.slash = FALSE]
    BY <1>1 DEF ConfigOK, IsConfig, Canonical
  <1>6. Canonical(c).attempts = IF c.attempts <= 0 THEN 3 ELSE c.attempts
    BY <1>1, <1>2 DEF ConfigOK, IsConfig, Canonical
  <1>7. Canonical(c).format = IF c.format = "" THEN "json_schema" ELSE c.format
    BY <1>1, <1>2 DEF ConfigOK, IsConfig, Canonical
  <1>8. Canonical(c).debug = IF c.debug = "relative" THEN c.workdir ELSE c.debug
    BY <1>1 DEF ConfigOK, IsConfig, Canonical
  <1>9. \A f \in Fields \ {"host", "attempts", "format", "debug"} : Canonical(c)[f] = c[f]
    BY DEF ConfigOK, IsConfig, Canonical
  <1>10. ConfigOK(Canonical(c))
    <2>1. Canonical(c).host \in Hosts
      BY <1>3, <1>5
    <2>2. c.attempts \in Int /\ c.key \in Keys \cup {""} /\ c.checkpoint \in BOOLEAN
          /\ c.workdir # "relative"
      BY DEF ConfigOK
    <2>3. Canonical(c).attempts \in Int
      <3>1. CASE c.attempts <= 0
        BY <1>6, <3>1
      <3>2. CASE ~(c.attempts <= 0)
        BY <1>6, <2>2, <3>2
      <3> QED BY <3>1, <3>2
    <2>4. /\ Canonical(c).key = c.key /\ Canonical(c).checkpoint = c.checkpoint
          /\ Canonical(c).workdir = c.workdir
      BY <1>1, <1>9
    <2> QED BY <1>4, <2>1, <2>2, <2>3, <2>4 DEF ConfigOK
  <1> QED BY <1>5, <1>6, <1>7, <1>8, <1>9, <1>10

\* Normalizing again changes nothing.
LEMMA CanonicalTwice ==
  ASSUME NEW c, ConfigOK(c)
  PROVE  Canonical(Canonical(c)) = Canonical(c)
  <1> DEFINE d == Canonical(c)
  <1>1. ConfigOK(d) /\ ConfigOK(Canonical(d))
    BY CanonicalFields
  <1>2. \A f \in Fields \ {"host", "attempts", "format", "debug"} : Canonical(d)[f] = d[f]
    BY <1>1, CanonicalFields
  <1>3. Canonical(d).host = d.host
    <2>1. /\ d.host = [c.host EXCEPT !.slash = FALSE]
          /\ Canonical(d).host = [d.host EXCEPT !.slash = FALSE]
      BY <1>1, CanonicalFields
    <2>2. c.host \in [at : STRING, scheme : {"https", "http", "other"}, slash : BOOLEAN]
      BY CommandsAssumption DEF ConfigOK
    <2> QED BY <2>1, <2>2
  <1>4. Canonical(d).attempts = d.attempts /\ Canonical(d).format = d.format
    <2>1. /\ d.attempts = IF c.attempts <= 0 THEN 3 ELSE c.attempts
          /\ d.format = IF c.format = "" THEN "json_schema" ELSE c.format
          /\ Canonical(d).attempts = IF d.attempts <= 0 THEN 3 ELSE d.attempts
          /\ Canonical(d).format = IF d.format = "" THEN "json_schema" ELSE d.format
      BY <1>1, CanonicalFields
    <2> QED BY <2>1 DEF ConfigOK
  <1>5. Canonical(d).debug = d.debug
    <2>1. /\ d.debug = IF c.debug = "relative" THEN c.workdir ELSE c.debug
          /\ Canonical(d).debug = IF d.debug = "relative" THEN d.workdir ELSE d.debug
      BY <1>1, CanonicalFields
    <2> QED BY <2>1 DEF ConfigOK
  <1>6. \A f \in Fields : Canonical(d)[f] = d[f]
    BY <1>2, <1>3, <1>4, <1>5
  <1> QED BY <1>1, <1>6 DEF ConfigOK, IsConfig

\* A Config that Normalize leaves as it is, is one with these fields.
IsNormal(c) == ~c.host.slash /\ c.attempts > 0 /\ c.format # "" /\ c.debug # "relative"

\* Normalize rewrites nothing in a Config in its normal form.
LEMMA CanonicalMeans ==
  ASSUME NEW c, ConfigOK(c)
  PROVE  Canonical(c) = c <=> IsNormal(c)
  <1>1. c.attempts \in Int /\ c.workdir # "relative"
    BY DEF ConfigOK
  <1>2. c.host \in [at : STRING, scheme : {"https", "http", "other"}, slash : BOOLEAN]
    BY CommandsAssumption DEF ConfigOK
  <1>3. c.host = [c.host EXCEPT !.slash = FALSE] <=> ~c.host.slash
    BY <1>2
  <1>4. /\ Canonical(c).host = c.host <=> ~c.host.slash
        /\ Canonical(c).attempts = c.attempts <=> c.attempts > 0
        /\ Canonical(c).format = c.format <=> c.format # ""
        /\ Canonical(c).debug = c.debug <=> c.debug # "relative"
    <2>1. Canonical(c).host = [c.host EXCEPT !.slash = FALSE]
      BY CanonicalFields
    <2>2. Canonical(c).attempts = IF c.attempts <= 0 THEN 3 ELSE c.attempts
      BY CanonicalFields
    <2>3. Canonical(c).format = IF c.format = "" THEN "json_schema" ELSE c.format
      BY CanonicalFields
    <2>4. Canonical(c).debug = IF c.debug = "relative" THEN c.workdir ELSE c.debug
      BY CanonicalFields
    <2>5. Canonical(c).host = c.host <=> ~c.host.slash
      BY <1>3, <2>1
    <2>6. Canonical(c).attempts = c.attempts <=> c.attempts > 0
      BY <1>1, <2>2
    <2>7. Canonical(c).format = c.format <=> c.format # ""
      BY <2>3
    <2>8. Canonical(c).debug = c.debug <=> c.debug # "relative"
      BY <1>1, <2>4
    <2> QED BY <2>5, <2>6, <2>7, <2>8
  <1>5. ASSUME IsNormal(c)
        PROVE  Canonical(c) = c
    <2>1. \A f \in Fields : Canonical(c)[f] = c[f]
      BY <1>4, <1>5, CanonicalFields, ZenonT(30) DEF IsNormal
    <2>2. ConfigOK(Canonical(c))
      BY CanonicalFields
    <2> QED BY <2>1, <2>2 DEF ConfigOK, IsConfig
  <1> QED BY <1>4, <1>5 DEF IsNormal

\* The fields a session saves, and the ones it does not.
LEMMA FieldNames ==
  /\ Persisted = {"host", "model", "effort", "format", "attempts", "topP", "verify",
                  "checkpoint", "policy"}
  /\ DOMAIN Unsaved = {"auto", "debug", "insecure", "external", "worktree", "workdir"}
  /\ Fields = Persisted \cup {"auto", "debug", "insecure", "external", "worktree", "workdir", "key"}
  BY DEF Fields, Persisted, Blank, Unsaved

\* The two values of attempts that the code writes.
LEMMA Numbers == (\A n : n = 0 \/ n = 3 => n \in Int) /\ (\A n \in Int : n > 0 => n # 0)
  OBVIOUS

\* A field that is set, and the others.
LEMMA FieldSet ==
  ASSUME NEW c, ConfigOK(c), NEW f \in Fields, NEW v, NEW d, d = [c EXCEPT ![f] = v]
  PROVE  /\ IsConfig(d)
         /\ d[f] = v
         /\ \A g \in Fields \ {f} : d[g] = c[g]
  BY DEF ConfigOK, IsConfig

-----------------------------------------------------------------------------
(* A start *)

\* What the environment, the flags and the files give is of the types of the fields.
LEMMA TypedFields ==
  ASSUME NEW s, Typed(s)
  PROVE  /\ "host" \in DOMAIN s => s.host \in Hosts
         /\ "key" \in DOMAIN s => s.key \in Keys \cup {""}
         /\ "attempts" \in DOMAIN s => s.attempts \in Int
         /\ "checkpoint" \in DOMAIN s => s.checkpoint \in BOOLEAN
         /\ "workdir" \notin DOMAIN s
  BY DEF Typed, FieldTypes

\* What defaults are made from is typed, so they are.
LEMMA DefaultsOK ==
  ASSUME SettingsOK(settings), keyFile \in Keys \cup {""}, NEW env, Typed(env)
  PROVE  ConfigOK(Defaults(LoadSaved, env))
  <1> DEFINE d == Defaults(LoadSaved, env)
  <1>1. IsConfig(d)
    <2>1. DOMAIN d = Fields
      BY DEF Defaults, Fields
    <2>2. d = [f \in DOMAIN d |-> d[f]]
      BY DEF Defaults
    <2> QED BY <2>1, <2>2 DEF IsConfig
  <1>2. /\ LoadSaved["host"] = settings.host /\ LoadSaved["attempts"] = settings.attempts
        /\ LoadSaved["checkpoint"] = settings.checkpoint /\ LoadSaved["key"] = keyFile
    BY FieldNames DEF LoadSaved
  <1>3. d.host \in Hosts
    <2>1. /\ d.host = IF "host" \in DOMAIN env THEN env.host
                      ELSE IF settings.host # NoHost THEN settings.host ELSE DefaultHost
      BY <1>2, FieldNames DEF Defaults, Fields, Unsaved, Default, Blank
    <2> QED BY <2>1, TypedFields, CommandsAssumption DEF SettingsOK
  <1>4. d.attempts \in Int
    <2>1. /\ d.attempts = IF "attempts" \in DOMAIN env THEN env.attempts
                          ELSE IF settings.attempts # 0 THEN settings.attempts ELSE 3
      BY <1>2, FieldNames DEF Defaults, Fields, Unsaved, Default, Blank
    <2>2. settings.attempts \in Int /\ ("attempts" \in DOMAIN env => env.attempts \in Int)
      BY TypedFields DEF SettingsOK
    <2>3. CASE "attempts" \in DOMAIN env
      BY <2>1, <2>2, <2>3
    <2>4. CASE "attempts" \notin DOMAIN env /\ settings.attempts # 0
      BY <2>1, <2>2, <2>4
    <2>5. CASE "attempts" \notin DOMAIN env /\ settings.attempts = 0
      BY <2>1, <2>5, Numbers
    <2> QED BY <2>3, <2>4, <2>5
  <1>5. d.checkpoint \in BOOLEAN
    BY <1>2, FieldNames DEF Defaults, Fields
  <1>6. d.key \in Keys \cup {""}
    <2>1. d.key = IF "key" \in DOMAIN env THEN env.key ELSE keyFile
      BY <1>2, FieldNames DEF Defaults, Fields
    <2> QED BY <2>1, TypedFields
  <1>7. d.workdir = "workspace"
    <2>1. d.workdir = IF "workdir" \in DOMAIN env THEN env.workdir ELSE "workspace"
      BY FieldNames DEF Defaults, Fields, Unsaved
    <2> QED BY <2>1, TypedFields
  <1> QED BY <1>1, <1>3, <1>4, <1>5, <1>6, <1>7 DEF ConfigOK

\* Flags replace fields by values of their types.
LEMMA FlagsOK ==
  ASSUME NEW c, ConfigOK(c), NEW flags, Typed(flags)
  PROVE  ConfigOK(WithFlags(c, flags))
  <1> DEFINE d == WithFlags(c, flags)
  <1>1. IsConfig(d)
    BY DEF WithFlags, ConfigOK, IsConfig
  <1>2. \A f \in Fields \ {"policy"} : d[f] = IF f \in DOMAIN flags THEN flags[f] ELSE c[f]
    BY DEF WithFlags, ConfigOK, IsConfig
  <1>3. /\ d.host \in Hosts /\ d.key \in Keys \cup {""}
        /\ d.attempts \in Int /\ d.workdir # "relative"
    BY <1>2, FieldNames, TypedFields DEF ConfigOK
  <1>4. d.checkpoint \in BOOLEAN
    BY <1>2, FieldNames, TypedFields DEF ConfigOK
  <1> QED BY <1>1, <1>3, <1>4 DEF ConfigOK

-----------------------------------------------------------------------------
(* The steps *)

\* Files that hold nothing but blanks, or what was edited by hand, can be read.
LEMMA FilesTyped ==
  ASSUME NEW s \in Files \cup {Blank}
  PROVE  SettingsOK(s)
  <1>1. CASE s = Blank
    <2>1. s.host = NoHost /\ s.attempts = 0 /\ s.checkpoint = FALSE /\ DOMAIN s = Persisted
      BY <1>1 DEF Blank, Persisted
    <2>2. s.checkpoint \in BOOLEAN
      BY <2>1
    <2> QED BY <2>1, <2>2, Numbers, CommandsAssumption DEF SettingsOK
  <1>2. CASE s \in Files
    <2>1. Typed(s) /\ DOMAIN s = Persisted
      BY <1>2, CommandsAssumption
    <2> QED BY <2>1, TypedFields, FieldNames DEF SettingsOK
  <1> QED BY <1>1, <1>2

\* At the first start no file was written yet.
LEMMA InitIInv == Init => IInv
  <1> SUFFICES ASSUME Init PROVE IInv
    OBVIOUS
  <1>1. SettingsOK(settings)
    BY FilesTyped DEF Init
  <1>2. FilesInStep
    BY <1>1 DEF Init, FilesInStep, Nothing
  <1>3. readable \in BOOLEAN
    BY DEF Init
  <1> QED BY <1>1, <1>2, <1>3 DEF Init, IInv, TypeOK, SettingsInForce, SettingsOK

\* What is left to show when the files stay as they are.
LEMMA SessionKept ==
  ASSUME IInv, UNCHANGED files, mode' = "prompt", mode # "saving",
         ConfigOK(cfg'), Acceptable(cfg'), Canonical(cfg') = cfg',
         client' = ClientOf(cfg'), Follows(agent', cfg')
  PROVE  IInv'
  <1>1. TypeOK'
    BY DEF IInv, TypeOK, files
  <1>2. SettingsInForce'
    BY DEF SettingsInForce, Follows, ClientOf, Acceptable, KeyMayTravel
  <1>3. FilesInStep'
    BY DEF IInv, FilesInStep, files, SettingsOK, Loadable
  <1> QED BY <1>1, <1>2, <1>3 DEF IInv, Follows

\* A start leaves a Config that Normalize accepted.
LEMMA StartKeeps ==
  ASSUME IInv, Start
  PROVE  IInv'
  <1>1. PICK env \in Environments, flags \in Flags :
          LET first == Canonical(WithFlags(Defaults(LoadSaved, env), flags))
              final == IF first.worktree THEN InWorktree(first) ELSE first
          IN /\ Acceptable(final)
             /\ cfg' = final /\ client' = ClientOf(final) /\ agent' = AgentOf(final)
    BY DEF Start
  <1> DEFINE c == WithFlags(Defaults(LoadSaved, env), flags)
             first == Canonical(c)
             inside == [first EXCEPT !.workdir = "worktree"]
  <1>2. ConfigOK(c)
    <2>1. Typed(env) /\ Typed(flags)
      BY CommandsAssumption
    <2>2. SettingsOK(settings) /\ keyFile \in Keys \cup {""}
      BY DEF IInv, TypeOK, FilesInStep
    <2> QED BY <2>1, <2>2, DefaultsOK, FlagsOK
  <1>3. ConfigOK(first)
    BY <1>2, CanonicalFields
  <1>4. ConfigOK(inside)
    <2>1. /\ IsConfig(inside)
          /\ inside.workdir = "worktree"
          /\ \A g \in Fields \ {"workdir"} : inside[g] = first[g]
      BY <1>3, FieldSet, FieldNames
    <2> QED BY <1>3, <2>1, FieldNames DEF ConfigOK
  <1>5. ConfigOK(cfg') /\ Canonical(cfg') = cfg'
    <2>1. CASE first.worktree
      <3>1. cfg' = Canonical(inside)
        BY <1>1, <2>1 DEF InWorktree
      <3> QED BY <1>4, <3>1, CanonicalFields, CanonicalTwice
    <2>2. CASE ~first.worktree
      <3>1. cfg' = first
        BY <1>1, <2>2
      <3> QED BY <1>2, <1>3, <3>1, CanonicalTwice
    <2> QED BY <2>1, <2>2
  <1>6. Acceptable(cfg') /\ client' = ClientOf(cfg') /\ Follows(agent', cfg')
    BY <1>1 DEF AgentOf, Follows
  <1> QED BY <1>5, <1>6, SessionKept DEF Start

\* A command that sets a field Normalize does not touch, to a value it accepts.
LEMMA PlainKept ==
  ASSUME ConfigOK(cfg), Acceptable(cfg), Canonical(cfg) = cfg, NEW v,
         NEW f \in {"model", "auto", "verify", "checkpoint", "effort", "key"},
         cfg' = [cfg EXCEPT ![f] = v],
         f = "model" => v # "",
         f = "checkpoint" => v \in BOOLEAN,
         f = "effort" => v \in Efforts \cup {""},
         f = "key" => v = ""
  PROVE  ConfigOK(cfg') /\ Acceptable(cfg') /\ Canonical(cfg') = cfg'
  <1>1. f \in Fields
    BY FieldNames
  <1>2. /\ IsConfig(cfg')
        /\ cfg'[f] = v /\ \A g \in Fields \ {f} : cfg'[g] = cfg[g]
    BY <1>1 DEF ConfigOK, IsConfig
  <1>3. ConfigOK(cfg')
    BY <1>2, FieldNames DEF ConfigOK
  <1>4. IsNormal(cfg')
    <2>1. IsNormal(cfg)
      BY CanonicalMeans
    <2> QED BY <1>2, <2>1, FieldNames DEF IsNormal
  <1>5. Acceptable(cfg')
    <2>1. /\ cfg'.host = cfg.host /\ cfg'.topP = cfg.topP /\ cfg'.format = cfg.format
          /\ cfg'.policy = cfg.policy /\ cfg'.insecure = cfg.insecure /\ cfg'.debug = cfg.debug
          /\ cfg'.external = cfg.external /\ cfg'.workdir = cfg.workdir
      BY <1>2, FieldNames
    <2>2. cfg'.model # "" /\ cfg'.effort \in Efforts \cup {""}
      BY <1>2, FieldNames DEF Acceptable
    <2>3. cfg'.key = "" \/ cfg'.key = cfg.key
      BY <1>2, FieldNames
    <2>4. KeyMayTravel(cfg') /\ DebugConfined(cfg')
      BY <2>1, <2>3 DEF Acceptable, KeyMayTravel, DebugConfined
    <2> QED BY <2>1, <2>2, <2>4 DEF Acceptable
  <1> QED BY <1>3, <1>4, <1>5, CanonicalMeans

\* A value that Normalize refuses is put back, and nothing else has changed.
LEMMA PutBackKept ==
  ASSUME ConfigOK(cfg), Canonical(cfg) = cfg, NEW f \in {"host", "key"}, NEW v,
         f = "host" => v \in Hosts, f = "key" => v \in Keys,
         PutBack(f, v)
  PROVE  cfg' = cfg
  <1> DEFINE tried == [cfg EXCEPT ![f] = v]
             kept  == Canonical(tried)
  <1>1. f \in Fields
    BY FieldNames
  <1>2. /\ IsConfig(tried)
        /\ tried[f] = v /\ \A g \in Fields \ {f} : tried[g] = cfg[g]
    BY <1>1 DEF ConfigOK, IsConfig
  <1>3. ConfigOK(tried)
    BY <1>2, FieldNames DEF ConfigOK
  <1>4. ConfigOK(kept) /\ \A g \in Fields \ {f} : kept[g] = cfg[g]
    <2>1. IsNormal(cfg)
      BY CanonicalMeans
    <2>2. /\ ConfigOK(kept)
          /\ kept.attempts = IF tried.attempts <= 0 THEN 3 ELSE tried.attempts
          /\ kept.format = IF tried.format = "" THEN "json_schema" ELSE tried.format
          /\ kept.debug = IF tried.debug = "relative" THEN tried.workdir ELSE tried.debug
          /\ \A g \in Fields \ {"host", "attempts", "format", "debug"} : kept[g] = tried[g]
          /\ kept.host = [tried.host EXCEPT !.slash = FALSE]
      BY <1>3, CanonicalFields
    <2>3. f # "host" => kept.host = cfg.host
      <3>1. cfg.host = [cfg.host EXCEPT !.slash = FALSE]
        BY CanonicalFields
      <3>2. f # "host" => tried.host = cfg.host
        BY <1>2, FieldNames
      <3> QED BY <2>2, <3>1, <3>2
    <2>4. tried.attempts = cfg.attempts
      BY <1>2, FieldNames
    <2>4a. tried.format = cfg.format /\ tried.debug = cfg.debug
      BY <1>2, FieldNames
    <2>5. kept.attempts = cfg.attempts /\ kept.format = cfg.format /\ kept.debug = cfg.debug
      <3>1. cfg.attempts \in Int /\ cfg.attempts > 0
        BY <2>1 DEF IsNormal, ConfigOK
      <3>2. kept.attempts = cfg.attempts
        <4>1. ~(tried.attempts <= 0)
          BY <2>4, <3>1
        <4> QED BY <2>2, <2>4, <4>1
      <3>3. kept.format = cfg.format /\ kept.debug = cfg.debug
        BY <2>1, <2>2, <2>4a DEF IsNormal
      <3> QED BY <3>2, <3>3
    <2>6. \A g \in Fields \ {"host", "attempts", "format", "debug", f} : kept[g] = cfg[g]
      BY <1>2, <2>2
    <2> QED BY <2>2, <2>3, <2>5, <2>6
  <1>5. cfg' = [kept EXCEPT ![f] = cfg[f]]
    BY DEF PutBack
  <1>6. IsConfig(cfg') /\ \A g \in Fields : cfg'[g] = cfg[g]
    BY <1>1, <1>4, <1>5 DEF ConfigOK, IsConfig
  <1> QED BY <1>6 DEF ConfigOK, IsConfig

\* A host or a key that Normalize accepts.
LEMMA NormalizedKept ==
  ASSUME ConfigOK(cfg), Canonical(cfg) = cfg, NEW f \in {"host", "key"}, NEW v,
         f = "host" => v \in Hosts, f = "key" => v \in Keys,
         Normalizes([cfg EXCEPT ![f] = v]), cfg' = Canonical([cfg EXCEPT ![f] = v])
  PROVE  /\ ConfigOK(cfg') /\ Acceptable(cfg') /\ Canonical(cfg') = cfg'
         /\ \A g \in Fields \ {f, "host", "format", "debug"} : cfg'[g] = cfg[g]
         /\ f = "key" => cfg'.host = [cfg.host EXCEPT !.slash = FALSE] /\ cfg'.key = v
  <1> DEFINE tried == [cfg EXCEPT ![f] = v]
  <1>1. f \in Fields
    BY FieldNames
  <1>2. /\ IsConfig(tried)
        /\ tried[f] = v /\ \A g \in Fields \ {f} : tried[g] = cfg[g]
    BY <1>1 DEF ConfigOK, IsConfig
  <1>3. ConfigOK(tried)
    BY <1>2, FieldNames DEF ConfigOK
  <1>4. ConfigOK(cfg') /\ Canonical(cfg') = cfg'
    BY <1>3, CanonicalFields, CanonicalTwice
  <1>5. /\ cfg'.host = [tried.host EXCEPT !.slash = FALSE]
        /\ \A g \in Fields \ {"host", "attempts", "format", "debug"} : cfg'[g] = tried[g]
    BY <1>3, CanonicalFields
  <1>6. f = "key" => cfg'.host = [cfg.host EXCEPT !.slash = FALSE] /\ cfg'.key = v
    BY <1>1, <1>2, <1>5, FieldNames
  <1>7. cfg'.attempts = cfg.attempts
    <2>1. tried.attempts = cfg.attempts
      BY <1>2, FieldNames
    <2>2. cfg.attempts \in Int /\ cfg.attempts > 0
      BY CanonicalMeans DEF IsNormal, ConfigOK
    <2>3. cfg'.attempts = IF tried.attempts <= 0 THEN 3 ELSE tried.attempts
      BY <1>3, CanonicalFields
    <2> QED BY <2>1, <2>2, <2>3
  <1> QED BY <1>2, <1>4, <1>5, <1>6, <1>7 DEF Normalizes

\* The agent follows a change of a field it does not work by.
LEMMA NotWorkedBy ==
  ASSUME NEW a, NEW c, NEW d, Follows(a, c),
         \A g \in AgentReads \ {"model"} : d[g] = c[g]
  PROVE  Follows(a, d)
BY DEF Follows

\* Each command at the prompt keeps the Config, the client and the agent in step.
LEMMA PromptKeeps ==
  ASSUME IInv,
         Model \/ Host \/ HostRefused \/ SetAuto \/ Verify \/ Checkpoint \/ Reasoning
         \/ KeyOff \/ Key \/ KeyRefused
  PROVE  IInv'
  <1>1. /\ mode = "prompt" /\ mode' = "prompt" /\ UNCHANGED files
    BY DEF Model, Host, HostRefused, SetAuto, Verify, Checkpoint, Reasoning, KeyOff, Key,
           KeyRefused, AtPrompt
  <1>2. /\ ConfigOK(cfg) /\ Acceptable(cfg) /\ Canonical(cfg) = cfg
        /\ client = ClientOf(cfg) /\ Follows(agent, cfg)
    BY <1>1 DEF IInv, TypeOK, SettingsInForce, Follows
  <1>3. SUFFICES /\ ConfigOK(cfg') /\ Acceptable(cfg') /\ Canonical(cfg') = cfg'
                 /\ client' = ClientOf(cfg') /\ Follows(agent', cfg')
    BY <1>1, SessionKept
  \* A field that is set in the Config, the client and the agent.
  <1>4. ASSUME NEW v, NEW f \in {"model", "auto", "verify", "checkpoint", "effort", "key"},
               cfg' = [cfg EXCEPT ![f] = v]
        PROVE  cfg'[f] = v /\ \A g \in Fields \ {f} : cfg'[g] = cfg[g]
    BY <1>2, <1>4, FieldNames DEF ConfigOK, IsConfig
  <1>5. CASE Model
    <2>1. PICK m \in Models : /\ cfg' = [cfg EXCEPT !.model = m]
                              /\ client' = [client EXCEPT !.model = m] /\ agent' = agent
      BY <1>5 DEF Model
    <2>2. m # ""
      BY CommandsAssumption
    <2>3. ConfigOK(cfg') /\ Acceptable(cfg') /\ Canonical(cfg') = cfg'
      BY <1>2, <2>1, <2>2, PlainKept
    <2>4. client' = ClientOf(cfg')
      BY <1>2, <1>4, <2>1, FieldNames DEF ClientOf
    <2>5. cfg'.model = m /\ \A g \in Fields \ {"model"} : cfg'[g] = cfg[g]
      BY <1>4, <2>1
    <2>6. \A g \in AgentReads \ {"model"} : cfg'[g] = cfg[g]
      BY <2>5, FieldNames DEF AgentReads
    <2>7. Follows(agent', cfg')
      BY <1>2, <2>1, <2>6, NotWorkedBy
    <2> QED BY <2>3, <2>4, <2>7
  <1>6. CASE SetAuto
    <2>1. PICK on \in BOOLEAN : /\ cfg' = [cfg EXCEPT !.auto = on]
                                /\ agent' = [agent EXCEPT !.auto = on] /\ client' = client
      BY <1>6 DEF SetAuto
    <2>2. ConfigOK(cfg') /\ Acceptable(cfg') /\ Canonical(cfg') = cfg'
      BY <1>2, <2>1, PlainKept
    <2>3. client' = ClientOf(cfg')
      BY <1>2, <1>4, <2>1, FieldNames DEF ClientOf
    <2>4. cfg'.auto = on /\ \A g \in Fields \ {"auto"} : cfg'[g] = cfg[g]
      BY <1>4, <2>1
    <2>5. "auto" \in AgentReads
      BY DEF AgentReads
    <2>6. Follows(agent', cfg')
      <3>1. /\ DOMAIN agent' = AgentReads
            /\ \A g \in AgentReads : agent'[g] = IF g = "auto" THEN on ELSE agent[g]
        BY <1>2, <2>1, <2>5 DEF Follows
      <3> QED BY <1>2, <2>4, <3>1, FieldNames DEF Follows, AgentReads
    <2> QED BY <2>2, <2>3, <2>6
  <1>7. CASE Verify
    <2>1. PICK v \in Verifies \cup {""} :
            /\ cfg' = [cfg EXCEPT !.verify = v]
            /\ agent' = [agent EXCEPT !.verify = v] /\ client' = client
      BY <1>7 DEF Verify
    <2>2. ConfigOK(cfg') /\ Acceptable(cfg') /\ Canonical(cfg') = cfg'
      BY <1>2, <2>1, PlainKept
    <2>3. client' = ClientOf(cfg')
      BY <1>2, <1>4, <2>1, FieldNames DEF ClientOf
    <2>4. cfg'.verify = v /\ \A g \in Fields \ {"verify"} : cfg'[g] = cfg[g]
      BY <1>4, <2>1
    <2>5. "verify" \in AgentReads
      BY DEF AgentReads
    <2>6. Follows(agent', cfg')
      <3>1. /\ DOMAIN agent' = AgentReads
            /\ \A g \in AgentReads : agent'[g] = IF g = "verify" THEN v ELSE agent[g]
        BY <1>2, <2>1, <2>5 DEF Follows
      <3> QED BY <1>2, <2>4, <3>1, FieldNames DEF Follows, AgentReads
    <2> QED BY <2>2, <2>3, <2>6
  <1>8. CASE Checkpoint
    <2>1. PICK on \in BOOLEAN : /\ cfg' = [cfg EXCEPT !.checkpoint = on]
                                /\ agent' = [agent EXCEPT !.checkpoint = on] /\ client' = client
      BY <1>8 DEF Checkpoint
    <2>2. ConfigOK(cfg') /\ Acceptable(cfg') /\ Canonical(cfg') = cfg'
      BY <1>2, <2>1, PlainKept
    <2>3. client' = ClientOf(cfg')
      BY <1>2, <1>4, <2>1, FieldNames DEF ClientOf
    <2>4. cfg'.checkpoint = on /\ \A g \in Fields \ {"checkpoint"} : cfg'[g] = cfg[g]
      BY <1>4, <2>1
    <2>5. "checkpoint" \in AgentReads
      BY DEF AgentReads
    <2>6. Follows(agent', cfg')
      <3>1. /\ DOMAIN agent' = AgentReads
            /\ \A g \in AgentReads : agent'[g] = IF g = "checkpoint" THEN on ELSE agent[g]
        BY <1>2, <2>1, <2>5 DEF Follows
      <3> QED BY <1>2, <2>4, <3>1, FieldNames DEF Follows, AgentReads
    <2> QED BY <2>2, <2>3, <2>6
  <1>9. CASE Reasoning
    <2>1. PICK e \in Levels \cup {""} :
            /\ cfg' = [cfg EXCEPT !.effort = e]
            /\ client' = [client EXCEPT !.effort = e] /\ agent' = agent
      BY <1>9 DEF Reasoning
    <2>2. e \in Efforts \cup {""}
      BY CommandsAssumption
    <2>3. ConfigOK(cfg') /\ Acceptable(cfg') /\ Canonical(cfg') = cfg'
      BY <1>2, <2>1, <2>2, PlainKept
    <2>4. client' = ClientOf(cfg')
      BY <1>2, <1>4, <2>1, FieldNames DEF ClientOf
    <2>5. cfg'.effort = e /\ \A g \in Fields \ {"effort"} : cfg'[g] = cfg[g]
      BY <1>4, <2>1
    <2>6. \A g \in AgentReads \ {"model"} : cfg'[g] = cfg[g]
      BY <2>5, FieldNames DEF AgentReads
    <2>7. Follows(agent', cfg')
      BY <1>2, <2>1, <2>6, NotWorkedBy
    <2> QED BY <2>3, <2>4, <2>7
  <1>10. CASE KeyOff
    <2>1. /\ cfg' = [cfg EXCEPT !.key = ""]
          /\ client' = [client EXCEPT !.key = ""] /\ agent' = agent
      BY <1>10 DEF KeyOff
    <2>2. ConfigOK(cfg') /\ Acceptable(cfg') /\ Canonical(cfg') = cfg'
      BY <1>2, <2>1, PlainKept
    <2>3. client' = ClientOf(cfg')
      BY <1>2, <1>4, <2>1, FieldNames DEF ClientOf
    <2>4. cfg'.key = "" /\ \A g \in Fields \ {"key"} : cfg'[g] = cfg[g]
      BY <1>4, <2>1
    <2>5. \A g \in AgentReads \ {"model"} : cfg'[g] = cfg[g]
      BY <2>4, FieldNames DEF AgentReads
    <2>6. Follows(agent', cfg')
      BY <1>2, <2>1, <2>5, NotWorkedBy
    <2> QED BY <2>2, <2>3, <2>6
  <1>11. CASE Host
    <2>1. PICK h \in Hosts : /\ Normalizes([cfg EXCEPT !.host = h])
                             /\ cfg' = Canonical([cfg EXCEPT !.host = h])
                             /\ client' = [client EXCEPT !.host = cfg'.host] /\ agent' = agent
      BY <1>11 DEF Host
    <2>2. /\ ConfigOK(cfg') /\ Acceptable(cfg') /\ Canonical(cfg') = cfg'
          /\ \A g \in Fields \ {"host", "format", "debug"} : cfg'[g] = cfg[g]
      BY <1>2, <2>1, NormalizedKept
    <2>3. client' = ClientOf(cfg')
      BY <1>2, <2>1, <2>2, FieldNames DEF ClientOf
    <2>4. Follows(agent', cfg')
      BY <1>2, <2>1, <2>2, NotWorkedBy, FieldNames DEF AgentReads
    <2> QED BY <2>2, <2>3, <2>4
  <1>12. CASE Key
    <2>1. PICK k \in Keys : /\ Normalizes([cfg EXCEPT !.key = k])
                            /\ cfg' = Canonical([cfg EXCEPT !.key = k])
                            /\ client' = [client EXCEPT !.key = k] /\ agent' = agent
      BY <1>12 DEF Key
    <2>2. /\ ConfigOK(cfg') /\ Acceptable(cfg') /\ Canonical(cfg') = cfg'
          /\ \A g \in Fields \ {"key", "host", "format", "debug"} : cfg'[g] = cfg[g]
          /\ cfg'.host = [cfg.host EXCEPT !.slash = FALSE] /\ cfg'.key = k
      BY <1>2, <2>1, NormalizedKept
    <2>3. cfg'.host = cfg.host
      BY <1>2, <2>2, CanonicalFields
    <2>4. client' = ClientOf(cfg')
      BY <1>2, <2>1, <2>2, <2>3, FieldNames DEF ClientOf
    <2>5. Follows(agent', cfg')
      BY <1>2, <2>1, <2>2, NotWorkedBy, FieldNames DEF AgentReads
    <2> QED BY <2>2, <2>4, <2>5
  <1>13. CASE HostRefused
    <2>1. PICK h \in Hosts : PutBack("host", h)
      BY <1>13 DEF HostRefused
    <2>2. cfg' = cfg
      BY <1>2, <2>1, PutBackKept
    <2> QED BY <1>2, <1>13, <2>2 DEF HostRefused
  <1>14. CASE KeyRefused
    <2>1. PICK k \in Keys : PutBack("key", k)
      BY <1>14 DEF KeyRefused
    <2>2. cfg' = cfg
      BY <1>2, <2>1, PutBackKept
    <2> QED BY <1>2, <1>14, <2>2 DEF KeyRefused
  <1> QED BY <1>5, <1>6, <1>7, <1>8, <1>9, <1>10, <1>11, <1>12, <1>13, <1>14

\* /save, and what happens between its two writes and between two sessions.
LEMMA FilesKeep ==
  ASSUME IInv, Leave \/ EditByHand \/ Save \/ SaveKey \/ SaveKeyFails
  PROVE  IInv'
  <1>1. CASE Leave
    BY <1>1 DEF Leave, files, IInv, TypeOK, SettingsInForce, FilesInStep, SettingsOK, Loadable
  <1>2. CASE EditByHand
    <2>1. SettingsOK(settings') /\ readable' \in BOOLEAN /\ stored' = Nothing
          /\ mode = "out" /\ UNCHANGED <<mode, keyFile, session>>
      BY <1>2, FilesTyped DEF EditByHand
    <2>2. FilesInStep'
      BY <2>1 DEF FilesInStep, SettingsOK, Nothing
    <2> QED BY <2>1, <2>2 DEF IInv, TypeOK, SettingsInForce, SettingsOK, session
  <1>3. CASE Save
    <2>1. CASE UNCHANGED <<mode, settings, readable, stored>>
      BY <1>3, <2>1 DEF Save, session, IInv, TypeOK, SettingsInForce, FilesInStep, SettingsOK,
                        Loadable
    <2>2. CASE /\ settings' = [f \in Persisted |-> cfg[f]] /\ readable' = TRUE
               /\ stored' = Nothing /\ mode' = "saving"
      <3>1. UNCHANGED <<keyFile, cfg, client, agent>> /\ mode = "prompt"
        BY <1>3 DEF Save, session
      <3>2. SettingsOK(settings')
        <4>1. settings'.host = cfg.host /\ settings'.attempts = cfg.attempts
              /\ settings'.checkpoint = cfg.checkpoint /\ DOMAIN settings' = Persisted
          BY <2>2, FieldNames
        <4> QED BY <3>1, <4>1 DEF IInv, ConfigOK, SettingsOK
      <3>3. FilesInStep'
        BY <2>2, <3>1, <3>2 DEF FilesInStep, SettingsOK, Nothing
      <3>4. readable' \in BOOLEAN
        BY <2>2
      <3> QED BY <2>2, <3>1, <3>2, <3>3, <3>4 DEF IInv, TypeOK, SettingsInForce, SettingsOK
    <2> QED BY <1>3, <2>1, <2>2 DEF Save
  <1>4. CASE SaveKey
    <2>1. /\ mode = "saving" /\ mode' = "prompt" /\ keyFile' = cfg.key
          /\ UNCHANGED <<settings, readable, cfg, client, agent>>
          /\ settings = [f \in Persisted |-> cfg[f]]
      BY <1>4 DEF SaveKey, session, IInv, FilesInStep
    <2>2. stored'.values = settings /\ stored'.key = cfg.key /\ stored'.insecure = cfg.insecure
      BY <1>4, <2>1 DEF SaveKey
    <2>3. ConfigOK(cfg) /\ Acceptable(cfg) /\ IsNormal(cfg)
      BY <2>1, CanonicalMeans DEF IInv, TypeOK
    <2>4. Loadable(settings)
      <3>1. /\ settings.host = cfg.host /\ settings.model = cfg.model /\ settings.topP = cfg.topP
            /\ settings.attempts = cfg.attempts /\ settings.effort = cfg.effort
            /\ settings.format = cfg.format /\ settings.policy = cfg.policy
        BY <2>1, FieldNames
      <3> QED BY <2>3, <3>1 DEF Loadable, Acceptable, IsNormal
    <2>5. settings.host = cfg.host /\ KeyMayTravel(cfg)
      BY <2>1, <2>3, FieldNames DEF Acceptable
    <2>6. keyFile' \in Keys \cup {""}
      BY <2>1, <2>3 DEF ConfigOK
    <2>7. FilesInStep'
      BY <2>1, <2>2, <2>4, <2>5 DEF IInv, FilesInStep, SettingsOK, Loadable, KeyMayTravel
    <2> QED BY <2>1, <2>6, <2>7 DEF IInv, TypeOK, SettingsInForce
  <1>5. CASE SaveKeyFails
    BY <1>5 DEF SaveKeyFails, files, session, IInv, TypeOK, SettingsInForce, FilesInStep,
                SettingsOK, Loadable
  <1> QED BY <1>1, <1>2, <1>3, <1>4, <1>5

\* Every start, command and save keeps the invariant.
LEMMA StepIInv ==
  ASSUME IInv, [Next]_vars
  PROVE  IInv'
  <1>1. CASE UNCHANGED vars
    BY <1>1 DEF vars, IInv, TypeOK, SettingsInForce, FilesInStep, SettingsOK, Loadable
  <1> QED BY <1>1, StartKeeps, PromptKeeps, FilesKeep DEF Next

-----------------------------------------------------------------------------
(* What a later start gets *)

\* With neither flags nor variables a start takes the saved values as they are.
LEMMA Restored ==
  ASSUME IInv
  PROVE  SavedIsRestored
  <1> SUFFICES ASSUME stored.whole PROVE SavedIsRestored
    BY DEF SavedIsRestored
  <1> DEFINE d == Defaults(LoadSaved, Absent)
             again == Canonical(d)
  <1>1. /\ settings = stored.values /\ keyFile = stored.key /\ keyFile \in Keys \cup {""}
        /\ SettingsOK(settings) /\ Loadable(settings)
        /\ \/ keyFile = "" \/ settings.host.scheme = "https"
           \/ settings.host.scheme = "http" /\ stored.insecure
    BY DEF IInv, TypeOK, FilesInStep
  <1>2. DOMAIN Absent = {} /\ Typed(Absent)
    BY DEF Absent, Typed
  <1>3. ConfigOK(d)
    BY <1>1, <1>2, DefaultsOK
  <1>4. \A f \in Persisted : d[f] = settings[f]
    <2>1. \A f \in Persisted : LoadSaved[f] = settings[f]
      BY FieldNames DEF LoadSaved
    <2>2. \A f \in Persisted \ {"checkpoint"} :
            d[f] = IF settings[f] # Blank[f] THEN settings[f] ELSE Default[f]
      BY <1>2, <2>1, FieldNames DEF Defaults
    <2>3. d.checkpoint = settings.checkpoint
      <3>1. d.checkpoint = (FALSE \/ settings.checkpoint)
        BY <1>2, <2>1, FieldNames DEF Defaults
      <3>2. settings.checkpoint \in BOOLEAN
        BY <1>1 DEF SettingsOK
      <3> QED BY <3>1, <3>2
    <2>4. /\ settings.host # Blank.host /\ settings.model # Blank.model
          /\ settings.format # Blank.format /\ settings.attempts # Blank.attempts
      <3>1. /\ Blank.host = NoHost /\ Blank.model = "" /\ Blank.format = ""
            /\ Blank.attempts = 0
        BY DEF Blank
      <3>2. settings.attempts > 0 /\ settings.format # "" /\ settings.model # ""
            /\ settings.host.at # "" /\ NoHost.at = ""
        BY <1>1, CommandsAssumption DEF Loadable, Formats
      <3>3. settings.attempts # 0
        BY <1>1, <3>2, Numbers DEF SettingsOK
      <3> QED BY <3>1, <3>2, <3>3
    <2>5. \A f \in {"effort", "topP", "verify", "policy"} : Default[f] = Blank[f]
      BY DEF Default, Blank
    <2> QED BY <2>2, <2>3, <2>4, <2>5, FieldNames
  <1>5. d.key = keyFile /\ d.debug = "" /\ d.insecure = FALSE
    BY <1>2, FieldNames DEF Defaults, LoadSaved, Unsaved
  <1>6. again = d
    <2>1. IsNormal(d)
      BY <1>1, <1>4, <1>5, FieldNames DEF Loadable, IsNormal, Formats
    <2> QED BY <1>3, <2>1, CanonicalMeans
  <1>7. ~stored.insecure => Acceptable(d)
    <2>1. /\ d.host = settings.host /\ d.model = settings.model /\ d.topP = settings.topP
          /\ d.effort = settings.effort /\ d.format = settings.format /\ d.policy = settings.policy
      BY <1>4, FieldNames
    <2>2. ~stored.insecure => KeyMayTravel(d)
      BY <1>1, <1>5, <2>1 DEF KeyMayTravel
    <2>3. DebugConfined(d)
      BY <1>5 DEF DebugConfined
    <2> QED BY <1>1, <2>1, <2>2, <2>3 DEF Acceptable, Loadable
  <1> QED BY <1>1, <1>4, <1>5, <1>6, <1>7 DEF SavedIsRestored

-----------------------------------------------------------------------------
(* The theorems *)

\* The inductive invariant of the settings.
THEOREM SettingsInvariant == Spec => []IInv
  BY InitIInv, StepIInv, PTL DEF Spec

(* main.go: whatever commands were given and refused, the Config is one that
   Normalize accepts and leaves as it is. *)
THEOREM ConfigStaysNormal == Spec => []TypeOK
  <1>1. IInv => TypeOK
    BY DEF IInv
  <1> QED BY <1>1, SettingsInvariant, PTL

(* main.go: the client follows every change of the Config, the agent every one
   of a setting it works by, which the model it records is not, and no
   key travels in the clear that was not allowed to. *)
THEOREM SettingsAreInForce == Spec => []SettingsInForce
  <1>1. IInv => SettingsInForce
    BY DEF IInv
  <1> QED BY <1>1, SettingsInvariant, PTL

(* settings.Save, SaveKey and config.Defaults: what /save wrote to both files is
   what a later start has, however the files and the sessions followed. *)
THEOREM SavedSettingsAreRestored == Spec => []SavedIsRestored
  BY Restored, SettingsInvariant, PTL
=============================================================================
