----------------------------- MODULE FileStore -----------------------------
(***************************************************************************)
(* How internal/session and internal/settings write and read the one file  *)
(* of a workspace's transcript, of the settings or of the API key, when    *)
(* several drea processes share it: writePrivate's temporary file, its     *)
(* flush and its rename, and Load's open followed by its reads.            *)
(*                                                                         *)
(* The file system is external: a name leads to an inode, a rename changes *)
(* the name at once in memory and some time later on disk, and a loss of   *)
(* power damages the data of an inode that was never flushed.              *)
(***************************************************************************)
EXTENDS Integers

CONSTANTS
  Writers, Readers, \* processes that save, processes that load
  Values,           \* what may be saved
  None,             \* no value, no inode
  Inodes,           \* bound: inodes in use at once
  MaxOps, MaxFaults \* bounds: saves; failures and crashes

ASSUME StoreAssumption ==
  None \notin Values \cup Inodes /\ {"empty", "torn"} \cap Values = {}

VARIABLES
  data,    \* per inode: a value, or "empty", or "torn" while it is written
  flushed, \* the inodes whose data reached the disk
  path,    \* the inode the file's name leads to
  onDisk,  \* those it may lead to after a loss of power
  pc, tmp, value, \* per writer: its next step, its temporary file, its value
  result,  \* per writer: what its last save returned
  fd, got, \* per reader: the inode it has open, what it read
  ops, faults

save == <<pc, tmp, value, result>>
load == <<fd, got>>
disk == <<data, flushed, path, onDisk>>
bounds == <<ops, faults>>
storeVars == <<disk, save, load, bounds>>

StoreInit ==
  /\ data = [i \in Inodes |-> "empty"] /\ flushed = {}
  /\ path = None /\ onDisk = {None}
  /\ pc = [w \in Writers |-> "idle"] /\ tmp = [w \in Writers |-> None]
  /\ value = [w \in Writers |-> None] /\ result = [w \in Writers |-> "none"]
  /\ fd = [r \in Readers |-> None] /\ got = [r \in Readers |-> None]
  /\ ops = 0 /\ faults = 0

\* An inode nothing refers to.
Free == Inodes \ (onDisk \cup {path} \cup {tmp[w] : w \in Writers} \cup {fd[r] : r \in Readers})

Goto(w, step) == pc' = [pc EXCEPT ![w] = step]
At(w, step)   == pc[w] = step
Fault         == faults < MaxFaults /\ faults' = faults + 1

-----------------------------------------------------------------------------
(* Saving *)

\* Save encodes the value and writePrivate creates a temporary file.
CreateTemp(w) ==
  /\ At(w, "idle") /\ ops < MaxOps
  /\ ops' = ops + 1
  /\ \E v \in Values, i \in Free :
       /\ value' = [value EXCEPT ![w] = v]
       /\ tmp' = [tmp EXCEPT ![w] = i]
       /\ data' = [data EXCEPT ![i] = "empty"]
       /\ flushed' = flushed \ {i}
  /\ result' = [result EXCEPT ![w] = "none"]
  /\ Goto(w, "write")
  /\ UNCHANGED <<path, onDisk, load, faults>>

WriteSome(w) ==
  /\ At(w, "write")
  /\ data' = [data EXCEPT ![tmp[w]] = "torn"]
  /\ Goto(w, "writing")
  /\ UNCHANGED <<flushed, path, onDisk, tmp, value, result, load, bounds>>

WriteRest(w) ==
  /\ At(w, "writing")
  /\ data' = [data EXCEPT ![tmp[w]] = value[w]]
  /\ Goto(w, "sync")
  /\ UNCHANGED <<flushed, path, onDisk, tmp, value, result, load, bounds>>

\* A variant without the flush.
SkipSync(w) ==
  /\ At(w, "sync")
  /\ Goto(w, "rename")
  /\ UNCHANGED <<disk, tmp, value, result, load, bounds>>

Sync(w) ==
  /\ At(w, "sync")
  /\ flushed' = flushed \cup {tmp[w]}
  /\ Goto(w, "rename")
  /\ UNCHANGED <<data, path, onDisk, tmp, value, result, load, bounds>>

Rename(w) ==
  /\ At(w, "rename")
  /\ path' = tmp[w]
  /\ onDisk' = onDisk \cup {tmp[w]}
  /\ tmp' = [tmp EXCEPT ![w] = None]
  /\ Goto(w, "chmod")
  /\ UNCHANGED <<data, flushed, value, result, load, bounds>>

Ends(w, r) ==
  /\ Goto(w, "idle")
  /\ value' = [value EXCEPT ![w] = None]
  /\ result' = [result EXCEPT ![w] = r]

\* The mode of the published file is repaired, and Save returns.
Chmod(w) ==
  /\ At(w, "chmod")
  /\ Ends(w, "ok")
  /\ UNCHANGED <<disk, tmp, load, bounds>>

\* A step fails: the temporary file is removed, and Save returns the error.
\* The last one fails after the value was published.
SaveFails(w) ==
  /\ pc[w] # "idle"
  /\ Fault
  /\ tmp' = [tmp EXCEPT ![w] = None]
  /\ Ends(w, "error")
  /\ UNCHANGED <<disk, load, ops>>

\* SaveKey of an empty key removes the file.
Remove(w) ==
  /\ At(w, "idle") /\ ops < MaxOps
  /\ ops' = ops + 1
  /\ path' = None
  /\ onDisk' = onDisk \cup {None}
  /\ result' = [result EXCEPT ![w] = "ok"]
  /\ UNCHANGED <<data, flushed, pc, tmp, value, load, faults>>

-----------------------------------------------------------------------------
(* Loading *)

\* No file is an answer, not an error.
Open(r) ==
  /\ fd[r] = None
  /\ fd' = [fd EXCEPT ![r] = path]
  /\ got' = [got EXCEPT ![r] = None]
  /\ UNCHANGED <<disk, save, bounds>>

ReadAll(r) ==
  /\ fd[r] # None
  /\ got' = [got EXCEPT ![r] = data[fd[r]]]
  /\ fd' = [fd EXCEPT ![r] = None]
  /\ UNCHANGED <<disk, save, bounds>>

-----------------------------------------------------------------------------
(* Processes and machine *)

\* A process dies; its temporary file stays behind, of no use to anyone.
Crash(w) ==
  /\ pc[w] # "idle" /\ Fault
  /\ tmp' = [tmp EXCEPT ![w] = None]
  /\ Ends(w, "none")
  /\ UNCHANGED <<disk, load, ops>>

\* The directory reaches the disk.
WriteBack ==
  /\ onDisk # {path}
  /\ onDisk' = {path}
  /\ UNCHANGED <<data, flushed, path, save, load, bounds>>

\* What was not flushed comes back damaged.
PowerLoss ==
  /\ Fault
  /\ path' \in onDisk /\ onDisk' = {path'}
  /\ data' = [i \in Inodes |-> IF i \in flushed THEN data[i] ELSE "torn"]
  /\ pc' = [w \in Writers |-> "idle"] /\ tmp' = [w \in Writers |-> None]
  /\ value' = [w \in Writers |-> None] /\ result' = [w \in Writers |-> "none"]
  /\ fd' = [r \in Readers |-> None] /\ got' = [r \in Readers |-> None]
  /\ UNCHANGED <<flushed, ops>>

StoreNext ==
  \/ \E w \in Writers :
       \/ CreateTemp(w) \/ WriteSome(w) \/ WriteRest(w) \/ Sync(w) \/ Rename(w) \/ Chmod(w)
       \/ SaveFails(w) \/ Remove(w) \/ Crash(w)
  \/ \E r \in Readers : Open(r) \/ ReadAll(r)
  \/ WriteBack \/ PowerLoss

StoreSpec == StoreInit /\ [][StoreNext]_storeVars

-----------------------------------------------------------------------------
(* Properties *)

StoreTypes ==
  /\ data \in [Inodes -> Values \cup {"empty", "torn"}] /\ flushed \subseteq Inodes
  /\ path \in Inodes \cup {None} /\ onDisk \subseteq Inodes \cup {None}
  /\ pc \in [Writers -> {"idle", "write", "writing", "sync", "rename", "chmod"}]
  /\ tmp \in [Writers -> Inodes \cup {None}] /\ value \in [Writers -> Values \cup {None}]
  /\ result \in [Writers -> {"none", "ok", "error"}]
  /\ fd \in [Readers -> Inodes \cup {None}]
  /\ got \in [Readers -> Values \cup {None}]

\* What an inode holds for the abstract store.
Content(i) == IF i = None THEN None ELSE data[i]

\* The save of a writer, for the abstract store: it took effect once renamed.
OpOf(w) ==
  [state |-> CASE pc[w] = "idle" -> "idle" [] pc[w] = "chmod" -> "saved" [] OTHER -> "saving",
   value |-> value[w]]

Store == INSTANCE AtomicStore WITH
  stored  <- Content(path),
  lasting <- {Content(i) : i \in onDisk},
  op      <- [w \in Writers |-> OpOf(w)],
  seen    <- [r \in Readers |-> IF fd[r] # None THEN data[fd[r]] ELSE got[r]]

\* Temporary file, flush and rename make a save atomic, for every other
\* process and across crashes and losses of power: a load returns a value that
\* was saved as a whole, the one the file had at the moment of the open, and a
\* save reports success only of what it published.
IsAtomic == Store!Spec
=============================================================================
