---------------------------- MODULE AtomicStore ----------------------------
(***************************************************************************)
(* What internal/session and internal/settings promise of a file: a save   *)
(* replaces the whole value at one instant or not at all, a load returns   *)
(* the value of one instant, a crash of a process changes nothing, and     *)
(* after a loss of power the file holds one of the values saved since it   *)
(* last reached the disk.                                                  *)
(***************************************************************************)
CONSTANTS Writers, Readers, Values, None

VARIABLES
  stored,   \* the value of the file, None when there is none
  lasting,  \* the values it may have after a loss of power
  op,       \* per writer: the save in progress
  result,   \* per writer: what its last save returned
  seen      \* per reader: what its last load found

vars == <<stored, lasting, op, result, seen>>

Idle == [state |-> "idle", value |-> None]

Init ==
  /\ stored = None /\ lasting = {None}
  /\ op = [w \in Writers |-> Idle]
  /\ result = [w \in Writers |-> "none"]
  /\ seen = [r \in Readers |-> None]

Begin(w, v) ==
  /\ op[w].state = "idle"
  /\ op' = [op EXCEPT ![w] = [state |-> "saving", value |-> v]]
  /\ result' = [result EXCEPT ![w] = "none"]
  /\ UNCHANGED <<stored, lasting, seen>>

Publish(w) ==
  /\ op[w].state = "saving"
  /\ op' = [op EXCEPT ![w] = [state |-> "saved", value |-> op[w].value]]
  /\ stored' = op[w].value
  /\ lasting' = lasting \cup {op[w].value}
  /\ UNCHANGED <<result, seen>>

\* Success is only reported of what was published.
Return(w, ok) ==
  /\ op[w].state # "idle"
  /\ ok => op[w].state = "saved"
  /\ op' = [op EXCEPT ![w] = Idle]
  /\ result' = [result EXCEPT ![w] = IF ok THEN "ok" ELSE "error"]
  /\ UNCHANGED <<stored, lasting, seen>>

Delete(w) ==
  /\ op[w].state = "idle"
  /\ stored' = None
  /\ lasting' = lasting \cup {None}
  /\ result' = [result EXCEPT ![w] = "ok"]
  /\ UNCHANGED <<op, seen>>

Read(r) ==
  /\ seen' = [seen EXCEPT ![r] = stored]
  /\ UNCHANGED <<stored, lasting, op, result>>

Crash(w) ==
  /\ op' = [op EXCEPT ![w] = Idle]
  /\ result' = [result EXCEPT ![w] = "none"]
  /\ UNCHANGED <<stored, lasting, seen>>

\* The file reaches the disk.
Settle ==
  /\ lasting' = {stored}
  /\ UNCHANGED <<stored, op, result, seen>>

PowerLoss ==
  /\ stored' \in lasting
  /\ lasting' = {stored'}
  /\ op' = [w \in Writers |-> Idle]
  /\ result' = [w \in Writers |-> "none"]
  /\ seen' = [r \in Readers |-> None]

Next ==
  \/ \E w \in Writers :
       \/ \E v \in Values : Begin(w, v)
       \/ Publish(w) \/ Delete(w) \/ Crash(w)
       \/ \E ok \in BOOLEAN : Return(w, ok)
  \/ \E r \in Readers : Read(r)
  \/ Settle \/ PowerLoss

Spec == Init /\ [][Next]_vars
=============================================================================
