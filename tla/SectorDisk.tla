----------------------------- MODULE SectorDisk -----------------------------
(***************************************************************************)
(* What virtio_blk_read_sector_sync and virtio_blk_write_sector_sync       *)
(* promise their callers: a synchronous sector store.  A call is served    *)
(* exactly once and returns afterwards.  A zero status means the transfer  *)
(* happened; a non-zero one promises nothing about the caller's buffer,    *)
(* and after a failed write the sector holds its old or its new contents.  *)
(***************************************************************************)
CONSTANTS Sector, Data

VARIABLES
  disk,     \* the contents of every sector
  phase,    \* "idle", "busy" (called, not served) or "done" (served)
  op,       \* "read" or "write"
  sector,   \* the sector of the latest call
  data,     \* the caller's sector-sized buffer
  status    \* the status byte: 0, 1 (I/O error) or 255 (not served)

vars == <<disk, phase, op, sector, data, status>>

NotServed == 255

Init ==
  /\ disk \in [Sector -> Data]
  /\ phase = "idle"
  /\ op = "read"
  /\ sector \in Sector
  /\ data \in Data
  /\ status = NotServed

Call(o, s, d) ==
  /\ phase = "idle"
  /\ phase' = "busy"
  /\ op' = o /\ sector' = s /\ data' = d
  /\ status' = NotServed
  /\ UNCHANGED disk

ServeOK ==
  /\ phase = "busy"
  /\ phase' = "done"
  /\ status' = 0
  /\ data' = IF op = "read" THEN disk[sector] ELSE data
  /\ disk' = IF op = "write" THEN [disk EXCEPT ![sector] = data] ELSE disk
  /\ UNCHANGED <<op, sector>>

ServeError ==
  /\ phase = "busy"
  /\ phase' = "done"
  /\ status' = 1
  /\ data' \in IF op = "read" THEN Data ELSE {data}
  /\ disk' \in IF op = "write" THEN {disk, [disk EXCEPT ![sector] = data]}
                               ELSE {disk}
  /\ UNCHANGED <<op, sector>>

Return ==
  /\ phase = "done"
  /\ phase' = "idle"
  /\ UNCHANGED <<disk, op, sector, data, status>>

Next ==
  \/ \E o \in {"read", "write"}, s \in Sector, d \in Data : Call(o, s, d)
  \/ ServeOK
  \/ ServeError
  \/ Return

SafeSpec == Init /\ [][Next]_vars

\* A call that was made is served, and a served call returns.
Fairness == WF_vars(ServeOK \/ ServeError) /\ WF_vars(Return)

Spec == SafeSpec /\ Fairness
=============================================================================
