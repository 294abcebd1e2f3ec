------------------------------ MODULE MCBlkIo ------------------------------
(***************************************************************************)
(* Model of BlkIo for TLC: three sectors of two bytes with contents in     *)
(* which neighbouring bytes and sectors differ, and two buffers that       *)
(* differ in every byte.                                                   *)
(***************************************************************************)
EXTENDS BlkIo

DiskValues ==
  {[s \in 0 .. Sectors - 1 |-> [b \in 0 .. BlkSize - 1 |->
      IF s + b = 1 \/ s = 2 THEN 1 ELSE 0]]}

InputValues ==
  {[i \in 0 .. MaxSize - 1 |-> IF i \in {0, 3} THEN v ELSE 1 - v] : v \in Byte}
=============================================================================
