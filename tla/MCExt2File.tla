----------------------------- MODULE MCExt2File -----------------------------
(***************************************************************************)
(* Two files for Ext2File on a disk of seven blocks.  The blocks of file 2 *)
(* are neither in order nor neighbours and its indirect block is 5; file 3 *)
(* has a hole, and block 6 lies beyond the wrap.                           *)
(***************************************************************************)
EXTENDS Ext2File, TLC

Files ==
  (2 :> (0 :> 4 @@ 1 :> 1 @@ 2 :> 5)) @@ (3 :> (0 :> 2 @@ 1 :> 0 @@ 2 :> 6))
=============================================================================
