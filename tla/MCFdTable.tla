----------------------------- MODULE MCFdTable -----------------------------
(***************************************************************************)
(* Models of FdTable for TLC.  Four kinds of path: two files, a name that  *)
(* is missing from the root, and one that is missing from a directory,     *)
(* where the walk has stored the directory's inode number before it gives  *)
(* up.                                                                     *)
(***************************************************************************)
EXTENDS FdTable

CONSTANTS eve, random5, missing, dirMissing, inoEve, inoRandom5, inoDir

Arrives(i) == {[ino |-> i, found |-> TRUE]}
GivesUp(i) == {[ino |-> i, found |-> FALSE]}

\* Only paths that exist ...
Files == [p \in {eve, random5} |-> IF p = eve THEN inoEve ELSE inoRandom5]
FilesLookup == [p \in {eve, random5} |-> Arrives(Files[p])]

\* ... and those that do not, too.
AllFiles ==
  [p \in {eve, random5, missing, dirMissing} |->
     CASE p = eve -> inoEve [] p = random5 -> inoRandom5 [] OTHER -> NoIno]
AllLookup ==
  [p \in {eve, random5, missing, dirMissing} |->
     CASE p = missing -> GivesUp(NoIno)
       [] p = dirMissing -> GivesUp(inoDir)
       [] OTHER -> Arrives(AllFiles[p])]

Offsets == {-1, 2}
=============================================================================
