---------------------------- MODULE MCExt2Lookup ----------------------------
(***************************************************************************)
(* A small file system for Ext2Lookup.  The root has two blocks; in the    *)
(* second the longer entry is copied over part of itself.  Directory 3     *)
(* has one entry behind slack.  Blocks have eight cells, sectors four.     *)
(***************************************************************************)
EXTENDS Ext2Lookup, TLC

Entry(n, i, len) == [name |-> n, inode |-> i, rec_len |-> len]
SelfEntry(i, len) == Entry(<<".">>, i, len)

Files == (2 :> <<10, 11>>) @@ (3 :> <<12>>) @@ (4 :> <<13, 14>>) @@ (5 :> <<>>)

Directories ==
  (10 :> (0 :> SelfEntry(2, 2) @@ 2 :> Entry(<<".", ".">>, 2, 3) @@
          5 :> Entry(<<"d", "a">>, 3, 3))) @@
  (11 :> (0 :> Entry(<<"e">>, 4, 3) @@ 3 :> Entry(<<"a", "b", "c">>, 5, 5))) @@
  (12 :> (0 :> SelfEntry(3, 4) @@ 4 :> Entry(<<"a", "b">>, 4, 4)))

\* Cells that all look like the header of an entry, with a character.
Alike(len, n, c) ==
  [k \in Cell |-> [inode |-> 5, rec_len |-> len, name_len |-> n, ch |-> c]]

\* The contents of file 4: taken for entries, those of its first block end in
\* one of length 0, and the last one of its second block goes beyond it.
Contents ==
  (13 :> [Alike(3, 1, "v") EXCEPT ![3].rec_len = 0]) @@
  (14 :> [Alike(6, 2, "e") EXCEPT ![6].rec_len = 4])

\* The stack holds zeros, or what looks like entries that are too short, that
\* go beyond the buffer, or that are longer than it.
StackCells ==
  {Alike(0, 0, Nul), Alike(0, 1, "v"), Alike(3, 2, "b"), Alike(9, 1, "a")}

\* The i_block of a directory, that of a file, and one of no block of the disk.
Anything == {<<12>>, <<14>>, <<99>>}

\* No entry is the beginning of a part, unless it is the part.
Exact ==
  {<<<<"d", "a">>>>, <<<<"e">>>>, <<<<"a", "b", "c">>>>, <<<<"a", "b">>>>,
   <<<<"d", "a">>, <<"a", "b">>>>, <<<<"d", "a">>, <<"b">>>>,
   <<<<"d", "a">>, <<"d">>, <<"e">>>>}

ASSUME ExactIsUnambiguous == \A p \in Exact : Unambiguous(p)

\* /eve, where there is only /e.
Longer == {<<<<"e", "v", "e">>>>}

\* The exact ones, and a path through a file.
All == Exact \cup {<<<<"e">>, <<"b">>, <<"c">>>>}
=============================================================================
