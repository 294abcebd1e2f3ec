----------------------------- MODULE Ext2Lookup -----------------------------
(***************************************************************************)
(* The walk along a path (ino_from_path, inode_from_path) and the scan of  *)
(* a directory (inode_from_dir) in src/ext2.c.                             *)
(*                                                                         *)
(* Bytes are cells.  A directory entry takes rec_len cells: a header, one  *)
(* cell per character of the name, and slack.  The scan reads a block into *)
(* a buffer and copies each entry to the front of that same buffer before  *)
(* it looks at it, so an entry is copied over those already seen and may   *)
(* be copied over part of itself.                                          *)
(*                                                                         *)
(* Reads of the disk may fail.  That of an inode is noticed; that of a     *)
(* block group descriptor or of a directory block is not, and what the     *)
(* stack holds is used in its place, whole or behind the sectors that were *)
(* read.  Nor is a file on the way asked whether it is a directory.  So    *)
(* any cells at all may be scanned as if they were entries.                *)
(***************************************************************************)
EXTENDS Integers, Sequences, Functions

CONSTANTS
  BlockLen,  \* cells in a block (1024 in the code)
  MaxBlocks, \* EXT2_MAX_DIRECT_BLOCKS_PER_INODE (13)
  Char, Nul, \* the characters, and the one that is none
  Inode,     \* for each inode number, i_block up to the first zero
  Entries,   \* for each block of a directory, its entries, by the cell they
             \* start at
  FileData,  \* for each other block in use, its cells
  Dir,       \* the inode numbers that are directories
  Root,      \* inode 2
  Paths,     \* the paths that are looked up: sequences of parts
  SectorLen, \* cells in a sector (512)
  Stack,     \* what the stack may hold, in and behind a buffer not written
  Misread,   \* i_block of what may be taken for an inode
  MayFail    \* reads may fail

Inodes == DOMAIN Inode
DirBlock == DOMAIN Entries
Block == DirBlock \cup DOMAIN FileData
Cell == 0 .. BlockLen - 1
\* A cell is read as the header of an entry, or as a character of a name.  A
\* name, of 255 characters at most, never reaches beyond the buffer.
CellType ==
  [inode : Nat, rec_len : Nat, name_len : 0 .. BlockLen - 1, ch : Char \cup {Nul}]
\* The inode number of an entry not in use, and of *ino before it is written.
NoInode == 0

\* Entries follow one another and fill the block to its end.
Filled(b) ==
  LET starts == DOMAIN Entries[b]
  IN  /\ starts \subseteq Cell /\ 0 \in starts
      /\ \A s \in starts :
           LET e == Entries[b][s]
           IN  /\ e.inode \in Nat /\ e.rec_len \in Nat /\ e.name \in Seq(Char)
               /\ e.rec_len > Len(e.name)
               /\ s + e.rec_len \in starts \cup {BlockLen}
               /\ \A m \in starts : m <= s \/ m >= s + e.rec_len

ASSUME LookupAssumption ==
  /\ BlockLen \in Nat \ {0} /\ MaxBlocks \in Nat /\ Nul \notin Char
  /\ Inodes \subseteq Nat \ {NoInode} /\ Dir \subseteq Inodes /\ Root \in Dir
  /\ \A i \in Inodes : Inode[i] \in Seq(Block)
  /\ \A b \in DirBlock : Filled(b)
  /\ \A b \in DOMAIN FileData : FileData[b] \in [Cell -> CellType]
  /\ DirBlock \cap DOMAIN FileData = {}
  /\ Paths \subseteq Seq(Seq(Char))
  /\ SectorLen \in Nat \ {0}
  /\ Stack \subseteq [Cell -> CellType] /\ Stack # {}
  /\ Misread \subseteq Seq(Nat)
  /\ MayFail \in BOOLEAN

VARIABLES
  pc,        \* "idle", "inode", "part", "block", "scan", or "lost": the
             \* stack above the buffer has been overwritten
  parts,     \* what strtok has still to return; its head is next
  ptr,       \* the call has a pointer for the inode number
  path,      \* history: the path of the latest call
  traverse,  \* i_block of traverse_inode
  o,         \* inode_from_dir: number of the block scanned ...
  buffer,    \* ... its buffer
  dirent_idx,
  want,      \* the inode number whose inode is being read
  ino,       \* the result through the pointer ...
  found,     \* ... and the result of the call
  block0,    \* history: the block as it was read
  failed,    \* history: some read of this call failed
  astray     \* history: this call has scanned what is no directory block

walkVars == <<parts, ptr, path, traverse>>
scanVars == <<o, buffer, dirent_idx, block0>>
resVars == <<ino, found>>
histVars == <<failed, astray>>
lookupVars == <<pc, walkVars, scanVars, want, resVars, histVars>>

\* The cells of an entry.
Header(e) ==
  [inode |-> e.inode, rec_len |-> e.rec_len, name_len |-> Len(e.name),
   ch |-> Nul]
Plain(c) == [inode |-> NoInode, rec_len |-> 0, name_len |-> 0, ch |-> c]

\* Where the entry starts that a cell belongs to, and the cell's character.
StartOf(b, k) ==
  CHOOSE s \in DOMAIN Entries[b] : k \in s .. s + Entries[b][s].rec_len - 1

CharAt(name, k) == IF k <= Len(name) THEN name[k] ELSE Nul

DirCells(b) ==
  [k \in Cell |-> IF k \in DOMAIN Entries[b]
                  THEN Header(Entries[b][k])
                  ELSE LET s == StartOf(b, k)
                       IN  Plain(CharAt(Entries[b][s].name, k - s))]

BlockCells(b) == IF b \in DirBlock THEN DirCells(b) ELSE FileData[b]

WalkTypeOK ==
  /\ pc \in {"idle", "inode", "part", "block", "scan", "lost"}
  /\ Len(parts) <= Len(path) /\ path \in Paths \cup {<<>>}
  /\ traverse \in Range(Inode) \cup Misread \cup {<<>>}
  /\ o \in 0 .. MaxBlocks /\ dirent_idx \in 0 .. 2 * BlockLen
  /\ DOMAIN buffer = Cell /\ DOMAIN block0 = Cell
  /\ want \in Nat /\ ino \in Nat
  /\ ptr \in BOOLEAN /\ found \in BOOLEAN
  /\ failed \in BOOLEAN /\ astray \in BOOLEAN

WalkInit ==
  /\ pc = "idle" /\ parts = <<>> /\ path = <<>> /\ traverse = <<>>
  /\ ptr = FALSE
  /\ o = 0 /\ buffer \in Stack /\ dirent_idx = 0 /\ block0 = buffer
  /\ want = NoInode /\ ino = NoInode /\ found = FALSE
  /\ failed = FALSE /\ astray = FALSE

-----------------------------------------------------------------------------
(* The call: inode 2 is read first.  Of the locals of earlier calls only   *)
(* the buffer's memory is still there.                                     *)

Walk(p, asksIno) ==
  /\ pc = "idle"
  /\ path' = p /\ ptr' = asksIno /\ parts' = p
  /\ pc' = "inode" /\ want' = Root
  /\ ino' = NoInode /\ found' = FALSE /\ failed' = FALSE /\ astray' = FALSE
  /\ traverse' = <<>> /\ o' = 0 /\ dirent_idx' = 0
  /\ block0' = buffer /\ UNCHANGED buffer

ino_from_path(p) == Walk(p, TRUE)

\* The same walk, for the inode alone.
inode_from_path(p) == Walk(p, FALSE)

(***************************************************************************)
(* inode_from_ino.  If the block group descriptor was not read, or for an  *)
(* inode number that does not exist, some other part of the disk is taken  *)
(* for the inode, and its i_block may say anything.                        *)
(***************************************************************************)
InodeRead ==
  /\ pc = "inode" /\ want \in Inodes
  /\ traverse' = Inode[want]
  /\ pc' = "part"
  /\ UNCHANGED <<parts, ptr, path, scanVars, want, resVars, histVars>>

InodeMisplaced ==
  /\ pc = "inode" /\ (MayFail \/ want \notin Inodes)
  /\ traverse' \in Misread
  /\ pc' = "part" /\ failed' = (failed \/ want \in Inodes)
  /\ UNCHANGED <<parts, ptr, path, scanVars, want, resVars, astray>>

InodeNotRead ==
  /\ pc = "inode" /\ (MayFail \/ want \notin Inodes)
  /\ found' = FALSE
  /\ pc' = "idle" /\ failed' = (failed \/ want \in Inodes)
  /\ UNCHANGED <<walkVars, scanVars, want, ino, astray>>

\* strtok finds no further part: traverse_inode is the one wanted.
PathEnds ==
  /\ pc = "part" /\ parts = <<>>
  /\ found' = TRUE
  /\ pc' = "idle"
  /\ UNCHANGED <<walkVars, scanVars, want, ino, histVars>>

\* Otherwise the part is sought in the directory traversed so far.
NextPart ==
  /\ pc = "part" /\ parts # <<>>
  /\ o' = 0
  /\ pc' = "block"
  /\ UNCHANGED <<walkVars, buffer, dirent_idx, block0, want, resVars, histVars>>

-----------------------------------------------------------------------------
(* inode_from_dir.                                                         *)

NoMoreBlocks == o >= MaxBlocks \/ o >= Len(traverse)

BlockRead ==
  /\ pc = "block" /\ ~NoMoreBlocks /\ traverse[o + 1] \in Block
  /\ buffer' = BlockCells(traverse[o + 1])
  /\ block0' = buffer' /\ dirent_idx' = 0
  /\ pc' = "scan" /\ astray' = (astray \/ traverse[o + 1] \notin DirBlock)
  /\ UNCHANGED <<walkVars, o, want, resVars, failed>>

\* A block of which n cells were read into a buffer that held old.
PartlyRead(b, n, old) ==
  [k \in Cell |-> IF k < n THEN BlockCells(b)[k] ELSE old[k]]

\* The sectors before the one that failed are in the buffer, and behind them
\* what the stack held, perhaps from the scan before.  Blocks beyond the disk
\* cannot be read at all.
BlockNotRead ==
  /\ pc = "block" /\ ~NoMoreBlocks /\ (MayFail \/ traverse[o + 1] \notin Block)
  /\ \E n \in Cell, old \in Stack \cup {buffer} :
       /\ n % SectorLen = 0 /\ (traverse[o + 1] \in Block \/ n = 0)
       /\ buffer' = PartlyRead(traverse[o + 1], n, old)
  /\ block0' = buffer' /\ dirent_idx' = 0
  /\ pc' = "scan" /\ failed' = TRUE /\ astray' = TRUE
  /\ UNCHANGED <<walkVars, o, want, resVars>>

PartMissing ==
  /\ pc = "block" /\ NoMoreBlocks
  /\ found' = FALSE
  /\ pc' = "idle"
  /\ UNCHANGED <<walkVars, scanVars, want, ino, histVars>>

\* What is at a cell counted from the buffer's first: one of the buffer's, or
\* one of the stack's behind it.
CellAt(past, k) == IF k < BlockLen THEN buffer[k] ELSE past[k - BlockLen]

\* Fault: everything from the entry to the end of the block is copied.
RestToFront(past) ==
  [k \in Cell |-> IF k < BlockLen - dirent_idx THEN buffer[dirent_idx + k]
                                               ELSE buffer[k]]

\* The buffer after the two copies to its front, the header's and then the
\* whole entry's by the length found there; memcpy copies upwards.
CopiedToFront(past) ==
  [k \in Cell |-> IF k = 0 \/ k < buffer[dirent_idx].rec_len
                    THEN CellAt(past, dirent_idx + k)
                    ELSE buffer[k]]

\* The entry is longer than the buffer it is copied to.
TooLong == buffer[dirent_idx].rec_len > BlockLen

\* Fault: the first character decides.
FirstCharMatches(de, part) == de[1].ch = part[1]

\* strncmp(de->name, path, de->name_len) = 0 for an entry at the front: the
\* same characters as far as name_len goes, or to the end of both strings.
NameMatches(de, part) ==
  \A k \in 1 .. de[0].name_len :
    de[k].ch = CharAt(part, k) \/ \E j \in 1 .. k - 1 : de[j].ch = Nul

EntryMatches ==
  /\ pc = "scan" /\ dirent_idx < BlockLen /\ ~TooLong
  /\ \E past \in Stack :
       /\ NameMatches(CopiedToFront(past), Head(parts))
       /\ buffer' = CopiedToFront(past)
  /\ ino' = IF ptr THEN buffer'[0].inode ELSE ino
  /\ want' = buffer'[0].inode
  /\ parts' = Tail(parts)
  /\ pc' = "inode"
  /\ UNCHANGED <<ptr, path, traverse, o, dirent_idx, block0, found, histVars>>

\* Fault: the scan goes on by the slack of the entry.
SkipSlack(de) ==
  LET used == 1 + de[0].name_len
  IN  IF de[0].rec_len > used THEN de[0].rec_len - used ELSE 0

SkipEntry(de) == de[0].rec_len

EntryDiffers ==
  /\ pc = "scan" /\ dirent_idx < BlockLen /\ ~TooLong
  /\ \E past \in Stack :
       /\ ~NameMatches(CopiedToFront(past), Head(parts))
       /\ buffer' = CopiedToFront(past)
  /\ dirent_idx' = dirent_idx + SkipEntry(buffer')
  /\ UNCHANGED <<pc, walkVars, o, block0, want, resVars, histVars>>

\* The copy runs over the stack above the buffer; what follows is not modelled.
EntryOverruns ==
  /\ pc = "scan" /\ dirent_idx < BlockLen /\ TooLong
  /\ pc' = "lost"
  /\ UNCHANGED <<walkVars, scanVars, want, resVars, histVars>>

BlockEnds ==
  /\ pc = "scan" /\ ~(dirent_idx < BlockLen)
  /\ o' = o + 1
  /\ pc' = "block"
  /\ UNCHANGED <<walkVars, buffer, dirent_idx, block0, want, resVars, histVars>>

WalkStep ==
  \/ InodeRead \/ InodeMisplaced \/ InodeNotRead \/ PathEnds \/ NextPart
  \/ BlockRead \/ BlockNotRead \/ PartMissing \/ EntryMatches \/ EntryDiffers
  \/ EntryOverruns \/ BlockEnds

WalkNext ==
  WalkStep \/ \E p \in Paths : ino_from_path(p) \/ inode_from_path(p)

\* Straight-line code on a running hart; the block driver answers.
WalkFairness == WF_lookupVars(WalkStep)

WalkSpec == WalkInit /\ [][WalkNext]_lookupVars /\ WalkFairness

-----------------------------------------------------------------------------
(* Properties.                                                             *)

\* Reference: the file named by a part in a directory, the files a path leads
\* through, and the one it names.
EntriesOf(d) ==
  UNION {Range(Entries[b]) : b \in Range(Inode[d]) \cap DirBlock}

InDir(d, part) ==
  LET same == {e \in EntriesOf(d) : e.inode # NoInode /\ e.name = part}
  IN  IF d \in Dir /\ same # {} THEN (CHOOSE e \in same : TRUE).inode
                               ELSE NoInode

Reached(p) ==
  LET r[n \in 0 .. Len(p)] == IF n = 0 THEN Root ELSE InDir(r[n - 1], p[n])
  IN  r

Resolve(p) == Reached(p)[Len(p)]

\* A name is the beginning of another.
Begins(name, part) ==
  \A k \in 1 .. Len(name) : k <= Len(part) /\ name[k] = part[k]

(***************************************************************************)
(* What an exact walk needs: a path that leads through directories, of     *)
(* direct blocks only, in which a name stands for one file and no entry,   *)
(* in use or not, begins the part sought unless it is the one sought.      *)
(***************************************************************************)
Unambiguous(p) ==
  \A n \in DOMAIN p :
    LET d == Reached(p)[n - 1]
    IN  d # NoInode =>
          /\ d \in Dir /\ Inode[d] \in Seq(DirBlock)
          /\ Len(Inode[d]) <= MaxBlocks
          /\ \A e \in EntriesOf(d) :
               Begins(e.name, p[n]) => e.name = p[n] /\ e.inode \in Inodes
          /\ \A e, f \in EntriesOf(d) : e.name = f.name => e.inode = f.inode

(***************************************************************************)
(* A walk during which no read failed gives the inode, and where asked for *)
(* its number, of the file that the path names, part by part and by whole  *)
(* names, and fails if there is none.  It holds as long as no entry's name *)
(* is the beginning of another name that is looked up; the number of       *)
(* blocks a directory has, and where in a block the entry stands, do not   *)
(* matter.                                                                 *)
(***************************************************************************)
ResolvesExactly ==
  pc = "idle" /\ path # <<>> /\ ~failed /\ Unambiguous(path) =>
    /\ found = (Resolve(path) # NoInode)
    /\ found => traverse = Inode[Resolve(path)]
    /\ found /\ ptr => ino = Resolve(path)

(***************************************************************************)
(* Copying entries to the front of the buffer they come from never damages *)
(* an entry that has not been looked at: from dirent_idx on the buffer is  *)
(* the block that was read, or whatever was there in its place.  (Headers  *)
(* are single cells: of entries shorter than a header, which only garbage  *)
(* has, the property does not speak.)                                      *)
(***************************************************************************)
RestIntact ==
  pc = "scan" => \A k \in dirent_idx .. BlockLen - 1 : buffer[k] = block0[k]

\* The scan is at an entry of length 0 that does not match: it stays there.
Stuck ==
  /\ pc = "scan" /\ dirent_idx < BlockLen
  /\ buffer[dirent_idx].rec_len = 0
  /\ \E past \in Stack : ~NameMatches(CopiedToFront(past), Head(parts))

(***************************************************************************)
(* Every walk ends, except in the two ways in which cells that are no      *)
(* directory block can hold it up: an entry of length 0 is looked at again *)
(* and again, and one longer than the buffer is copied over the stack.     *)
(* Neither happens to a walk that has scanned directory blocks only, as    *)
(* they are on the disk, whatever inodes could not be read; and cells that *)
(* hold no such entry do not hold it up.                                   *)
(***************************************************************************)
WalkEnds ==
  (pc # "idle") ~> (pc = "idle" \/ (astray /\ (pc = "lost" \/ Stuck)))

(***************************************************************************)
(* "If we cannot find the current part of the path, then too bad": a walk  *)
(* along a path that names nothing fails.                                  *)
(***************************************************************************)
MissingIsReported ==
  pc = "idle" /\ path # <<>> /\ ~failed /\ Resolve(path) = NoInode => ~found
=============================================================================
