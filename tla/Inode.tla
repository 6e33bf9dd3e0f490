------------------------------- MODULE Inode --------------------------------
(***************************************************************************)
(* Files on the disk: the inodes of pintos/src/filesys/inode.c and the     *)
(* free map of free-map.c, with the calls of filesys.c and file.c that     *)
(* create, open, remove and close a file.  A file is a head inode with     *)
(* NODE_CAPACITY block pointers and a chain of further inodes behind its   *)
(* doubleptr.  Every call is one step: the module describes the file       *)
(* system as one thread at a time uses it.  Restart is a crash or a        *)
(* shutdown, after which only the disk is left.                            *)
(***************************************************************************)
EXTENDS Bitmap, Sequences, Functions, TLC

CONSTANTS
  BLOCK_SECTOR_SIZE, NODE_CAPACITY,
  NumSectors,      \* size of the file system device
  Reserved,        \* sectors 0 .. Reserved - 1: free map and root directory
  Bytes,           \* values a program writes
  MaxLength,       \* bound on the end of a read or write
  Sizes,           \* byte counts of a read or write
  InitLengths,     \* initial sizes of new files
  Disks,           \* for a number of sectors already taken, the bounds on files
                   \* and on the openers of all files together
  NULL

VARIABLES
  free_map,        \* the bitmap in memory
  map_file,        \* the bitmap as the free map file holds it
  blocks,          \* the data in every sector
  nodes,           \* the inode_disk in every sector, NULL where there is none
  open_inodes,     \* the in-memory inode of every sector, NULL if not open
  dir,             \* the inode sectors the directories list
  taken,           \* how many sectors were taken at the start
  panicked         \* the kernel has stopped in PANIC or on a null pointer

inodeVars == <<free_map, map_file, blocks, nodes, open_inodes, dir, taken, panicked>>

BYTE_CAPACITY == BLOCK_SECTOR_SIZE * NODE_CAPACITY

Sectors == 0 .. NumSectors - 1

NoPtr == -1    \* an inode_ptr without the "exists" bit, or an uninitialized one

ZeroBlock == [i \in 0 .. BLOCK_SECTOR_SIZE - 1 |-> 0]

InodeImage == [i \in 0 .. BLOCK_SECTOR_SIZE - 1 |-> -1]

DIV_ROUND_UP(x, step) == (x + step - 1) \div step

\* What allocate_inode leaves in data; the block pointers are not initialized.
NewNode ==
  [file_length |-> 0, prev_length |-> 0, node_length |-> 0, doubleptr |-> NoPtr,
   blockptrs |-> [i \in 0 .. NODE_CAPACITY - 1 |-> NoPtr]]

InodeInit ==
  /\ taken \in DOMAIN Disks
  /\ free_map = [s \in Sectors |-> s < Reserved \/ s >= NumSectors - taken]
  /\ map_file = free_map
  /\ blocks = [s \in Sectors |-> ZeroBlock]
  /\ nodes = [s \in Sectors |-> NULL]
  /\ open_inodes = [s \in Sectors |-> NULL]
  /\ dir = {}
  /\ panicked = FALSE

-----------------------------------------------------------------------------
(* The disk as a call changes it: the free map, the blocks and the inodes.  *)

Disk == [map |-> free_map, blocks |-> blocks, nodes |-> nodes]

\* free_map_allocate (1, ...): the map is written through to its file.
free_map_allocate(d) == bitmap_scan(d.map, 0, 1, FALSE)

Allocated(d) == [d EXCEPT !.map = bitmap_flip_found(@, 0, 1, FALSE)]

SetDisk(d) ==
  /\ free_map' = d.map
  /\ map_file' = d.map
  /\ blocks' = d.blocks
  /\ nodes' = d.nodes

\* block_write of an inode; read as data its sector is no longer zeros.
WriteNode(d, s, n) == [d EXCEPT !.nodes[s] = n, !.blocks[s] = InodeImage]

\* The data of a sector that no inode points to any more is never read again,
\* and is forgotten.
Forget(s, d) == IF s = NoPtr THEN d ELSE [d EXCEPT !.blocks[s] = ZeroBlock]

\* A seeded fault: the sector keeps what it held before.
Zeroed_stale(d, s) == [d EXCEPT !.nodes[s] = NULL]

\* block_write of zeros to a data sector that has just been allocated.
Zeroed(d, s) == [d EXCEPT !.blocks[s] = ZeroBlock, !.nodes[s] = NULL]

\* One pass of the loop of inode_fill: sector s becomes block idx of the node,
\* in the place of one that an earlier, unaligned growth may have put there.
AddBlock(r, idx, s) ==
  LET diff == (idx + 1) * BLOCK_SECTOR_SIZE - r.node.node_length
      grown == Min({r.left, diff})
  IN  [r EXCEPT !.disk = Zeroed(Forget(r.node.blockptrs[idx], Allocated(@)), s),
                !.node.blockptrs[idx] = s,
                !.node.node_length = @ + grown,
                !.left = @ - grown]

RECURSIVE FillFrom(_, _)
FillFrom(r, idx) ==
  IF idx >= NODE_CAPACITY \/ r.left = 0 THEN r
  ELSE LET s == free_map_allocate(r.disk)
       IN  IF s = BITMAP_ERROR THEN [r EXCEPT !.ok = FALSE]
           ELSE FillFrom(AddBlock(r, idx, s), idx + 1)

\* The end of inode_fill: the node of sector s is written if all went well.
FillEnd(f, s, length) ==
  LET n == [f.node EXCEPT !.file_length = length]
  IN  IF f.ok THEN [f EXCEPT !.node = n, !.disk = WriteNode(@, s, n)] ELSE f

\* inode_fill on the inode of sector s; r has the disk, the node, the bytes
\* left to allocate and whether all went well.
inode_fill(r, s, length) ==
  FillEnd(FillFrom(r, DIV_ROUND_UP(r.node.node_length, BLOCK_SECTOR_SIZE)), s, length)

\* The end of inode_extend_link: f's node points to the chained one at c, and
\* both are written; h is what the recursive call made of the chained one.
Linked(f, s, c, h) ==
  LET linked == [f.node EXCEPT !.doubleptr = c]
      tail == [h.node EXCEPT !.file_length = linked.file_length]
  IN  IF ~h.ok THEN [h EXCEPT !.node = linked]
      ELSE [h EXCEPT !.node = linked,
                     !.disk = WriteNode(WriteNode(@, s, linked), c, tail)]

\* inode_extend_link; mem says whether the mallocs of the call succeed.
RECURSIVE inode_extend_link(_, _, _, _)

\* The chained node at c is g once it is filled, and is extended in turn.
Chained(f, s, c, g, length, mem) ==
  IF ~g.ok THEN [g EXCEPT !.node = f.node]
  ELSE Linked(f, s, c, inode_extend_link(g, c, length, mem))

\* The node of sector s is filled, to f; bytes that are left need another node.
Overflowing(f, s, c, length, mem) ==
  IF ~f.ok \/ f.left = 0 THEN f
  ELSE IF c = BITMAP_ERROR THEN [f EXCEPT !.ok = FALSE]
  ELSE IF ~mem THEN [f EXCEPT !.ok = FALSE, !.disk = Allocated(@)]
  ELSE Chained(f, s, c,
               inode_fill([f EXCEPT !.disk = Allocated(@), !.node = NewNode], c, length),
               length, mem)

NextNode(f, s, length, mem) ==
  Overflowing(f, s, free_map_allocate(f.disk), length, mem)

inode_extend_link(r, s, length, mem) ==
  NextNode(inode_fill(r, s, length), s, length, mem)

Extending(d, node, left) == [disk |-> d, node |-> node, left |-> left, ok |-> TRUE]

-----------------------------------------------------------------------------
(* Finding the sector of a byte, reading and writing. *)

\* Chained inodes are looked up in ns, the inodes on the disk.
RECURSIVE byte_to_inode(_, _, _)
byte_to_inode(ns, n, pos) ==
  IF pos >= n.file_length THEN NULL
  ELSE IF pos - n.prev_length < BYTE_CAPACITY THEN n
  ELSE IF n.doubleptr = NoPtr THEN NULL
  ELSE byte_to_inode(ns, ns[n.doubleptr], pos)

\* NoPtr stands for the -1 that the block layer answers with a PANIC.
byte_to_sector(ns, n, pos) ==
  LET m == byte_to_inode(ns, n, pos)
  IN  IF m = NULL THEN NoPtr
      ELSE m.blockptrs[(pos - m.prev_length) \div BLOCK_SECTOR_SIZE]

\* A seeded fault: the end of the file is not looked at.
ChunkSize_past_end(n, size, offset) ==
  Min({size, BLOCK_SECTOR_SIZE - (offset % BLOCK_SECTOR_SIZE)})

ChunkSize(n, size, offset) ==
  Min({size, n.file_length - offset, BLOCK_SECTOR_SIZE - (offset % BLOCK_SECTOR_SIZE)})

\* A chunk that is not a whole sector goes through a bounce buffer.
NeedsBounce(size, offset) ==
  ~(offset % BLOCK_SECTOR_SIZE = 0 /\ size = BLOCK_SECTOR_SIZE)

\* The bytes inode_read_at returns, and whether it meets the PANIC.
RECURSIVE ReadFrom(_, _, _, _)
ReadFrom(n, size, offset, mem) ==
  LET chunk == ChunkSize(n, size, offset)
      s == byte_to_sector(nodes, n, offset)
      rest == ReadFrom(n, size - chunk, offset + chunk, mem)
  IN  IF chunk <= 0 \/ (~mem /\ NeedsBounce(chunk, offset))
        THEN [bytes |-> <<>>, panic |-> FALSE]
      ELSE IF s = NoPtr THEN [bytes |-> <<>>, panic |-> TRUE]
      ELSE [rest EXCEPT !.bytes =
              [i \in 1 .. chunk |->
                 blocks[s][(offset % BLOCK_SECTOR_SIZE) + i - 1]] \o @]

\* The disk after inode_write_at's loop, the count it has written, and
\* whether it meets the PANIC.
RECURSIVE WriteFrom(_, _, _, _, _, _)
WriteFrom(d, n, buf, done, offset, mem) ==
  LET chunk == ChunkSize(n, Len(buf) - done, offset)
      s == byte_to_sector(d.nodes, n, offset)
      ofs == offset % BLOCK_SECTOR_SIZE
      written == ofs .. ofs + chunk - 1
      keeps == ofs > 0 \/ chunk < BLOCK_SECTOR_SIZE - ofs
      sector == [i \in 0 .. BLOCK_SECTOR_SIZE - 1 |->
                   IF i \in written THEN buf[done + i - ofs + 1]
                   ELSE IF keeps THEN d.blocks[s][i] ELSE 0]
  IN  IF chunk <= 0 \/ (~mem /\ NeedsBounce(chunk, offset))
        THEN [disk |-> d, panic |-> FALSE]
      ELSE IF s = NoPtr THEN [disk |-> d, panic |-> TRUE]
      ELSE WriteFrom([d EXCEPT !.blocks[s] = sector], n, buf, done + chunk,
                     offset + chunk, mem)

-----------------------------------------------------------------------------
(* The calls. *)

Opened(s) == open_inodes[s] # NULL

OpenCnt(s) == IF Opened(s) THEN open_inodes[s].open_cnt ELSE 0

Live == dir \cup {s \in Sectors : Opened(s)}

Running == ~panicked

\* free_map_release of an inode's sector; its data blocks stay allocated.
Released(d, s) ==
  LET lost == IF d.nodes[s] = NULL THEN {} ELSE Range(d.nodes[s].blockptrs)
  IN  [FoldSet(Forget, d, lost) EXCEPT !.map = bitmap_set_multiple(@, s, 1, FALSE),
                              !.nodes[s] = NULL]

\* filesys_create: a sector for the inode, the inode and its blocks, and an
\* entry in the directory if dir_add succeeds.
filesys_create(length, mem, added) ==
  LET c == free_map_allocate(Disk)
      main == [NewNode EXCEPT !.file_length = length]
  IN  /\ Running
      /\ Cardinality(Live) < Disks[taken].files
      /\ c # BITMAP_ERROR
      /\ \E r \in {inode_extend_link(Extending(Allocated(Disk), main, length), c, length, mem)} :
           IF r.ok /\ added
             THEN /\ SetDisk(WriteNode(r.disk, c, r.node))
                  /\ dir' = dir \cup {c}
             ELSE /\ SetDisk(Released(r.disk, c))
                  /\ UNCHANGED dir
      /\ UNCHANGED <<open_inodes, taken, panicked>>

\* inode_create does not look at what allocate_inode returned.
create_no_memory ==
  /\ Running
  /\ free_map_allocate(Disk) # BITMAP_ERROR
  /\ SetDisk(Allocated(Disk))
  /\ panicked' = TRUE
  /\ UNCHANGED <<open_inodes, dir, taken>>

inode_open(s) ==
  /\ Running
  /\ s \in dir
  /\ MapThenSumSet(OpenCnt, Sectors) < Disks[taken].opens
  /\ open_inodes' = [open_inodes EXCEPT ![s] =
       IF Opened(s) THEN [@ EXCEPT !.open_cnt = @ + 1]
       ELSE [open_cnt |-> 1, removed |-> FALSE, deny_write_cnt |-> 0,
             data |-> nodes[s]]]
  /\ UNCHANGED <<free_map, map_file, blocks, nodes, dir, taken, panicked>>

\* file_close on a file that denies writes (denied = 1) or does not.
inode_close(s, denied) ==
  LET i == open_inodes[s]
  IN  /\ Running
      /\ Opened(s)
      /\ denied <= i.deny_write_cnt
      /\ i.deny_write_cnt - denied <= i.open_cnt - 1
      /\ IF i.open_cnt = 1
           THEN /\ open_inodes' = [open_inodes EXCEPT ![s] = NULL]
                /\ SetDisk(IF i.removed THEN Released(Disk, s) ELSE Disk)
           ELSE /\ open_inodes' = [open_inodes EXCEPT
                     ![s].open_cnt = @ - 1, ![s].deny_write_cnt = @ - denied]
                /\ SetDisk(Disk)
      /\ UNCHANGED <<dir, taken, panicked>>

\* A seeded fault: the sector is freed while others have the file open.
inode_remove_at_once(s) ==
  /\ Running
  /\ s \in dir
  /\ dir' = dir \ {s}
  /\ SetDisk(Released(Disk, s))
  /\ UNCHANGED <<open_inodes, taken, panicked>>

\* dir_remove: the entry is erased, the inode opened, marked and closed.
inode_remove(s) ==
  /\ Running
  /\ s \in dir
  /\ dir' = dir \ {s}
  /\ IF Opened(s)
       THEN /\ open_inodes' = [open_inodes EXCEPT ![s].removed = TRUE]
            /\ SetDisk(Disk)
       ELSE /\ SetDisk(Released(Disk, s))
            /\ UNCHANGED open_inodes
  /\ UNCHANGED <<taken, panicked>>

inode_deny_write(s) ==
  /\ Running
  /\ Opened(s)
  /\ open_inodes[s].deny_write_cnt < open_inodes[s].open_cnt
  /\ open_inodes' = [open_inodes EXCEPT ![s].deny_write_cnt = @ + 1]
  /\ UNCHANGED <<free_map, map_file, blocks, nodes, dir, taken, panicked>>

inode_allow_write(s) ==
  /\ Running
  /\ Opened(s)
  /\ open_inodes[s].deny_write_cnt > 0
  /\ open_inodes' = [open_inodes EXCEPT ![s].deny_write_cnt = @ - 1]
  /\ UNCHANGED <<free_map, map_file, blocks, nodes, dir, taken, panicked>>

inode_read_at(s, size, offset, mem) ==
  LET r == ReadFrom(open_inodes[s].data, size, offset, mem)
  IN  /\ Running
      /\ Opened(s)
      /\ panicked' = r.panic
      /\ UNCHANGED <<free_map, map_file, blocks, nodes, open_inodes, dir, taken>>

inode_write_at(s, buf, offset, mem) ==
  LET i == open_inodes[s]
      end == Len(buf) + offset
      left == end - i.data.file_length
  IN  /\ Running
      /\ Opened(s)
      /\ IF i.deny_write_cnt > 0
           THEN UNCHANGED <<free_map, map_file, blocks, nodes, open_inodes, panicked>>
           ELSE \E e \in {IF left > 0
                            THEN inode_extend_link(Extending(Disk, i.data, left), s, end, mem)
                            ELSE Extending(Disk, i.data, 0)} :
                  /\ open_inodes' = [open_inodes EXCEPT ![s].data = e.node]
                  /\ IF ~e.ok THEN SetDisk(e.disk) /\ panicked' = FALSE
                     ELSE \E w \in {WriteFrom(e.disk, e.node, buf, 0, offset, mem)} :
                            SetDisk(w.disk) /\ panicked' = w.panic
      /\ UNCHANGED <<dir, taken>>

\* filesys_init without formatting: free_map_open reads the map back.
Restart ==
  /\ free_map' = map_file
  /\ open_inodes' = [s \in Sectors |-> NULL]
  /\ panicked' = FALSE
  /\ UNCHANGED <<map_file, blocks, nodes, dir, taken>>

Fills == {[i \in 1 .. n |-> b] : n \in Sizes, b \in Bytes}

InodeNext ==
  \/ \E length \in InitLengths, mem, added \in BOOLEAN :
       filesys_create(length, mem, added)
  \/ create_no_memory
  \/ \E s \in Sectors :
       \/ inode_open(s)
       \/ \E denied \in {0, 1} : inode_close(s, denied)
       \/ inode_remove(s)
       \/ inode_deny_write(s)
       \/ inode_allow_write(s)
       \/ \E offset \in 0 .. MaxLength, size \in Sizes, mem \in BOOLEAN :
            offset + size <= MaxLength /\ inode_read_at(s, size, offset, mem)
       \/ \E offset \in 0 .. MaxLength, buf \in Fills, mem \in BOOLEAN :
            offset + Len(buf) <= MaxLength /\ inode_write_at(s, buf, offset, mem)
  \/ Restart

InodeSpec == InodeInit /\ [][InodeNext]_inodeVars

-----------------------------------------------------------------------------
(* Properties. *)

Data(s) == IF Opened(s) THEN open_inodes[s].data ELSE nodes[s]

\* The bytes of a file that its first inode describes.
FileBytes(s) ==
  [i \in 1 .. Min({Data(s).file_length, BYTE_CAPACITY}) |->
     blocks[Data(s).blockptrs[(i - 1) \div BLOCK_SECTOR_SIZE]]
           [(i - 1) % BLOCK_SECTOR_SIZE]]

Files == INSTANCE FileSpec WITH
  Inums <- Sectors, Limit <- BYTE_CAPACITY, MaxSize <- Max(Sizes),
  contents <- [s \in Live |-> FileBytes(s)], named <- dir

(* inode.c implements byte sequences: reads return what was written, growth *)
(* fills with zeros, files do not disturb each other, failed and denied     *)
(* writes change nothing, and a restart keeps every file that has a name.   *)
FilesKept == Files!Spec

(* inode_read_at returns the bytes of the file from its offset on, as many  *)
(* as were asked for and are there, whatever blocks and chunks it goes      *)
(* through.                                                                 *)
ReadsContents ==
  \A s \in Sectors : Opened(s) =>
    \A offset \in 0 .. BYTE_CAPACITY, size \in 0 .. BYTE_CAPACITY :
      offset + size <= BYTE_CAPACITY =>
        ReadFrom(Data(s), size, offset, TRUE) =
          [bytes |-> SubSeq(FileBytes(s), offset + 1,
                            Min({offset + size, Len(FileBytes(s))})),
           panic |-> FALSE]

\* The sectors file s needs for its inode and for its first bytes.
SectorsOf(s) ==
  {s} \cup {Data(s).blockptrs[i] :
             i \in 0 .. DIV_ROUND_UP(Min({Data(s).file_length, BYTE_CAPACITY}),
                                      BLOCK_SECTOR_SIZE) - 1}

(* Every byte of a file has a sector, no sector serves two files, and none  *)
(* is free, in memory or in the map a restart would read: free_map_allocate *)
(* never hands out a sector in use, through removals, failures half-way and *)
(* restarts.                                                                *)
SectorsOwned ==
  /\ \A s \in Live : \A q \in SectorsOf(s) :
       q # NoPtr /\ q >= Reserved /\ free_map[q] /\ map_file[q]
  /\ \A s, t \in Live : s # t => SectorsOf(s) \cap SectorsOf(t) = {}
=============================================================================
