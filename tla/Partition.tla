------------------------------ MODULE Partition ------------------------------
(***************************************************************************)
(* Block devices and partition tables: pintos/src/devices/block.c and      *)
(* partition.c.  A table is what read_partition_table reads of a sector: a *)
(* valid signature or not, and its entries.  Sector numbers have SecBits   *)
(* bits, 32 in the code.                                                   *)
(***************************************************************************)
EXTENDS Integers, SequencesExt

CONSTANTS
  SecBits,
  MaxDepth,      \* calls of read_partition_table that fit the kernel stack
  NoBlock

Wrap(x) == x % 2^SecBits

Extended == {5, 15, 133, 197}

block_type_of(type) ==
  CASE type = 32 -> "kernel" [] type = 33 -> "filesys" [] type = 34 -> "scratch"
    [] type = 35 -> "swap" [] OTHER -> "foreign"

\* block_register: all_blocks is a sequence; a partition names the block it
\* is part of by its place in it.
block_register(blocks, name, type, size, parent, start) ==
  Append(blocks, [name |-> name, type |-> type, size |-> size, parent |-> parent,
                  start |-> start])

block_get_by_name(blocks, name) ==
  LET hits == SelectSeq(blocks, LAMBDA b : b.name = name)
  IN  IF hits = <<>> THEN NoBlock ELSE hits[1]

\* The two tests of found_partition.
Fits(size, start, len) ==
  /\ start < size
  /\ Wrap(start + len) >= start
  /\ Wrap(start + len) <= size

found_partition(blocks, b, e, start, nr) ==
  IF Fits(blocks[b].size, start, e.size)
    THEN block_register(blocks, blocks[b].name \o <<nr>>, block_type_of(e.type), e.size, b, start)
    ELSE blocks

RECURSIVE read_partition_table(_, _, _, _, _, _)

\* s is the state of the scan: the blocks, part_nr, and whether the stack ran
\* out.  The code reads sector 0 whatever sector it was asked for.
read_partition_table(s, b, table, sector, primary, depth) ==
  LET entry(acc, e) ==
        IF acc.overflow \/ e.size = 0 \/ e.type = 0 THEN acc
        ELSE IF e.type \in Extended
          THEN read_partition_table(acc, b, table,
                 IF sector = 0 THEN e.offset ELSE Wrap(e.offset + primary),
                 IF sector = 0 THEN e.offset ELSE primary, depth + 1)
          ELSE [acc EXCEPT !.nr = @ + 1,
                           !.blocks = found_partition(@, b, e, Wrap(e.offset + sector),
                                                      acc.nr + 1)]
  IN  IF depth > MaxDepth THEN [s EXCEPT !.overflow = TRUE]
      ELSE IF sector >= s.blocks[b].size \/ ~table.valid THEN s
      ELSE FoldLeft(entry, s, table.entries)

partition_scan(blocks, b, table) ==
  read_partition_table([blocks |-> blocks, nr |-> 0, overflow |-> FALSE], b, table, 0, 0, 1)

RECURSIVE block_access(_, _, _, _)

\* block_read, or block_write if it is writing, on block b: check_sector, for a
\* write the ASSERT that b is not foreign, then the driver, for a partition the
\* parent at start + sector.  The sector of the raw device that is reached,
\* NoBlock for a PANIC.
block_access(blocks, b, sector, writing) ==
  IF sector >= blocks[b].size THEN NoBlock
  ELSE IF writing /\ blocks[b].type = "foreign" THEN NoBlock
  ELSE IF blocks[b].parent = NoBlock THEN sector
  ELSE block_access(blocks, blocks[b].parent, Wrap(blocks[b].start + sector), writing)

-----------------------------------------------------------------------------
(* Properties, for a raw device of the given size and its table. *)

RawDevice(size) ==
  block_register(<<>>, <<0>>, "raw", size, NoBlock, 0)

(* Whatever the table of a device says, every partition that is registered  *)
(* lies in the device: an access to any sector the partition has reaches    *)
(* the device inside the partition's own range and never panics, sums that  *)
(* wrap around included, but for the writes to a foreign partition, which   *)
(* reach nothing.                                                           *)
PartitionsInside(size, table) ==
  LET blocks == partition_scan(RawDevice(size), 1, table).blocks
  IN  \A b \in DOMAIN blocks, writing \in BOOLEAN :
        \A sector \in 0 .. blocks[b].size - 1 :
          LET at == block_access(blocks, b, sector, writing)
          IN  IF writing /\ blocks[b].type = "foreign" THEN at = NoBlock
              ELSE at # NoBlock /\ at \in 0 .. size - 1 /\ at = blocks[b].start + sector

(* Names are unique, so block_get_by_name finds every block, and without an *)
(* extended partition the scan ends within the stack, with every entry that *)
(* fits registered under its type.                                          *)
NamesFindBlocks(size, table) ==
  LET scan == partition_scan(RawDevice(size), 1, table)
  IN  /\ \A b \in DOMAIN scan.blocks :
           block_get_by_name(scan.blocks, scan.blocks[b].name) = scan.blocks[b]
      /\ \A i \in DOMAIN table.entries :
           LET e == table.entries[i]
           IN  /\ table.valid /\ e.type \in {32, 33, 34, 35} /\ e.size > 0
               /\ e.offset + e.size <= size
               /\ \A j \in DOMAIN table.entries : table.entries[j].type \notin Extended
               => \E b \in DOMAIN scan.blocks :
                    /\ scan.blocks[b].start = e.offset /\ scan.blocks[b].size = e.size
                    /\ scan.blocks[b].type = block_type_of(e.type)
=============================================================================
