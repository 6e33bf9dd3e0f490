------------------------------- MODULE Malloc -------------------------------
(***************************************************************************)
(* The allocators: the two page pools of pintos/src/threads/palloc.c and   *)
(* the block allocator of malloc.c on top of the kernel pool.  An address  *)
(* is a byte number; page g is the bytes from g * PGSIZE on, and the user  *)
(* pool follows the kernel pool.  A call holds the lock of its descriptor  *)
(* from the look at the free list to the end, and the pool's lock during   *)
(* scan-and-flip, so a call is one step.                                   *)
(***************************************************************************)
EXTENDS Bitmap, SequencesExt

CONSTANTS
  PGSIZE,          \* 4096 in the code
  ARENA,           \* sizeof (struct arena)
  MIN_BLOCK,       \* 16 in the code
  KernelPages,     \* pages in the kernel pool
  UserPages,       \* pages in the user pool
  Requests,        \* sizes that clients ask for
  MaxOwned,        \* bound on the blocks and pages handed out
  NONE

VARIABLES
  kernel_map,      \* used_map of the kernel pool
  user_map,        \* used_map of the user pool
  arenas,          \* the arena header at the start of each page, or NONE
  free_list,       \* free blocks of each descriptor, by block size
  owned            \* what clients hold: address, size asked for, and whether
                   \* it came from malloc (history)

mallocVars == <<kernel_map, user_map, arenas, free_list, owned>>

Pages == 0 .. KernelPages + UserPages - 1

\* malloc_init: the block sizes, doubling from MIN_BLOCK on.
BlockSizes == {b \in {MIN_BLOCK * 2^k : k \in 0 .. 10} : b < PGSIZE \div 2}

blocks_per_arena(d) == (PGSIZE - ARENA) \div d

arena_to_block(g, d, idx) == g * PGSIZE + ARENA + idx * d

block_to_arena(b) == b \div PGSIZE

BlocksOf(g, d) == {arena_to_block(g, d, i) : i \in 0 .. blocks_per_arena(d) - 1}

PagesFor(size) == (size + ARENA + PGSIZE - 1) \div PGSIZE

MallocInit ==
  /\ kernel_map = bitmap_create(KernelPages)
  /\ user_map = bitmap_create(UserPages)
  /\ arenas = [g \in Pages |-> NONE]
  /\ free_list = [d \in BlockSizes |-> <<>>]
  /\ owned = {}

-----------------------------------------------------------------------------
(* Pages. *)

\* palloc_get_multiple (PAL_USER, cnt) and palloc_get_multiple (0, cnt) for a
\* client of its own; malloc uses the latter as well.
palloc_get_user(cnt) ==
  LET idx == bitmap_scan(user_map, 0, cnt, FALSE)
  IN  /\ Cardinality(owned) < MaxOwned
      /\ idx # BITMAP_ERROR
      /\ user_map' = bitmap_flip_found(user_map, 0, cnt, FALSE)
      /\ owned' = owned \cup {[at |-> (KernelPages + idx) * PGSIZE,
                               size |-> cnt * PGSIZE, malloced |-> FALSE]}
      /\ UNCHANGED <<kernel_map, arenas, free_list>>

palloc_get_kernel(cnt) ==
  LET idx == bitmap_scan(kernel_map, 0, cnt, FALSE)
  IN  /\ Cardinality(owned) < MaxOwned
      /\ idx # BITMAP_ERROR
      /\ kernel_map' = bitmap_flip_found(kernel_map, 0, cnt, FALSE)
      /\ owned' = owned \cup {[at |-> idx * PGSIZE, size |-> cnt * PGSIZE,
                               malloced |-> FALSE]}
      /\ UNCHANGED <<user_map, arenas, free_list>>

\* page_from_pool (&kernel_pool, page)
FromKernel(page) == page < bitmap_size(kernel_map)

palloc_free_multiple(o) ==
  LET page == o.at \div PGSIZE
      cnt == o.size \div PGSIZE
  IN  /\ o \in owned /\ ~o.malloced
      /\ IF FromKernel(page)
           THEN /\ kernel_map' = bitmap_set_multiple(kernel_map, page, cnt, FALSE)
                /\ UNCHANGED user_map
           ELSE /\ user_map' = bitmap_set_multiple(user_map, page - KernelPages, cnt, FALSE)
                /\ UNCHANGED kernel_map
      /\ owned' = owned \ {o}
      /\ UNCHANGED <<arenas, free_list>>

-----------------------------------------------------------------------------
(* Blocks, on a record m of the kernel pool, the arenas and the free lists. *)

Memory == [map |-> kernel_map, arenas |-> arenas, free |-> free_list]

SetMemory(m) ==
  /\ kernel_map' = m.map
  /\ arenas' = m.arenas
  /\ free_list' = m.free

\* The smallest descriptor for a size, NONE for a big block.
DescFor(size) ==
  LET fit == {d \in BlockSizes : d >= size}
  IN  IF fit = {} THEN NONE ELSE Min(fit)

BigBlock(m, size) ==
  LET cnt == PagesFor(size)
      g == bitmap_scan(m.map, 0, cnt, FALSE)
  IN  IF g = BITMAP_ERROR THEN [at |-> NONE, mem |-> m]
      ELSE [at |-> g * PGSIZE + ARENA,
            mem |-> [m EXCEPT !.map = bitmap_flip_found(@, 0, cnt, FALSE),
                              !.arenas[g] = [desc |-> NONE, free_cnt |-> cnt]]]

NewArena(m, d) ==
  LET g == bitmap_scan(m.map, 0, 1, FALSE)
  IN  [m EXCEPT !.map = bitmap_flip_found(@, 0, 1, FALSE),
                !.arenas[g] = [desc |-> d, free_cnt |-> blocks_per_arena(d)],
                !.free[d] = [i \in 1 .. blocks_per_arena(d) |-> arena_to_block(g, d, i - 1)]]

FromFreeList(m, d) ==
  LET b == Head(m.free[d])
  IN  [at |-> b,
       mem |-> [m EXCEPT !.free[d] = Tail(@),
                         !.arenas[block_to_arena(b)].free_cnt = @ - 1]]

malloc(m, size) ==
  LET d == DescFor(size)
  IN  IF size = 0 THEN [at |-> NONE, mem |-> m]
      ELSE IF d = NONE THEN BigBlock(m, size)
      ELSE IF m.free[d] # <<>> THEN FromFreeList(m, d)
      ELSE IF bitmap_scan(m.map, 0, 1, FALSE) = BITMAP_ERROR THEN [at |-> NONE, mem |-> m]
      ELSE FromFreeList(NewArena(m, d), d)

\* A seeded fault: an arena whose blocks are all free keeps its page.
BlockFreed_kept(m, b, d) ==
  [m EXCEPT !.free[d] = <<b>> \o @, !.arenas[block_to_arena(b)].free_cnt = @ + 1]

\* A block goes to the front of the free list; an arena without any block in
\* use gives its page back.
BlockFreed(m, b, d) ==
  LET g == block_to_arena(b)
      n == [m EXCEPT !.free[d] = <<b>> \o @, !.arenas[g].free_cnt = @ + 1]
  IN  IF n.arenas[g].free_cnt < blocks_per_arena(d) THEN n
      ELSE [n EXCEPT !.free[d] = SelectSeq(@, LAMBDA x : x \notin BlocksOf(g, d)),
                     !.arenas[g] = NONE,
                     !.map = bitmap_set_multiple(@, g, 1, FALSE)]

free(m, b) ==
  LET g == block_to_arena(b)
      a == m.arenas[g]
  IN  IF a.desc # NONE THEN BlockFreed(m, b, a.desc)
      ELSE [m EXCEPT !.map = bitmap_set_multiple(@, g, a.free_cnt, FALSE),
                     !.arenas[g] = NONE]

Block(at, size) == [at |-> at, size |-> size, malloced |-> TRUE]

Malloc(size) ==
  LET r == malloc(Memory, size)
  IN  /\ Cardinality(owned) < MaxOwned
      /\ SetMemory(r.mem)
      /\ owned' = owned \cup {Block(x, size) : x \in {r.at} \ {NONE}}
      /\ UNCHANGED user_map

Free(o) ==
  /\ o \in owned /\ o.malloced
  /\ SetMemory(free(Memory, o.at))
  /\ owned' = owned \ {o}
  /\ UNCHANGED user_map

\* The old block is kept when there is no memory for the new one.
realloc(o, size) ==
  LET r == malloc(Memory, size)
      moved == IF r.at = NONE THEN r.mem ELSE free(r.mem, o.at)
  IN  /\ o \in owned /\ o.malloced
      /\ SetMemory(IF size = 0 THEN free(Memory, o.at) ELSE moved)
      /\ owned' = IF size = 0 THEN owned \ {o}
                  ELSE IF r.at = NONE THEN owned
                  ELSE (owned \ {o}) \cup {Block(r.at, size)}
      /\ UNCHANGED user_map

MallocNext ==
  \/ \E cnt \in 1 .. 2 : palloc_get_user(cnt) \/ palloc_get_kernel(cnt)
  \/ \E o \in owned : palloc_free_multiple(o) \/ Free(o)
  \/ \E size \in Requests : Malloc(size)
  \/ \E o \in owned, size \in Requests \cup {0} : realloc(o, size)

-----------------------------------------------------------------------------
(* Properties. *)

Bytes(o) == o.at .. o.at + o.size - 1

PagesOf(o) == {b \div PGSIZE : b \in Bytes(o)}

Used(g) == IF FromKernel(g) THEN kernel_map[g] ELSE user_map[g - KernelPages]

(* What two clients hold never overlaps, lies in pages marked as used, and  *)
(* for malloc in pages that begin with an arena header it does not reach    *)
(* into, whatever was freed, split into blocks or moved in between.         *)
BlocksDisjoint ==
  \A o \in owned :
    /\ \A g \in PagesOf(o) : g \in Pages /\ Used(g)
    /\ \A p \in owned \ {o} : Bytes(o) \cap Bytes(p) = {}
    /\ o.malloced => /\ arenas[block_to_arena(o.at)] # NONE
                     /\ \A g \in Pages : arenas[g] # NONE =>
                          Bytes(o) \cap (g * PGSIZE .. g * PGSIZE + ARENA - 1) = {}

\* The blocks of arena g that clients hold.
Out(g) == {o \in owned : o.malloced /\ block_to_arena(o.at) = g}

(* The block allocator loses no memory: an arena's free count is the number *)
(* of its blocks on the free list, the others are held by clients, at least *)
(* one of them is, and a page that is marked as used belongs to an arena or *)
(* to a client.                                                             *)
NothingLeaks ==
  /\ \A g \in Pages : arenas[g] # NONE =>
       LET d == arenas[g].desc
           listed == {i \in DOMAIN free_list[d] : block_to_arena(free_list[d][i]) = g}
       IN  /\ Out(g) # {}
           /\ d # NONE => /\ arenas[g].free_cnt = Cardinality(listed)
                          /\ Cardinality(listed) + Cardinality(Out(g)) = blocks_per_arena(d)
  /\ \A g \in Pages : Used(g) => arenas[g] # NONE \/ \E o \in owned : g \in PagesOf(o)
=============================================================================
