------------------------------ MODULE MCPaging ------------------------------
(***************************************************************************)
(* Three instances of VM in one run: one program alone, with an image and  *)
(* a stack (unit "one") or with a deep stack (unit "deep"), and the two    *)
(* programs of MCVM that page against each other (unit "two").  The        *)
(* constants of the run are those of the two.                              *)
(***************************************************************************)
EXTENDS MCVM

VARIABLE unit

One == INSTANCE VM WITH
  Procs <- {p1}, Pages <- OneProgram, FilePages <- ItsImage, ReadOnly <- ItsCode, SwapSize <- 3

Deep == INSTANCE VM WITH
  Procs <- {p1}, Pages <- ItsStack, FilePages <- {}, ReadOnly <- {}, SwapSize <- 3

PagingInit ==
  \/ unit = "one" /\ One!Init
  \/ unit = "deep" /\ Deep!Init
  \/ unit = "two" /\ Init

PagingNext ==
  \/ unit = "one" /\ One!Next /\ UNCHANGED unit
  \/ unit = "deep" /\ Deep!Next /\ UNCHANGED unit
  \/ unit = "two" /\ Next /\ UNCHANGED unit

\* A process in the kernel goes on running; semaphores serve their waiters.
PagingSpec ==
  /\ PagingInit
  /\ [][PagingNext]_<<unit, vars>>
  /\ SF_vars(unit = "one" /\ One!KernelStep(p1))
  /\ SF_vars(unit = "deep" /\ Deep!KernelStep(p1))

-----------------------------------------------------------------------------
(* Page directories, page entries and frame table agree, however the faults,*)
(* evictions and exits of two processes interleave (frame.c, page.c); no    *)
(* two pages share a swap slot, and the free slots are the last ones        *)
(* (swap.c).                                                                *)
TablesAgree ==
  CASE unit = "one" -> One!TypeOK /\ One!FramesConsistent /\ One!SwapDisciplined
    [] unit = "deep" -> Deep!TypeOK /\ Deep!FramesConsistent /\ Deep!SwapDisciplined
    [] unit = "two" -> TypeOK /\ FramesConsistent /\ SwapDisciplined

(* A mapped page shows its process that page's own content (evict_frame).   *)
PagesIsolated ==
  CASE unit = "one" -> One!Isolation
    [] unit = "deep" -> Deep!Isolation
    [] unit = "two" -> Isolation

(* A program that runs alone finds every page as it last wrote it, through  *)
(* eviction, swap and reload (evict_frame, push_to_swap).                   *)
WritesKeptAlone ==
  /\ unit = "one" => One!WritesPreserved
  /\ unit = "deep" => Deep!WritesPreserved

(* A page fault of a program that runs alone is served, or the kernel has   *)
(* stopped (evict_frame's clock, paging_sema).                              *)
FaultsServedAlone ==
  unit # "two" /\ pc[p1] \notin {"new", "user", "dead"}
    ~> unit # "two" /\ (pc[p1] = "user" \/ panicked)
=============================================================================
