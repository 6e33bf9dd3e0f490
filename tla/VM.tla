--------------------------------- MODULE VM ---------------------------------
(***************************************************************************)
(* Demand paging: the frame table and its clock (vm/frame.c), the           *)
(* supplemental page table (vm/page.c), the swap table (vm/swap.c) and the  *)
(* page fault handler (userprog/exception.c).                               *)
(*                                                                         *)
(* A page is a process and a user address; addresses are small numbers, the *)
(* stack above the pages of the executable.  A frame or a swap slot holds   *)
(* the page it was written for and a version: 0 is the initial content     *)
(* (file data or zeros), 1 what the process wrote.  paging_sema makes the   *)
(* loads of pages one after the other; a process that is not loading may   *)
(* exit at any time.  panicked is a failed ASSERT or the use of memory that *)
(* was freed: the kernel stops.                                            *)
(***************************************************************************)
EXTENDS Integers, Sequences, FiniteSets, SequencesExt

CONSTANTS
  Procs,       \* user processes
  Pages,       \* the pages they use, <<process, address>>
  FilePages,   \* those backed by the executables, the others are stack
  ReadOnly,    \* the pages that are not writable
  NumFrames,   \* size of the user pool
  SwapSize,    \* size of the swap partition in pages
  NULL,
  STALE        \* a pointer to a frame that was freed

ASSUME VMAssumption ==
  /\ Pages \subseteq Procs \X Nat
  /\ ReadOnly \subseteq FilePages /\ FilePages \subseteq Pages
  /\ \A p \in Procs : \E x \in Pages \ FilePages :
       x[1] = p /\ \A y \in Pages : y[1] = p => y[2] <= x[2]
  /\ NumFrames \in Nat \ {0} /\ SwapSize \in Nat

VARIABLES
  pte,         \* page directories: the frame mapped and the dirty bit
  kdirty,      \* dirty bit of the kernel's own mapping of each frame
  entry,       \* the pages with a page_entry
  frame,       \* entry->frame
  swap,        \* entry->swap; slot->upage is its inverse
  upage,       \* fp->upage
  async_write, \* fp->async_write
  all_frames,  \* the frame table, a list
  clockhand,   \* the frame the clock hand points to
  swap_list,   \* the slots allocated so far, those in use first
  next_sector, \* the number of slots allocated so far
  mem,         \* contents of the frames
  disk,        \* contents of the swap slots
  written,     \* the version each page has for its process
  paging,      \* the process that holds paging_sema
  extending,   \* the process that holds extend_sema
  pc,          \* where each process is
  addr,        \* the addresses the fault handler has still to load
  fp,          \* local of evict_frame and load_page_entry
  old_clockhand, revolution,  \* locals of evict_frame
  panicked

pageVars == <<pte, kdirty, entry, frame, swap>>
frameVars == <<upage, async_write, all_frames, clockhand>>
dataVars == <<swap_list, next_sector, mem, disk, written>>
semaVars == <<paging, extending>>
evictVars == <<fp, old_clockhand, revolution>>
vars == <<pageVars, frameVars, dataVars, semaVars, pc, addr, evictVars, panicked>>

PagesOf(p) == {x \in Pages : x[1] = p}
Frames == 1..NumFrames
Slots == 1..SwapSize
Content == Pages \X {0, 1}
Unmapped == [f |-> NULL, d |-> FALSE]
Least(S) == CHOOSE x \in S : \A y \in S : x <= y
Top(p) == CHOOSE u \in {x[2] : x \in PagesOf(p)} : \A x \in PagesOf(p) : x[2] <= u

Init ==
  /\ pte = [x \in Pages |-> Unmapped]
  /\ kdirty = [f \in Frames |-> FALSE]
  /\ entry = {}
  /\ frame = [x \in Pages |-> NULL]
  /\ swap = [x \in Pages |-> NULL]
  /\ upage = [f \in Frames |-> NULL]
  /\ async_write = [f \in Frames |-> FALSE]
  /\ all_frames = <<>> /\ clockhand = NULL
  /\ swap_list = <<>> /\ next_sector = 0
  /\ mem = [f \in Frames |-> NULL]
  /\ disk = [s \in Slots |-> NULL]
  /\ written = [x \in Pages |-> 0]
  /\ paging = NULL /\ extending = NULL
  /\ pc = [p \in Procs |-> "new"]
  /\ addr = [p \in Procs |-> {}]
  /\ fp = NULL /\ old_clockhand = NULL /\ revolution = 0
  /\ panicked = FALSE

-----------------------------------------------------------------------------
At(p, l) == ~panicked /\ pc[p] = l
Goto(p, l) == pc' = [pc EXCEPT ![p] = l]

(* The kernel stops: nothing the properties look at changes any more. *)
panic == /\ panicked' = TRUE
         /\ UNCHANGED <<pageVars, frameVars, dataVars, semaVars, pc, addr, evictVars>>

(* load_segment gives a process a page_entry for each page of its executable
   and reads nothing; setup_stack gives it the top page of the stack and loads
   it. *)
load_segment(p) ==
  /\ At(p, "new")
  /\ entry' = entry \cup (PagesOf(p) \cap FilePages) \cup {<<p, Top(p)>>}
  /\ addr' = [addr EXCEPT ![p] = {Top(p)}]
  /\ Goto(p, "load")
  /\ UNCHANGED <<pte, kdirty, frame, swap, frameVars, dataVars, semaVars, evictVars,
                 panicked>>

(* The user program, or a system call on its buffers, writes to a page that is
   mapped; the processor sets the dirty bit.  A read changes nothing here: the
   accessed bit is an input of evict_clock. *)
write(p, x) ==
  /\ At(p, "user") /\ pte[x].f # NULL /\ x \notin ReadOnly
  /\ pte' = [pte EXCEPT ![x].d = TRUE]
  /\ mem' = [mem EXCEPT ![pte[x].f] = <<x, 1>>]
  /\ written' = [written EXCEPT ![x] = 1]
  /\ UNCHANGED <<kdirty, entry, frame, swap, frameVars, swap_list, next_sector, disk,
                 semaVars, pc, addr, evictVars, panicked>>

(* page_fault: a page that has an entry is loaded; a write to another stack
   address extends the stack from there to the page of the frame pointer. *)
page_fault(p, x, frame_pointer) ==
  /\ At(p, "user") /\ pte[x].f = NULL
  /\ IF x \in entry
     THEN /\ addr' = [addr EXCEPT ![p] = {x[2]}]
          /\ Goto(p, "load")
     ELSE /\ frame_pointer > x[2]
          /\ addr' = [addr EXCEPT ![p] = x[2]..(frame_pointer - 1)]
          /\ Goto(p, "extend")
  /\ UNCHANGED <<pageVars, frameVars, dataVars, semaVars, evictVars, panicked>>

(* extend_stack: the pages are given entries and loaded one by one, holding
   extend_sema. *)
extend_stack(p) ==
  /\ At(p, "extend")
  /\ extending \in {NULL, p}
  /\ IF addr[p] = {} THEN extending' = NULL /\ Goto(p, "user") /\ UNCHANGED entry
     ELSE /\ extending' = p /\ Goto(p, "load")
          /\ entry' = entry \cup {<<p, Least(addr[p])>>}
  /\ UNCHANGED <<pte, kdirty, frame, swap, frameVars, dataVars, paging, addr, evictVars,
                 panicked>>

-----------------------------------------------------------------------------
(* The bits of a frame, as the process that runs sees them: is_dirty and the
   others look the page up in the page directory of the CURRENT process. *)
Alias(p, f) == <<p, upage[f][2]>>
is_dirty(p, f) == kdirty[f] \/ (Alias(p, f) \in Pages /\ pte[Alias(p, f)].d)
is_readonly(f) == upage[f] \in ReadOnly

Loading(p) == <<p, Least(addr[p])>>

(* evict_frame remembers that a frame was dirty before it clears the bit. *)
remember_none(p, f) == async_write
remember_dirty(p, f) == [async_write EXCEPT ![f] = @ \/ is_dirty(p, f)]

(* pagedir_clear_page; the dirty bit stays. *)
pagedir_clear_page(x) == [pte EXCEPT ![x].f = NULL]

(* PAL_ZERO, or the memset of evict_frame: the page starts with zeros. *)
zeroed_by_palloc(p, f) == IF mem[f] = NULL THEN [mem EXCEPT ![f] = <<Loading(p), 0>>] ELSE mem
zeroed(p, f) == [mem EXCEPT ![f] = <<Loading(p), 0>>]

(* evict_frame ends the link from the old page; allocate_frame makes the new one. *)
relink_new_only(p, f) == [frame EXCEPT ![Loading(p)] = f]
relink(p, f) == [frame EXCEPT ![upage[f]] = NULL, ![Loading(p)] = f]

(* A slot that no page is in any more goes to the back of swap_list. *)
rotate(s) == Append(Remove(swap_list, s), s)

(* load_page_entry ends and ups paging_sema. *)
load_done_no_up(p) == addr' = [addr EXCEPT ![p] = @ \ {Loading(p)[2]}] /\ UNCHANGED paging
load_done(p) == addr' = [addr EXCEPT ![p] = @ \ {Loading(p)[2]}] /\ paging' = NULL

(* allocate_frame links page and frame and makes the frame clean; the kernel
   has just filled it with zeros. *)
link_frame(p, f) ==
  /\ upage' = [upage EXCEPT ![f] = Loading(p)]
  /\ kdirty' = [kdirty EXCEPT ![f] = FALSE]
  /\ pte' = [pte EXCEPT ![Loading(p)].d = FALSE]
  /\ mem' = zeroed(p, f)
  /\ fp' = f
  /\ Goto(p, "fill")

(* load_page_entry, allocate_frame: a frame of the user pool, or else evict_frame
   begins where the clock hand is. *)
load_page_entry(p) ==
  /\ At(p, "load") /\ paging = NULL
  /\ IF frame[Loading(p)] # NULL THEN panic
     ELSE
     /\ paging' = p
     /\ LET free == Frames \ Range(all_frames) IN
        IF free # {}
        THEN /\ link_frame(p, Least(free))
             /\ frame' = [frame EXCEPT ![Loading(p)] = Least(free)]
             /\ all_frames' = Append(all_frames, Least(free))
             /\ async_write' = [async_write EXCEPT ![Least(free)] = FALSE]
             /\ UNCHANGED <<clockhand, old_clockhand, revolution>>
        ELSE /\ clockhand' = IF clockhand = NULL THEN all_frames[1] ELSE clockhand
             /\ old_clockhand' = clockhand'
             /\ revolution' = 0
             /\ Goto(p, "clock")
             /\ UNCHANGED <<pte, kdirty, frame, upage, async_write, all_frames, mem, fp>>
     /\ UNCHANGED <<entry, swap, swap_list, next_sector, disk, written, extending, addr,
                    panicked>>

(* One turn of evict_frame's loop: second chance, over three revolutions. *)
evict_clock(p, accessed) ==
  /\ At(p, "clock")
  /\ IF clockhand = STALE THEN panic
     ELSE
     LET f == clockhand
         i == CHOOSE k \in DOMAIN all_frames : all_frames[k] = f
         found == \/ revolution = 0 /\ (is_readonly(f) \/ ~(accessed \/ is_dirty(p, f)))
                  \/ revolution = 1 /\ (is_readonly(f) \/ ~is_dirty(p, f))
                  \/ revolution = 2
     IN
     /\ pte' = [x \in Pages |-> IF x = Alias(p, f) THEN [pte[x] EXCEPT !.d = FALSE] ELSE pte[x]]
     /\ kdirty' = [kdirty EXCEPT ![f] = FALSE]
     /\ async_write' = remember_dirty(p, f)
     /\ clockhand' = all_frames[(i % Len(all_frames)) + 1]
     /\ revolution' = IF clockhand' = old_clockhand THEN revolution + 1 ELSE revolution
     /\ fp' = f
     /\ Goto(p, IF found THEN "unmap" ELSE "clock")
     /\ UNCHANGED <<entry, frame, swap, upage, all_frames, dataVars, semaVars, addr,
                    old_clockhand, panicked>>

(* get_free_slot: the last slot of swap_list if no page is in it, or a new one,
   or NULL when the partition is full. *)
SlotFree(s) == \A x \in Pages : swap[x] # s
get_free_slot ==
  IF swap_list # <<>> /\ SlotFree(Last(swap_list)) THEN Last(swap_list)
  ELSE IF next_sector < SwapSize THEN next_sector + 1
  ELSE NULL

(* evict_frame unmaps the victim's page and, if the frame is dirty, push_to_swap
   gets a slot for it. *)
evict_unmap(p) ==
  /\ At(p, "unmap")
  /\ IF fp = STALE THEN panic
     ELSE
     LET slot == get_free_slot
         push == (is_dirty(p, fp) \/ async_write[fp]) /\ slot # NULL IN
     /\ pte' = pagedir_clear_page(upage[fp])
     /\ IF push
        THEN /\ swap' = [swap EXCEPT ![upage[fp]] = slot]
             /\ IF slot > next_sector
                THEN next_sector' = slot /\ UNCHANGED swap_list
                ELSE swap_list' = Front(swap_list) /\ UNCHANGED next_sector
             /\ Goto(p, "swapout")
        ELSE Goto(p, "drop") /\ UNCHANGED <<swap, next_sector, swap_list>>
     /\ async_write' = [async_write EXCEPT ![fp] = FALSE]
     /\ UNCHANGED <<kdirty, entry, frame, upage, all_frames, clockhand, mem, disk, written,
                    semaVars, addr, evictVars, panicked>>

(* write_swap, and the slot goes to the front of swap_list. *)
evict_swapout(p) ==
  /\ At(p, "swapout")
  /\ IF fp = STALE THEN panic
     ELSE
     /\ disk' = [disk EXCEPT ![swap[upage[fp]]] = mem[fp]]
     /\ swap_list' = <<swap[upage[fp]]>> \o swap_list
     /\ Goto(p, "drop")
     /\ UNCHANGED <<pageVars, frameVars, next_sector, mem, written, semaVars, addr,
                    evictVars, panicked>>

(* evict_frame clears the frame and unlinks it; allocate_frame links it anew. *)
evict_drop(p) ==
  /\ At(p, "drop")
  /\ IF fp = STALE THEN panic
     ELSE
     /\ frame' = relink(p, fp)
     /\ link_frame(p, fp)
     /\ UNCHANGED <<entry, swap, async_write, all_frames, clockhand, swap_list, next_sector,
                    disk, written, semaVars, addr, old_clockhand, revolution, panicked>>

(* load_page_entry fills the frame: pull_from_swap gives the slot back, a page of
   the executable is read, any other page is left zero. *)
fill_frame(p) ==
  LET x == Loading(p)  s == swap[x] IN
  /\ At(p, "fill")
  /\ kdirty' = IF s # NULL \/ x \in FilePages
             THEN [kdirty EXCEPT ![fp] = TRUE] ELSE kdirty
  /\ mem' = IF s # NULL THEN [mem EXCEPT ![fp] = disk[s]] ELSE mem
  /\ disk' = IF s # NULL THEN [disk EXCEPT ![s] = NULL] ELSE disk
  /\ swap' = [swap EXCEPT ![x] = NULL]
  /\ swap_list' = IF s # NULL THEN rotate(s) ELSE swap_list
  /\ Goto(p, "install")
  /\ UNCHANGED <<pte, entry, frame, frameVars, next_sector, written, semaVars, addr,
                 evictVars, panicked>>

(* install_frame maps the page and load_page_entry ends. *)
install_frame(p) ==
  LET x == Loading(p) IN
  /\ At(p, "install")
  /\ pte' = [pte EXCEPT ![x] = [f |-> fp, d |-> FALSE]]
  /\ load_done(p)
  /\ Goto(p, IF extending = p THEN "extend" ELSE "user")
  /\ fp' = NULL /\ old_clockhand' = NULL /\ revolution' = 0
  /\ UNCHANGED <<kdirty, entry, frame, swap, frameVars, dataVars, extending, panicked>>

-----------------------------------------------------------------------------
(* free_frame: pointers to the frame elsewhere are not looked at. *)
free_frame(f, freed) == IF f \in freed THEN STALE ELSE f

(* free_swap rotates each slot to the back. *)
free_swap(slots) ==
  SelectSeq(swap_list, LAMBDA s : s \notin slots)
    \o SetToSortSeq(slots, LAMBDA s, t : s < t)

(* page_table_destroy, with interrupts off: the frames and the slots of the
   process are freed.  The frame table's clock hand, and the frame another
   process is evicting, are not looked at; a slot that is being written is in
   no list it could be removed from. *)
page_table_destroy(p) ==
  LET mine == entry \cap PagesOf(p)
      freed == {frame[x] : x \in mine} \ {NULL}
      slots == {swap[x] : x \in mine} \ {NULL} IN
  /\ At(p, "user")
  /\ IF ~(slots \subseteq Range(swap_list)) THEN panic
     ELSE
     /\ entry' = entry \ mine
     /\ frame' = [x \in Pages |-> IF x \in mine THEN NULL ELSE frame[x]]
     /\ swap' = [x \in Pages |-> IF x \in mine THEN NULL ELSE swap[x]]
     /\ pte' = [x \in Pages |-> IF x[1] = p THEN Unmapped ELSE pte[x]]
     /\ upage' = [f \in Frames |-> IF f \in freed THEN NULL ELSE upage[f]]
     /\ async_write' = [f \in Frames |-> async_write[f] /\ f \notin freed]
     /\ all_frames' = SelectSeq(all_frames, LAMBDA f : f \notin freed)
     /\ clockhand' = free_frame(clockhand, freed)
     /\ old_clockhand' = free_frame(old_clockhand, freed)
     /\ fp' = free_frame(fp, freed)
     /\ swap_list' = free_swap(slots)
     /\ kdirty' = [f \in Frames |-> kdirty[f] /\ f \notin freed]
     /\ mem' = [f \in Frames |-> IF f \in freed THEN NULL ELSE mem[f]]
     /\ disk' = [s \in Slots |-> IF s \in slots THEN NULL ELSE disk[s]]
     /\ written' = [x \in Pages |-> IF x \in mine THEN 0 ELSE written[x]]
     /\ Goto(p, "dead")
     /\ UNCHANGED <<next_sector, semaVars, addr, revolution, panicked>>

KernelStep(p) ==
  \/ extend_stack(p) \/ load_page_entry(p)
  \/ \E accessed \in BOOLEAN : evict_clock(p, accessed)
  \/ evict_unmap(p) \/ evict_swapout(p) \/ evict_drop(p)
  \/ fill_frame(p) \/ install_frame(p)

Next ==
  \E p \in Procs :
    \/ load_segment(p)
    \/ \E x \in PagesOf(p) : write(p, x)
    \/ \E x, y \in PagesOf(p) : page_fault(p, x, y[2])
    \/ KernelStep(p)
    \/ page_table_destroy(p)

(* A process in the kernel goes on running; semaphores serve their waiters. *)
Fairness == \A p \in Procs : SF_vars(KernelStep(p))

Spec == Init /\ [][Next]_vars /\ Fairness

-----------------------------------------------------------------------------
(* Types of the tables; the frame table and swap_list (lists whose elements are
   moved by list_remove and list_push) hold no element twice. *)
TypeOK ==
  /\ pte \in [Pages -> [f : Frames \cup {NULL}, d : BOOLEAN]]
  /\ kdirty \in [Frames -> BOOLEAN]
  /\ entry \subseteq Pages
  /\ frame \in [Pages -> Frames \cup {NULL}]
  /\ swap \in [Pages -> Slots \cup {NULL}]
  /\ upage \in [Frames -> Pages \cup {NULL}]
  /\ async_write \in [Frames -> BOOLEAN]
  /\ IsInjective(all_frames) /\ Range(all_frames) \subseteq Frames
  /\ clockhand \in Frames \cup {NULL, STALE}
  /\ IsInjective(swap_list) /\ Range(swap_list) \subseteq 1..next_sector
  /\ next_sector \in 0..SwapSize
  /\ mem \in [Frames -> Content \cup {NULL}]
  /\ disk \in [Slots -> Content \cup {NULL}]
  /\ paging \in Procs \cup {NULL} /\ extending \in Procs \cup {NULL}
  /\ fp \in Frames \cup {NULL, STALE}
  /\ revolution \in 0..3

(* The page directories, the page entries and the frame table agree: a mapped
   page has an entry that points to the frame it is mapped to, the frame points
   back, and it is in the frame table; so no frame is mapped twice, however the
   faults, evictions and exits of the processes interleave (allocate_frame,
   evict_frame, install_frame, free_frame). *)
FramesConsistent ==
  /\ \A x \in Pages : pte[x].f # NULL => x \in entry /\ frame[x] = pte[x].f
  /\ \A x \in Pages : frame[x] # NULL => upage[frame[x]] = x
  /\ Range(all_frames) = {frame[x] : x \in entry} \ {NULL}

(* vm/swap.c: no two pages have the same slot, and the free slots are behind the ones in
   use, so that get_free_slot, which looks only at the last one, never takes a
   new sector or gives up while a slot is free. *)
SwapDisciplined ==
  /\ \A x, y \in Pages : swap[x] # NULL /\ swap[x] = swap[y] => x = y
  /\ \A i, j \in DOMAIN swap_list : i < j /\ SlotFree(swap_list[i]) => SlotFree(swap_list[j])

(* vm/frame.c, evict_frame: a page that is mapped shows the process a content of that very page: no
   eviction, load or exit leaves another page's data in the frame. *)
Isolation == \A x \in Pages : pte[x].f # NULL => mem[pte[x].f][1] = x

(* evict_frame must "If necessary, write the page to the file system or to swap"
   (vm/frame.c:30): wherever a page is - mapped, in its swap slot, or to be read
   or zeroed again - it is what its process last wrote. *)
WritesPreserved ==
  \A x \in entry :
    /\ pte[x].f # NULL => mem[pte[x].f] = <<x, written[x]>>
    /\ frame[x] = NULL /\ swap[x] # NULL => disk[swap[x]] = <<x, written[x]>>
    /\ frame[x] = NULL /\ swap[x] = NULL => written[x] = 0

(* A page fault is served: the process runs again, or the kernel has stopped; the
   clock finds a frame within its three revolutions, and paging_sema and
   extend_sema are given back. *)
FaultsServed ==
  \A p \in Procs : pc[p] \notin {"new", "user", "dead"} ~> (pc[p] = "user" \/ panicked)
=============================================================================
