----------------------------- MODULE Directory ------------------------------
(***************************************************************************)
(* Directories: pintos/src/filesys/directory.c, the walks of path.c and    *)
(* the calls of filesys.c.  The file system is a record f: the inode       *)
(* sectors allocated, which of them are marked as directories, the slots   *)
(* of each directory, the length of each file, and of the inodes in memory *)
(* the count of openers and the removed flag.  What inodes do with blocks  *)
(* is module Inode's.  Memory is never short here, the disk may be: `room` *)
(* says whether an inode_create or a directory that grows finds blocks.    *)
(*                                                                         *)
(* No lock is held in directory.c: adding and removing an entry are a      *)
(* search of the directory and a write to it, and other threads run        *)
(* between them.  A search returns the write to be done, a record `next`.  *)
(***************************************************************************)
EXTENDS Path, FiniteSets

CONSTANTS
  Inodes,
  SLOTS,           \* entries in the first block of a directory
  NAME_MAX,
  LengthOf(_),     \* characters of a component
  FirstChars(_)    \* the first NAME_MAX characters of a longer component

ROOT == 1    \* ROOT_DIR_SECTOR

Free == [name |-> NULL, inode |-> NULL, is_dir |-> FALSE]   \* ~in_use

EmptyDir == [i \in 1 .. SLOTS |-> Free]

\* do_format: the root directory and nothing else.
Formatted ==
  [alloc |-> {ROOT}, isdir |-> {ROOT},
   slots |-> [i \in Inodes |-> IF i = ROOT THEN EmptyDir ELSE <<>>],
   length |-> [i \in Inodes |-> 0],
   cnt |-> [i \in Inodes |-> 0], removed |-> {}]

-----------------------------------------------------------------------------
(* Inodes. *)

inode_opened(f, i) == [f EXCEPT !.cnt[i] = @ + 1]

Erased(f, i) ==
  [f EXCEPT !.alloc = @ \ {i}, !.isdir = @ \ {i}, !.slots[i] = <<>>,
            !.length[i] = 0, !.removed = @ \ {i}]

\* A seeded fault: a removed inode goes when any of its openers closes it.
inode_closed_early(f, i) ==
  LET g == [f EXCEPT !.cnt[i] = @ - 1]
  IN  IF i \in g.removed THEN Erased(g, i) ELSE g

inode_closed(f, i) ==
  LET g == [f EXCEPT !.cnt[i] = @ - 1]
  IN  IF g.cnt[i] = 0 /\ i \in g.removed THEN Erased(g, i) ELSE g

FreeInodes(f) == Inodes \ f.alloc

\* free_map_allocate takes the first free sector.
FirstFree(f) == CHOOSE i \in FreeInodes(f) : \A j \in FreeInodes(f) : i <= j

-----------------------------------------------------------------------------
(* Looking names up. *)

\* The characters of a path, with its slashes.
strlen(p) ==
  FoldLeft(LAMBDA n, name : n + 1 + LengthOf(name), 0, p.comps)
    + (IF p.abs THEN 1 ELSE 0) + (IF p.slash THEN 1 ELSE 0)
    - (IF p.comps = <<>> THEN 0 ELSE 1)

\* The first slot that holds the name, 0 if there is none.
SlotOf(f, d, name) ==
  IF name \in BadNames THEN 0
  ELSE SelectInSeq(f.slots[d], LAMBDA e : e # Free /\ e.name = name)

lookup(f, d, name) ==
  IF SlotOf(f, d, name) = 0 THEN NULL ELSE f.slots[d][SlotOf(f, d, name)]

\* The walk that path_exists, path_isfile and path_isdir make: the entry the
\* path leads to, with every component before the last a directory.
RootEntry == [name |-> "/", inode |-> ROOT, is_dir |-> TRUE]

Walked(f, p) ==
  LET step(e, name) ==
        IF e = NULL THEN NULL
        ELSE IF e.is_dir THEN lookup(f, e.inode, name) ELSE NULL
  IN  FoldLeft(step, RootEntry, p.comps)

path_exists(f, cwd, p) ==
  path_isvalid(p) /\ Walked(f, path_abspath(cwd, p)) # NULL

path_isfile(f, cwd, p) ==
  LET e == Walked(f, path_abspath(cwd, p))
  IN  path_isvalid(p) /\ e # NULL /\ ~e.is_dir

path_isdir(f, cwd, p) ==
  LET e == Walked(f, path_abspath(cwd, p))
  IN  path_isvalid(p) /\ e # NULL /\ e.is_dir

\* A pass of the loop of dir_get_leaf: from the directory at, through
\* dir_child, to the directory a component names.  A component that names a
\* file leaves the file's inode open.  (dir_child assigns its new struct dir to
\* a parameter; the caller's pointer, just freed, is the block calloc returned.)
Descend(f, w, name) ==
  LET e == lookup(f, w.at, name)
  IN  IF w.stuck THEN w
      ELSE IF e = NULL THEN [w EXCEPT !.stuck = TRUE]
      ELSE IF ~e.is_dir THEN [w EXCEPT !.stuck = TRUE, !.leak = {e.inode}]
      ELSE [w EXCEPT !.at = e.inode, !.last = w.at]

\* What dir_get_leaf returns: the directory, NULL for none, and the inodes it leaves
\* open.  A component that leads nowhere ends the walk where it is; if it is all
\* there is of the path, the root stays open.
dir_get_leaf(f, p) ==
  LET step(w, name) == Descend(f, w, name)
      w == FoldLeft(step, [at |-> ROOT, last |-> ROOT, stuck |-> FALSE, leak |-> {}],
                    p.comps)
  IN  [dir |-> IF ~path_isvalid(p) \/ (w.stuck /\ ~is_path(p)) THEN NULL
               ELSE IF p.slash /\ ~w.stuck THEN w.last
               ELSE w.at,
       leak |-> IF ~path_isvalid(p) THEN {}
                ELSE w.leak \cup IF w.stuck /\ ~is_path(p) THEN {ROOT} ELSE {}]

Leaked(f, leak) == [f EXCEPT !.cnt = [i \in Inodes |-> @[i] + IF i \in leak THEN 1 ELSE 0]]

dir_is_empty(f, cwd, p) ==
  LET d == dir_get_leaf(f, path_abspath(cwd, p)).dir
  IN  \A k \in DOMAIN f.slots[d] : f.slots[d][k] = Free

-----------------------------------------------------------------------------
(* Adding an entry. *)

\* strlcpy into the name of a directory entry.
Cut(name) == IF LengthOf(name) <= NAME_MAX THEN name ELSE FirstChars(name)

\* The first free slot, or one more at the end of the file.
SlotFor(slots) ==
  LET k == SelectInSeq(slots, LAMBDA e : e = Free)
  IN  IF k = 0 THEN Len(slots) + 1 ELSE k

\* A seeded fault: a name that is there already is added again.
CannotAdd_always(f, d, name) == d = NULL

CannotAdd(f, d, name) == d = NULL \/ lookup(f, d, name) # NULL

\* dir_add and dir_create up to their write: an entry for inode i is to go into
\* the directory that leaf leads to, which stays open, as the root does in
\* filesys_create and filesys_mkdir.  Without a place for it the inode goes.
PlaceFound(f, leaf, path, name, i, is_dir) ==
  LET g == Leaked(f, leaf.leak)
  IN  IF CannotAdd(f, leaf.dir, name) THEN [fs |-> Erased(g, i), next |-> NULL]
      ELSE [fs |-> inode_opened(inode_opened(g, ROOT), leaf.dir),
            next |-> [call |-> "add", path |-> path, dir |-> leaf.dir,
                      slot |-> SlotFor(f.slots[leaf.dir]), stale |-> FALSE,
                      entry |-> [name |-> Cut(name), inode |-> i, is_dir |-> is_dir]]]

dir_add_search(f, cwd, p, i, is_dir) ==
  LET abspath == path_abspath(cwd, p)
  IN  PlaceFound(f, dir_get_leaf(f, path_dirname(abspath)), p, path_basename(abspath),
                 i, is_dir)

\* The length of the whole path is checked, and only here.
filesys_create(f, cwd, p, size, room) ==
  LET i == FirstFree(f)
      made == [f EXCEPT !.alloc = @ \cup {i}, !.length[i] = size]
  IN  IF strlen(p) > NAME_MAX \/ FreeInodes(f) = {} \/ ~room THEN [fs |-> f, next |-> NULL]
      ELSE dir_add_search(made, cwd, p, i, FALSE)

filesys_mkdir(f, cwd, p, room) ==
  LET i == FirstFree(f)
      made == [f EXCEPT !.alloc = @ \cup {i}, !.slots[i] = EmptyDir]
  IN  IF FreeInodes(f) = {} \/ ~room THEN [fs |-> f, next |-> NULL]
      ELSE dir_add_search(made, cwd, p, i, TRUE)

\* The write needs room when the directory grows.
Writable(f, c, room) == c.slot <= Len(f.slots[c.dir]) \/ room

SlotWritten(f, c) ==
  [f EXCEPT !.slots[c.dir] =
     IF c.slot > Len(@) THEN Append(@, c.entry) ELSE [@ EXCEPT ![c.slot] = c.entry]]

\* For a directory, the end of dir_create creates the inode once more; room2
\* says whether it can.  If not, the sector is given back although the entry
\* has been written.
InodeMarked(f, c, room2) ==
  IF ~c.entry.is_dir THEN f
  ELSE IF room2 THEN [f EXCEPT !.isdir = @ \cup {c.entry.inode}]
  ELSE Erased(f, c.entry.inode)

\* The rest of dir_add or dir_create and of filesys_create or filesys_mkdir.
dir_add_write(f, c, room, room2) ==
  LET g == IF Writable(f, c, room) THEN InodeMarked(SlotWritten(f, c), c, room2)
           ELSE Erased(f, c.entry.inode)
  IN  inode_closed(inode_closed(g, c.dir), ROOT)

-----------------------------------------------------------------------------
(* Opening. *)

\* The inode that entry e names is opened.
EntryOpened(f, e) ==
  IF e = NULL THEN [inode |-> NULL, fs |-> f]
  ELSE [inode |-> e.inode, fs |-> inode_opened(f, e.inode)]

OpenedIn(f, leaf, name) ==
  EntryOpened(Leaked(f, leaf.leak), IF leaf.dir = NULL THEN NULL ELSE lookup(f, leaf.dir, name))

\* The inode of the root is closed again before it is put into the file: the
\* file does not count among its openers.
filesys_open(f, cwd, p) ==
  LET abspath == path_abspath(cwd, p)
  IN  IF path_isroot(p) THEN [inode |-> ROOT, fs |-> f]
      ELSE OpenedIn(f, dir_get_leaf(f, path_dirname(abspath)), path_basename(abspath))

-----------------------------------------------------------------------------
(* Removing an entry. *)

\* A seeded fault: the last name of the path is looked up in the root.
RemovesFrom_root(f, p) == [dir |-> ROOT, leak |-> {}]

\* The directory dir_remove looks in: the part before the last slash, from the
\* root; the root for a bare name, and for "/name".
RemovesFrom(f, p) ==
  LET prefix == PathOf(p.abs, IF p.slash THEN p.comps ELSE Front(p.comps), FALSE)
  IN  IF ~is_path(p) \/ prefix.comps = <<>> THEN [dir |-> ROOT, leak |-> {}]
      ELSE dir_get_leaf(f, prefix)

\* Directories that are open are not removed.
CannotRemove(f, i) == i \in f.isdir /\ f.cnt[i] > 0

\* dir_remove up to its write; slot k of the leaf names inode i.  The root, the
\* directory and the inode are open until the entry has been erased.
EntryFound(f, leaf, path, k, i) ==
  IF CannotRemove(f, i) THEN [fs |-> f, next |-> NULL]
  ELSE [fs |-> inode_opened(inode_opened(inode_opened(f, ROOT), leaf.dir), i),
        next |-> [call |-> "clear", path |-> path, dir |-> leaf.dir, slot |-> k,
                  stale |-> FALSE, entry |-> f.slots[leaf.dir][k]]]

RemoveFrom(f, leaf, path, name) ==
  LET k == IF leaf.dir = NULL THEN 0 ELSE SlotOf(f, leaf.dir, name)
      g == Leaked(f, leaf.leak)
  IN  IF k = 0 THEN [fs |-> g, next |-> NULL]
      ELSE EntryFound(g, leaf, path, k, f.slots[leaf.dir][k].inode)

filesys_remove(f, p) ==
  IF path_isvalid(p) THEN RemoveFrom(f, RemovesFrom(f, p), p, Last(p.comps))
  ELSE [fs |-> Leaked(f, RemovesFrom(f, p).leak), next |-> NULL]

\* The rest of dir_remove: whatever the slot holds by now is erased.
dir_remove_write(f, c) ==
  LET g == [f EXCEPT !.slots[c.dir][c.slot] = Free, !.removed = @ \cup {c.entry.inode}]
  IN  inode_closed(inode_closed(inode_closed(g, c.dir), c.entry.inode), ROOT)
=============================================================================
