---------------------------- MODULE FileSyscalls ----------------------------
(***************************************************************************)
(* The system calls on files and directories: the handlers of              *)
(* pintos/src/userprog/syscall.c, the handle lists of threads/thread.c and *)
(* the file positions of filesys/file.c, over the directories of module    *)
(* Directory.  No lock is held across a handler or in directory.c, so      *)
(* other processes run between the check of a path and the call that acts  *)
(* on it, between the search of a directory and the write to it, and       *)
(* between opening a path and asking what it is.                           *)
(*                                                                         *)
(* The model stops where the code goes on with a broken directory or a     *)
(* dangling pointer: after a mkdir that ran out of space behind its entry  *)
(* ("torn"), after a write to a directory that another process changed     *)
(* since it was searched ("overtaken"), and where the inode of the root is *)
(* used that filesys_open has closed ("dangling").                         *)
(*                                                                         *)
(* Calls with bad pointers end the process, as process_exit does at any    *)
(* point; calls that only return something (tell, filesize, isdir,         *)
(* inumber, refused calls) change no state.                                *)
(***************************************************************************)
EXTENDS Directory

CONSTANTS
  Procs,
  Shapes      \* of an instance: the processes, the paths they use,
              \* whether they make all the calls or only those that change
              \* the tree and open and close files, and the bounds on nextFD,
              \* on the end of a write or seek, and on the count of openers,
              \* which failed walks can raise, of the root and of the others

VARIABLES
  shape,      \* the instance
  fs,         \* the file system, a record as in module Directory
  pwd,        \* present working directory of each process
  handles,    \* handles of each process, in the order they were opened
  nextFD,
  pending,    \* the second half of a call that a process is in, or NULL
  alive,      \* the processes that exist
  stopped     \* why the model stops, NULL while it runs

namesVars == <<shape, fs, pwd, handles, nextFD, pending, alive, stopped>>

NamesInit ==
  /\ shape \in Shapes
  /\ fs = Formatted
  /\ pwd = [p \in Procs |-> RootPath]
  /\ handles = [p \in Procs |-> <<>>]
  /\ nextFD = [p \in Procs |-> 2]
  /\ pending = [p \in Procs |-> NULL]
  /\ alive = shape.procs
  /\ stopped = NULL

Least(a, b) == IF a < b THEN a ELSE b

\* The processes in user mode.
InUser(p) == stopped = NULL /\ p \in alive /\ pending[p] = NULL

In(p, call) ==
  stopped = NULL /\ p \in alive /\ pending[p] # NULL /\ pending[p].call = call

Bounded(f) == \A i \in Inodes : f.cnt[i] <= IF i = ROOT THEN shape.roots ELSE shape.opens

\* The root's inode is used after its last opener has closed it.
Dangling(i) == i = ROOT /\ fs.cnt[ROOT] = 0

\* Process p has written to directory d: searches of d by others are out of date.
Outdated(p, d) ==
  [q \in Procs |->
     IF q = p THEN NULL
     ELSE IF In(q, "add") \/ In(q, "clear") THEN [pending[q] EXCEPT !.stale = @ \/ pending[q].dir = d]
     ELSE pending[q]]

-----------------------------------------------------------------------------
(* Calls with a path. *)

syscreate_handler(p, path, size, room) ==
  /\ InUser(p)
  /\ path.abs \/ path.comps # <<>>
  /\ \E r \in {filesys_create(fs, pwd[p], path, size, room)} :
       fs' = r.fs /\ pending' = [pending EXCEPT ![p] = r.next]
  /\ Bounded(fs')
  /\ UNCHANGED <<shape, pwd, handles, nextFD, alive, stopped>>

\* A seeded fault: directories are removed with what is in them.
RefusesRemove_full(p, path) == path_isroot(path) \/ path_abspath(pwd[p], path) = pwd[p]

RefusesRemove(p, path) ==
  \/ path_isroot(path)
  \/ path_isdir(fs, pwd[p], path) /\ ~dir_is_empty(fs, pwd[p], path)
  \/ path_abspath(pwd[p], path) = pwd[p]

sysremove_handler(p, path) ==
  /\ InUser(p)
  /\ ~RefusesRemove(p, path)
  /\ pending' = [pending EXCEPT ![p] = [call |-> "remove", path |-> path]]
  /\ UNCHANGED <<shape, fs, pwd, handles, nextFD, alive, stopped>>

sysremove_act(p) ==
  /\ In(p, "remove")
  /\ \E r \in {filesys_remove(fs, pending[p].path)} :
       fs' = r.fs /\ pending' = [pending EXCEPT ![p] = r.next]
  /\ Bounded(fs')
  /\ UNCHANGED <<shape, pwd, handles, nextFD, alive, stopped>>

MayMkdir(p, path) ==
  /\ path_isvalid(path)
  /\ ~path_isdir(fs, pwd[p], path)
  /\ path_isdir(fs, pwd[p], path_dirname(path_abspath(pwd[p], path)))

sysmkdir_handler(p, path) ==
  /\ InUser(p)
  /\ MayMkdir(p, path)
  /\ pending' = [pending EXCEPT ![p] = [call |-> "mkdir", path |-> path]]
  /\ UNCHANGED <<shape, fs, pwd, handles, nextFD, alive, stopped>>

sysmkdir_act(p, room) ==
  /\ In(p, "mkdir")
  /\ \E r \in {filesys_mkdir(fs, pwd[p], pending[p].path, room)} :
       fs' = r.fs /\ pending' = [pending EXCEPT ![p] = r.next]
  /\ Bounded(fs')
  /\ UNCHANGED <<shape, pwd, handles, nextFD, alive, stopped>>

\* The end of create and mkdir.
dir_added(p, room, room2) ==
  LET c == pending[p]
  IN  /\ In(p, "add")
      /\ c.entry.is_dir \/ room2
      /\ fs' = dir_add_write(fs, c, room, room2)
      /\ pending' = IF Writable(fs, c, room) THEN Outdated(p, c.dir)
                    ELSE [pending EXCEPT ![p] = NULL]
      /\ stopped' = IF ~Writable(fs, c, room) THEN NULL
                    ELSE IF c.stale THEN "overtaken"
                    ELSE IF ~room2 THEN "torn" ELSE NULL
      /\ UNCHANGED <<shape, pwd, handles, nextFD, alive>>

\* The end of remove.
dir_removed(p) ==
  /\ In(p, "clear")
  /\ fs' = dir_remove_write(fs, pending[p])
  /\ pending' = Outdated(p, pending[p].dir)
  /\ stopped' = IF pending[p].stale THEN "overtaken" ELSE NULL
  /\ UNCHANGED <<shape, pwd, handles, nextFD, alive>>

sysopen_handler(p, path) ==
  /\ InUser(p)
  /\ nextFD[p] < shape.fds
  /\ path.abs \/ path.comps # <<>>
  /\ \E o \in {filesys_open(fs, pwd[p], path)} :
       /\ fs' = o.fs
       /\ pending' = [pending EXCEPT ![p] =
            IF o.inode = NULL THEN NULL
            ELSE [call |-> "open", path |-> path, inode |-> o.inode]]
  /\ Bounded(fs')
  /\ UNCHANGED <<shape, pwd, handles, nextFD, alive, stopped>>

\* thread_add_file_handler, thread_add_dir_handler.
thread_add_handler(p, inode, file) ==
  /\ handles' = [handles EXCEPT ![p] =
       Append(@, [fd |-> nextFD[p], file |-> file, inode |-> inode, pos |-> 0])]
  /\ nextFD' = [nextFD EXCEPT ![p] = @ + 1]

\* A path that leads nowhere any more gets no handle, and its inode stays open.
sysopen_act(p) ==
  LET path == pending[p].path
      isfile == path_isfile(fs, pwd[p], path)
      isdir == path_isdir(fs, pwd[p], path)
  IN  /\ In(p, "open")
      /\ IF (isfile \/ isdir) /\ ~Dangling(pending[p].inode)
           THEN thread_add_handler(p, pending[p].inode, isfile)
           ELSE UNCHANGED <<handles, nextFD>>
      /\ pending' = [pending EXCEPT ![p] = NULL]
      /\ stopped' = IF Dangling(pending[p].inode) THEN "dangling" ELSE NULL
      /\ UNCHANGED <<shape, fs, pwd, alive>>

\* Any path that exists will do.
dir_changedir(p, path) ==
  /\ path_isvalid(path)
  /\ path_exists(fs, pwd[p], path_abspath(pwd[p], path))
  /\ pwd' = [pwd EXCEPT ![p] = path_abspath(pwd[p], path)]

syschdir_handler(p, path) ==
  /\ InUser(p)
  /\ dir_changedir(p, path)
  /\ UNCHANGED <<shape, fs, handles, nextFD, pending, alive, stopped>>

-----------------------------------------------------------------------------
(* Calls with a file descriptor. *)

\* The index of the handle, 0 if there is none.
get_handle(p, fd) == SelectInSeq(handles[p], LAMBDA h : h.fd = fd)

Handle(p, fd) == handles[p][get_handle(p, fd)]

Moved(p, fd, pos) == [handles EXCEPT ![p][get_handle(p, fd)].pos = pos]

\* The bytes file_read and file_write move the position by: what is left of
\* the file, and all or, without room for the growth, nothing.
file_read(h, size) ==
  LET left == fs.length[h.inode] - h.pos
  IN  IF left > 0 THEN Least(size, left) ELSE 0

Grows(h, size) == h.pos + size > fs.length[h.inode]

file_write(h, size, room) == IF Grows(h, size) /\ ~room THEN 0 ELSE size

sysread_handler(p, fd, size) ==
  LET h == Handle(p, fd)
  IN  /\ InUser(p)
      /\ get_handle(p, fd) # 0 /\ h.file
      /\ handles' = Moved(p, fd, h.pos + file_read(h, size))
      /\ UNCHANGED <<shape, fs, pwd, nextFD, pending, alive, stopped>>

\* A write past the end extends the file, if there is room.
syswrite_handler(p, fd, size, room) ==
  LET h == Handle(p, fd)
      end == h.pos + size
  IN  /\ InUser(p)
      /\ get_handle(p, fd) # 0 /\ h.file
      /\ end <= shape.pos
      /\ handles' = Moved(p, fd, h.pos + file_write(h, size, room))
      /\ fs' = IF Grows(h, size) /\ room THEN [fs EXCEPT !.length[h.inode] = end] ELSE fs
      /\ UNCHANGED <<shape, pwd, nextFD, pending, alive, stopped>>

sysseek_handler(p, fd, newpos) ==
  /\ InUser(p)
  /\ get_handle(p, fd) # 0 /\ Handle(p, fd).file
  /\ handles' = Moved(p, fd, newpos)
  /\ UNCHANGED <<shape, fs, pwd, nextFD, pending, alive, stopped>>

\* dir_readdir: past the free slots, to the one after the next entry.
NextEntry(slots, pos) ==
  LET k == SelectInSubSeq(slots, pos + 1, Len(slots), LAMBDA e : e # Free)
  IN  IF k = 0 THEN Len(slots) ELSE k

sysreaddir_handler(p, fd) ==
  LET h == Handle(p, fd)
  IN  /\ InUser(p)
      /\ get_handle(p, fd) # 0 /\ ~h.file
      /\ h.pos <= Len(fs.slots[h.inode])
      /\ handles' = Moved(p, fd, NextEntry(fs.slots[h.inode], h.pos))
      /\ stopped' = IF Dangling(h.inode) THEN "dangling" ELSE NULL
      /\ UNCHANGED <<shape, fs, pwd, nextFD, pending, alive>>

thread_close_handler(p, fd) ==
  /\ get_handle(p, fd) # 0
  /\ fs' = IF Dangling(Handle(p, fd).inode) THEN fs ELSE inode_closed(fs, Handle(p, fd).inode)
  /\ stopped' = IF Dangling(Handle(p, fd).inode) THEN "dangling" ELSE NULL
  /\ handles' = [handles EXCEPT ![p] = RemoveAt(@, get_handle(p, fd))]

sysclose_handler(p, fd) ==
  /\ InUser(p)
  /\ thread_close_handler(p, fd)
  /\ UNCHANGED <<shape, pwd, nextFD, pending, alive>>

-----------------------------------------------------------------------------
(* Processes come and go. *)

\* process_exit closes the files, and not the directories, of the handle list.
\* A process killed inside a call leaves what the call had opened.
process_exit(p) ==
  LET closed(f, h) == IF h.file THEN inode_closed(f, h.inode) ELSE f
  IN  /\ InUser(p)
      /\ fs' = FoldLeft(closed, fs, handles[p])
      /\ handles' = [handles EXCEPT ![p] = <<>>]
      /\ alive' = alive \ {p}
      /\ UNCHANGED <<shape, pwd, nextFD, pending, stopped>>

\* process_execute: the child starts where its parent is.
process_execute(p, child) ==
  /\ InUser(p)
  /\ child \in shape.procs \ alive
  /\ alive' = alive \cup {child}
  /\ pwd' = [pwd EXCEPT ![child] = pwd[p]]
  /\ nextFD' = [nextFD EXCEPT ![child] = 2]
  /\ UNCHANGED <<shape, fs, handles, pending, stopped>>

NamesNext ==
  \E p \in Procs :
    \/ \E path \in shape.paths :
         \/ \E size \in 0 .. Least(1, shape.pos), room \in BOOLEAN :
              syscreate_handler(p, path, size, room)
         \/ sysremove_handler(p, path)
         \/ sysmkdir_handler(p, path)
         \/ sysopen_handler(p, path)
         \/ shape.all /\ syschdir_handler(p, path)
    \/ sysremove_act(p)
    \/ \E room \in BOOLEAN : sysmkdir_act(p, room)
    \/ \E room, room2 \in BOOLEAN : dir_added(p, room, room2)
    \/ dir_removed(p)
    \/ sysopen_act(p)
    \/ \E fd \in 2 .. shape.fds :
         \/ sysread_handler(p, fd, 1)
         \/ \E room \in BOOLEAN : syswrite_handler(p, fd, 1, room)
         \/ \E pos \in 0 .. shape.pos : sysseek_handler(p, fd, pos)
         \/ shape.all /\ sysreaddir_handler(p, fd)
         \/ sysclose_handler(p, fd)
    \/ shape.all /\ process_exit(p)
    \/ \E child \in Procs : process_execute(p, child)

NamesSpec == NamesInit /\ [][NamesNext]_namesVars

-----------------------------------------------------------------------------
(* Properties. *)

\* The inodes that the call process p is in has open.
InCallOpen(p) ==
  IF pending[p] = NULL THEN <<>>
  ELSE CASE pending[p].call = "open" -> <<pending[p].inode>>
         [] pending[p].call = "add" -> <<pending[p].dir>>
         [] pending[p].call = "clear" -> <<pending[p].dir, pending[p].entry.inode>>
         [] OTHER -> <<>>

HeldBy(p, i) ==
  Cardinality({k \in DOMAIN handles[p] : handles[p][k].inode = i})
    + Cardinality({k \in DOMAIN InCallOpen(p) : InCallOpen(p)[k] = i})

RECURSIVE Holders(_, _)
Holders(S, i) ==
  IF S = {} THEN 0
  ELSE LET p == CHOOSE q \in S : TRUE IN HeldBy(p, i) + Holders(S \ {p}, i)

(* An inode other than the root's that any process has open, in a handle or *)
(* in the middle of a call, is counted by inode.c at least as often as it   *)
(* is held, and its sector is not given to another file: removing a file or *)
(* a directory, by whichever process, never takes it from those who have it *)
(* open.                                                                    *)
HandlesLive ==
  \A i \in Inodes \ {ROOT} :
    /\ fs.cnt[i] >= Holders(Procs, i)
    /\ fs.cnt[i] > 0 => i \in fs.alloc

(* Until a mkdir is torn or a write overtaken: an entry of a directory      *)
(* leads to an allocated inode of the kind the entry says, and no inode has *)
(* two entries, however the checks, searches and writes of create, mkdir    *)
(* and remove of several processes interleave.  No two entries of a         *)
(* directory have the same name either, unless lookup could not find it:    *)
(* it has the NAME_MAX characters that dir_create leaves of a longer one,   *)
(* or a character that lookup refuses and dir_add takes.                    *)
EntriesSound ==
  stopped \notin {"torn", "overtaken"} =>
    \A d, c \in fs.isdir : \A k \in DOMAIN fs.slots[d], l \in DOMAIN fs.slots[c] :
      LET e == fs.slots[d][k]
          g == fs.slots[c][l]
      IN  /\ e # Free => /\ e.inode \in fs.alloc \ fs.removed
                         /\ e.is_dir = (e.inode \in fs.isdir)
          /\ <<d, k>> # <<c, l>> /\ e # Free /\ g # Free =>
               /\ e.inode # g.inode
               /\ d = c /\ LengthOf(e.name) < NAME_MAX /\ e.name \notin BadNames
                    => e.name # g.name

\* The directory that has the entry of directory d.
Parent(d) ==
  IF d = ROOT THEN ROOT
  ELSE CHOOSE c \in fs.isdir :
         \E k \in DOMAIN fs.slots[c] : fs.slots[c][k].inode = d

\* What a path leads to from directory d, one component after the other with
\* ".." as the step to the parent.
Followed(d, comps) ==
  LET step(i, name) ==
        IF i = NULL THEN NULL
        ELSE IF i \notin fs.isdir THEN NULL
        ELSE IF name = Dot THEN i
        ELSE IF name = DotDot THEN Parent(i)
        ELSE LET e == lookup(fs, i, name) IN IF e = NULL THEN NULL ELSE e.inode
  IN  FoldLeft(step, d, comps)

(* A path that can be followed from a process's working directory one       *)
(* component at a time leads there as well once path_abspath has normalized *)
(* it: path_exists finds it, filesys_open opens that inode, and             *)
(* dir_get_leaf returns that directory.                                     *)
PathsResolve ==
  stopped \notin {"torn", "overtaken"} =>
  \A p \in alive : path_isdir(fs, RootPath, pwd[p]) =>
    \A path \in {q \in shape.paths : path_isvalid(q)} :
      LET start == IF path.abs THEN ROOT ELSE Walked(fs, pwd[p]).inode
          i == Followed(start, path.comps)
          abspath == path_abspath(pwd[p], path)
      IN  i # NULL =>
            /\ path_exists(fs, pwd[p], path)
            /\ i # ROOT => filesys_open(fs, pwd[p], path).inode = i
            /\ i \in fs.isdir => dir_get_leaf(fs, abspath) = [dir |-> i, leak |-> {}]

\* The names that occur in the paths of the instance.
NamesUsed == UNION {ToSet(path.comps) : path \in shape.paths}

\* A path of process p that names the same thing from the root as from its
\* working directory, and the same before and after path_abspath.
Direct(p, path) ==
  /\ path.abs \/ pwd[p] = RootPath
  /\ ~path.slash /\ path.comps # <<>>
  /\ ToSet(path.comps) \cap ({Dot, DotDot} \cup BadNames) = {}

\* Process p has searched a directory and is about to write to it.
Acts(p) == (In(p, "add") \/ In(p, "clear")) /\ Direct(p, pending[p].path)

(* What a create, mkdir or remove does when it writes is what its path      *)
(* said: if the path is one from the root and its parent directory is       *)
(* there, nothing but that one name, as dir_create cuts it, in that one     *)
(* directory changes, whatever other processes did between the check of the *)
(* path, the search of the directory and the write, unless the write is     *)
(* overtaken.                                                               *)
ActsWhereNamed ==
  [][\A p \in Procs :
       Acts(p) /\ pending'[p] = NULL /\ stopped' = NULL =>
         LET abspath == path_abspath(pwd[p], pending[p].path)
             parent == Walked(fs, path_dirname(abspath))
         IN  parent # NULL /\ parent.is_dir =>
               \A d \in fs.isdir \cap fs'.isdir, name \in NamesUsed :
                 lookup(fs', d, name) # lookup(fs, d, name) =>
                   d = parent.inode /\ name = Cut(path_basename(abspath))]_namesVars

Occupied(d) == \E k \in DOMAIN fs.slots[d] : fs.slots[d][k] # Free

\* The entry of directory d goes.
Unlinks(d) ==
  \E c \in fs.isdir : \E k \in DOMAIN fs.slots[c] :
    /\ fs.slots[c][k].inode = d
    /\ c \in fs'.isdir => fs'.slots[c][k].inode # d

(* A process that is alone never removes a directory that has entries,      *)
(* under a path from the root.  With others, a directory that has entries   *)
(* when its own goes got them after the check of sysremove_handler, which   *)
(* would now refuse the path: the directory dir_remove finds is the one     *)
(* dir_is_empty looked at, although the two walk the path differently.      *)
RemovesEmpty ==
  [][\A p \in Procs :
       Acts(p) /\ pending'[p] = NULL /\ stopped' = NULL =>
         \A d \in fs.isdir :
           Unlinks(d) /\ Occupied(d) =>
             /\ shape.procs # {p}
             /\ RefusesRemove(p, pending[p].path)]_namesVars
=============================================================================
