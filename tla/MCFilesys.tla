----------------------------- MODULE MCFilesys ------------------------------
(***************************************************************************)
(* The file system for TLC: an initial state picks one of two instances,   *)
(* the files and their blocks (module Inode), or the names, handles and    *)
(* processes above them (module FileSyscalls, named Names).                *)
(***************************************************************************)
EXTENDS Inode

CONSTANTS BadNames, Inodes, SLOTS, NAME_MAX, Procs, proc1, proc2, proc3

VARIABLES unit, shape, fs, pwd, handles, nextFD, pending, alive, stopped

namesVars == <<shape, fs, pwd, handles, nextFD, pending, alive, stopped>>

\* A roomy disk for one file, and a disk with a sector less for two.
TwoDisks == 0 :> [files |-> 1, opens |-> 2] @@ 1 :> [files |-> 2, opens |-> 1]

Abs(comps) == [abs |-> TRUE, comps |-> comps, slash |-> FALSE]

Rel(comps) == [abs |-> FALSE, comps |-> comps, slash |-> FALSE]

\* A name of NAME_MAX characters and a longer one that starts with it.
MCLengthOf(name) == CASE name = "abcd" -> 4 [] name = "abcde" -> 5 [] OTHER -> 1

MCFirstChars(name) == "abcd"

\* Two processes that make and remove the names of a small tree and open none;
\* one process with relative paths; one with a name lookup refuses, and the
\* root; one with names that are too long, and files that grow; and two
\* processes that come and go over one name they also open.
MCShapes ==
  {[procs |-> {proc1, proc2}, all |-> FALSE, fds |-> 2, pos |-> 0, opens |-> 2, roots |-> 5,
    paths |-> {Abs(<<"a">>), Abs(<<"a", "b">>)}],
   [procs |-> {proc3}, all |-> TRUE, fds |-> 3, pos |-> 0, opens |-> 1, roots |-> 2,
    paths |-> {Rel(<<"..", "a">>), Rel(<<"b">>), [Rel(<<"b", "a">>) EXCEPT !.slash = TRUE]}],
   [procs |-> {proc3}, all |-> TRUE, fds |-> 3, pos |-> 0, opens |-> 2, roots |-> 3,
    paths |-> {Rel(<<"b">>), Rel(<<"?">>), Abs(<<"b", "?">>), Abs(<<>>)}],
   [procs |-> {proc3}, all |-> TRUE, fds |-> 3, pos |-> 1, opens |-> 2, roots |-> 3,
    paths |-> {Abs(<<"abcde">>), Rel(<<"abcd">>)}],
   [procs |-> {proc1, proc2}, all |-> TRUE, fds |-> 3, pos |-> 0, opens |-> 2, roots |-> 4,
    paths |-> {Abs(<<"a">>)}]}

Sym == Permutations({proc1, proc2})

Names == INSTANCE FileSyscalls WITH
  Shapes <- MCShapes, LengthOf <- MCLengthOf, FirstChars <- MCFirstChars

Idle == CHOOSE s \in MCShapes : Cardinality(s.paths) = 1

Init ==
  /\ InodeInit
  /\ Names!NamesInit
  /\ \/ unit = "inodes" /\ shape = Idle
     \/ unit = "names" /\ taken = 0

Next ==
  \/ unit = "inodes" /\ InodeNext /\ UNCHANGED <<unit, namesVars>>
  \/ unit = "names" /\ Names!NamesNext /\ UNCHANGED <<unit, inodeVars>>

Spec == Init /\ [][Next]_<<unit, inodeVars, namesVars>>

-----------------------------------------------------------------------------
(* An inode that a process has open is counted at least as often as it is   *)
(* held and keeps its sector, whoever removes the file (inode_close).       *)
HandlesLive == unit = "names" => Names!HandlesLive

(* An entry leads to an allocated inode of its kind, an inode has one entry *)
(* and a name one entry per directory, in every interleaving of create,     *)
(* mkdir and remove that tears and overtakes none of them, but for names    *)
(* that were cut or that lookup refuses (dir_add, dir_create, dir_remove).  *)
EntriesSound == unit = "names" => Names!EntriesSound

(* A path that can be followed step by step leads to the same inode through *)
(* path_abspath, path_exists, filesys_open and dir_get_leaf.                *)
PathsResolve == unit = "names" => Names!PathsResolve

(* A create, mkdir or remove of a path from the root changes that name in   *)
(* that parent directory and nothing else (dir_add, dir_create, dir_remove).*)
ActsWhereNamed == Names!ActsWhereNamed

(* A remove of a path from the root takes a directory with entries only if  *)
(* another process made them after the check (sysremove_handler,            *)
(* dir_is_empty, dir_remove).                                               *)
RemovesEmpty == Names!RemovesEmpty
=============================================================================
