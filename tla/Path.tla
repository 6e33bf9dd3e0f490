-------------------------------- MODULE Path --------------------------------
(***************************************************************************)
(* The path names of pintos/src/filesys/path.c, as operators.  A path is   *)
(* its components, whether it starts with a slash and whether a slash      *)
(* follows the last component; the buffers that hold the strings, and the  *)
(* failure to allocate one, are left out.  BadNames are components with a  *)
(* character that path_isvalid refuses.                                    *)
(***************************************************************************)
EXTENDS Integers, SequencesExt

CONSTANTS BadNames, NULL

PathOf(abs, comps, slash) == [abs |-> abs, comps |-> comps, slash |-> slash]

RootPath == PathOf(TRUE, <<>>, FALSE)     \* "/"

Plain(name) == PathOf(FALSE, <<name>>, FALSE)

DotDot == ".."
Dot == "."

path_isvalid(p) ==
  /\ p.abs \/ p.comps # <<>>
  /\ \A i \in DOMAIN p.comps : p.comps[i] \notin BadNames

path_isabs(p) == path_isvalid(p) /\ p.abs

path_isroot(p) == path_isvalid(p) /\ p = RootPath

path_join2(p, q) ==
  IF path_isabs(q) THEN q
  ELSE PathOf(p.abs, p.comps \o q.comps, q.slash \/ q.comps = <<>>)

\* p without its last component.
path_dirname(p) ==
  IF Len(p.comps) > 1 THEN PathOf(path_isabs(p), Front(p.comps), FALSE)
  ELSE IF path_isabs(p) THEN RootPath
  ELSE Plain(Dot)

path_basename(p) ==
  IF p.comps # <<>> THEN Last(p.comps)
  ELSE IF path_isabs(p) THEN "/"
  ELSE Dot

\* A seeded fault: a ".." is skipped like a ".".
Normalized_skipping(abs, ret, token) ==
  IF token \in {Dot, DotDot} THEN ret
  ELSE IF ret = NULL THEN PathOf(abs, <<token>>, FALSE)
  ELSE path_join2(ret, Plain(token))

\* A pass of the loop of path_normpath; ret is NULL until a component counts.
Normalized(abs, ret, token) ==
  IF token = DotDot
    THEN IF ret # NULL THEN path_dirname(ret)
         ELSE IF abs THEN RootPath
         ELSE Plain(DotDot)
  ELSE IF token = Dot THEN ret
  ELSE IF ret = NULL THEN PathOf(abs, <<token>>, FALSE)
  ELSE path_join2(ret, Plain(token))

path_normpath(p) ==
  LET step(ret, token) == Normalized(path_isabs(p), ret, token)
      norm == FoldLeft(step, NULL, p.comps)
  IN  IF norm # NULL THEN norm
      ELSE IF path_isabs(p) THEN RootPath
      ELSE Plain(Dot)

path_abspath(cwd, p) == path_normpath(path_join2(cwd, p))

\* is_path of directory.c: more than one bare component.
is_path(p) == path_isvalid(p) /\ (p.abs \/ p.slash \/ Len(p.comps) > 1)
=============================================================================
