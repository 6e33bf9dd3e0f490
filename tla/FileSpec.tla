------------------------------ MODULE FileSpec ------------------------------
(***************************************************************************)
(* What inode.c promises its clients: a file is a sequence of bytes.  A    *)
(* write puts its bytes at its offset and first extends the file with      *)
(* zeros if it must, no operation on one file changes another, and a       *)
(* restart of the machine loses nothing but the files that had no name any *)
(* more.  A file is followed up to its first Limit bytes, the part its     *)
(* first inode describes.                                                  *)
(***************************************************************************)
EXTENDS Integers, Sequences, FiniteSetsExt

CONSTANTS Inums, Bytes, Limit, MaxLength, MaxSize

VARIABLES
  contents,   \* the bytes of every file that exists
  named       \* the files a directory lists

Zeros(n) == [i \in 1 .. n |-> 0]

Visible(len) == Min({len, Limit})

Extended(s, len) ==
  IF Visible(len) > Len(s) THEN s \o Zeros(Visible(len) - Len(s)) ELSE s

Overwritten(s, off, buf) ==
  [i \in 1 .. Len(s) |->
     IF i \in off + 1 .. off + Len(buf) THEN buf[i - off] ELSE s[i]]

Buffers == UNION {[1 .. n -> Bytes] : n \in 0 .. MaxSize}

Init == contents = <<>> /\ named = {}

Create(f) ==
  /\ f \notin DOMAIN contents
  /\ named' = named \cup {f}
  /\ \E len \in 0 .. MaxLength :
       contents' = [g \in DOMAIN contents \cup {f} |->
                      IF g = f THEN Zeros(Visible(len)) ELSE contents[g]]

\* n bytes of buf are written, all of them unless memory runs out.
Write(f) ==
  /\ f \in DOMAIN contents
  /\ \E buf \in Buffers, off \in 0 .. MaxLength :
       \E n \in 0 .. Len(buf) :
         contents' = [contents EXCEPT ![f] =
           Overwritten(Extended(@, off + Len(buf)), off, SubSeq(buf, 1, n))]
  /\ UNCHANGED named

\* Denied, or no room: nothing was written.  A file that was to grow past
\* Limit may have grown up to it.
WriteFails(f) ==
  /\ f \in DOMAIN contents
  /\ \/ UNCHANGED contents
     \/ contents' = [contents EXCEPT ![f] = Extended(@, Limit)]
  /\ UNCHANGED named

\* A file loses its name; files without a name go when they are closed, or
\* when the machine restarts, and no other file ever goes.
RemoveOrLose ==
  /\ named' \subseteq named
  /\ DOMAIN contents' \subseteq DOMAIN contents
  /\ named' \subseteq DOMAIN contents'
  /\ \A f \in DOMAIN contents' : contents'[f] = contents[f]

Next ==
  \/ \E f \in Inums : Create(f) \/ Write(f) \/ WriteFails(f)
  \/ RemoveOrLose

Spec == Init /\ [][Next]_<<contents, named>>
=============================================================================
