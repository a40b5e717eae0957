------------------------------- MODULE FileStore -------------------------------
(***************************************************************************)
(* What the file system promises (device/file.h, user/libc.h): a tree of   *)
(* directories and files.  A call changes the one path it is about; when   *)
(* the machine stops half way, it has happened, or not, or what a write    *)
(* has replaced within the file is torn.                                   *)
(***************************************************************************)
EXTENDS Integers, Sequences

CONSTANTS
  Paths,        (* sequences of names, << >> for the root                   *)
  Absent,       (* nothing at a path                                        *)
  Texts         (* what is written                                          *)

VARIABLE tree   (* [type, perm, bytes] at each path, or Absent              *)

Directory(q) == q \in Paths /\ tree[q] # Absent /\ tree[q].type = 1
Parent(q) == SubSeq(q, 1, Len(q) - 1)
Below(q, r) == Len(r) >= Len(q) /\ SubSeq(r, 1, Len(q)) = q

Overwritten(bytes, at, x) ==
  [i \in 1 .. (IF at + Len(x) > Len(bytes) THEN at + Len(x) ELSE Len(bytes)) |->
     IF i - at \in DOMAIN x THEN x[i - at] ELSE bytes[i]]

Init == tree = [q \in Paths |-> IF q = << >> THEN [type |-> 1, perm |-> 0, bytes |-> << >>]
                                ELSE Absent]

Create(q) == \E type, perm \in 0 .. 2 :
  /\ tree[q] = Absent /\ Directory(Parent(q))
  /\ tree' = [tree EXCEPT ![q] = [type |-> type, perm |-> perm, bytes |-> << >>]]

Write(q) == \E at \in 0 .. Len(tree[q].bytes), x \in Texts :
  /\ tree[q].type = 0
  /\ tree' = [tree EXCEPT ![q].bytes = Overwritten(@, at, x)]

Tear(q) == \E at \in 0 .. Len(tree[q].bytes), x \in Texts : \E n \in 0 .. Len(x) :
  /\ tree[q].type = 0
  /\ tree' = [tree EXCEPT ![q].bytes = SubSeq(Overwritten(@, at, SubSeq(x, 1, n)), 1, Len(@))]

Remove(q) == q # << >> /\ tree' = [r \in Paths |-> IF Below(q, r) THEN Absent ELSE tree[r]]

Change(q) == (tree[q] = Absent /\ Create(q))
             \/ (tree[q] # Absent /\ (Write(q) \/ Tear(q) \/ Remove(q)))

Next == \E q \in Paths : Change(q)

Spec == Init /\ [][Next]_tree
=============================================================================
