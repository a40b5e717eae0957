----------------------------- MODULE MCFileCalls -----------------------------
(* Constants of FileCalls for TLC.                                         *)
EXTENDS FileCalls

(* "d" is for directories, and opened as a file; "f" is opened to read and *)
(* write, or to read; "long" has a character too many for a name, and none *)
(* too many for a path but in a directory.                                 *)
NameLength(name) == IF name = "long" THEN 8 ELSE Len(name)
NamesFlags == [f \in Names |-> IF f = "f" THEN {0, 1} ELSE {0}]
Back == {-3}
AllTexts == {<<1, 2, 3>>, <<1, 2, 3, 1, 2>>}
CallsEachStart == <<5, 2>>

(* The shells run the same program, and none starts differently.           *)
Alike == Permutations(Shells)
=============================================================================
