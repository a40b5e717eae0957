-------------------------------- MODULE Keyboard --------------------------------
(***************************************************************************)
(* What reading STDIN promises (user/libc.h): the characters typed are     *)
(* read once, in the order in which they were typed, each by somebody.     *)
(***************************************************************************)
EXTENDS Integers, Sequences

CONSTANTS Characters, Shells

VARIABLES
  unread,   (* typed and not yet read                                       *)
  line      (* what each shell has read of a command line                   *)

Init == unread = << >> /\ line = [p \in Shells |-> << >>]

Type == unread' \in {Append(unread, c) : c \in Characters} /\ UNCHANGED line

(* A shell reads the oldest character, or another program some of them.    *)
Read(p) ==
  /\ unread # << >> /\ unread' = Tail(unread)
  /\ line' = [line EXCEPT ![p] = Append(@, Head(unread))]

Take == \E n \in 1 .. Len(unread) :
  unread' = SubSeq(unread, n + 1, Len(unread)) /\ UNCHANGED line

(* A shell is done with a line.                                            *)
Obey(p) == line' = [line EXCEPT ![p] = << >>] /\ UNCHANGED unread

Next == Type \/ Take \/ \E p \in Shells : Read(p) \/ Obey(p)

Spec == Init /\ [][Next]_<<unread, line>>
=============================================================================
