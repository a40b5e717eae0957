------------------------------ MODULE BlockStore ------------------------------
(***************************************************************************)
(* What device/disk.h promises: blocks that are read and written one       *)
(* request at a time.  A request takes effect between its call and its     *)
(* return or not at all; its caller is not told which.                     *)
(***************************************************************************)
EXTENDS Integers, Sequences

CONSTANTS
  BlockNum, BlockLen,   (* the blocks of the disk, and the bytes of one     *)
  Requests,             (* [kind |-> "rd", "wr" or "conf", a |-> address,   *)
                        (* x |-> the bytes to write]                        *)
  Idle                  (* no request                                       *)

VARIABLES
  image,    (* the bytes of the disk                                        *)
  call,     (* the request under way                                        *)
  buffer    (* what the request has brought its caller, << >> if nothing    *)

vars == <<image, call, buffer>>

Content(a) == [i \in 1 .. BlockLen |-> image[a * BlockLen + i - 1]]

Written(a, x) == [b \in DOMAIN image |->
  IF b - a * BlockLen + 1 \in DOMAIN x THEN x[b - a * BlockLen + 1] ELSE image[b]]

Init == call = Idle /\ buffer = << >> /\ image \in [0 .. BlockNum * BlockLen - 1 -> {0}]

Ask == call = Idle /\ call' \in Requests /\ buffer' = << >> /\ UNCHANGED image

Store ==
  /\ call # Idle /\ call.kind = "wr" /\ call.a < BlockNum
  /\ image' = Written(call.a, call.x)
  /\ UNCHANGED <<call, buffer>>

Return ==
  /\ call # Idle /\ call' = Idle /\ UNCHANGED image
  /\ \/ UNCHANGED buffer
     \/ call.kind = "rd" /\ call.a < BlockNum /\ buffer' = Content(call.a)
     \/ call.kind = "conf" /\ buffer' = <<BlockNum, BlockLen>>

Spec == Init /\ [][Ask \/ Store \/ Return]_vars
=============================================================================
