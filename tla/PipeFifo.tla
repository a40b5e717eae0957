------------------------------ MODULE PipeFifo ------------------------------
(***************************************************************************)
(* What a pipe promises its users: the bytes written to it, in order.      *)
(***************************************************************************)
EXTENDS Sequences, Integers

CONSTANTS
  Pipes,   (* the pipes                                                     *)
  Bytes    (* the bytes written to them                                     *)

VARIABLE queue  (* what each pipe holds                                     *)

Init == queue = [k \in Pipes |-> << >>]

Write(k) == \E b \in Bytes : queue' = [queue EXCEPT ![k] = Append(@, b)]

Read(k) == queue[k] # << >> /\ queue' = [queue EXCEPT ![k] = Tail(@)]

Discard(k) == queue' = [queue EXCEPT ![k] = << >>]

Next == \E k \in Pipes : Write(k) \/ Read(k) \/ Discard(k)

Spec == Init /\ [][Next]_queue
=============================================================================
