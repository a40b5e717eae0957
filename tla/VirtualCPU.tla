----------------------------- MODULE VirtualCPU -----------------------------
(***************************************************************************)
(* What the process abstraction promises: every process has registers of   *)
(* its own, which change only by its own instructions and system calls.    *)
(* There is no scheduler, no table search and no trap frame here.          *)
(***************************************************************************)
EXTENDS Integers

CONSTANTS
  MaxProcs,   (* the number of pids                                         *)
  Boot,       (* pids that exist at reset                                   *)
  Programs,   (* what a process can execute                                 *)
  Entry,      (* the program each boot process starts in                    *)
  None,       (* the program of a pid that is not in use                    *)
  RegValues   (* values a user instruction may leave in r0                  *)

VARIABLE view (* the registers of each pid                                  *)

Pids == 0 .. MaxProcs - 1
NoProcess == [pc |-> None, r0 |-> 0]
Exists(p) == view[p] # NoProcess

Init == view = [p \in Pids |-> IF p \in Boot THEN [pc |-> Entry[p], r0 |-> 0]
                                             ELSE NoProcess]

Step(p) == \E v \in RegValues :
  Exists(p) /\ view' = [view EXCEPT ![p] = [@ EXCEPT !.r0 = v]]

(* fork returns 0 to the child and the child's pid to the parent.          *)
Fork(p) == \E child \in Pids :
  /\ Exists(p) /\ ~ Exists(child)
  /\ view' = [view EXCEPT ![p] = [@ EXCEPT !.r0 = child],
                          ![child] = [view[p] EXCEPT !.r0 = 0]]

NoFork(p) == Exists(p) /\ view' = [view EXCEPT ![p] = [@ EXCEPT !.r0 = -1]]

Exec(p) == \E prog \in Programs :
  Exists(p) /\ view' = [view EXCEPT ![p] = [@ EXCEPT !.pc = prog]]

Exit(p) == Exists(p) /\ view' = [view EXCEPT ![p] = NoProcess]

Next == \E p \in Pids : Step(p) \/ Fork(p) \/ NoFork(p) \/ Exec(p) \/ Exit(p)

Spec == Init /\ [][Next]_view
=============================================================================
