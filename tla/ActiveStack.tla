----------------------------- MODULE ActiveStack -----------------------------
(***************************************************************************)
(* The binary heap activeStack of kernel/kernel.c, into which every fork   *)
(* puts the new process and from which scheduler2 takes the one to run, as *)
(* functions on queues.  A queue is the array with the index activeBos of  *)
(* its last entry in use: the root is entry 1, the children of i are 2i    *)
(* and 2i + 1.  Entries beyond bos keep what was last in them, and pop_min *)
(* reads them.                                                             *)
(*                                                                         *)
(* pcb[i].stackLocation is no state of its own: the only location ever     *)
(* read is the one insert has just assigned, and it follows the entry it   *)
(* moves, unless an older entry of the same process is in the way: see     *)
(* NeverSettles.                                                           *)
(***************************************************************************)
EXTENDS Integers

CONSTANTS
  MaxProcs,        (* the last index of the array                           *)
  LowestPriority,  (* lowestPriority, also the priority of an unused entry  *)
  PrioMod          (* 2^32 scaled down: priorities are uint32_t             *)

ASSUME MaxProcsAssumption == MaxProcs \in Nat \ {0}
ASSUME NumbersAssumption ==
  LowestPriority \in Nat /\ PrioMod \in Nat /\ 2 * LowestPriority < PrioMod

Places == 0 .. MaxProcs
Priorities == 0 .. PrioMod - 1
Entries == [pid : -1 .. MaxProcs - 1, priority : Priorities]
Stacks == [Places -> Entries]
Queues == [stack : Stacks, bos : Places]

(* initialiseStack.  Entry 0 is not initialised: it is zero from the start.*)
Empty == [stack |-> [i \in Places |-> IF i = 0 THEN [pid |-> 0, priority |-> 0]
                                      ELSE [pid |-> -1, priority |-> LowestPriority]],
          bos   |-> 0]

Queued(q) == {q.stack[i].pid : i \in 1 .. q.bos}

Swapped(s, i, j) == [s EXCEPT ![i] = s[j], ![j] = s[i]]

(* The loop of decreasePriority where it ends: entry i rises while its     *)
(* parent's number is greater.                                             *)
SiftUp[i \in Places] == [s \in Stacks |->
  IF i > 1 /\ s[i].priority < s[i \div 2].priority
  THEN SiftUp[i \div 2][Swapped(s, i, i \div 2)]
  ELSE s]

(* insert leaving the new entry at the bottom.                             *)
insert_NoSift(q, pid, priority) ==
  [stack |-> [q.stack EXCEPT ![q.bos + 1] =
                [pid |-> pid, priority |-> IF priority <= LowestPriority
                                           THEN priority ELSE LowestPriority]],
   bos |-> q.bos + 1]

(* insert, for a process that is not ACTIVE: a new last entry with the     *)
(* lowest priority, which decreasePriority then lowers to the one asked    *)
(* for.  A number above lowestPriority is not a decrease and is ignored.   *)
insert(q, pid, priority) ==
  LET last == q.bos + 1
      At(number) == [q.stack EXCEPT ![last] = [pid |-> pid, priority |-> number]]
  IN  [stack |-> IF priority <= LowestPriority THEN SiftUp[last][At(priority)]
                                               ELSE At(LowestPriority),
       bos   |-> last]

(* The entries above entry i.                                              *)
Ancestors(i) == {a \in 1 .. i - 1 : \E k \in 1 .. i : i \div 2^k = a}

(* Where the loop does not end.  At index l it doubles the stackLocation   *)
(* of the process in entry l / 2.  When that is an old entry of pid itself *)
(* it has doubled its own index: entry l is copied to 2l, in the array or  *)
(* beyond it, the index comes back to l, and the same happens again.       *)
NeverSettles(q, pid, priority) ==
  /\ priority <= LowestPriority
  /\ \E a \in Ancestors(q.bos + 1) :
       /\ q.stack[a].pid = pid
       /\ \A b \in Ancestors(q.bos + 1) : b >= a => priority < q.stack[b].priority

(* insert writes beyond the array, or never returns.                       *)
InsertFails(q, pid, priority) == q.bos = MaxProcs \/ NeverSettles(q, pid, priority)

(* newPriority raising the numbers instead of lowering them.               *)
newPriority_CountsUp(q, pid) ==
  [q EXCEPT !.stack = [i \in Places |->
     IF i \in 1 .. q.bos /\ q.stack[i].pid # pid
     THEN [q.stack[i] EXCEPT !.priority = (@ + 1) % PrioMod] ELSE q.stack[i]]]

(* newPriority: aging.  Every entry but that of pid counts down, in        *)
(* unsigned arithmetic.                                                    *)
newPriority(q, pid) ==
  [q EXCEPT !.stack = [i \in Places |->
     IF i \in 1 .. q.bos /\ q.stack[i].pid # pid
     THEN [q.stack[i] EXCEPT !.priority = (@ - 1) % PrioMod] ELSE q.stack[i]]]

(* The difference of two priorities, converted to int.                     *)
Diff(a, b) == LET d == (a - b) % PrioMod
              IN  IF 2 * d >= PrioMod THEN d - PrioMod ELSE d

(* Whether the test of pop_min's loop reads beyond the array at i.         *)
ReadsBeyond(q, i) ==
  \/ 2 * i > MaxProcs
  \/ 2 * i = MaxProcs /\ (i <= q.bos \/ q.stack[i].priority <= q.stack[2 * i].priority)

(* The child of i with the greater difference to it: the smaller number.   *)
LighterChild(s, i) ==
  IF Diff(s[i].priority, s[2 * i].priority) >= Diff(s[i].priority, s[2 * i + 1].priority)
  THEN 2 * i ELSE 2 * i + 1

(* The loop of pop_min: entry i sinks while a child's number is smaller.   *)
(* The index is tested against bos, its children are not.                  *)
SiftDown[i \in 1 .. 2 * MaxProcs + 1] == [q \in Queues |->
  IF ReadsBeyond(q, i) THEN [stack |-> q.stack, beyond |-> TRUE]
  ELSE IF i <= q.bos /\ \E c \in {2 * i, 2 * i + 1} : q.stack[i].priority > q.stack[c].priority
  THEN LET child == LighterChild(q.stack, i)
       IN  SiftDown[child][[q EXCEPT !.stack = Swapped(@, i, child)]]
  ELSE [stack |-> q.stack, beyond |-> FALSE]]

(* The last entry moves to the root and sinks; its old place is emptied.   *)
Sunk(q) == SiftDown[1][[q EXCEPT !.stack[1] = q.stack[q.bos]]]

(* pop_min that does not reset the entry it takes out of use.              *)
pop_min_NoReset(q) == [stack |-> Sunk(q).stack, bos |-> q.bos - 1]

(* What pop_min leaves in the queue; it returns the pid at the root.       *)
pop_min(q) ==
  [stack |-> [Sunk(q).stack EXCEPT ![q.bos].priority = LowestPriority],
   bos   |-> q.bos - 1]
=============================================================================
