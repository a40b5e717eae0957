----------------------------- MODULE RoundRobin -----------------------------
(***************************************************************************)
(* The kernel built with scheduler_type 0: processes, the round-robin      *)
(* scheduler, the timer interrupt and the system calls that create, replace*)
(* and end processes.                                                      *)
(*                                                                         *)
(* fork also calls insert, which belongs to the other scheduler: it marks  *)
(* the child ACTIVE and gives it an entry of activeStack, which this build *)
(* never takes back.  A slot used again has two entries, and insert may    *)
(* then fail, as it does when the array is full.                           *)
(***************************************************************************)
EXTENDS ProcessTable

VARIABLES
  status,     (* pcb[i].status: DEAD, or ACTIVE once inserted               *)
  priority,   (* pcb[i].priority                                            *)
  active      (* activeStack and activeBos                                  *)

heapVars == <<status, priority, active>>
vars == <<tableVars, heapVars>>

(* The programs of stage 0 (P0, P1, P2) only compute and write: the calls  *)
(* that change the table are made in stage 1, by the shell and the         *)
(* programs it starts.                                                     *)
StageOne == Boot = {0}

TypeOK ==
  /\ TableTypeOK
  /\ status \in [Slots -> {"DEAD", "ACTIVE"}]
  /\ priority \in [Slots -> Priorities]
  /\ active \in Queues

(* Process 0 of stage 1 is inserted at reset; those of stage 0 are not.    *)
Init ==
  /\ TableInit
  /\ status = [p \in Slots |-> IF p = 0 /\ StageOne THEN "ACTIVE" ELSE "DEAD"]
  /\ priority = [p \in Slots |-> IF p = 0 /\ StageOne THEN ShellPriority ELSE 0]
  /\ active = IF StageOne THEN insert(Empty, 0, ShellPriority) ELSE Empty

-----------------------------------------------------------------------------
(* No occupied slot in first .. last.                                      *)
Vacant(first, last) == \A q \in live : q < first \/ q > last

(* schedulerRR without the second search, from slot 0.                     *)
schedulerRR_NoWrap(pid, next) ==
  /\ next \in live
  /\ \/ pid < next /\ next < noProcesses /\ Vacant(pid + 1, next - 1)
     \/ Vacant(pid + 1, noProcesses - 1) /\ next = pid

(* schedulerRR whose search starts two slots above the process that runs.  *)
schedulerRR_SkipOne(pid, next) ==
  /\ next \in live
  /\ \/ pid + 1 < next /\ next < noProcesses /\ Vacant(pid + 2, next - 1)
     \/ Vacant(pid + 2, noProcesses - 1) /\ Vacant(0, next - 1)

(* schedulerRR choosing next when the process that gives way has this pid, *)
(* -1 if it has just exited: the first occupied slot above pid and below   *)
(* noProcesses, and if there is none the first occupied slot from 0.       *)
schedulerRR(pid, next) ==
  /\ next \in live
  /\ \/ pid < next /\ next < noProcesses /\ Vacant(pid + 1, next - 1)
     \/ Vacant(pid + 1, noProcesses - 1) /\ Vacant(0, next - 1)

-----------------------------------------------------------------------------
(* A user instruction.                                                     *)
Run == ~ fault /\ UNCHANGED heapVars /\ \E v \in RegValues : Compute(v)

(* The scheduler called for a process that stays runnable.                 *)
Reschedule ==
  /\ ~ fault
  /\ \E next \in Slots : schedulerRR(current, next) /\ SwitchTo(next)
  /\ UNCHANGED <<live, noProcesses, fault, heapVars>>

(* svc 0x00, yield().                                                      *)
Yield == Reschedule

(* kernel_handler_irq for the timer.                                       *)
Tick == Reschedule

(* The child of the process that runs has its priority, and an entry of    *)
(* its own unless it is ACTIVE already.                                    *)
Joins(place) ==
  /\ ForkInto(place)
  /\ priority' = [priority EXCEPT ![place] = priority[current]]
  /\ IF status[place] = "ACTIVE" THEN UNCHANGED <<status, active>>
     ELSE /\ status' = [status EXCEPT ![place] = "ACTIVE"]
          /\ active' = insert(active, place, priority[current])

(* svc 0x03, fork(), with a slot free ...                                  *)
Fork ==
  /\ ~ fault /\ StageOne
  /\ \E place \in Slots :
       /\ FirstFree(place)
       /\ IF status[place] # "ACTIVE" /\ InsertFails(active, place, priority[current])
          THEN Fails /\ UNCHANGED heapVars
          ELSE Joins(place) /\ UNCHANGED fault

(* ... and with the table full.                                            *)
ForkTableFull ==
  /\ ~ fault /\ StageOne
  /\ ForkRefused \/ ForkPastTable
  /\ UNCHANGED heapVars

(* svc 0x04, exit(): the PCB is cleared and the scheduler runs with the    *)
(* pid already -1.  Process 0 never exits: it runs the shell's endless     *)
(* loop (stage 1) or P0's (stage 0).                                       *)
Exit ==
  /\ ~ fault /\ StageOne
  /\ current # 0
  /\ exit_kernel
  /\ status' = [status EXCEPT ![current] = "DEAD"]
  /\ priority' = [priority EXCEPT ![current] = 0]
  /\ \E next \in Slots : schedulerRR(-1, next)' /\ AbandonFor(next)
  /\ UNCHANGED <<fault, active>>

(* svc 0x05, 0x09 and 0x17, exec() and execp().  The shell execs only in   *)
(* the children it forks, so process 0 keeps its program.                  *)
Exec ==
  /\ ~ fault /\ StageOne
  /\ current # 0
  /\ \E prog \in Programs : Load(prog)
  /\ \E prio \in ExecPriorities : priority' = [priority EXCEPT ![current] = prio]
  /\ UNCHANGED <<status, active>>

Next == Run \/ Yield \/ Tick \/ Fork \/ ForkTableFull \/ Exit \/ Exec

Spec == Init /\ [][Next]_vars

(* The timer is periodic (TIMER0 in kernel_handler_rst): ticks keep coming.*)
FairSpec == Spec /\ WF_vars(Tick)

-----------------------------------------------------------------------------
(* The inductive invariant behind TypeOK and TableConsistent.              *)
IInv ==
  /\ TypeOK
  /\ TableConsistent
  /\ SlotsHoldContexts

(* The calls of fork the kernel does not survive: with the table full,     *)
(* with no entry of activeStack left, and into a slot whose last process   *)
(* had a greater number than the one that forks.                           *)
ForkFailed ==
  fault /\ \/ live = Slots
           \/ active.bos = MaxProcs
           \/ \E i \in 1 .. active.bos :
                FirstFree(active.stack[i].pid) /\ priority[current] < active.stack[i].priority

(* The interactive shell, process 0, always runs again, whatever is forked *)
(* and whatever exits: each turn of the scheduler comes back to slot 0.    *)
(* Only a fork that fails can keep it away, and fails in those cases only. *)
ShellAlwaysReturns == []<>(current = 0 \/ ForkFailed)

(* A process gets the processor as long as its slot stays below            *)
(* noProcesses, the part of the table schedulerRR searches upwards, and    *)
(* the kernel survives its forks.                                          *)
WindowIsServed == \A p \in Slots :
  p \in live ~> (current = p \/ p \notin live \/ p >= noProcesses \/ ForkFailed)

(* Round robin, as schedulerRR is announced: every process gets its turn.  *)
EveryProcessIsServed == \A p \in Slots :
  p \in live ~> (current = p \/ p \notin live \/ fault)
=============================================================================
