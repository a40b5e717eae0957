-------------------------- MODULE PriorityScheduler --------------------------
(***************************************************************************)
(* The kernel built with scheduler_type 2 (and stage 1): each process has  *)
(* a priority, a small number being urgent, waits in the heap activeStack, *)
(* and gains urgency while it waits.                                       *)
(*                                                                         *)
(* scheduler2 runs after exit with the pid already -1, and tests           *)
(* pcb[-1].status: the memory in front of the table is assumed not to read *)
(* as SCHEDULED or ACTIVE.                                                 *)
(***************************************************************************)
EXTENDS ProcessTable

CONSTANT MaxLive   (* bound: fork is called below this many processes      *)

ASSUME SchedulerAssumption == Boot = {0}

VARIABLES
  status,     (* pcb[i].status                                              *)
  priority,   (* pcb[i].priority                                            *)
  active      (* activeStack and activeBos                                  *)

vars == <<tableVars, status, priority, active>>

TypeOK ==
  /\ TableTypeOK
  /\ status \in [Slots -> {"DEAD", "ACTIVE", "SCHEDULED"}]
  /\ priority \in [Slots -> Priorities]
  /\ active \in Queues

(* Process 0 runs and is in the heap as well, until it is first switched.  *)
Init ==
  /\ TableInit
  /\ status = [p \in Slots |-> IF p = 0 THEN "ACTIVE" ELSE "DEAD"]
  /\ priority = [p \in Slots |-> IF p = 0 THEN ShellPriority ELSE 0]
  /\ active = insert(Empty, 0, ShellPriority)

-----------------------------------------------------------------------------
(* pop_min finds a process and stays inside the array.                     *)
Serves(q, st) == /\ q.bos > 0
                 /\ q.stack[1].pid \in Slots
                 /\ st[q.stack[1].pid] = "ACTIVE"
                 /\ ~ Sunk(q).beyond

(* scheduler2 once the queue q and the statuses st are brought up to date: *)
(* the root of the heap runs next.                                         *)
scheduler2(q, st, next) ==
  /\ Serves(q, st)
  /\ next = q.stack[1].pid
  /\ active' = pop_min(q)
  /\ status' = [st EXCEPT ![next] = "SCHEDULED"]
  /\ UNCHANGED fault

(* pop_min has read past the array, or returned -1 or -2, an index in      *)
(* front of the table, and the context is taken from there.                *)
scheduler2Strays(q, st) == ~ Serves(q, st) /\ Fails /\ UNCHANGED <<status, priority, active>>

(* The process that runs put back in line without being marked ACTIVE.     *)
RequeuedStatus_Unmarked == status

(* The queue and the statuses once the process that runs is back in line.  *)
RequeuedStatus == [status EXCEPT ![current] = "ACTIVE"]
Requeued ==
  LET aged == newPriority(active, current)
  IN  IF status[current] = "SCHEDULED" THEN insert(aged, current, priority[current])
                                       ELSE aged

(* ... unless putting it back never ends: an old entry of it is still      *)
(* there, which takes a number that has wrapped.                           *)
RequeueFails == /\ status[current] = "SCHEDULED"
                /\ InsertFails(newPriority(active, current), current, priority[current])

-----------------------------------------------------------------------------
(* A user instruction.                                                     *)
Run == /\ ~ fault
       /\ \E v \in RegValues : Compute(v)
       /\ UNCHANGED <<status, priority, active>>

(* The scheduler called for a process that stays runnable.                 *)
Reschedule ==
  /\ ~ fault
  /\ IF RequeueFails THEN Fails /\ UNCHANGED <<status, priority, active>>
     ELSE \/ /\ \E next \in Slots : scheduler2(Requeued, RequeuedStatus, next) /\ SwitchTo(next)
             /\ UNCHANGED <<live, noProcesses, priority>>
          \/ scheduler2Strays(Requeued, RequeuedStatus)

(* svc 0x00, yield().                                                      *)
Yield == Reschedule

(* kernel_handler_irq for the timer.                                       *)
Tick == Reschedule

(* The child of the process that runs has its priority, and waits.         *)
Joins(place) ==
  /\ ForkInto(place)
  /\ priority' = [priority EXCEPT ![place] = priority[current]]
  /\ IF status[place] = "ACTIVE" THEN UNCHANGED <<status, active>>
     ELSE /\ status' = [status EXCEPT ![place] = "ACTIVE"]
          /\ active' = insert(active, place, priority[current])

(* svc 0x03, fork(), with a slot free.                                     *)
Fork ==
  /\ ~ fault /\ Cardinality(live) < MaxLive
  /\ \E place \in Slots :
       /\ FirstFree(place)
       /\ IF status[place] # "ACTIVE" /\ InsertFails(active, place, priority[current])
          THEN Fails /\ UNCHANGED <<status, priority, active>>
          ELSE Joins(place) /\ UNCHANGED fault

(* fork() with the table full.                                             *)
ForkTableFull ==
  /\ ~ fault
  /\ ForkRefused \/ ForkPastTable
  /\ UNCHANGED <<status, priority, active>>

(* svc 0x04, exit().  Process 0, the shell, never exits.                   *)
Exit ==
  /\ ~ fault
  /\ current # 0
  /\ LET st == [status EXCEPT ![current] = "DEAD"]
         q  == newPriority(active, -1)
     IN  \/ /\ exit_kernel
            /\ priority' = [priority EXCEPT ![current] = 0]
            /\ \E next \in Slots : scheduler2(q, st, next) /\ AbandonFor(next)
         \/ scheduler2Strays(q, st)

(* svc 0x05, 0x09 and 0x17: exec() asks for def_priority, execp() for any. *)
Exec ==
  /\ ~ fault
  /\ current # 0
  /\ \E prog \in Programs : Load(prog)
  /\ \E prio \in ExecPriorities : priority' = [priority EXCEPT ![current] = prio]
  /\ UNCHANGED <<status, active>>

Next == Run \/ Yield \/ Tick \/ Fork \/ ForkTableFull \/ Exit \/ Exec

Spec == Init /\ [][Next]_vars

(* The timer is periodic (TIMER0 in kernel_handler_rst): ticks keep coming.*)
FairSpec == Spec /\ WF_vars(Tick)

-----------------------------------------------------------------------------
(* Process 0 before the first switch: running, and still in the heap.      *)
Booting == current = 0 /\ status[0] = "ACTIVE"

Number(p) == CHOOSE n \in Priorities :
  \E i \in 1 .. active.bos : active.stack[i] = [pid |-> p, priority |-> n]

(* The heap and the process table agree: every process but the one that    *)
(* runs is queued exactly once, is ACTIVE, and nothing else is queued.     *)
QueueMatchesTable ==
  /\ Queued(active) = {p \in Slots : status[p] = "ACTIVE"}
  /\ Cardinality(Queued(active)) = active.bos
  /\ live = Queued(active) \cup {current}
  /\ current \in Queued(active) => Booting

(* Aging never breaks the heap order: no entry is more urgent than its     *)
(* parent.                                                                 *)
HeapOrdered == \A i \in 2 .. active.bos :
  active.stack[i \div 2].priority <= active.stack[i].priority

(* The number with which the process about to run was chosen: its own if   *)
(* it keeps the processor, its entry's, aged once more, if it waited.      *)
ChosenNumber == IF current' # current THEN Number(current') - 1
                ELSE IF priority[current] <= LowestPriority THEN priority[current]
                ELSE LowestPriority

(* The scheduler runs the most urgent process: nobody is left waiting with *)
(* a smaller number than the chosen one had.  Only the first call after    *)
(* reset may keep process 0 over a child that has aged.                    *)
DispatchesMostUrgent ==
  [][(Reschedule \/ Exit) /\ ~ fault' /\ ~ Booting =>
       \A p \in Queued(active') : ChosenNumber <= Number(p)']_vars

(* While it waits a process only becomes more urgent (kernel/kernel.c,     *)
(* newPriority: "the priority of the other processes increases by 1").     *)
WaitingGainsUrgency ==
  [][\A p \in Queued(active) \cap Queued(active') : Number(p)' <= Number(p)]_vars

(* Aging prevents starvation: every process runs again, whatever the       *)
(* others are, however often they fork, exec and exit.                     *)
EveryProcessIsServed == \A p \in Slots :
  p \in live ~> (current = p \/ p \notin live \/ fault)

(* The scheduler stays inside activeStack while the table is less than     *)
(* half full.  (While no number has aged below zero: one that has wrapped  *)
(* sinks below the unused entries, and their children are read sooner.)    *)
StraysOnlyWhenHalfFull == fault => 2 * Cardinality(live) >= MaxProcs
=============================================================================
