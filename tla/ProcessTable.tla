---------------------------- MODULE ProcessTable ----------------------------
(***************************************************************************)
(* The process table of kernel/kernel.c, shared by the two schedulers the  *)
(* kernel can be built with (scheduler_type in kernel/kernel.h).           *)
(*                                                                         *)
(* A slot i is occupied when pcb[i].pid # -1; fork stores pid = i, so a    *)
(* pid and its slot are the same number.  ctx is the trap frame on the SVC *)
(* or IRQ stack, the registers the processor reloads when the handler      *)
(* returns (kernel/interrupt.s), and saved[i] is pcb[i].ctx.  Of a context *)
(* the model keeps the program it executes and r0, the register in which   *)
(* a system call takes and leaves its values.                              *)
(*                                                                         *)
(* SVC and IRQ exceptions are taken with interrupts masked and the         *)
(* handlers never unmask them, so every handler is one atomic step.        *)
(*                                                                         *)
(* Memory in front of the table (pcb[-1], which exit writes because it has *)
(* already set the pid to -1) is assumed to hold no kernel state.          *)
(***************************************************************************)
EXTENDS FiniteSets, ActiveStack   (* MaxProcs is the number of slots of pcb *)

CONSTANTS
  Boot,       (* slots occupied at reset: {0} for stage 1, 0..2 for stage 0 *)
  Programs,   (* what a process can execute: shell, P0 ... T3               *)
  Entry,      (* the program each boot slot starts in                       *)
  None,       (* the program of an all-zero context                         *)
  RegValues,  (* values a user instruction may leave in r0 (bounds the model) *)
  ShellPriority,   (* 5, the priority of process 0 in stage 1               *)
  ExecPriorities   (* what exec and execp may ask for; exec asks for 6      *)

ASSUME BootAssumption == /\ Boot \in SUBSET (0 .. MaxProcs - 1)
                         /\ \E n \in 1 .. MaxProcs : Boot = 0 .. n - 1
ASSUME ProgramsAssumption == /\ None \notin Programs
                             /\ Entry \in [Boot -> Programs]
ASSUME RegValuesAssumption == RegValues \subseteq (-1 .. MaxProcs - 1)
ASSUME PrioritiesAssumption == /\ ShellPriority \in 0 .. LowestPriority
                               /\ ExecPriorities \in SUBSET Priorities

VARIABLES
  live,         (* slots whose pid is not -1                                *)
  current,      (* the slot the pointer current designates                  *)
  noProcesses,  (* the kernel's count of processes                          *)
  ctx,          (* the context the processor resumes                        *)
  saved,        (* pcb[i].ctx                                               *)
  fault         (* the kernel has failed: it has accessed memory outside    *)
                (* its own tables, or loops with interrupts masked for ever *)

tableVars == <<live, current, noProcesses, ctx, saved, fault>>

Slots == 0 .. MaxProcs - 1
Contexts == [pc : Programs, r0 : -1 .. MaxProcs - 1]

(* A handler fails: the state is left as the handler found it, and nothing *)
(* follows.                                                                *)
Fails == fault' = TRUE /\ UNCHANGED <<live, current, noProcesses, ctx, saved>>

(* A context cleared by memset.                                            *)
Blank == [pc |-> None, r0 |-> 0]

TableTypeOK ==
  /\ live \in SUBSET Slots
  /\ current \in Slots
  /\ noProcesses \in Int
  /\ ctx \in Contexts
  /\ saved \in [Slots -> Contexts \cup {Blank}]
  /\ fault \in BOOLEAN

-----------------------------------------------------------------------------
(* kernel_handler_rst, for the stage the kernel is built for.              *)
TableInit ==
  /\ live = Boot
  /\ current = 0
  /\ noProcesses = Cardinality(Boot)
  /\ saved = [p \in Slots |-> IF p \in Boot THEN [pc |-> Entry[p], r0 |-> 0]
                                            ELSE Blank]
  /\ ctx = saved[0]
  /\ fault = FALSE

(* The context switch in the reverse order: the incoming context is loaded *)
(* first and then saved over the outgoing one.                             *)
SwitchTo_LoadFirst(next) ==
  /\ ctx' = saved[next]
  /\ saved' = [saved EXCEPT ![current] = ctx']
  /\ current' = next

(* The end of schedulerRR and of scheduler2: save, load, move current.     *)
SwitchTo(next) ==
  /\ saved' = [saved EXCEPT ![current] = ctx]
  /\ ctx' = saved'[next]
  /\ current' = next

(* The switch after exit_kernel resuming the PCB that was just cleared.    *)
AbandonFor_Cleared(next) ==
  /\ saved' = [saved EXCEPT ![current] = Blank]
  /\ ctx' = saved'[current]
  /\ current' = next

(* The same switch after exit_kernel: the slot has been cleared and the    *)
(* outgoing context goes to pcb[-1], outside the table.                    *)
AbandonFor(next) ==
  /\ saved' = [saved EXCEPT ![current] = Blank]
  /\ ctx' = saved'[next]
  /\ current' = next

(* exit_kernel forgetting to count the process out.                        *)
exit_kernel_NoCount == live' = live \ {current} /\ UNCHANGED noProcesses

(* exit_kernel: the slot becomes free and the process is counted out.      *)
exit_kernel == live' = live \ {current} /\ noProcesses' = noProcesses - 1

(* fork's search: the first slot that is free.                             *)
FirstFree(place) == /\ place \in Slots \ live
                    /\ \A q \in Slots \ live : place <= q

(* fork without the copy of the trap frame into the child's PCB.           *)
ForkInto_NoContext(place) ==
  /\ live' = live \cup {place}
  /\ noProcesses' = noProcesses + 1
  /\ ctx' = [ctx EXCEPT !.r0 = place]
  /\ UNCHANGED <<current, saved>>

(* fork handing the child its parent's r0.                                 *)
ForkInto_SameResult(place) ==
  /\ live' = live \cup {place}
  /\ noProcesses' = noProcesses + 1
  /\ saved' = [saved EXCEPT ![place] = ctx]
  /\ ctx' = [ctx EXCEPT !.r0 = place]
  /\ UNCHANGED current

(* fork once it has a slot: the child starts from the caller's trap frame, *)
(* with 0 in r0 where the caller gets the child's pid.                     *)
ForkInto(place) ==
  /\ live' = live \cup {place}
  /\ noProcesses' = noProcesses + 1
  /\ saved' = [saved EXCEPT ![place] = [ctx EXCEPT !.r0 = 0]]
  /\ ctx' = [ctx EXCEPT !.r0 = place]
  /\ UNCHANGED current

(* fork on a full table: the search runs past the end of pcb, over memory  *)
(* whose content the build decides.  It may meet a -1 beyond index         *)
(* maxProcesses and refuse (the caller gets -1) ...                        *)
ForkRefused ==
  /\ live = Slots
  /\ ctx' = [ctx EXCEPT !.r0 = -1]
  /\ UNCHANGED <<live, current, noProcesses, saved, fault>>

(* ... or at index maxProcesses itself, which the test accepts: the child  *)
(* is then built outside the table.                                        *)
ForkPastTable == live = Slots /\ Fails

(* A user instruction of the running process.                              *)
Compute(v) ==
  /\ ctx' = [ctx EXCEPT !.r0 = v]
  /\ UNCHANGED <<live, current, noProcesses, saved, fault>>

(* execpn's effect on the context.  The cpsr and sp it also writes go to   *)
(* current->ctx, which the next switch overwrites.                         *)
Load(prog) ==
  /\ ctx' = [ctx EXCEPT !.pc = prog]
  /\ UNCHANGED <<live, current, noProcesses, saved, fault>>

(* What each process would see of its own registers on a machine of its    *)
(* own: the trap frame while it runs, the PCB while it does not.           *)
View == [p \in Slots |-> IF p = current THEN ctx ELSE saved[p]]

VCPU == INSTANCE VirtualCPU WITH view <- View

(* Time sharing is transparent: seen through View, every step of the       *)
(* kernel is a step of one process on a processor of its own, or nothing.  *)
TimeSharingIsTransparent == VCPU!Spec

(* Whatever the scheduler can pick has a complete context to resume from:  *)
(* every process that is not running has one in its PCB, and a slot that   *)
(* is free has none left over from its last process.                       *)
SlotsHoldContexts == \A p \in Slots :
  IF p \in live THEN p = current \/ saved[p] \in Contexts ELSE saved[p] = Blank

(* The scheduler's searches stay inside the table: the process that runs   *)
(* and process 0, where they restart, occupy their slots, and noProcesses  *)
(* is the number of occupied slots.                                        *)
TableConsistent ==
  /\ 0 \in live
  /\ current \in live
  /\ noProcesses = Cardinality(live)
=============================================================================
