-------------------------- MODULE RoundRobinProofs --------------------------
(***************************************************************************)
(* Proofs about RoundRobin for every table size, boot configuration, set   *)
(* of programs and of priorities: the table stays consistent, time sharing *)
(* is transparent to the processes, and as long as insert returns it has   *)
(* stayed within activeStack.                                              *)
(***************************************************************************)
EXTENDS RoundRobin, ProcessTableProofs

(* What RoundRobin adds to a sound table.                                  *)
HeapTypeOK ==
  /\ status \in [Slots -> {"DEAD", "ACTIVE"}]
  /\ priority \in [Slots -> Priorities]
  /\ active \in Queues

-----------------------------------------------------------------------------
(* The invariant holds at reset.                                           *)
LEMMA InitIInv == Init => IInv
<1> SUFFICES ASSUME Init PROVE IInv
  OBVIOUS
<1>1. TableSound
  BY ResetSound DEF Init
<1>2. ShellPriority \in Priorities /\ 0 \in Priorities
  BY PrioritiesAssumption, NumbersAssumption DEF Priorities
<1>3. 0 \in Slots
  BY BootHasZero
<1>4. insert(Empty, 0, ShellPriority) \in Queues
  <2>1. Empty \in Queues /\ Empty.bos < MaxProcs
    BY EmptyType, MaxProcsAssumption DEF Empty
  <2>2. QED  BY <1>2, <1>3, <2>1, InsertType
<1>5. HeapTypeOK
  BY <1>2, <1>4, EmptyType DEF Init, HeapTypeOK
<1>6. QED  BY <1>1, <1>5 DEF IInv, TypeOK, TableSound, HeapTypeOK

(* fork with an entry of activeStack left.                                 *)
LEMMA JoinsTyped ==
  ASSUME HeapTypeOK, current \in Slots, NEW place \in Slots, Joins(place),
         status[place] # "ACTIVE" => ~ InsertFails(active, place, priority[current])
  PROVE  HeapTypeOK'
<1>1. priority[current] \in Priorities
  BY DEF HeapTypeOK
<1>2. priority' \in [Slots -> Priorities]
  BY <1>1 DEF HeapTypeOK, Joins
<1>3. CASE status[place] = "ACTIVE"
  BY <1>2, <1>3 DEF HeapTypeOK, Joins
<1>4. CASE status[place] # "ACTIVE"
  <2>1. active.bos < MaxProcs
    <3>1. active.bos \in 0 .. MaxProcs
      BY DEF HeapTypeOK, Queues, Places
    <3>2. active.bos # MaxProcs
      BY <1>4 DEF InsertFails
    <3>3. QED  BY <3>1, <3>2, MaxProcsAssumption
  <2>2. active' \in Queues
    BY <1>1, <1>4, <2>1, InsertType DEF HeapTypeOK, Joins
  <2>3. status' \in [Slots -> {"DEAD", "ACTIVE"}]
    BY <1>4 DEF HeapTypeOK, Joins
  <2>4. QED  BY <1>2, <2>2, <2>3 DEF HeapTypeOK
<1>5. QED  BY <1>3, <1>4

(* Every step of the kernel keeps the invariant and is a step of one       *)
(* process's own processor, or leaves every process's registers as they    *)
(* are.                                                                    *)
LEMMA StepSound == IInv /\ [Next]_vars => IInv' /\ [VCPU!Next]_View
<1> SUFFICES ASSUME TableSound, HeapTypeOK, [Next]_vars
             PROVE  TableSound' /\ HeapTypeOK' /\ [VCPU!Next]_View
  BY DEF IInv, TypeOK, TableSound, HeapTypeOK
<1>h. UNCHANGED heapVars => HeapTypeOK'
  BY DEF heapVars, HeapTypeOK
<1>1. CASE Run
  BY <1>1, <1>h, ComputeStep DEF Run
<1>2. CASE Reschedule
  <2>1. PICK next \in Slots : schedulerRR(current, next) /\ SwitchTo(next)
    BY <1>2 DEF Reschedule
  <2>2. next \in live /\ UNCHANGED <<live, noProcesses, fault>> /\ UNCHANGED heapVars
    BY <1>2, <2>1 DEF Reschedule, schedulerRR
  <2>3. QED  BY <1>h, <2>1, <2>2, SwitchStep
<1>3. CASE Fork
  <2>1. PICK place \in Slots :
          /\ FirstFree(place)
          /\ IF status[place] # "ACTIVE" /\ InsertFails(active, place, priority[current])
             THEN Fails /\ UNCHANGED heapVars
             ELSE Joins(place) /\ UNCHANGED fault
    BY <1>3 DEF Fork
  <2>2. CASE Fails /\ UNCHANGED heapVars
    BY <1>h, <2>2, FailStep
  <2>3. CASE /\ Joins(place) /\ UNCHANGED fault
             /\ status[place] # "ACTIVE" => ~ InsertFails(active, place, priority[current])
    <3>1. current \in Slots /\ fault' \in BOOLEAN
      BY <2>3 DEF TableSound, TableTypeOK
    <3>2. HeapTypeOK'
      BY <2>3, <3>1, JoinsTyped
    <3>3. QED  BY <2>1, <2>3, <3>1, <3>2, ForkStep DEF Joins
  <2>4. QED  BY <2>1, <2>2, <2>3
<1>4. CASE ForkTableFull
  BY <1>4, <1>h, ForkFullStep DEF ForkTableFull
<1>5. CASE Exit
  <2>1. PICK next \in Slots : schedulerRR(-1, next)' /\ AbandonFor(next)
    BY <1>5 DEF Exit
  <2>2. /\ current # 0 /\ exit_kernel /\ UNCHANGED <<fault, active>>
        /\ status' = [status EXCEPT ![current] = "DEAD"]
        /\ priority' = [priority EXCEPT ![current] = 0]
    BY <1>5 DEF Exit
  <2>3. next \in live /\ next # current
    BY <2>1, <2>2 DEF schedulerRR, exit_kernel
  <2>4. HeapTypeOK'
    <3>1. 0 \in Priorities
      BY NumbersAssumption DEF Priorities
    <3>2. QED  BY <2>2, <3>1 DEF HeapTypeOK
  <2>5. QED  BY <2>1, <2>2, <2>3, <2>4, ExitStep
<1>6. CASE Exec
  <2>1. PICK prog \in Programs : Load(prog)
    BY <1>6 DEF Exec
  <2>2. PICK prio \in ExecPriorities : priority' = [priority EXCEPT ![current] = prio]
    BY <1>6 DEF Exec
  <2>3. HeapTypeOK'
    BY <1>6, <2>2, PrioritiesAssumption DEF Exec, HeapTypeOK
  <2>4. QED  BY <2>1, <2>3, LoadStep
<1>7. CASE UNCHANGED vars
  BY <1>7, <1>h DEF vars, tableVars, View,
                    TableSound, TableTypeOK, TableConsistent, SlotsHoldContexts
<1>8. QED
  BY <1>1, <1>2, <1>3, <1>4, <1>5, <1>6, <1>7 DEF Next, Yield, Tick

(* The inductive invariant holds in every reachable state.                 *)
THEOREM Invariance == Spec => []IInv
<1>1. IInv /\ [Next]_vars => IInv'
  BY StepSound
<1>2. QED  BY <1>1, InitIInv, PTL DEF Spec

(* Type correctness of the round-robin kernel: activeStack, which only     *)
(* grows there, included.                                                  *)
THEOREM TypeCorrect == Spec => []TypeOK
<1>1. IInv => TypeOK
  BY DEF IInv
<1>2. QED  BY <1>1, Invariance, PTL

(* The searches of schedulerRR and fork never run off an inconsistent      *)
(* table: see TableConsistent.                                             *)
THEOREM Consistency == Spec => []TableConsistent
<1>1. IInv => TableConsistent
  BY DEF IInv
<1>2. QED  BY <1>1, Invariance, PTL

(* schedulerRR never resumes a context that was not saved: see             *)
(* SlotsHoldContexts.                                                      *)
THEOREM ContextsAreComplete == Spec => []SlotsHoldContexts
<1>1. IInv => SlotsHoldContexts
  BY DEF IInv
<1>2. QED  BY <1>1, Invariance, PTL

(* The round-robin kernel implements one processor per process: see        *)
(* TimeSharingIsTransparent.                                               *)
THEOREM TimeSharing == Spec => TimeSharingIsTransparent
<1>1. Spec => []IInv
  BY Invariance
<1>2. Init => VCPU!Init
  BY ResetSound DEF Init
<1>3. IInv /\ [Next]_vars => [VCPU!Next]_View
  BY StepSound
<1>4. Init /\ [][Next]_vars /\ []IInv => VCPU!Init /\ [][VCPU!Next]_View
  BY <1>2, <1>3, PTL
<1>5. QED  BY <1>1, <1>4 DEF Spec, TimeSharingIsTransparent, VCPU!Spec
=============================================================================
