-------------------------- MODULE ProcessTableProofs --------------------------
(***************************************************************************)
(* Lemmas about ProcessTable, for any scheduler on top of it: each part of *)
(* a handler keeps the table sound and, seen through View, is a step of    *)
(* one process on a processor of its own or nothing at all.  And about     *)
(* insert, which fork calls in both builds: it leaves an array of entries. *)
(***************************************************************************)
EXTENDS ProcessTable, FiniteSetTheorems, WellFoundedInduction, TLAPS

(* The table is sound: what the schedulers search, load and count is what  *)
(* they take it for.                                                       *)
TableSound == TableTypeOK /\ TableConsistent /\ SlotsHoldContexts

-----------------------------------------------------------------------------
(* Any set of slots is finite.                                             *)
LEMMA SlotsFinite ==
  ASSUME NEW S \in SUBSET Slots
  PROVE  IsFiniteSet(S) /\ Cardinality(S) \in Nat
<1>1. IsFiniteSet(Slots)
  BY FS_Interval, MaxProcsAssumption DEF Slots
<1>2. QED  BY <1>1, FS_Subset, FS_CardinalityType

(* Occupying a free slot adds one to the number of occupied slots.         *)
LEMMA OccupyCounts ==
  ASSUME NEW S \in SUBSET Slots, NEW p \in Slots \ S
  PROVE  Cardinality(S \cup {p}) = Cardinality(S) + 1
BY SlotsFinite, FS_AddElement

(* Freeing an occupied slot takes one from it.                             *)
LEMMA VacateCounts ==
  ASSUME NEW S \in SUBSET Slots, NEW p \in S
  PROVE  Cardinality(S \ {p}) = Cardinality(S) - 1
BY SlotsFinite, FS_RemoveElement

(* Slot 0 is in the table and is occupied at reset.                        *)
LEMMA BootHasZero == 0 \in Slots /\ 0 \in Boot /\ Boot \subseteq Slots
BY MaxProcsAssumption, BootAssumption DEF Slots

(* Leaving a result in r0 gives a context.                                 *)
LEMMA ResultIsContext ==
  ASSUME NEW c \in Contexts, NEW v \in -1 .. MaxProcs - 1
  PROVE  [c EXCEPT !.r0 = v] \in Contexts
<1>1. c \in [pc : Programs, r0 : -1 .. MaxProcs - 1]
  BY DEF Contexts
<1>2. QED  BY <1>1 DEF Contexts

-----------------------------------------------------------------------------
(* The least-number principle, by which every induction below is done.     *)
LEMMA Descent ==
  ASSUME NEW S \in SUBSET Nat, \A n \in S : \E m \in S : m < n
  PROVE  S = {}
<1> SUFFICES ASSUME S # {}  PROVE FALSE
  OBVIOUS
<1>1. IsWellFoundedOn(OpToRel(<, Nat), Nat)
  BY NatLessThanWellFounded
<1>2. PICK n \in S : \A m \in S : ~ (<<m, n>> \in OpToRel(<, Nat))
  BY <1>1, WFMin
<1>3. PICK m \in S : m < n
  OBVIOUS
<1>4. <<m, n>> \in Nat \X Nat /\ <<m, n>>[1] = m /\ <<m, n>>[2] = n
  OBVIOUS
<1>5. <<m, n>> \in OpToRel(<, Nat)
  BY <1>3, <1>4 DEF OpToRel
<1> QED BY <1>2, <1>5

LEMMA Halves ==
  ASSUME NEW j \in Nat, j >= 1
  PROVE  /\ j \div 2 \in Nat /\ j \div 2 < j
         /\ j = 2 * (j \div 2) \/ j = 2 * (j \div 2) + 1
         /\ j >= 2 => j \div 2 >= 1
OBVIOUS

(* SiftUp exists: tables of it up to n can be written down for every n.    *)
UpBody(f, i) == [s \in Stacks |->
  IF i > 1 /\ s[i].priority < s[i \div 2].priority
  THEN f[i \div 2][Swapped(s, i, i \div 2)]
  ELSE s]

LEMMA UpAgrees ==
  ASSUME NEW f, NEW g, NEW i, i > 1 => f[i \div 2] = g[i \div 2]
  PROVE  UpBody(f, i) = UpBody(g, i)
BY DEF UpBody

LEMMA UpTables ==
  ASSUME NEW n \in Nat
  PROVE  \E f : f = [i \in 0 .. n |-> UpBody(f, i)]
<1> DEFINE S == {m \in Nat : ~ \E f : f = [i \in 0 .. m |-> UpBody(f, i)]}
<1>1. ASSUME NEW m \in S  PROVE \E k \in S : k < m
  <2>1. CASE m = 0
    <3> DEFINE f == [i \in 0 .. 0 |-> UpBody(<< >>, i)]
    <3>1. \A i \in 0 .. 0 : f[i] = UpBody(f, i)
      <4> SUFFICES ASSUME NEW i \in 0 .. 0  PROVE f[i] = UpBody(f, i)
        OBVIOUS
      <4>1. f[i] = UpBody(<< >>, i)
        OBVIOUS
      <4>2. ~ (i > 1)
        OBVIOUS
      <4> HIDE DEF f
      <4>3. UpBody(<< >>, i) = UpBody(f, i)
        BY <4>2, UpAgrees
      <4> QED BY <4>1, <4>3
    <3>2. f = [i \in 0 .. 0 |-> f[i]]
      OBVIOUS
    <3> HIDE DEF f
    <3>3. f = [i \in 0 .. 0 |-> UpBody(f, i)]
      BY <3>1, <3>2
    <3> QED BY <2>1, <3>3
  <2>2. CASE m # 0
    <3>1. m - 1 \in Nat /\ m - 1 < m
      BY <2>2
    <3>2. CASE m - 1 \in S
      BY <3>1, <3>2
    <3>3. CASE m - 1 \notin S
      <4>1. PICK g : g = [i \in 0 .. m - 1 |-> UpBody(g, i)]
        BY <3>1, <3>3
      <4> DEFINE f == [i \in 0 .. m |-> UpBody(g, i)]
      <4>2. \A i \in 0 .. m - 1 : f[i] = g[i]
        <5>1. \A i \in 0 .. m - 1 : g[i] = UpBody(g, i)
          BY <4>1
        <5>2. \A i \in 0 .. m - 1 : i \in 0 .. m
          BY <3>1
        <5> QED BY <5>1, <5>2
      <4>3. \A i \in 0 .. m : f[i] = UpBody(f, i)
        <5> SUFFICES ASSUME NEW i \in 0 .. m  PROVE f[i] = UpBody(f, i)
          OBVIOUS
        <5>1. f[i] = UpBody(g, i)
          OBVIOUS
        <5>2. i > 1 => i \div 2 \in 0 .. m - 1
          BY Halves, <3>1
        <5> HIDE DEF f
        <5>3. i > 1 => f[i \div 2] = g[i \div 2]
          BY <4>2, <5>2
        <5>4. UpBody(f, i) = UpBody(g, i)
          BY <5>3, UpAgrees
        <5> QED BY <5>1, <5>4
      <4>4. f = [i \in 0 .. m |-> f[i]]
        OBVIOUS
      <4> HIDE DEF f
      <4>5. f = [i \in 0 .. m |-> UpBody(f, i)]
        BY <4>3, <4>4
      <4> QED BY <4>5
    <3> QED BY <3>2, <3>3
  <2> QED BY <2>1, <2>2
<1>2. S \in SUBSET Nat
  OBVIOUS
<1> HIDE DEF S
<1>3. S = {}
  BY <1>1, <1>2, Descent
<1> QED BY <1>3 DEF S

LEMMA SiftUpUnfolds ==
  ASSUME NEW i \in Places, NEW s \in Stacks
  PROVE  SiftUp[i][s] = IF i > 1 /\ s[i].priority < s[i \div 2].priority
                        THEN SiftUp[i \div 2][Swapped(s, i, i \div 2)] ELSE s
<1>1. SiftUp = CHOOSE f : f = [j \in Places |-> UpBody(f, j)]
  BY DEF SiftUp, UpBody
<1>2. \E f : f = [j \in Places |-> UpBody(f, j)]
  BY UpTables, MaxProcsAssumption DEF Places
<1>3. SiftUp = [j \in Places |-> UpBody(SiftUp, j)]
  BY <1>1, <1>2
<1>4. SiftUp[i] = UpBody(SiftUp, i)
  BY <1>3
<1> QED BY <1>4 DEF UpBody

(* Whatever the numbers are, insert leaves an array of entries.          *)
LEMMA EntryType ==
  ASSUME NEW s \in Stacks, NEW i \in Places
  PROVE  /\ s[i] \in Entries /\ s[i].priority \in Priorities /\ s[i].priority \in Nat
         /\ s[i].pid \in -1 .. MaxProcs - 1
<1>1. s[i] \in Entries
  BY DEF Stacks
<1>2. s[i].priority \in Priorities /\ s[i].pid \in -1 .. MaxProcs - 1
  BY <1>1 DEF Entries
<1>3. s[i].priority \in Nat
  BY <1>2, NumbersAssumption DEF Priorities
<1> QED BY <1>1, <1>2, <1>3

LEMMA SwapFields ==
  ASSUME NEW s \in Stacks, NEW i \in Places, NEW j \in Places
  PROVE  /\ Swapped(s, i, j) \in Stacks
         /\ i # j => Swapped(s, i, j)[i] = s[j] /\ Swapped(s, i, j)[j] = s[i]
         /\ \A k \in Places : k # i /\ k # j => Swapped(s, i, j)[k] = s[k]
BY DEF Swapped, Stacks

LEMMA RootPlace == 0 \in Places /\ 1 \in Places /\ Places \subseteq Nat
BY MaxProcsAssumption DEF Places

LEMMA SiftUpType ==
  ASSUME NEW i \in Places, NEW s \in Stacks
  PROVE  SiftUp[i][s] \in Stacks
<1> DEFINE S == {n \in Places : \E t \in Stacks : SiftUp[n][t] \notin Stacks}
<1>1. ASSUME NEW n \in S  PROVE \E m \in S : m < n
  <2>1. PICK t \in Stacks : SiftUp[n][t] \notin Stacks
    OBVIOUS
  <2>2. n > 1 /\ t[n].priority < t[n \div 2].priority
    BY <2>1, SiftUpUnfolds
  <2>3. n \div 2 \in Places /\ n \div 2 < n
    BY <2>2, Halves, MaxProcsAssumption DEF Places
  <2>4. Swapped(t, n, n \div 2) \in Stacks
    BY <2>3, SwapFields
  <2>5. SiftUp[n][t] = SiftUp[n \div 2][Swapped(t, n, n \div 2)]
    BY <2>2, SiftUpUnfolds
  <2> QED BY <2>1, <2>3, <2>4, <2>5
<1>2. S \in SUBSET Nat
  BY RootPlace
<1> HIDE DEF S
<1>3. S = {}
  BY <1>1, <1>2, Descent
<1> QED BY <1>3 DEF S

LEMMA QueueFields ==
  ASSUME NEW q \in Queues
  PROVE  /\ q.stack \in Stacks /\ q.bos \in Places
         /\ \A s \in Stacks : /\ [q EXCEPT !.stack = s] \in Queues
                              /\ [q EXCEPT !.stack = s].stack = s
                              /\ [q EXCEPT !.stack = s].bos = q.bos
BY DEF Queues

(* insert.                                                                 *)
Clamped(number) == IF number <= LowestPriority THEN number ELSE LowestPriority

(* The array with the new entry at the bottom.                             *)
Bottom(q, pid, prio) ==
  [q.stack EXCEPT ![q.bos + 1] = [pid |-> pid, priority |-> Clamped(prio)]]

LEMMA BottomFields ==
  ASSUME NEW q \in Queues, q.bos < MaxProcs, NEW pid \in Slots, NEW prio \in Priorities
  PROVE  /\ q.bos + 1 \in Places /\ q.bos \in Nat /\ Clamped(prio) \in 0 .. LowestPriority
         /\ Bottom(q, pid, prio) \in Stacks
         /\ Bottom(q, pid, prio)[q.bos + 1] = [pid |-> pid, priority |-> Clamped(prio)]
         /\ \A j \in Places : j # q.bos + 1 => Bottom(q, pid, prio)[j] = q.stack[j]
<1>1. q.bos \in Nat /\ q.bos + 1 \in Places /\ q.stack \in [Places -> Entries]
  BY QueueFields, MaxProcsAssumption DEF Places, Stacks
<1>2. Clamped(prio) \in 0 .. LowestPriority /\ Clamped(prio) \in Priorities
  BY NumbersAssumption DEF Clamped, Priorities
<1>3. [pid |-> pid, priority |-> Clamped(prio)] \in Entries
  BY <1>2, MaxProcsAssumption DEF Entries, Slots
<1> DEFINE e == [pid |-> pid, priority |-> Clamped(prio)]
<1> HIDE DEF e
<1>4. /\ [q.stack EXCEPT ![q.bos + 1] = e] \in [Places -> Entries]
      /\ [q.stack EXCEPT ![q.bos + 1] = e][q.bos + 1] = e
      /\ \A j \in Places : j # q.bos + 1 => [q.stack EXCEPT ![q.bos + 1] = e][j] = q.stack[j]
  BY <1>1, <1>3 DEF e
<1> QED BY <1>1, <1>2, <1>4 DEF e, Bottom, Stacks

LEMMA InsertIs ==
  ASSUME NEW q, NEW pid, NEW prio
  PROVE  /\ insert(q, pid, prio).bos = q.bos + 1
         /\ insert(q, pid, prio).stack =
              IF prio <= LowestPriority THEN SiftUp[q.bos + 1][Bottom(q, pid, prio)]
                                        ELSE Bottom(q, pid, prio)
         /\ insert(q, pid, prio) = [stack |-> insert(q, pid, prio).stack, bos |-> q.bos + 1]
BY DEF insert, Bottom, Clamped

LEMMA InsertType ==
  ASSUME NEW q \in Queues, q.bos < MaxProcs, NEW pid \in Slots, NEW prio \in Priorities
  PROVE  insert(q, pid, prio) \in Queues /\ insert(q, pid, prio).bos = q.bos + 1
<1>1. q.bos + 1 \in Places /\ Bottom(q, pid, prio) \in Stacks
  BY BottomFields
<1>2. SiftUp[q.bos + 1][Bottom(q, pid, prio)] \in Stacks
  BY <1>1, SiftUpType
<1>3. insert(q, pid, prio).stack \in Stacks
  BY <1>1, <1>2, InsertIs
<1> QED BY <1>1, <1>3, InsertIs DEF Queues

(* initialiseStack.                                                        *)
LEMMA EmptyType == Empty \in Queues
<1> DEFINE At(i) == IF i = 0 THEN [pid |-> 0, priority |-> 0]
                    ELSE [pid |-> -1, priority |-> LowestPriority]
<1>1. LowestPriority \in Priorities /\ 0 \in Priorities
  BY NumbersAssumption DEF Priorities
<1>2. \A i \in Places : At(i) \in Entries
  BY <1>1, MaxProcsAssumption DEF Entries
<1>3. Empty = [stack |-> [i \in Places |-> At(i)], bos |-> 0]
  BY DEF Empty
<1> HIDE DEF At
<1>4. [i \in Places |-> At(i)] \in Stacks
  BY <1>2 DEF Stacks
<1>5. QED  BY <1>3, <1>4, RootPlace DEF Queues

-----------------------------------------------------------------------------
(* The table is sound at reset, and processes see their programs.          *)
LEMMA ResetSound == TableInit => TableSound /\ VCPU!Init
<1> SUFFICES ASSUME TableInit PROVE TableSound /\ VCPU!Init
  OBVIOUS
<1> USE BootHasZero DEF TableInit
<1>1. \A p \in Boot : [pc |-> Entry[p], r0 |-> 0] \in Contexts
  BY ProgramsAssumption, MaxProcsAssumption DEF Contexts
<1>2. TableTypeOK
  <2>1. live \in SUBSET Slots /\ noProcesses \in Int
    BY SlotsFinite
  <2>2. saved \in [Slots -> Contexts \cup {Blank}]
    BY <1>1
  <2>3. ctx \in Contexts
    BY <1>1
  <2>4. QED  BY <2>1, <2>2, <2>3 DEF TableTypeOK
<1>3. TableConsistent
  BY DEF TableConsistent
<1>4. SlotsHoldContexts
  BY <1>1 DEF SlotsHoldContexts
<1>5. VCPU!Init
  BY DEF View, Slots, Blank, VCPU!Init, VCPU!Pids, VCPU!NoProcess
<1>6. QED  BY <1>2, <1>3, <1>4, <1>5 DEF TableSound

(* The process that runs exists in the abstract specification.             *)
LEMMA RunnerExists ==
  ASSUME TableSound
  PROVE  current \in VCPU!Pids /\ VCPU!Exists(current) /\ View[current] = ctx
<1>1. current \in Slots /\ ctx.pc \in Programs
  BY DEF TableSound, TableTypeOK, Contexts
<1>2. View[current] = ctx
  BY <1>1 DEF View
<1>3. ctx # [pc |-> None, r0 |-> 0]
  BY <1>1, ProgramsAssumption
<1>4. QED  BY <1>1, <1>2, <1>3 DEF VCPU!Pids, Slots, VCPU!Exists, VCPU!NoProcess

-----------------------------------------------------------------------------
(* A user instruction.                                                     *)
LEMMA ComputeStep ==
  ASSUME TableSound, NEW v \in RegValues, Compute(v)
  PROVE  TableSound' /\ VCPU!Next
<1>1. v \in -1 .. MaxProcs - 1
  BY RegValuesAssumption
<1>2. ctx' \in Contexts
  BY <1>1, ResultIsContext DEF Compute, TableSound, TableTypeOK
<1>3. TableSound'
  BY <1>2 DEF Compute, TableSound, TableTypeOK, TableConsistent, SlotsHoldContexts
<1>4. View' = [View EXCEPT ![current] = [@ EXCEPT !.r0 = v]]
  BY DEF Compute, View, TableSound, TableTypeOK
<1>5. VCPU!Step(current)
  BY <1>4, RunnerExists DEF VCPU!Step
<1>6. QED  BY <1>3, <1>5, RunnerExists DEF VCPU!Next

(* execpn.                                                                 *)
LEMMA LoadStep ==
  ASSUME TableSound, NEW prog \in Programs, Load(prog)
  PROVE  TableSound' /\ VCPU!Next
<1>1. ctx' \in Contexts
  BY DEF Load, TableSound, TableTypeOK, Contexts
<1>2. TableSound'
  BY <1>1 DEF Load, TableSound, TableTypeOK, TableConsistent, SlotsHoldContexts
<1>3. View' = [View EXCEPT ![current] = [@ EXCEPT !.pc = prog]]
  BY DEF Load, View, TableSound, TableTypeOK
<1>4. VCPU!Exec(current)
  BY <1>3, RunnerExists DEF VCPU!Exec
<1>5. QED  BY <1>2, <1>4, RunnerExists DEF VCPU!Next

(* A context switch, to any process that exists, is invisible.             *)
LEMMA SwitchStep ==
  ASSUME TableSound, NEW next \in live, SwitchTo(next),
         UNCHANGED <<live, noProcesses, fault>>
  PROVE  TableSound' /\ UNCHANGED View
<1> USE DEF TableSound, TableTypeOK
<1>1. next \in Slots /\ current \in Slots
  OBVIOUS
<1>2. saved' = [saved EXCEPT ![current] = ctx] /\ ctx' = saved'[next] /\ current' = next
  BY DEF SwitchTo
<1>3. ctx' \in Contexts
  BY <1>1, <1>2 DEF SlotsHoldContexts
<1>4. SlotsHoldContexts'
  BY <1>1, <1>2 DEF SlotsHoldContexts, TableConsistent
<1>5. TableSound'
  BY <1>1, <1>2, <1>3, <1>4 DEF TableConsistent
<1>6. View' = View
  BY <1>1, <1>2 DEF View
<1>7. QED  BY <1>5, <1>6

(* fork with a slot free, whatever else it does.                           *)
LEMMA ForkStep ==
  ASSUME TableSound, NEW place \in Slots, FirstFree(place), ForkInto(place), fault' \in BOOLEAN
  PROVE  TableSound' /\ VCPU!Next
<1> DEFINE Parent == [ctx EXCEPT !.r0 = place]
           Child == [ctx EXCEPT !.r0 = 0]
<1>t. /\ live \in SUBSET Slots /\ current \in live /\ current \in Slots /\ noProcesses \in Int
      /\ ctx \in Contexts /\ saved \in [Slots -> Contexts \cup {Blank}]
  BY DEF TableSound, TableTypeOK, TableConsistent
<1>1. place \in Slots \ live /\ place # current
  BY <1>t DEF FirstFree
<1>2. Parent \in Contexts /\ Child \in Contexts
  <2>1. 0 \in -1 .. MaxProcs - 1 /\ place \in -1 .. MaxProcs - 1
    BY MaxProcsAssumption DEF Slots
  <2>2. QED  BY <1>t, <2>1, ResultIsContext
<1>3. /\ live' = live \cup {place} /\ noProcesses' = noProcesses + 1
      /\ ctx' = Parent /\ saved' = [saved EXCEPT ![place] = Child] /\ current' = current
  BY DEF ForkInto
<1>4. Cardinality(live') = Cardinality(live) + 1
  BY <1>t, <1>1, <1>3, OccupyCounts
<1>5. View[place] = Blank /\ View[current] = ctx
  BY <1>1, <1>t DEF TableSound, SlotsHoldContexts, View
<1> HIDE DEF Parent, Child
<1>6. TableSound'
  <2>1. TableTypeOK'
    BY <1>t, <1>2, <1>3 DEF TableTypeOK
  <2>2. TableConsistent'
    BY <1>3, <1>4 DEF TableSound, TableConsistent
  <2>3. SlotsHoldContexts'
    BY <1>1, <1>2, <1>3, <1>t DEF TableSound, SlotsHoldContexts
  <2>4. QED  BY <2>1, <2>2, <2>3 DEF TableSound
<1>7. VCPU!Fork(current)
  <2>1. ~ VCPU!Exists(place) /\ place \in VCPU!Pids
    BY <1>5 DEF VCPU!Exists, VCPU!NoProcess, VCPU!Pids, Blank, Slots
  <2>2. View' = [View EXCEPT ![current] = Parent, ![place] = Child]
    BY <1>1, <1>3, <1>t DEF View
  <2>3. View' = [View EXCEPT ![current] = [@ EXCEPT !.r0 = place],
                             ![place] = [View[current] EXCEPT !.r0 = 0]]
    BY <2>2, <1>5 DEF Parent, Child
  <2>4. QED  BY <2>1, <2>3, RunnerExists DEF VCPU!Fork
<1>8. QED  BY <1>6, <1>7, RunnerExists DEF VCPU!Next

(* A handler that fails leaves the processes as they are.                  *)
LEMMA FailStep ==
  ASSUME TableSound, Fails
  PROVE  TableSound' /\ UNCHANGED View
BY DEF Fails, View, TableSound, TableTypeOK, TableConsistent, SlotsHoldContexts

(* fork with no slot free.                                                 *)
LEMMA ForkFullStep ==
  ASSUME TableSound, ForkRefused \/ ForkPastTable
  PROVE  TableSound' /\ [VCPU!Next]_View
<1>1. CASE ForkRefused
  <2>1. -1 \in -1 .. MaxProcs - 1
    BY MaxProcsAssumption
  <2>2. ctx' \in Contexts
    BY <1>1, <2>1, ResultIsContext DEF ForkRefused, TableSound, TableTypeOK
  <2>3. TableSound'
    BY <1>1, <2>2 DEF ForkRefused, TableSound, TableTypeOK, TableConsistent, SlotsHoldContexts
  <2>4. View' = [View EXCEPT ![current] = [@ EXCEPT !.r0 = -1]]
    BY <1>1 DEF ForkRefused, View, TableSound, TableTypeOK
  <2>5. VCPU!NoFork(current)
    BY <2>4, RunnerExists DEF VCPU!NoFork
  <2>6. QED  BY <2>3, <2>5, RunnerExists DEF VCPU!Next
<1>2. CASE ForkPastTable
  BY <1>2, FailStep DEF ForkPastTable
<1>3. QED  BY <1>1, <1>2

(* exit by a process other than process 0, and the switch to another.      *)
LEMMA ExitStep ==
  ASSUME TableSound, current # 0, exit_kernel, UNCHANGED fault,
         NEW next \in live, next # current, AbandonFor(next)
  PROVE  TableSound' /\ VCPU!Next
<1>t. /\ live \in SUBSET Slots /\ current \in live /\ 0 \in live /\ noProcesses \in Int
      /\ next \in Slots /\ current \in Slots
      /\ saved \in [Slots -> Contexts \cup {Blank}] /\ noProcesses = Cardinality(live)
  BY DEF TableSound, TableTypeOK, TableConsistent
<1>1. /\ live' = live \ {current} /\ noProcesses' = noProcesses - 1
      /\ saved' = [saved EXCEPT ![current] = Blank]
      /\ ctx' = saved[next] /\ current' = next
  BY <1>t DEF exit_kernel, AbandonFor
<1>2. Cardinality(live') = Cardinality(live) - 1
  BY <1>t, <1>1, VacateCounts
<1>3. saved[next] \in Contexts
  BY <1>t DEF TableSound, SlotsHoldContexts
<1>4. TableTypeOK'
  BY <1>t, <1>1, <1>3 DEF TableTypeOK, TableSound
<1>5. TableConsistent'
  BY <1>t, <1>1, <1>2 DEF TableConsistent
<1>6. SlotsHoldContexts'
  BY <1>t, <1>1 DEF TableSound, SlotsHoldContexts
<1>7. View' = [View EXCEPT ![current] = Blank]
  BY <1>t, <1>1 DEF View
<1>8. VCPU!Exit(current)
  BY <1>7, RunnerExists DEF VCPU!Exit, VCPU!NoProcess, Blank
<1>9. QED  BY <1>4, <1>5, <1>6, <1>8, RunnerExists DEF VCPU!Next, TableSound
=============================================================================
