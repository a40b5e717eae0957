----------------------- MODULE PrioritySchedulerProofs -----------------------
(***************************************************************************)
(* Proofs about PriorityScheduler for every table size and every set of    *)
(* programs.                                                               *)
(*                                                                         *)
(* For any priorities: whatever the heap has come to, the process that     *)
(* scheduler2 resumes exists and has a complete context, time sharing is   *)
(* transparent to the processes, and bos counts the processes that wait.   *)
(* What the heap holds plays no part in these: they rest on scheduler2's   *)
(* test of the status, and on what InsertFails calls a failure.            *)
(*                                                                         *)
(* As long as few processes are about (Roomy): the heap holds the waiting  *)
(* processes in order and once each, so that putting one in always ends;   *)
(* the most urgent one runs, and pop_min stays inside the array until the  *)
(* table is half full.  With more of them than the shell's priority a      *)
(* number can age below 0 and wrap.                                        *)
(*                                                                         *)
(* The first half is about activeStack alone, for a heap of any size: the  *)
(* loop of pop_min, a recursive function in ActiveStack as that of         *)
(* decreasePriority is, is what its equation says; and as long as no       *)
(* number has left 0 .. LowestPriority, insert adds one entry, newPriority *)
(* counts every other one down and pop_min takes the least, whatever the   *)
(* order of calls.                                                         *)
(***************************************************************************)
EXTENDS PriorityScheduler, ProcessTableProofs

LEMMA Half ==
  ASSUME NEW i \in Nat, NEW j \in Nat, j = 2 * i \/ j = 2 * i + 1
  PROVE  j \div 2 = i
OBVIOUS

(* SiftDown exists: it descends to greater indices, up to 2 MaxProcs + 1.  *)
Nodes == 1 .. 2 * MaxProcs + 1
Deep(n) == {i \in Nodes : i > 2 * MaxProcs + 1 - n}

DownBody(f, i) == [q \in Queues |->
  IF ReadsBeyond(q, i) THEN [stack |-> q.stack, beyond |-> TRUE]
  ELSE IF i <= q.bos /\ \E c \in {2 * i, 2 * i + 1} : q.stack[i].priority > q.stack[c].priority
  THEN LET child == LighterChild(q.stack, i)
       IN  f[child][[q EXCEPT !.stack = Swapped(@, i, child)]]
  ELSE [stack |-> q.stack, beyond |-> FALSE]]

LEMMA Children ==
  ASSUME NEW i \in Nodes, NEW q, ~ ReadsBeyond(q, i)
  PROVE  /\ 2 * i <= MaxProcs
         /\ LighterChild(q.stack, i) \in {2 * i, 2 * i + 1}
         /\ \A c \in {2 * i, 2 * i + 1} : c \in Nodes /\ c > i
         /\ i <= q.bos => i \in Places /\ 2 * i \in Places /\ 2 * i + 1 \in Places
<1>1. MaxProcs \in Nat /\ i \in Nat /\ i >= 1
  BY MaxProcsAssumption DEF Nodes
<1>2. 2 * i <= MaxProcs
  BY <1>1 DEF ReadsBeyond
<1>3. \A c \in {2 * i, 2 * i + 1} : c \in Nodes /\ c > i
  BY <1>1, <1>2 DEF Nodes
<1>4. LighterChild(q.stack, i) \in {2 * i, 2 * i + 1}
  BY DEF LighterChild
<1>5. i <= q.bos => 2 * i # MaxProcs
  BY DEF ReadsBeyond
<1>6. i <= q.bos => i \in Places /\ 2 * i \in Places /\ 2 * i + 1 \in Places
  BY <1>1, <1>2, <1>5 DEF Places
<1> QED BY <1>2, <1>3, <1>4, <1>6

LEMMA DownAgrees ==
  ASSUME NEW f, NEW g, NEW i \in Nodes, \A j \in Nodes : j > i => f[j] = g[j]
  PROVE  DownBody(f, i) = DownBody(g, i)
<1>1. ASSUME NEW q \in Queues, ~ ReadsBeyond(q, i)
      PROVE  f[LighterChild(q.stack, i)] = g[LighterChild(q.stack, i)]
  <2>1. LighterChild(q.stack, i) \in Nodes /\ LighterChild(q.stack, i) > i
    BY <1>1, Children
  <2> QED BY <2>1
<1> QED BY <1>1 DEF DownBody

LEMMA DownTables ==
  ASSUME NEW n \in Nat
  PROVE  \E f : f = [i \in Deep(n) |-> DownBody(f, i)]
<1> DEFINE S == {m \in Nat : ~ \E f : f = [i \in Deep(m) |-> DownBody(f, i)]}
<1>1. ASSUME NEW m \in S  PROVE \E k \in S : k < m
  <2>1. CASE m = 0
    <3>1. Deep(0) = {}
      BY MaxProcsAssumption DEF Deep, Nodes
    <3> DEFINE f == [i \in {} |-> 0]
    <3>2. f = [i \in {} |-> DownBody(f, i)]
      OBVIOUS
    <3> HIDE DEF f
    <3> QED BY <2>1, <3>1, <3>2
  <2>2. CASE m # 0
    <3>1. m - 1 \in Nat /\ m - 1 < m
      BY <2>2
    <3>2. CASE m - 1 \in S
      BY <3>1, <3>2
    <3>3. CASE m - 1 \notin S
      <4>1. PICK g : g = [i \in Deep(m - 1) |-> DownBody(g, i)]
        BY <3>1, <3>3
      <4> DEFINE f == [i \in Deep(m) |-> DownBody(g, i)]
      <4>2. \A i \in Deep(m - 1) : i \in Deep(m) /\ g[i] = DownBody(g, i)
        <5>1. \A i \in Deep(m - 1) : g[i] = DownBody(g, i)
          BY <4>1
        <5>2. \A i \in Deep(m - 1) : i \in Deep(m)
          BY <3>1, MaxProcsAssumption DEF Deep, Nodes
        <5> QED BY <5>1, <5>2
      <4>3. \A i \in Deep(m) : f[i] = DownBody(f, i)
        <5> SUFFICES ASSUME NEW i \in Deep(m)  PROVE f[i] = DownBody(f, i)
          OBVIOUS
        <5>1. f[i] = DownBody(g, i)
          OBVIOUS
        <5>2. \A j \in Nodes : j > i => j \in Deep(m - 1)
          BY <3>1, MaxProcsAssumption DEF Deep, Nodes
        <5>3. \A j \in Deep(m - 1) : f[j] = g[j]
          BY <4>2
        <5> HIDE DEF f
        <5>4. i \in Nodes /\ \A j \in Nodes : j > i => f[j] = g[j]
          BY <5>2, <5>3 DEF Deep
        <5>5. DownBody(f, i) = DownBody(g, i)
          BY <5>4, DownAgrees
        <5> QED BY <5>1, <5>5
      <4>4. f = [i \in Deep(m) |-> f[i]]
        OBVIOUS
      <4> HIDE DEF f
      <4>5. f = [i \in Deep(m) |-> DownBody(f, i)]
        BY <4>3, <4>4
      <4> QED BY <4>5
    <3> QED BY <3>2, <3>3
  <2> QED BY <2>1, <2>2
<1>2. S \in SUBSET Nat
  OBVIOUS
<1> HIDE DEF S
<1>3. S = {}
  BY <1>1, <1>2, Descent
<1> QED BY <1>3 DEF S

LEMMA SiftDownUnfolds ==
  ASSUME NEW i \in Nodes, NEW q \in Queues
  PROVE  SiftDown[i][q] =
           IF ReadsBeyond(q, i) THEN [stack |-> q.stack, beyond |-> TRUE]
           ELSE IF i <= q.bos /\ \E c \in {2 * i, 2 * i + 1} :
                                    q.stack[i].priority > q.stack[c].priority
           THEN SiftDown[LighterChild(q.stack, i)]
                  [[q EXCEPT !.stack = Swapped(q.stack, i, LighterChild(q.stack, i))]]
           ELSE [stack |-> q.stack, beyond |-> FALSE]
<1>1. SiftDown = CHOOSE f : f = [j \in Nodes |-> DownBody(f, j)]
  BY DEF SiftDown, DownBody, Nodes
<1>2. \E f : f = [j \in Nodes |-> DownBody(f, j)]
  <2>1. Deep(2 * MaxProcs + 1) = Nodes /\ 2 * MaxProcs + 1 \in Nat
    BY MaxProcsAssumption DEF Deep, Nodes
  <2>2. \E f : f = [j \in Deep(2 * MaxProcs + 1) |-> DownBody(f, j)]
    BY <2>1, DownTables
  <2> QED BY <2>1, <2>2
<1>3. SiftDown = [j \in Nodes |-> DownBody(SiftDown, j)]
  BY <1>1, <1>2
<1>4. SiftDown[i] = DownBody(SiftDown, i)
  BY <1>3
<1> QED BY <1>4 DEF DownBody

-----------------------------------------------------------------------------
(* Whatever the numbers are, the loop leaves an array of entries.          *)
LEMMA SiftDownType ==
  ASSUME NEW i \in Nodes, NEW q \in Queues
  PROVE  SiftDown[i][q] \in [stack : Stacks, beyond : BOOLEAN]
<1> DEFINE T == [stack : Stacks, beyond : BOOLEAN]
           N == 2 * MaxProcs + 1
           S == {n \in Nat : \E j \in Nodes : n = N - j /\ \E r \in Queues : SiftDown[j][r] \notin T}
<1>1. ASSUME NEW n \in S  PROVE \E m \in S : m < n
  <2>1. PICK j \in Nodes, r \in Queues : n = N - j /\ SiftDown[j][r] \notin T
    OBVIOUS
  <2> DEFINE c == LighterChild(r.stack, j)
             t == Swapped(r.stack, j, c)
             h == [r EXCEPT !.stack = t]
  <2>2. r.stack \in Stacks
    BY QueueFields
  <2>3. ~ ReadsBeyond(r, j) /\ j <= r.bos /\ SiftDown[j][r] = SiftDown[c][h]
    <3>1. [stack |-> r.stack, beyond |-> TRUE] \in T /\ [stack |-> r.stack, beyond |-> FALSE] \in T
      BY <2>2
    <3> HIDE DEF T
    <3> QED BY <2>1, <3>1, SiftDownUnfolds
  <2>4. c \in {2 * j, 2 * j + 1} /\ c \in Nodes /\ c > j
    BY <2>3, Children
  <2>5. j \in Places /\ c \in Places
    <3>1. j \in Places /\ 2 * j \in Places /\ 2 * j + 1 \in Places
      BY <2>3, Children
    <3> QED BY <2>4, <3>1
  <2>6. h \in Queues
    BY <2>2, <2>5, SwapFields, QueueFields
  <2>7. N - c \in Nat /\ N - c < n
    <3> HIDE DEF c
    <3> QED BY <2>1, <2>4, MaxProcsAssumption DEF Nodes
  <2> HIDE DEF h, c
  <2> QED BY <2>1, <2>3, <2>4, <2>6, <2>7
<1>2. S \in SUBSET Nat
  OBVIOUS
<1>3. N - i \in Nat
  BY MaxProcsAssumption DEF Nodes
<1> HIDE DEF S
<1>4. S = {}
  BY <1>1, <1>2, Descent
<1> QED BY <1>3, <1>4 DEF S

-----------------------------------------------------------------------------
(* The first n entries of stack s: what they are, that no process has two, *)
(* and the order of the heap.                                              *)
Content(s, n) == {s[j] : j \in 1 .. n}
Distinct(s, n) == \A j, k \in 1 .. n : s[j].pid = s[k].pid => j = k
Ordered(s, n) == \A j \in 2 .. n : s[j \div 2].priority <= s[j].priority

(* The order but for entry i, which may be less than its parent ...        *)
OrderedAbove(s, n, i) ==
  /\ \A j \in 2 .. n : j # i => s[j \div 2].priority <= s[j].priority
  /\ \A j \in 2 .. n : j \div 2 = i /\ i > 1 => s[i \div 2].priority <= s[j].priority

(* ... or greater than its children.                                       *)
OrderedBelow(s, n, i) ==
  /\ \A j \in 2 .. n : j \div 2 # i => s[j \div 2].priority <= s[j].priority
  /\ \A j \in 2 .. n : j \div 2 = i /\ i > 1 => s[i \div 2].priority <= s[j].priority

(* t is s with its first n entries in another order.                       *)
Shuffled(s, t, n) ==
  /\ t \in Stacks
  /\ Content(t, n) = Content(s, n)
  /\ Distinct(s, n) => Distinct(t, n)
  /\ \A j \in Places \ (1 .. n) : t[j] = s[j]

LEMMA SwapShuffles ==
  ASSUME NEW s \in Stacks, NEW n \in Places, NEW i \in 1 .. n, NEW j \in 1 .. n, i # j
  PROVE  Shuffled(s, Swapped(s, i, j), n)
<1> DEFINE t == Swapped(s, i, j)
<1>1. n \in Nat /\ 1 .. n \subseteq Places /\ i \in Places /\ j \in Places
  BY MaxProcsAssumption DEF Places
<1>2. t \in Stacks /\ t[i] = s[j] /\ t[j] = s[i] /\ \A k \in Places : k # i /\ k # j => t[k] = s[k]
  BY <1>1, SwapFields
<1> HIDE DEF t
<1>3. \A k \in 1 .. n : t[k] \in Content(s, n) /\ s[k] \in Content(t, n)
  <2> SUFFICES ASSUME NEW k \in 1 .. n  PROVE t[k] \in Content(s, n) /\ s[k] \in Content(t, n)
    OBVIOUS
  <2>1. CASE k = i
    BY <1>2, <2>1 DEF Content
  <2>2. CASE k = j
    BY <1>2, <2>2 DEF Content
  <2>3. CASE k # i /\ k # j
    BY <1>1, <1>2, <2>3 DEF Content
  <2> QED BY <2>1, <2>2, <2>3
<1>4. Content(t, n) = Content(s, n)
  <2>1. \A e \in Content(t, n) : e \in Content(s, n)
    BY <1>3 DEF Content
  <2>2. \A e \in Content(s, n) : e \in Content(t, n)
    BY <1>3 DEF Content
  <2> QED BY <2>1, <2>2
<1>5. ASSUME Distinct(s, n)  PROVE Distinct(t, n)
  <2> SUFFICES ASSUME NEW k \in 1 .. n, NEW l \in 1 .. n, t[k].pid = t[l].pid
               PROVE  k = l
    BY DEF Distinct
  <2>1. k \in Places /\ l \in Places
    BY <1>1
  <2>2. \A a, b \in 1 .. n : s[a].pid = s[b].pid => a = b
    BY <1>5 DEF Distinct
  <2>3. CASE k = i
    BY <1>2, <2>1, <2>2, <2>3
  <2>4. CASE k = j
    BY <1>2, <2>1, <2>2, <2>4
  <2>5. CASE k # i /\ k # j
    BY <1>2, <2>1, <2>2, <2>5
  <2> QED BY <2>3, <2>4, <2>5
<1> QED BY <1>2, <1>4, <1>5 DEF Shuffled, t

LEMMA ShuffledTwice ==
  ASSUME NEW s, NEW t, NEW u, NEW n, Shuffled(s, t, n), Shuffled(t, u, n)
  PROVE  Shuffled(s, u, n)
BY DEF Shuffled

(* One round of decreasePriority's loop.                                   *)
LEMMA RiseOrdered ==
  ASSUME NEW s \in Stacks, NEW n \in Places, NEW i \in 2 .. n, OrderedAbove(s, n, i),
         s[i].priority < s[i \div 2].priority
  PROVE  OrderedAbove(Swapped(s, i, i \div 2), n, i \div 2)
<1> DEFINE h == i \div 2
           t == Swapped(s, i, h)
<1>1. n \in Nat /\ i \in Nat /\ h \in 1 .. n /\ h < i /\ i \in 1 .. n
  BY Halves, RootPlace
<1>2. \A k \in 1 .. n : k \in Places /\ s[k].priority \in Nat
  <2>1. \A k \in 1 .. n : k \in Places
    BY MaxProcsAssumption DEF Places
  <2> QED BY <2>1, EntryType
<1>3. \A j \in 2 .. n : j \div 2 \in 1 .. n /\ j \div 2 < j /\ j \in 1 .. n
  <2> SUFFICES ASSUME NEW j \in 2 .. n
               PROVE  j \div 2 \in 1 .. n /\ j \div 2 < j /\ j \in 1 .. n
    OBVIOUS
  <2> QED BY Halves, <1>1
<1>4. t[i] = s[h] /\ t[h] = s[i] /\ \A k \in 1 .. n : k # i /\ k # h => t[k] = s[k]
  <2>1. i \in Places /\ h \in Places /\ i # h
    BY <1>1, <1>2
  <2> HIDE DEF h
  <2>2. t[i] = s[h] /\ t[h] = s[i] /\ \A k \in Places : k # i /\ k # h => t[k] = s[k]
    <3>1. i # h => Swapped(s, i, h)[i] = s[h] /\ Swapped(s, i, h)[h] = s[i]
      BY <2>1, SwapFields
    <3>2. \A k \in Places : k # i /\ k # h => Swapped(s, i, h)[k] = s[k]
      BY <2>1, SwapFields
    <3> QED BY <2>1, <3>1, <3>2
  <2> QED BY <1>2, <2>2
<1>5. /\ \A j \in 2 .. n : j # i => s[j \div 2].priority <= s[j].priority
      /\ \A j \in 2 .. n : j \div 2 = i => s[h].priority <= s[j].priority
  BY <1>1 DEF OrderedAbove
<1> SUFFICES OrderedAbove(t, n, h)
  OBVIOUS
<1> HIDE DEF t
<1>6. ASSUME NEW j \in 2 .. n, j # h
      PROVE  t[j \div 2].priority <= t[j].priority
  <2>1. CASE j = i
    BY <1>1, <1>2, <1>4, <2>1 DEF h
  <2>2. CASE j # i /\ j \div 2 = i
    BY <1>3, <1>4, <1>5, <1>6, <2>2
  <2>3. CASE j # i /\ j \div 2 = h
    <3>1. t[j] = s[j] /\ t[j \div 2] = s[i] /\ s[h].priority <= s[j].priority
      BY <1>3, <1>4, <1>5, <1>6, <2>3
    <3>2. s[i].priority < s[h].priority /\ s[i].priority \in Nat /\ s[h].priority \in Nat
          /\ s[j].priority \in Nat
      BY <1>1, <1>2, <1>3 DEF h
    <3> HIDE DEF h
    <3> QED BY <3>1, <3>2
  <2>4. CASE j # i /\ j \div 2 # i /\ j \div 2 # h
    BY <1>3, <1>4, <1>5, <1>6, <2>4
  <2> QED BY <2>1, <2>2, <2>3, <2>4
<1>7. ASSUME NEW j \in 2 .. n, j \div 2 = h, h > 1
      PROVE  t[h \div 2].priority <= t[j].priority
  <2>1. h \in 2 .. n /\ h \div 2 \in 1 .. n /\ h \div 2 < h /\ h # i
    BY <1>1, <1>3, <1>7
  <2>2. t[h \div 2] = s[h \div 2] /\ s[h \div 2].priority <= s[h].priority
    BY <1>1, <1>4, <1>5, <2>1
  <2>3. CASE j = i
    BY <1>4, <2>2, <2>3
  <2>4. CASE j # i
    <3>1. t[j] = s[j] /\ s[h].priority <= s[j].priority
      BY <1>3, <1>4, <1>5, <1>7, <2>4
    <3>2. s[h \div 2].priority \in Nat /\ s[h].priority \in Nat /\ s[j].priority \in Nat
      BY <1>1, <1>2, <1>3, <2>1
    <3> HIDE DEF h
    <3> QED BY <2>2, <3>1, <3>2
  <2> QED BY <2>3, <2>4
<1> HIDE DEF h
<1> QED BY <1>6, <1>7 DEF OrderedAbove

(* The whole loop.                                                         *)
LEMMA SiftUpOrders ==
  ASSUME NEW n \in Places, NEW i \in 1 .. n, NEW s \in Stacks, OrderedAbove(s, n, i)
  PROVE  Shuffled(s, SiftUp[i][s], n) /\ Ordered(SiftUp[i][s], n)
<1> DEFINE Done(m, t) == Shuffled(t, SiftUp[m][t], n) /\ Ordered(SiftUp[m][t], n)
           S == {m \in 1 .. n : \E t \in Stacks : OrderedAbove(t, n, m) /\ ~ Done(m, t)}
<1>1. ASSUME NEW m \in S  PROVE \E k \in S : k < m
  <2>1. PICK t \in Stacks : OrderedAbove(t, n, m) /\ ~ Done(m, t)
    OBVIOUS
  <2>2. m \in 1 .. n /\ m \in Places /\ n \in Nat
    BY MaxProcsAssumption DEF Places
  <2>3. CASE m > 1 /\ t[m].priority < t[m \div 2].priority
    <3> DEFINE h == m \div 2
               u == Swapped(t, m, h)
    <3>1. m \in 2 .. n /\ h \in 1 .. n /\ h < m
      BY <2>2, <2>3, Halves
    <3>2. Shuffled(t, u, n)
      BY <2>2, <3>1, SwapShuffles
    <3>3. OrderedAbove(u, n, h)
      BY <2>1, <2>3, <3>1, RiseOrdered
    <3>4. SiftUp[m][t] = SiftUp[h][u]
      BY <2>2, <2>3, SiftUpUnfolds
    <3>5. u \in Stacks
      BY <3>2 DEF Shuffled
    <3> HIDE DEF h, u
    <3>6. ~ Done(h, u)
      BY <2>1, <3>2, <3>4, ShuffledTwice
    <3> QED BY <3>1, <3>3, <3>5, <3>6
  <2>4. CASE ~ (m > 1 /\ t[m].priority < t[m \div 2].priority)
    <3>1. SiftUp[m][t] = t
      BY <2>2, <2>4, SiftUpUnfolds
    <3>2. Shuffled(t, t, n)
      BY DEF Shuffled
    <3>3. ASSUME NEW j \in 2 .. n  PROVE t[j \div 2].priority <= t[j].priority
      <4>1. CASE j # m
        BY <2>1, <4>1 DEF OrderedAbove
      <4>2. CASE j = m
        <5>1. m \div 2 \in Places /\ m > 1
          BY <2>2, <4>2, Halves, MaxProcsAssumption DEF Places
        <5>2. t[m].priority \in Nat /\ t[m \div 2].priority \in Nat
          BY <2>2, <5>1, EntryType
        <5> QED BY <2>4, <4>2, <5>1, <5>2
      <4> QED BY <4>1, <4>2
    <3>4. Ordered(t, n)
      BY <3>3 DEF Ordered
    <3> QED BY <2>1, <3>1, <3>2, <3>4
  <2> QED BY <2>3, <2>4
<1>2. S \in SUBSET Nat
  OBVIOUS
<1> HIDE DEF S
<1>3. S = {}
  BY <1>1, <1>2, Descent
<1> QED BY <1>3 DEF S

-----------------------------------------------------------------------------
(* No number has left its range: the subtractions of newPriority and of    *)
(* pop_min have the values they are meant to have.                         *)
Numbers(s) == \A j \in Places : s[j].priority <= LowestPriority

LEMMA DiffIs ==
  ASSUME NEW a \in 0 .. LowestPriority, NEW b \in 0 .. LowestPriority
  PROVE  Diff(a, b) = a - b
<1>1. LowestPriority \in Nat /\ PrioMod \in Nat /\ 2 * LowestPriority < PrioMod /\ a \in Nat /\ b \in Nat
  BY NumbersAssumption
<1>2. CASE a >= b
  <2>1. (a - b) % PrioMod = a - b
    BY <1>1, <1>2
  <2>2. 2 * (a - b) < PrioMod
    BY <1>1, <1>2
  <2> QED BY <1>1, <2>1, <2>2 DEF Diff
<1>3. CASE a < b
  <2>1. (a - b) % PrioMod = a - b + PrioMod
    BY <1>1, <1>3
  <2>2. 2 * (a - b + PrioMod) >= PrioMod
    BY <1>1, <1>3
  <2> QED BY <1>1, <2>1, <2>2 DEF Diff
<1> QED BY <1>1, <1>2, <1>3

LEMMA LighterIsLeast ==
  ASSUME NEW s \in Stacks, Numbers(s), NEW i \in Places, 2 * i \in Places, 2 * i + 1 \in Places
  PROVE  /\ s[LighterChild(s, i)].priority <= s[2 * i].priority
         /\ s[LighterChild(s, i)].priority <= s[2 * i + 1].priority
<1> DEFINE x == s[i].priority
           y == s[2 * i].priority
           z == s[2 * i + 1].priority
<1>1. x \in 0 .. LowestPriority /\ y \in 0 .. LowestPriority /\ z \in 0 .. LowestPriority
  <2>1. x \in Nat /\ y \in Nat /\ z \in Nat
    BY EntryType
  <2>2. x <= LowestPriority /\ y <= LowestPriority /\ z <= LowestPriority
    BY DEF Numbers
  <2> QED BY <2>1, <2>2, NumbersAssumption
<1>2. LighterChild(s, i) = IF Diff(x, y) >= Diff(x, z) THEN 2 * i ELSE 2 * i + 1
  BY DEF LighterChild
<1> HIDE DEF x, y, z
<1>3. Diff(x, y) = x - y /\ Diff(x, z) = x - z
  BY <1>1, DiffIs
<1>4. CASE x - y >= x - z
  <2>1. LighterChild(s, i) = 2 * i
    BY <1>2, <1>3, <1>4
  <2>2. y <= z /\ y <= y
    BY <1>1, <1>4
  <2> QED BY <2>1, <2>2 DEF y, z
<1>5. CASE ~ (x - y >= x - z)
  <2>1. LighterChild(s, i) = 2 * i + 1
    BY <1>2, <1>3, <1>5
  <2>2. z <= y /\ z <= z
    BY <1>1, <1>5
  <2> QED BY <2>1, <2>2 DEF y, z
<1> QED BY <1>4, <1>5

(* One round of pop_min's loop.                                            *)
LEMMA SinkOrdered ==
  ASSUME NEW s \in Stacks, NEW n \in Places, NEW i \in 1 .. n, OrderedBelow(s, n, i),
         NEW c \in 2 .. n, c \div 2 = i, s[c].priority < s[i].priority,
         \A j \in 2 .. n : j \div 2 = i => s[c].priority <= s[j].priority
  PROVE  OrderedBelow(Swapped(s, i, c), n, c)
<1> DEFINE t == Swapped(s, i, c)
<1>1. n \in Nat /\ i < c /\ c \in 1 .. n /\ c > 1
  BY Halves, RootPlace
<1>2. \A k \in 1 .. n : k \in Places /\ s[k].priority \in Nat
  <2>1. \A k \in 1 .. n : k \in Places
    BY MaxProcsAssumption DEF Places
  <2> QED BY <2>1, EntryType
<1>3. \A j \in 2 .. n : j \div 2 \in 1 .. n /\ j \div 2 < j /\ j \in 1 .. n
  <2> SUFFICES ASSUME NEW j \in 2 .. n
               PROVE  j \div 2 \in 1 .. n /\ j \div 2 < j /\ j \in 1 .. n
    OBVIOUS
  <2> QED BY Halves, <1>1
<1>4. t[i] = s[c] /\ t[c] = s[i] /\ \A k \in 1 .. n : k # i /\ k # c => t[k] = s[k]
  <2>1. i \in Places /\ c \in Places /\ i # c
    BY <1>1, <1>2
  <2>2. i # c => Swapped(s, i, c)[i] = s[c] /\ Swapped(s, i, c)[c] = s[i]
    BY <2>1 DEF Swapped, Stacks
  <2>3. \A k \in Places : k # i /\ k # c => Swapped(s, i, c)[k] = s[k]
    BY <2>1 DEF Swapped, Stacks
  <2> QED BY <1>2, <2>1, <2>2, <2>3
<1>5. /\ \A j \in 2 .. n : j \div 2 # i => s[j \div 2].priority <= s[j].priority
      /\ \A j \in 2 .. n : j \div 2 = i /\ i > 1 => s[i \div 2].priority <= s[j].priority
  BY DEF OrderedBelow
<1> SUFFICES OrderedBelow(t, n, c)
  OBVIOUS
<1> HIDE DEF t
<1>6. ASSUME NEW j \in 2 .. n, j \div 2 # c
      PROVE  t[j \div 2].priority <= t[j].priority
  <2>1. CASE j = i
    <3>1. i \div 2 # i /\ i \div 2 # c /\ i > 1 /\ i \div 2 \in 1 .. n
      BY <1>1, <1>3, <2>1
    <3>2. s[i \div 2].priority <= s[c].priority
      BY <1>5, <3>1
    <3> QED BY <1>4, <2>1, <3>1, <3>2
  <2>2. CASE j = c
    BY <1>1, <1>2, <1>4, <2>2
  <2>3. CASE j # i /\ j # c /\ j \div 2 = i
    <3>1. t[j] = s[j] /\ t[j \div 2] = s[c]
      BY <1>3, <1>4, <2>3
    <3>2. s[c].priority <= s[j].priority
      BY <2>3
    <3> QED BY <3>1, <3>2
  <2>4. CASE j # i /\ j # c /\ j \div 2 # i
    BY <1>3, <1>4, <1>5, <1>6, <2>4
  <2> QED BY <2>1, <2>2, <2>3, <2>4
<1>7. ASSUME NEW j \in 2 .. n, j \div 2 = c
      PROVE  t[c \div 2].priority <= t[j].priority
  <2>1. j # i /\ j # c /\ j \div 2 # i /\ j \in 1 .. n
    BY <1>1, <1>3, <1>7
  <2>2. t[j] = s[j] /\ t[c \div 2] = s[c]
    BY <1>4, <2>1
  <2>3. s[c].priority <= s[j].priority
    BY <1>5, <1>7, <2>1
  <2> QED BY <2>2, <2>3
<1> QED BY <1>6, <1>7 DEF OrderedBelow

(* What pop_min's loop finds: the heap without its last entry, in order    *)
(* but for entry i, and nothing beyond it that is more urgent than that.   *)
Sinkable(q, i) ==
  /\ q \in Queues /\ i \in 1 .. q.bos
  /\ OrderedBelow(q.stack, q.bos - 1, i)
  /\ \A j \in Places : j >= q.bos => q.stack[i].priority <= q.stack[j].priority
  /\ Numbers(q.stack)

LEMMA SinksOn ==
  ASSUME NEW q, NEW i, Sinkable(q, i), ~ ReadsBeyond(q, i),
         \E c \in {2 * i, 2 * i + 1} : q.stack[i].priority > q.stack[c].priority,
         NEW c, c = LighterChild(q.stack, i)
  PROVE  /\ c > i /\ c \in Nodes
         /\ Sinkable([q EXCEPT !.stack = Swapped(q.stack, i, c)], c)
         /\ Shuffled(q.stack, Swapped(q.stack, i, c), q.bos - 1)
<1> DEFINE s == q.stack
           t == Swapped(s, i, c)
           n == q.bos - 1
<1>1. /\ s \in Stacks /\ q.bos \in Places /\ q.bos \in Nat /\ q.bos <= MaxProcs
      /\ i \in Nat /\ i >= 1 /\ i <= q.bos /\ i \in Nodes
  <2>1. s \in Stacks /\ q.bos \in 0 .. MaxProcs
    BY QueueFields DEF Sinkable, Places
  <2> QED BY <2>1, MaxProcsAssumption DEF Sinkable, Nodes, Places
<1>2. /\ c \in {2 * i, 2 * i + 1} /\ c \in Nodes /\ c > i /\ c \in Places
      /\ i \in Places /\ 2 * i \in Places /\ 2 * i + 1 \in Places
  <2>1. c \in {2 * i, 2 * i + 1} /\ c \in Nodes /\ c > i
    BY <1>1, Children
  <2>2. i \in Places /\ 2 * i \in Places /\ 2 * i + 1 \in Places
    BY <1>1, Children
  <2> QED BY <2>1, <2>2
<1>3. s[c].priority <= s[2 * i].priority /\ s[c].priority <= s[2 * i + 1].priority
  BY <1>1, <1>2, LighterIsLeast DEF Sinkable
<1>4. s[i].priority \in Nat /\ s[c].priority \in Nat
      /\ s[2 * i].priority \in Nat /\ s[2 * i + 1].priority \in Nat
  BY <1>1, <1>2, EntryType
<1>5. s[c].priority < s[i].priority
  <2>1. s[i].priority > s[2 * i].priority \/ s[i].priority > s[2 * i + 1].priority
    OBVIOUS
  <2> HIDE DEF s
  <2> QED BY <1>3, <1>4, <2>1
<1>6. c < q.bos
  <2>1. c >= q.bos => s[i].priority <= s[c].priority
    BY <1>2 DEF Sinkable
  <2>2. c \in Nat
    BY <1>1, <1>2
  <2> HIDE DEF s
  <2> QED BY <1>1, <1>4, <1>5, <2>1, <2>2
<1>7. n \in Places /\ i \in 1 .. n /\ c \in 2 .. n /\ c \in 1 .. n /\ i # c /\ c \div 2 = i /\ n \in Nat
  <2>1. n \in Nat /\ n <= MaxProcs
    <3>1. q.bos >= 1
      BY <1>1
    <3> HIDE DEF s, t
    <3> QED BY <1>1, <3>1, MaxProcsAssumption
  <2>2. n \in Places
    BY <2>1, MaxProcsAssumption DEF Places
  <2>3. c \in Nat /\ c > 1 /\ c <= n
    BY <1>1, <1>2, <1>6
  <2>4. c \div 2 = i
    BY <1>1, <1>2, <2>3, Half
  <2> QED BY <1>1, <1>2, <2>1, <2>2, <2>3, <2>4
<1>8. Shuffled(s, t, n)
  BY <1>1, <1>7, SwapShuffles
<1>9. OrderedBelow(t, n, c)
  <2>1. \A j \in 2 .. n : j \div 2 = i => s[c].priority <= s[j].priority
    <3> SUFFICES ASSUME NEW j \in 2 .. n, j \div 2 = i  PROVE s[c].priority <= s[j].priority
      OBVIOUS
    <3>1. j = 2 * i \/ j = 2 * i + 1
      BY Halves
    <3> QED BY <1>3, <3>1
  <2>2. OrderedBelow(s, n, i)
    BY DEF Sinkable
  <2> HIDE DEF n, s
  <2> QED BY <1>1, <1>5, <1>7, <2>1, <2>2, SinkOrdered
<1>10. t[c] = s[i] /\ t[i] = s[c] /\ \A k \in Places : k # i /\ k # c => t[k] = s[k]
  <2>1. i # c => Swapped(s, i, c)[i] = s[c] /\ Swapped(s, i, c)[c] = s[i]
    BY <1>1, <1>2 DEF Swapped, Stacks
  <2>2. \A k \in Places : k # i /\ k # c => Swapped(s, i, c)[k] = s[k]
    BY <1>1, <1>2 DEF Swapped, Stacks
  <2> QED BY <1>7, <2>1, <2>2
<1> DEFINE h == [q EXCEPT !.stack = t]
<1>11. h \in Queues /\ h.stack = t /\ h.bos = q.bos
  <2>1. q \in Queues /\ t \in Stacks
    BY <1>8 DEF Shuffled, Sinkable
  <2> HIDE DEF t
  <2> QED BY <2>1, QueueFields
<1>12. \A j \in Places : j >= q.bos => t[c].priority <= t[j].priority
  <2> SUFFICES ASSUME NEW j \in Places, j >= q.bos  PROVE t[c].priority <= t[j].priority
    OBVIOUS
  <2>1. j # i /\ j # c
    BY <1>1, <1>2, <1>6
  <2>2. s[i].priority <= s[j].priority
    BY DEF Sinkable
  <2> HIDE DEF t, s
  <2> QED BY <1>10, <2>1, <2>2
<1>13. Numbers(t)
  <2>1. \A j \in Places : s[j].priority <= LowestPriority
    BY DEF Sinkable, Numbers
  <2> HIDE DEF t, s
  <2> QED BY <1>2, <1>10, <2>1 DEF Numbers
<1>14. Sinkable(h, c)
  <2>1. c \in 1 .. q.bos
    BY <1>1, <1>7
  <2> HIDE DEF h, t, s
  <2> QED BY <1>9, <1>11, <1>12, <1>13, <2>1 DEF Sinkable
<1> QED BY <1>2, <1>8, <1>14

(* The whole loop: unless it has run off the array, which a heap that      *)
(* fills less than half of it rules out, the heap is in order again.       *)
LEMMA SiftDownOrders ==
  ASSUME NEW q, NEW i, Sinkable(q, i)
  PROVE  /\ SiftDown[i][q].beyond => 2 * q.bos >= MaxProcs
         /\ ~ SiftDown[i][q].beyond => /\ Shuffled(q.stack, SiftDown[i][q].stack, q.bos - 1)
                                       /\ Ordered(SiftDown[i][q].stack, q.bos - 1)
<1> DEFINE N == 2 * MaxProcs + 1
           Done(j, r) ==
             /\ SiftDown[j][r].beyond => 2 * r.bos >= MaxProcs
             /\ ~ SiftDown[j][r].beyond => /\ Shuffled(r.stack, SiftDown[j][r].stack, r.bos - 1)
                                           /\ Ordered(SiftDown[j][r].stack, r.bos - 1)
           S == {m \in Nat : \E j \in Nodes, r \in Queues : m = N - j /\ Sinkable(r, j) /\ ~ Done(j, r)}
<1>1. ASSUME NEW m \in S  PROVE \E k \in S : k < m
  <2>1. PICK j \in Nodes, r \in Queues : m = N - j /\ Sinkable(r, j) /\ ~ Done(j, r)
    OBVIOUS
  <2> DEFINE c == LighterChild(r.stack, j)
             t == Swapped(r.stack, j, c)
             h == [r EXCEPT !.stack = t]
             n == r.bos - 1
  <2>2. r.stack \in Stacks /\ r.bos \in Nat /\ j \in Nat /\ j >= 1 /\ j <= r.bos /\ r.bos <= MaxProcs
    <3>1. r.stack \in Stacks /\ r.bos \in Places /\ j \in 1 .. r.bos
      BY <2>1, QueueFields DEF Sinkable
    <3> QED BY <3>1, MaxProcsAssumption DEF Places
  <2>3. CASE ReadsBeyond(r, j)
    <3>1. SiftDown[j][r].beyond
      <4>1. SiftDown[j][r] = [stack |-> r.stack, beyond |-> TRUE]
        BY <2>3, SiftDownUnfolds
      <4> QED BY <4>1
    <3>2. 2 * j >= MaxProcs
      BY <2>2, <2>3, MaxProcsAssumption DEF ReadsBeyond
    <3>3. 2 * r.bos >= MaxProcs
      BY <2>2, <3>2, MaxProcsAssumption
    <3> QED BY <2>1, <3>1, <3>3
  <2>4. CASE ~ ReadsBeyond(r, j) /\ \E d \in {2 * j, 2 * j + 1} : r.stack[j].priority > r.stack[d].priority
    <3>1. SiftDown[j][r] = SiftDown[c][h]
      BY <2>1, <2>2, <2>4, SiftDownUnfolds
    <3>2. c > j /\ c \in Nodes /\ Sinkable(h, c) /\ Shuffled(r.stack, t, r.bos - 1)
      BY <2>1, <2>4, SinksOn
    <3>3. t \in Stacks
      BY <3>2 DEF Shuffled
    <3>4. h \in Queues /\ h.stack = t /\ h.bos = r.bos
      <4> HIDE DEF t
      <4> QED BY <3>3, QueueFields
    <3>5. N - c \in Nat /\ N - c < m
      <4> HIDE DEF c
      <4> QED BY <2>1, <3>2, MaxProcsAssumption DEF Nodes
    <3> HIDE DEF h, t, c
    <3>6. ASSUME Done(c, h)  PROVE Done(j, r)
      <4>1. CASE SiftDown[j][r].beyond
        BY <3>1, <3>4, <3>6, <4>1
      <4>2. CASE ~ SiftDown[j][r].beyond
        <5>1. /\ Shuffled(t, SiftDown[j][r].stack, r.bos - 1)
              /\ Ordered(SiftDown[j][r].stack, r.bos - 1)
          BY <3>1, <3>4, <3>6, <4>2
        <5>2. Shuffled(r.stack, SiftDown[j][r].stack, r.bos - 1)
          BY <3>2, <5>1, ShuffledTwice
        <5> QED BY <4>2, <5>1, <5>2
      <4> QED BY <4>1, <4>2
    <3> HIDE DEF Done
    <3> QED BY <2>1, <3>2, <3>4, <3>5, <3>6
  <2>5. CASE ~ ReadsBeyond(r, j) /\ ~ \E d \in {2 * j, 2 * j + 1} : r.stack[j].priority > r.stack[d].priority
    <3>1. SiftDown[j][r] = [stack |-> r.stack, beyond |-> FALSE]
      BY <2>1, <2>5, SiftDownUnfolds
    <3>2. ASSUME NEW k \in 2 .. n  PROVE r.stack[k \div 2].priority <= r.stack[k].priority
      <4>1. CASE k \div 2 # j
        BY <2>1, <4>1 DEF Sinkable, OrderedBelow
      <4>2. CASE k \div 2 = j
        <5>1. k = 2 * j \/ k = 2 * j + 1
          BY <2>2, <4>2, Halves
        <5>2. k \in Places /\ j \in Places
          BY <2>2, MaxProcsAssumption DEF Places
        <5>3. r.stack[k].priority \in Nat /\ r.stack[j].priority \in Nat
          BY <2>2, <5>2, EntryType
        <5>4. ~ (r.stack[j].priority > r.stack[k].priority)
          BY <2>5, <5>1
        <5> QED BY <4>2, <5>3, <5>4
      <4> QED BY <4>1, <4>2
    <3>3. Ordered(r.stack, n)
      BY <3>2 DEF Ordered
    <3>4. Shuffled(r.stack, r.stack, n)
      BY <2>2 DEF Shuffled
    <3> QED BY <2>1, <3>1, <3>3, <3>4
  <2> QED BY <2>3, <2>4, <2>5
<1>2. S \in SUBSET Nat
  OBVIOUS
<1>3. i \in Nodes /\ q \in Queues /\ N - i \in Nat
  <2>1. q.bos \in Places /\ i \in 1 .. q.bos
    BY QueueFields DEF Sinkable
  <2>2. i \in Nodes /\ N - i \in Nat
    BY <2>1, MaxProcsAssumption DEF Places, Nodes
  <2> QED BY <2>2 DEF Sinkable
<1> HIDE DEF S
<1>4. S = {}
  BY <1>1, <1>2, Descent
<1>5. Done(i, q)
  <2> HIDE DEF Done
  <2> QED BY <1>3, <1>4 DEF S
<1> QED BY <1>5

-----------------------------------------------------------------------------
(* The entries in use, and a heap from which pop_min takes the least.      *)
In(q) == Content(q.stack, q.bos)

Good(q) ==
  /\ q \in Queues
  /\ Distinct(q.stack, q.bos)
  /\ Ordered(q.stack, q.bos)
  /\ Numbers(q.stack)
  /\ \A j \in Places : j > q.bos => q.stack[j].priority = LowestPriority

(* A heap that may be out of order at its root.                            *)
Poppable(q) ==
  /\ q \in Queues /\ q.bos >= 1
  /\ Distinct(q.stack, q.bos)
  /\ OrderedBelow(q.stack, q.bos, 1)
  /\ Numbers(q.stack)
  /\ \A j \in Places : j > q.bos => q.stack[j].priority = LowestPriority

LEMMA GoodIsPoppable ==
  ASSUME NEW q, Good(q), q.bos >= 1
  PROVE  Poppable(q)
BY DEF Good, Poppable, Ordered, OrderedBelow

(* No number is smaller than the root's.                                   *)
LEMMA RootIsLeast ==
  ASSUME NEW q, Good(q), q.bos >= 1
  PROVE  q.stack[1] \in In(q) /\ \A e \in In(q) : q.stack[1].priority <= e.priority
<1> DEFINE s == q.stack
           S == {j \in 1 .. q.bos : ~ (s[1].priority <= s[j].priority)}
<1>1. s \in Stacks /\ q.bos \in Nat /\ \A j \in 1 .. q.bos : j \in Places
  BY QueueFields, MaxProcsAssumption DEF Good, Places
<1>2. \A j \in 1 .. q.bos : s[j].priority \in Nat
  BY <1>1, EntryType
<1>3. 1 \in 1 .. q.bos
  BY <1>1
<1>4. ASSUME NEW j \in S  PROVE \E k \in S : k < j
  <2>1. j # 1
    BY <1>2, <1>3
  <2>2. j \in 2 .. q.bos /\ j \div 2 \in 1 .. q.bos /\ j \div 2 < j
    BY <1>1, <2>1, Halves
  <2>3. s[j \div 2].priority <= s[j].priority
    BY <2>2 DEF Good, Ordered
  <2>4. s[j].priority \in Nat /\ s[j \div 2].priority \in Nat /\ s[1].priority \in Nat
    BY <1>2, <1>3, <2>2
  <2>5. ~ (s[1].priority <= s[j].priority)
    OBVIOUS
  <2> HIDE DEF s
  <2>6. ~ (s[1].priority <= s[j \div 2].priority)
    BY <2>3, <2>4, <2>5
  <2> QED BY <2>2, <2>6 DEF s
<1>5. S \in SUBSET Nat
  OBVIOUS
<1> HIDE DEF S
<1>6. S = {}
  BY <1>4, <1>5, Descent
<1>7. \A j \in 1 .. q.bos : s[1].priority <= s[j].priority
  BY <1>6 DEF S
<1> QED BY <1>3, <1>7 DEF In, Content

(* Queued is the pids of the entries.                                      *)
LEMMA QueuedIs ==
  ASSUME NEW q
  PROVE  Queued(q) = {e.pid : e \in In(q)}
BY DEF Queued, In, Content

(* Equal pids, equal entries.                                              *)
LEMMA OneEntryEach ==
  ASSUME NEW q, Distinct(q.stack, q.bos), NEW d \in In(q), NEW e \in In(q), d.pid = e.pid
  PROVE  d = e
<1>1. PICK j \in 1 .. q.bos : d = q.stack[j]
  BY DEF In, Content
<1>2. PICK k \in 1 .. q.bos : e = q.stack[k]
  BY DEF In, Content
<1>3. j = k
  BY <1>1, <1>2 DEF Distinct
<1> QED BY <1>1, <1>2, <1>3

-----------------------------------------------------------------------------
(* insert.                                                                 *)
LEMMA InsertGood ==
  ASSUME NEW q, Good(q), q.bos < MaxProcs, NEW pid \in Slots, pid \notin Queued(q),
         NEW prio \in Priorities
  PROVE  /\ Good(insert(q, pid, prio)) /\ insert(q, pid, prio).bos = q.bos + 1
         /\ In(insert(q, pid, prio)) = In(q) \cup {[pid |-> pid, priority |-> Clamped(prio)]}
<1> DEFINE n == q.bos + 1
           s == q.stack
           e == [pid |-> pid, priority |-> Clamped(prio)]
           b == Bottom(q, pid, prio)
           t == insert(q, pid, prio).stack
<1>1. q \in Queues /\ s \in Stacks
  BY QueueFields DEF Good
<1>2. /\ n \in Places /\ q.bos \in Nat /\ Clamped(prio) \in 0 .. LowestPriority
      /\ b \in Stacks /\ b[n] = e /\ \A j \in Places : j # n => b[j] = s[j]
  BY <1>1, BottomFields
<1>3. LowestPriority \in Nat /\ e.pid = pid /\ e.priority = Clamped(prio)
  BY NumbersAssumption
<1> HIDE DEF b, e
<1>4. \A j \in 1 .. n : j \in Places /\ (j # n => j \in 1 .. q.bos)
  BY <1>2, MaxProcsAssumption DEF Places
<1>5. Content(b, n) = In(q) \cup {e}
  <2>1. \A j \in 1 .. n : b[j] \in In(q) \cup {e}
    BY <1>2, <1>4 DEF In, Content
  <2>2. n \in 1 .. n /\ \A j \in 1 .. q.bos : j \in 1 .. n /\ j # n /\ j \in Places
    BY <1>2, <1>4
  <2>3. \A j \in 1 .. q.bos : s[j] \in Content(b, n)
    BY <1>2, <2>2 DEF Content
  <2>4. e \in Content(b, n)
    BY <1>2, <2>2 DEF Content
  <2>5. \A d \in Content(b, n) : d \in In(q) \cup {e}
    BY <2>1 DEF Content
  <2>6. \A d \in In(q) : d \in Content(b, n)
    BY <2>3 DEF In, Content
  <2> QED BY <2>4, <2>5, <2>6
<1>6. Distinct(b, n)
  <2>1. \A j \in 1 .. q.bos : s[j].pid # pid
    BY DEF Queued
  <2>2. \A j, k \in 1 .. q.bos : s[j].pid = s[k].pid => j = k
    BY DEF Good, Distinct
  <2> SUFFICES ASSUME NEW j \in 1 .. n, NEW k \in 1 .. n, b[j].pid = b[k].pid
               PROVE  j = k
    BY DEF Distinct
  <2>3. CASE j = n \/ k = n
    BY <1>2, <1>3, <1>4, <2>1, <2>3
  <2>4. CASE j # n /\ k # n
    BY <1>2, <1>4, <2>2, <2>4
  <2> QED BY <2>3, <2>4
<1>7. \A j \in 2 .. n : /\ j \div 2 \in 1 .. q.bos /\ j \div 2 # n
                        /\ j # n => b[j \div 2].priority <= b[j].priority
  <2> SUFFICES ASSUME NEW j \in 2 .. n
               PROVE  /\ j \div 2 \in 1 .. q.bos /\ j \div 2 # n
                      /\ j # n => b[j \div 2].priority <= b[j].priority
    OBVIOUS
  <2>1. j \div 2 \in 1 .. q.bos /\ j \div 2 # n /\ j \div 2 \in 1 .. n /\ j \in 1 .. n
    BY <1>2, Halves
  <2>2. ASSUME j # n  PROVE b[j \div 2].priority <= b[j].priority
    <3>1. j \in 2 .. q.bos
      BY <1>2, <2>2
    <3>2. s[j \div 2].priority <= s[j].priority
      BY <3>1 DEF Good, Ordered
    <3> QED BY <1>2, <1>4, <2>1, <2>2, <3>2
  <2> QED BY <2>1, <2>2
<1>8. Shuffled(b, t, n) /\ Ordered(t, n)
  <2>1. CASE prio <= LowestPriority
    <3>1. OrderedAbove(b, n, n)
      BY <1>7 DEF OrderedAbove
    <3>2. t = SiftUp[n][b]
      BY <2>1, InsertIs DEF b
    <3>3. n \in 1 .. n
      BY <1>2
    <3> HIDE DEF t, n
    <3> QED BY <1>2, <3>1, <3>2, <3>3, SiftUpOrders
  <2>2. CASE ~ (prio <= LowestPriority)
    <3>1. t = b
      BY <2>2, InsertIs DEF b
    <3>2. \A j \in 2 .. n : b[j \div 2].priority <= b[j].priority
      <4> SUFFICES ASSUME NEW j \in 2 .. n  PROVE b[j \div 2].priority <= b[j].priority
        OBVIOUS
      <4>1. CASE j # n
        BY <1>7, <4>1
      <4>2. CASE j = n
        <5>0. j \div 2 \in 1 .. q.bos /\ j \div 2 # n
          BY <1>7
        <5>1. j \div 2 \in Places /\ j \div 2 # n
          <6>1. \A k \in 1 .. q.bos : k \in Places
            BY <1>2, MaxProcsAssumption DEF Places
          <6> QED BY <5>0, <6>1
        <5>2. s[j \div 2].priority <= LowestPriority
          BY <5>1 DEF Good, Numbers
        <5>3. b[j].priority = LowestPriority
          BY <1>2, <1>3, <2>2, <4>2 DEF Clamped
        <5> QED BY <1>2, <5>1, <5>2, <5>3
      <4> QED BY <4>1, <4>2
    <3> HIDE DEF t
    <3> QED BY <1>2, <3>1, <3>2 DEF Shuffled, Ordered
  <2> QED BY <2>1, <2>2
<1>9. Numbers(b)
  <2>1. \A j \in Places : s[j].priority <= LowestPriority
    BY DEF Good, Numbers
  <2>2. b[n].priority <= LowestPriority
    BY <1>2, <1>3
  <2> HIDE DEF n, s
  <2> QED BY <1>2, <2>1, <2>2 DEF Numbers
<1>10. t \in Stacks /\ Content(t, n) = In(q) \cup {e} /\ Distinct(t, n)
       /\ \A j \in Places \ (1 .. n) : t[j] = b[j]
  BY <1>5, <1>6, <1>8 DEF Shuffled
<1> HIDE DEF t
<1>11. Numbers(t)
  <2> SUFFICES ASSUME NEW j \in Places  PROVE t[j].priority <= LowestPriority
    BY DEF Numbers
  <2>1. CASE j \in 1 .. n
    <3>1. t[j] \in Content(b, n)
      BY <1>5, <1>10, <2>1 DEF Content
    <3>2. PICK k \in 1 .. n : t[j] = b[k]
      BY <3>1 DEF Content
    <3> QED BY <1>4, <1>9, <3>2 DEF Numbers
  <2>2. CASE j \notin 1 .. n
    BY <1>9, <1>10, <2>2 DEF Numbers
  <2> QED BY <2>1, <2>2
<1>12. \A j \in Places : j > n => t[j].priority = LowestPriority
  <2> SUFFICES ASSUME NEW j \in Places, j > n  PROVE t[j].priority = LowestPriority
    OBVIOUS
  <2>1. j \in Nat /\ j \notin 1 .. n /\ j # n /\ j > q.bos
    BY <1>2, RootPlace
  <2>2. s[j].priority = LowestPriority
    BY <2>1 DEF Good
  <2> HIDE DEF n, s
  <2> QED BY <1>2, <1>10, <2>1, <2>2
<1>13. insert(q, pid, prio).stack = t /\ insert(q, pid, prio).bos = n
  BY InsertIs DEF t
<1>14. insert(q, pid, prio) \in Queues
  BY <1>1, InsertType
<1> HIDE DEF n
<1> QED BY <1>8, <1>10, <1>11, <1>12, <1>13, <1>14 DEF Good, In, e, n

-----------------------------------------------------------------------------
(* newPriority.                                                            *)
LEMMA AgeFields ==
  ASSUME NEW q \in Queues, NEW pid
  PROVE  /\ newPriority(q, pid) \in Queues /\ newPriority(q, pid).bos = q.bos
         /\ \A i \in Places :
              /\ newPriority(q, pid).stack[i].pid = q.stack[i].pid
              /\ newPriority(q, pid).stack[i].priority =
                   IF i \in 1 .. q.bos /\ q.stack[i].pid # pid
                   THEN (q.stack[i].priority - 1) % PrioMod ELSE q.stack[i].priority
<1> DEFINE s == q.stack
           Older(i) == IF i \in 1 .. q.bos /\ s[i].pid # pid
                       THEN [s[i] EXCEPT !.priority = (s[i].priority - 1) % PrioMod] ELSE s[i]
           t == [i \in Places |-> Older(i)]
<1>1. ASSUME NEW i \in Places
      PROVE  /\ Older(i) \in Entries /\ Older(i).pid = s[i].pid
             /\ Older(i).priority = IF i \in 1 .. q.bos /\ s[i].pid # pid
                                    THEN (s[i].priority - 1) % PrioMod ELSE s[i].priority
  <2>1. s[i] \in Entries /\ s[i].priority \in Nat
    BY QueueFields, EntryType
  <2> DEFINE e == s[i]
             m == (e.priority - 1) % PrioMod
  <2>2. m \in Priorities
    <3> DEFINE x == e.priority - 1
    <3>1. x \in Int /\ PrioMod \in Nat /\ PrioMod > 0
      BY <2>1, NumbersAssumption
    <3> HIDE DEF x
    <3>2. x % PrioMod \in 0 .. PrioMod - 1
      BY <3>1
    <3> QED BY <3>2 DEF Priorities, x
  <2> HIDE DEF m
  <2>3. e \in [pid : -1 .. MaxProcs - 1, priority : Priorities]
    BY <2>1 DEF Entries
  <2> HIDE DEF e
  <2>4. /\ [e EXCEPT !.priority = m] \in [pid : -1 .. MaxProcs - 1, priority : Priorities]
        /\ [e EXCEPT !.priority = m].pid = e.pid /\ [e EXCEPT !.priority = m].priority = m
    BY <2>2, <2>3
  <2> QED BY <2>1, <2>4 DEF e, m, Entries
<1>2. newPriority(q, pid) = [q EXCEPT !.stack = t]
  BY DEF newPriority
<1> HIDE DEF Older
<1>3. t \in Stacks /\ \A i \in Places : t[i] = Older(i)
  BY <1>1 DEF Stacks
<1> HIDE DEF t
<1>4. [q EXCEPT !.stack = t] \in Queues /\ [q EXCEPT !.stack = t].stack = t /\ [q EXCEPT !.stack = t].bos = q.bos
  BY <1>3, QueueFields
<1> QED BY <1>1, <1>2, <1>3, <1>4

(* No number in use is 0: none wraps when it is lowered.                   *)
Lowers(q) == \A i \in 1 .. q.bos : q.stack[i].priority >= 1

LEMMA LessOne ==
  ASSUME NEW x \in Nat, x >= 1, x <= LowestPriority
  PROVE  (x - 1) % PrioMod = x - 1
<1> DEFINE y == x - 1
<1>1. y \in Nat /\ PrioMod \in Nat /\ y < PrioMod
  BY NumbersAssumption
<1> HIDE DEF y
<1>2. y % PrioMod = y
  BY <1>1
<1> QED BY <1>2 DEF y

(* Aging keeps the order, but for a process at the root that does not age. *)
LEMMA AgePoppable ==
  ASSUME NEW q, Good(q), Lowers(q), NEW pid, \A i \in 2 .. q.bos : q.stack[i].pid # pid
  PROVE  /\ \A i \in 1 .. q.bos :
              newPriority(q, pid).stack[i].priority =
                IF q.stack[i].pid # pid THEN q.stack[i].priority - 1 ELSE q.stack[i].priority
         /\ q.bos >= 1 => Poppable(newPriority(q, pid))
         /\ pid \notin Queued(q) => Good(newPriority(q, pid))
<1> DEFINE s == q.stack
           r == newPriority(q, pid)
           t == newPriority(q, pid).stack
<1>1. /\ q \in Queues /\ s \in Stacks /\ q.bos \in Nat /\ LowestPriority \in Nat
      /\ \A j \in 1 .. q.bos : j \in Places
  BY QueueFields, MaxProcsAssumption, NumbersAssumption DEF Good, Places
<1>2. /\ r \in Queues /\ r.bos = q.bos
      /\ \A i \in Places : /\ t[i].pid = s[i].pid
                           /\ t[i].priority = IF i \in 1 .. q.bos /\ s[i].pid # pid
                                              THEN (s[i].priority - 1) % PrioMod ELSE s[i].priority
  BY <1>1, AgeFields
<1>3. \A j \in Places : s[j].priority \in Nat /\ s[j].priority <= LowestPriority
  BY <1>1, EntryType DEF Good, Numbers
<1> HIDE DEF s, t, r
<1>4. ASSUME NEW i \in 1 .. q.bos
      PROVE  t[i].priority = IF s[i].pid # pid THEN s[i].priority - 1 ELSE s[i].priority
  <2>1. s[i].priority \in Nat /\ s[i].priority >= 1 /\ s[i].priority <= LowestPriority
    BY <1>1, <1>3 DEF Lowers, s
  <2>2. (s[i].priority - 1) % PrioMod = s[i].priority - 1
    BY <2>1, LessOne
  <2> QED BY <1>1, <1>2, <2>2
<1>5. Numbers(t)
  <2> SUFFICES ASSUME NEW j \in Places  PROVE t[j].priority <= LowestPriority
    BY DEF Numbers
  <2>1. CASE j \in 1 .. q.bos
    BY <1>3, <1>4, <2>1, <1>1
  <2>2. CASE j \notin 1 .. q.bos
    BY <1>2, <1>3, <2>2
  <2> QED BY <2>1, <2>2
<1>6. \A j \in Places : j > r.bos => t[j].priority = LowestPriority
  <2> SUFFICES ASSUME NEW j \in Places, j > q.bos  PROVE t[j].priority = LowestPriority
    BY <1>2
  <2>1. j \notin 1 .. q.bos
    BY <1>1, RootPlace
  <2>2. s[j].priority = LowestPriority
    BY DEF Good, s
  <2> QED BY <1>2, <2>1, <2>2
<1>7. Distinct(t, q.bos)
  <2>1. \A j, k \in 1 .. q.bos : s[j].pid = s[k].pid => j = k
    BY DEF Good, Distinct, s
  <2> QED BY <1>1, <1>2, <2>1 DEF Distinct
<1>8. ASSUME NEW j \in 2 .. q.bos
      PROVE  /\ j \div 2 \in 1 .. q.bos /\ j \in 1 .. q.bos /\ s[j \div 2].priority <= s[j].priority
             /\ j \div 2 \in Nat /\ j \div 2 < j
             /\ j \div 2 # 1 \/ s[1].pid # pid => t[j \div 2].priority <= t[j].priority
  <2>1. j \div 2 \in 1 .. q.bos /\ j \in 1 .. q.bos /\ j \div 2 \in Nat /\ j \div 2 < j
    BY <1>1, Halves
  <2>2. s[j \div 2].priority <= s[j].priority
    BY DEF Good, Ordered, s
  <2>3. ASSUME j \div 2 # 1 \/ s[1].pid # pid  PROVE t[j \div 2].priority <= t[j].priority
    <3>1. s[j \div 2].pid # pid /\ s[j].pid # pid
      <4>1. \A i \in 2 .. q.bos : s[i].pid # pid
        BY DEF s
      <4>2. j \div 2 = 1 \/ j \div 2 \in 2 .. q.bos
        BY <2>1, <1>1
      <4> QED BY <2>3, <4>1, <4>2
    <3>2. t[j \div 2].priority = s[j \div 2].priority - 1 /\ t[j].priority = s[j].priority - 1
      BY <1>4, <2>1, <3>1
    <3>3. s[j \div 2].priority \in Nat /\ s[j].priority \in Nat
      BY <1>1, <1>3, <2>1
    <3> QED BY <2>2, <3>2, <3>3
  <2> QED BY <2>1, <2>2, <2>3
<1>9. OrderedBelow(t, q.bos, 1)
  BY <1>8 DEF OrderedBelow
<1>10. ASSUME pid \notin Queued(q)  PROVE Ordered(t, q.bos)
  <2> SUFFICES ASSUME NEW j \in 2 .. q.bos  PROVE t[j \div 2].priority <= t[j].priority
    BY DEF Ordered
  <2>1. 1 \in 1 .. q.bos
    BY <1>1
  <2>2. s[1].pid # pid
    BY <1>10, <2>1 DEF Queued, s
  <2> QED BY <1>8, <2>2
<1> QED BY <1>2, <1>4, <1>5, <1>6, <1>7, <1>9, <1>10 DEF Good, Poppable, s, t, r

(* What aging does to the entries when nobody is spared.                   *)
LEMMA AgeIn ==
  ASSUME NEW q, Good(q), Lowers(q), NEW pid, pid \notin Queued(q)
  PROVE  /\ Good(newPriority(q, pid)) /\ newPriority(q, pid).bos = q.bos
         /\ \A e \in In(newPriority(q, pid)) :
              \E d \in In(q) : d.pid = e.pid /\ e.priority = d.priority - 1
         /\ \A d \in In(q) :
              \E e \in In(newPriority(q, pid)) : d.pid = e.pid /\ e.priority = d.priority - 1
<1> DEFINE r == newPriority(q, pid)
<1>1. \A i \in 1 .. q.bos : q.stack[i].pid # pid
  BY DEF Queued
<1>2. q.bos \in Nat /\ \A i \in 1 .. q.bos : i \in Places
  BY QueueFields, MaxProcsAssumption DEF Good, Places
<1>3. \A i \in 2 .. q.bos : q.stack[i].pid # pid
  BY <1>1, <1>2
<1>4. r.bos = q.bos /\ \A i \in 1 .. q.bos : r.stack[i].pid = q.stack[i].pid
  BY <1>2, AgeFields DEF Good
<1>5. Good(r) /\ \A i \in 1 .. q.bos : r.stack[i].priority = q.stack[i].priority - 1
  BY <1>1, <1>3, AgePoppable
<1> HIDE DEF r
<1> QED BY <1>4, <1>5 DEF In, Content, r

-----------------------------------------------------------------------------
(* pop_min.  Its loop starts with the last entry at the root.              *)
Raised(q) == [q EXCEPT !.stack = [q.stack EXCEPT ![1] = q.stack[q.bos]]]

LEMMA RaisedFields ==
  ASSUME NEW q \in Queues, q.bos >= 1
  PROVE  /\ Raised(q) \in Queues /\ Raised(q).bos = q.bos
         /\ Raised(q).stack \in Stacks
         /\ Raised(q).stack[1] = q.stack[q.bos]
         /\ \A j \in Places : j # 1 => Raised(q).stack[j] = q.stack[j]
         /\ Sunk(q) = SiftDown[1][Raised(q)]
<1>1. q.stack \in [Places -> Entries] /\ q.bos \in Places /\ q.stack \in Stacks
  BY QueueFields DEF Stacks
<1>2. q.stack[q.bos] \in Entries
  BY <1>1
<1> DEFINE t == [q.stack EXCEPT ![1] = q.stack[q.bos]]
<1>3. t \in Stacks /\ t[1] = q.stack[q.bos] /\ \A j \in Places : j # 1 => t[j] = q.stack[j]
  BY <1>1, <1>2, RootPlace DEF Stacks
<1>4. Sunk(q) = SiftDown[1][[q EXCEPT !.stack = t]]
  BY DEF Sunk
<1> HIDE DEF t
<1>5. [q EXCEPT !.stack = t] \in Queues /\ [q EXCEPT !.stack = t].stack = t /\ [q EXCEPT !.stack = t].bos = q.bos
  BY <1>3, QueueFields
<1> QED BY <1>3, <1>4, <1>5 DEF Raised, t

LEMMA RootNode == 1 \in Nodes
BY MaxProcsAssumption DEF Nodes

LEMMA PopFields ==
  ASSUME NEW q \in Queues, q.bos >= 1
  PROVE  /\ pop_min(q) \in Queues /\ pop_min(q).bos = q.bos - 1
         /\ Sunk(q).stack \in Stacks
         /\ \A j \in Places : j # q.bos => pop_min(q).stack[j] = Sunk(q).stack[j]
         /\ pop_min(q).stack[q.bos].priority = LowestPriority
<1> DEFINE u == Sunk(q).stack
<1>1. u \in [Places -> Entries]
  <2>1. Sunk(q) \in [stack : Stacks, beyond : BOOLEAN]
    BY RaisedFields, SiftDownType, RootNode
  <2> QED BY <2>1 DEF Stacks
<1>2. q.bos \in Places /\ q.bos - 1 \in Places
  BY QueueFields, MaxProcsAssumption DEF Places
<1> HIDE DEF u
<1> DEFINE e == [u[q.bos] EXCEPT !.priority = LowestPriority]
           t == [u EXCEPT ![q.bos] = e]
<1>3. e \in Entries /\ e.priority = LowestPriority
  <2>1. LowestPriority \in Priorities
    BY NumbersAssumption DEF Priorities
  <2>2. u[q.bos] \in [pid : -1 .. MaxProcs - 1, priority : Priorities]
    BY <1>1, <1>2 DEF Entries
  <2> QED BY <2>1, <2>2 DEF Entries
<1>4. pop_min(q) = [stack |-> t, bos |-> q.bos - 1]
  BY DEF pop_min, u
<1> HIDE DEF e
<1>5. t \in Stacks /\ t[q.bos] = e /\ \A j \in Places : j # q.bos => t[j] = u[j]
  BY <1>1, <1>2, <1>3 DEF Stacks
<1> HIDE DEF t
<1>6. pop_min(q) \in Queues
  BY <1>2, <1>4, <1>5 DEF Queues
<1> QED BY <1>1, <1>3, <1>4, <1>5, <1>6 DEF u, Stacks

(* The last entry at the root is where SiftDown may start.                 *)
LEMMA RaisedSinkable ==
  ASSUME NEW q, Poppable(q)
  PROVE  Sinkable(Raised(q), 1)
<1> DEFINE s == q.stack
           t == Raised(q).stack
<1>1. /\ q \in Queues /\ s \in Stacks /\ q.bos \in Nat /\ q.bos >= 1
      /\ \A j \in 1 .. q.bos : j \in Places
  BY QueueFields, MaxProcsAssumption DEF Poppable, Places
<1>2. /\ Raised(q) \in Queues /\ Raised(q).bos = q.bos /\ t[1] = s[q.bos]
      /\ \A j \in Places : j # 1 => t[j] = s[j]
  BY <1>1, RaisedFields
<1>3. \A j \in Places : s[j].priority \in Nat /\ s[j].priority <= LowestPriority
  BY <1>1, EntryType DEF Poppable, Numbers
<1>4. \A j \in 2 .. q.bos : j \div 2 # 1 => s[j \div 2].priority <= s[j].priority
  BY DEF Poppable, OrderedBelow
<1>5. \A j \in Places : j > q.bos => s[j].priority = LowestPriority
  BY DEF Poppable
<1> HIDE DEF s, t
<1>6. q.bos \in Places /\ 1 \in 1 .. q.bos
  BY <1>1
<1>7. OrderedBelow(t, q.bos - 1, 1)
  <2> SUFFICES ASSUME NEW j \in 2 .. q.bos - 1, j \div 2 # 1
               PROVE  t[j \div 2].priority <= t[j].priority
    BY DEF OrderedBelow
  <2>1. j \in 2 .. q.bos /\ j \div 2 \in 1 .. q.bos /\ j # 1
    BY <1>1, Halves
  <2>2. t[j] = s[j] /\ t[j \div 2] = s[j \div 2]
    BY <1>1, <1>2, <2>1
  <2> QED BY <1>4, <2>1, <2>2
<1>8. Numbers(t)
  <2>1. \A j \in Places : t[j].priority <= LowestPriority
    BY <1>2, <1>3, <1>6
  <2> QED BY <2>1 DEF Numbers
<1>9. ASSUME NEW j \in Places, j >= q.bos
      PROVE  t[1].priority <= t[j].priority
  <2>1. CASE j = 1
    <3>1. t[1] = s[q.bos] /\ s[q.bos].priority \in Nat
      BY <1>2, <1>3, <1>6
    <3>2. t[1].priority \in Nat
      BY <3>1
    <3> QED BY <2>1, <3>2
  <2>2. CASE j # 1 /\ j = q.bos
    BY <1>2, <1>3, <1>6, <2>2
  <2>3. CASE j # 1 /\ j # q.bos
    <3>1. j > q.bos
      BY <1>1, <1>9, <2>3, RootPlace
    <3> QED BY <1>2, <1>3, <1>5, <1>6, <2>3, <3>1
  <2> QED BY <2>1, <2>2, <2>3
<1> QED BY <1>2, <1>6, <1>7, <1>8, <1>9 DEF Sinkable, t

(* Only a heap that is half full makes it read beyond the array.           *)
LEMMA PopStays ==
  ASSUME NEW q, Poppable(q), 2 * q.bos < MaxProcs
  PROVE  ~ Sunk(q).beyond
<1>1. q \in Queues /\ q.bos >= 1
  BY DEF Poppable
<1>2. Sinkable(Raised(q), 1) /\ Raised(q).bos = q.bos /\ Sunk(q) = SiftDown[1][Raised(q)]
  BY <1>1, RaisedFields, RaisedSinkable
<1>3. SiftDown[1][Raised(q)].beyond => 2 * Raised(q).bos >= MaxProcs
  BY <1>2, SiftDownOrders
<1>4. q.bos \in Nat
  BY <1>1, QueueFields, RootPlace
<1> QED BY <1>2, <1>3, <1>4, MaxProcsAssumption

LEMMA PopGood ==
  ASSUME NEW q, Poppable(q), ~ Sunk(q).beyond
  PROVE  /\ Good(pop_min(q)) /\ pop_min(q).bos = q.bos - 1
         /\ In(pop_min(q)) = In(q) \ {q.stack[1]}
<1> DEFINE s == q.stack
           r == Raised(q).stack
           u == Sunk(q).stack
           t == pop_min(q).stack
           n == q.bos - 1
<1>1. q \in Queues /\ s \in Stacks /\ q.bos >= 1 /\ q.bos \in Nat /\ q.bos \in Places /\ n \in Nat
  BY QueueFields, RootPlace DEF Poppable
<1>2. /\ Raised(q).bos = q.bos /\ Raised(q) \in Queues /\ Sunk(q) = SiftDown[1][Raised(q)]
      /\ r[1] = s[q.bos] /\ r \in Stacks /\ \A j \in Places : j # 1 => r[j] = s[j]
  BY <1>1, RaisedFields
<1>3. Sinkable(Raised(q), 1)
  BY RaisedSinkable
<1>4. Shuffled(r, u, n) /\ Ordered(u, n)
  <2>1. ~ SiftDown[1][Raised(q)].beyond
    BY <1>2
  <2>2. /\ Shuffled(Raised(q).stack, SiftDown[1][Raised(q)].stack, Raised(q).bos - 1)
        /\ Ordered(SiftDown[1][Raised(q)].stack, Raised(q).bos - 1)
    BY <1>3, <2>1, SiftDownOrders
  <2> QED BY <1>2, <2>2
<1>5. /\ pop_min(q) \in Queues /\ pop_min(q).bos = n /\ u \in Stacks
      /\ \A j \in Places : j # q.bos => t[j] = u[j]
      /\ t[q.bos].priority = LowestPriority
  BY <1>1, PopFields
<1>6. Numbers(r)
  BY <1>3 DEF Sinkable
<1>7. \A j, k \in 1 .. q.bos : s[j].pid = s[k].pid => j = k
  BY DEF Poppable, Distinct
<1>8. \A j \in Places : j > q.bos => s[j].priority = LowestPriority
  BY DEF Poppable
<1> HIDE DEF s, r, u, t
<1>9. \A j \in 1 .. n : j \in Places /\ j # q.bos /\ j \in 1 .. q.bos
  BY <1>1, MaxProcsAssumption DEF Places
<1>10. Distinct(r, n)
  <2> SUFFICES ASSUME NEW j \in 1 .. n, NEW k \in 1 .. n, r[j].pid = r[k].pid
               PROVE  j = k
    BY DEF Distinct
  <2> DEFINE At(i) == IF i = 1 THEN q.bos ELSE i
  <2>1. r[j] = s[At(j)] /\ r[k] = s[At(k)] /\ At(j) \in 1 .. q.bos /\ At(k) \in 1 .. q.bos
    BY <1>1, <1>2, <1>9
  <2>2. At(j) = At(k)
    <3> HIDE DEF At
    <3> QED BY <1>7, <2>1
  <2> QED BY <1>9, <2>2
<1>11. Content(r, n) = {s[j] : j \in 1 .. q.bos} \ {s[1]}
  <2>1. ASSUME NEW j \in 1 .. n  PROVE r[j] \in {s[k] : k \in 1 .. q.bos} \ {s[1]}
    <3>1. CASE j = 1
      <4>1. r[j] = s[q.bos] /\ q.bos \in 1 .. q.bos /\ 1 \in 1 .. q.bos /\ q.bos # 1
        BY <1>1, <1>2, <1>9, <3>1
      <4>2. s[q.bos] # s[1]
        BY <1>7, <4>1
      <4> QED BY <4>1, <4>2
    <3>2. CASE j # 1
      <4>1. r[j] = s[j] /\ j \in 1 .. q.bos /\ 1 \in 1 .. q.bos
        BY <1>1, <1>2, <1>9, <3>2
      <4>2. s[j] # s[1]
        BY <1>7, <3>2, <4>1
      <4> QED BY <4>1, <4>2
    <3> QED BY <3>1, <3>2
  <2>2. ASSUME NEW j \in 1 .. q.bos, s[j] # s[1]  PROVE s[j] \in Content(r, n)
    <3>1. j # 1
      BY <2>2
    <3>2. CASE j = q.bos
      <4>1. r[1] = s[j] /\ 1 \in 1 .. n
        BY <1>1, <1>2, <3>1, <3>2
      <4> QED BY <4>1 DEF Content
    <3>3. CASE j # q.bos
      <4>1. j \in 1 .. n
        BY <1>1, <3>3
      <4>2. r[j] = s[j]
        BY <1>2, <1>9, <3>1, <4>1
      <4> QED BY <4>1, <4>2 DEF Content
    <3> QED BY <3>2, <3>3
  <2>3. \A e \in Content(r, n) : e \in {s[k] : k \in 1 .. q.bos} \ {s[1]}
    BY <2>1 DEF Content
  <2>4. \A e \in {s[k] : k \in 1 .. q.bos} \ {s[1]} : e \in Content(r, n)
    BY <2>2
  <2> QED BY <2>3, <2>4
<1>12. /\ Content(u, n) = Content(r, n) /\ Distinct(u, n)
       /\ \A j \in Places : j \notin 1 .. n => u[j] = r[j]
  BY <1>4, <1>10 DEF Shuffled
<1>13. \A j \in 1 .. n : t[j] = u[j]
  BY <1>5, <1>9
<1>14. Content(t, n) = Content(u, n)
  BY <1>13 DEF Content
<1>15. Distinct(t, n)
  BY <1>12, <1>13 DEF Distinct
<1>16. Ordered(t, n)
  <2> SUFFICES ASSUME NEW j \in 2 .. n  PROVE t[j \div 2].priority <= t[j].priority
    BY DEF Ordered
  <2>1. j \in 1 .. n /\ j \div 2 \in 1 .. n
    BY <1>1, Halves
  <2>2. u[j \div 2].priority <= u[j].priority
    BY <1>4 DEF Ordered
  <2> QED BY <1>13, <2>1, <2>2
<1>17. Numbers(t)
  <2> SUFFICES ASSUME NEW j \in Places  PROVE t[j].priority <= LowestPriority
    BY DEF Numbers
  <2>1. CASE j = q.bos
    BY <1>5, <2>1, NumbersAssumption
  <2>2. CASE j \in 1 .. n
    <3>1. t[j] \in Content(r, n)
      BY <1>12, <1>13, <2>2 DEF Content
    <3>2. PICK k \in 1 .. n : t[j] = r[k]
      BY <3>1 DEF Content
    <3> QED BY <1>6, <1>9, <3>2 DEF Numbers
  <2>3. CASE j # q.bos /\ j \notin 1 .. n
    <3>1. t[j] = r[j]
      BY <1>5, <1>12, <2>3
    <3> QED BY <1>6, <3>1 DEF Numbers
  <2> QED BY <2>1, <2>2, <2>3
<1>18. ASSUME NEW j \in Places, j > n  PROVE t[j].priority = LowestPriority
  <2>1. CASE j = q.bos
    BY <1>5, <2>1
  <2>2. CASE j # q.bos
    <3>1. j \in Nat /\ j > q.bos /\ j \notin 1 .. n /\ j # 1
      BY <1>1, <1>18, <2>2, RootPlace
    <3>2. t[j] = s[j]
      BY <1>2, <1>5, <1>12, <2>2, <3>1
    <3> QED BY <1>8, <3>1, <3>2
  <2> QED BY <2>1, <2>2
<1>19. In(q) = {s[j] : j \in 1 .. q.bos}
  BY DEF In, Content, s
<1> HIDE DEF n
<1> QED BY <1>5, <1>11, <1>12, <1>14, <1>15, <1>16, <1>17, <1>18, <1>19 DEF Good, In, t, s, n

(* The queue of initialiseStack.                                           *)
LEMMA EmptyGood == Good(Empty) /\ Empty.bos = 0 /\ In(Empty) = {} /\ Queued(Empty) = {}
<1> DEFINE At(i) == IF i = 0 THEN [pid |-> 0, priority |-> 0]
                    ELSE [pid |-> -1, priority |-> LowestPriority]
           s == [i \in Places |-> At(i)]
<1>1. LowestPriority \in Nat /\ LowestPriority \in Priorities /\ 0 \in Priorities
  BY NumbersAssumption DEF Priorities
<1>2. \A i \in Places : At(i) \in Entries
  BY <1>1, MaxProcsAssumption DEF Entries
<1>3. Empty = [stack |-> s, bos |-> 0]
  BY DEF Empty
<1>4. \A i \in Places : s[i].priority <= LowestPriority
  BY <1>1
<1>5. \A i \in Places : i > 0 => s[i].priority = LowestPriority
  BY RootPlace
<1> HIDE DEF At
<1>6. s \in Stacks
  BY <1>2 DEF Stacks
<1> HIDE DEF s
<1>7. Empty \in Queues /\ Empty.stack = s /\ Empty.bos = 0
  BY <1>3, <1>6, RootPlace DEF Queues
<1> QED BY <1>4, <1>5, <1>7 DEF Good, Distinct, Ordered, Numbers, In, Content, Queued

-----------------------------------------------------------------------------
(* Only processes that exist are waiting or scheduled.                     *)
Waiting(p) == status[p] \in {"ACTIVE", "SCHEDULED"}
OnlyLiveWait ==
  /\ status \in [Slots -> {"DEAD", "ACTIVE", "SCHEDULED"}]
  /\ \A p \in Slots : Waiting(p) => p \in live

(* The inductive invariant behind SlotsHoldContexts and TableConsistent.   *)
IInv == TableSound /\ OnlyLiveWait

-----------------------------------------------------------------------------
(* The invariant holds at reset.                                           *)
LEMMA InitIInv == Init => IInv
<1> SUFFICES ASSUME Init PROVE IInv
  OBVIOUS
<1>1. TableSound
  BY ResetSound DEF Init
<1>2. OnlyLiveWait
  BY BootHasZero DEF Init, TableInit, OnlyLiveWait, Waiting
<1>3. QED  BY <1>1, <1>2 DEF IInv

(* A handler that has failed has changed nothing but fault.                *)
Idle == Fails /\ UNCHANGED <<status, priority, active>>

LEMMA FailingIsIdle ==
  ASSUME IInv, Idle
  PROVE  IInv' /\ UNCHANGED View
BY FailStep DEF Idle, Fails, IInv, OnlyLiveWait, Waiting

(* The ways the scheduler, exit and fork can end.                          *)
Switches(q, st) == \E next \in Slots : scheduler2(q, st, next) /\ SwitchTo(next)

LEMMA RescheduleCases ==
  ASSUME Reschedule
  PROVE  /\ ~ fault
         /\ \/ Idle /\ RequeueFails
            \/ Idle /\ ~ Serves(Requeued, RequeuedStatus)
            \/ /\ ~ RequeueFails
               /\ Switches(Requeued, RequeuedStatus)
               /\ UNCHANGED <<live, noProcesses, priority>>
BY DEF Reschedule, scheduler2Strays, Idle, Switches

Leaves(q, st) == \E next \in Slots : scheduler2(q, st, next) /\ AbandonFor(next)

LEMMA ExitCases ==
  ASSUME Exit
  PROVE  /\ ~ fault /\ current # 0
         /\ \/ Idle /\ ~ Serves(newPriority(active, -1), [status EXCEPT ![current] = "DEAD"])
            \/ /\ exit_kernel
               /\ priority' = [priority EXCEPT ![current] = 0]
               /\ Leaves(newPriority(active, -1), [status EXCEPT ![current] = "DEAD"])
BY DEF Exit, scheduler2Strays, Idle, Leaves

LEMMA ForkCases ==
  ASSUME IInv, Fork
  PROVE  /\ ~ fault /\ Cardinality(live) < MaxLive
         /\ \E place \in Slots \ live :
              /\ FirstFree(place)
              /\ \/ Idle /\ InsertFails(active, place, priority[current])
                 \/ /\ ForkInto(place) /\ UNCHANGED fault
                    /\ priority' = [priority EXCEPT ![place] = priority[current]]
                    /\ status' = [status EXCEPT ![place] = "ACTIVE"]
                    /\ active' = insert(active, place, priority[current])
<1>1. PICK place \in Slots :
        /\ FirstFree(place)
        /\ IF status[place] # "ACTIVE" /\ InsertFails(active, place, priority[current])
           THEN Fails /\ UNCHANGED <<status, priority, active>>
           ELSE Joins(place) /\ UNCHANGED fault
  BY DEF Fork
<1>2. place \in Slots \ live
  BY <1>1 DEF FirstFree
<1>3. status[place] # "ACTIVE"
  BY <1>2 DEF IInv, OnlyLiveWait, Waiting
<1>4. ~ fault /\ Cardinality(live) < MaxLive
  BY DEF Fork
<1> QED BY <1>1, <1>2, <1>3, <1>4 DEF Joins, Idle

(* Every step keeps the invariant and is a step of one process's own       *)
(* processor, or leaves every process's registers as they are.             *)
LEMMA StepSound == IInv /\ [Next]_vars => IInv' /\ [VCPU!Next]_View
<1> SUFFICES ASSUME IInv, [Next]_vars PROVE IInv' /\ [VCPU!Next]_View
  OBVIOUS
<1>t. TableSound /\ live \in SUBSET Slots /\ current \in live /\ current \in Slots
  BY DEF IInv, TableSound, TableTypeOK, TableConsistent
<1>w. /\ status \in [Slots -> {"DEAD", "ACTIVE", "SCHEDULED"}]
      /\ \A p \in Slots : status[p] \in {"ACTIVE", "SCHEDULED"} => p \in live
  BY DEF IInv, OnlyLiveWait, Waiting
<1>1. CASE Run
  <2>1. PICK v \in RegValues : Compute(v)
    BY <1>1 DEF Run
  <2>2. OnlyLiveWait'
    BY <1>1, <2>1, <1>w DEF Run, Compute, OnlyLiveWait, Waiting
  <2>3. QED  BY <2>1, <2>2, <1>t, ComputeStep DEF IInv
<1>2. CASE Reschedule
  <2>1. CASE Idle
    BY <2>1, FailingIsIdle
  <2>2. CASE /\ Switches(Requeued, RequeuedStatus)
             /\ UNCHANGED <<live, noProcesses, priority>>
    <3>1. PICK next \in Slots : scheduler2(Requeued, RequeuedStatus, next) /\ SwitchTo(next)
      BY <2>2 DEF Switches
    <3>2. /\ RequeuedStatus = [status EXCEPT ![current] = "ACTIVE"]
          /\ RequeuedStatus[next] = "ACTIVE"
          /\ status' = [RequeuedStatus EXCEPT ![next] = "SCHEDULED"]
          /\ UNCHANGED <<live, noProcesses, fault>>
      BY <2>2, <3>1 DEF scheduler2, Serves, RequeuedStatus
    <3>3. next \in live
      BY <3>2, <1>t, <1>w
    <3>4. OnlyLiveWait'
      BY <3>2, <3>3, <1>t, <1>w DEF OnlyLiveWait, Waiting
    <3>5. QED  BY <3>1, <3>2, <3>3, <3>4, <1>t, SwitchStep DEF IInv
  <2>3. QED  BY <1>2, <2>1, <2>2, RescheduleCases
<1>3. CASE Fork
  <2>1. CASE Idle
    BY <2>1, FailingIsIdle
  <2>2. CASE ~ Idle
    <3>1. PICK place \in Slots \ live :
            /\ FirstFree(place) /\ ForkInto(place) /\ UNCHANGED fault
            /\ status' = [status EXCEPT ![place] = "ACTIVE"]
      BY <1>3, <2>2, ForkCases
    <3>2. OnlyLiveWait'
      BY <3>1, <1>w DEF ForkInto, OnlyLiveWait, Waiting
    <3>3. fault' \in BOOLEAN
      BY <3>1, <1>t DEF TableSound, TableTypeOK
    <3>4. QED  BY <3>1, <3>2, <3>3, <1>t, ForkStep DEF IInv
  <2>3. QED  BY <2>1, <2>2
<1>4. CASE ForkTableFull
  <2>1. OnlyLiveWait'
    BY <1>4, <1>w DEF ForkTableFull, ForkRefused, ForkPastTable, Fails, OnlyLiveWait, Waiting
  <2>2. QED  BY <1>4, <2>1, <1>t, ForkFullStep DEF ForkTableFull, IInv
<1>5. CASE Exit
  <2> DEFINE st == [status EXCEPT ![current] = "DEAD"]
             q == newPriority(active, -1)
  <2>1. CASE Idle
    BY <2>1, FailingIsIdle
  <2>2. CASE exit_kernel /\ Leaves(q, st)
    <3>1. PICK next \in Slots : scheduler2(q, st, next) /\ AbandonFor(next)
      BY <2>2 DEF Leaves
    <3>2. /\ st[next] = "ACTIVE" /\ status' = [st EXCEPT ![next] = "SCHEDULED"]
          /\ UNCHANGED fault
      BY <3>1 DEF scheduler2, Serves
    <3>3. next # current /\ next \in live
      BY <3>2, <1>t, <1>w
    <3>4. current # 0 /\ exit_kernel
      BY <1>5, <2>2, ExitCases
    <3>5. OnlyLiveWait'
      BY <3>2, <3>3, <3>4, <1>t, <1>w DEF exit_kernel, OnlyLiveWait, Waiting
    <3>6. QED  BY <3>1, <3>2, <3>3, <3>4, <3>5, <1>t, ExitStep DEF IInv
  <2>3. QED  BY <1>5, <2>1, <2>2, ExitCases
<1>6. CASE Exec
  <2>1. PICK prog \in Programs : Load(prog)
    BY <1>6 DEF Exec
  <2>2. OnlyLiveWait'
    BY <1>6, <2>1, <1>w DEF Exec, Load, OnlyLiveWait, Waiting
  <2>3. QED  BY <2>1, <2>2, <1>t, LoadStep DEF IInv
<1>7. CASE UNCHANGED vars
  BY <1>7 DEF vars, tableVars, View, IInv, OnlyLiveWait, Waiting,
              TableSound, TableTypeOK, TableConsistent, SlotsHoldContexts
<1>8. QED
  BY <1>1, <1>2, <1>3, <1>4, <1>5, <1>6, <1>7 DEF Next, Yield, Tick

(* The inductive invariant holds in every reachable state.                 *)
THEOREM Invariance == Spec => []IInv
<1>1. IInv /\ [Next]_vars => IInv'
  BY StepSound
<1>2. QED  BY <1>1, InitIInv, PTL DEF Spec

(* Whatever scheduler2 finds at the root of the heap and takes, it resumes *)
(* a context that was saved: see SlotsHoldContexts.                        *)
THEOREM ContextsAreComplete == Spec => []SlotsHoldContexts
<1>1. IInv => SlotsHoldContexts
  BY DEF IInv, TableSound
<1>2. QED  BY <1>1, Invariance, PTL

(* Only processes that exist wait or run, and noProcesses counts them.     *)
THEOREM Consistency == Spec => [](TableConsistent /\ OnlyLiveWait)
<1>1. IInv => TableConsistent /\ OnlyLiveWait
  BY DEF IInv, TableSound
<1>2. QED  BY <1>1, Invariance, PTL

(* The priority kernel implements one processor per process: see           *)
(* TimeSharingIsTransparent.                                               *)
THEOREM TimeSharing == Spec => TimeSharingIsTransparent
<1>1. Spec => []IInv
  BY Invariance
<1>2. Init => VCPU!Init
  BY ResetSound DEF Init
<1>3. IInv /\ [Next]_vars => [VCPU!Next]_View
  BY StepSound
<1>4. Init /\ [][Next]_vars /\ []IInv => VCPU!Init /\ [][VCPU!Next]_View
  BY <1>2, <1>3, PTL
<1>5. QED  BY <1>1, <1>4 DEF Spec, TimeSharingIsTransparent, VCPU!Spec

-----------------------------------------------------------------------------
(* The length of the heap: what bos is, whatever the priorities are.       *)
InUse == IF status[current] = "SCHEDULED" THEN Cardinality(live) - 1 ELSE Cardinality(live)

HeapSized ==
  /\ active \in Queues /\ priority \in [Slots -> Priorities]
  /\ status[current] # "DEAD"
  /\ status[current] = "ACTIVE" => current = 0
  /\ active.bos = InUse

(* The inductive invariant behind TypeOK.                                  *)
TInv == IInv /\ HeapSized

(* Counting slots.                                                         *)
LEMMA SlotCount == IsFiniteSet(Slots) /\ Cardinality(Slots) = MaxProcs
<1>1. MaxProcs - 1 \in Int /\ 0 \in Int /\ 0 .. MaxProcs - 1 = Slots
  BY MaxProcsAssumption DEF Slots
<1>2. IsFiniteSet(0 .. MaxProcs - 1)
      /\ Cardinality(0 .. MaxProcs - 1) = IF 0 > MaxProcs - 1 THEN 0 ELSE MaxProcs - 1 - 0 + 1
  BY <1>1, FS_Interval
<1> QED BY <1>1, <1>2, MaxProcsAssumption

LEMMA SlotSets ==
  ASSUME NEW A \in SUBSET Slots
  PROVE  /\ IsFiniteSet(A) /\ Cardinality(A) \in Nat
         /\ \A B \in SUBSET A : IsFiniteSet(B) /\ Cardinality(B) \in Nat /\ Cardinality(B) <= Cardinality(A)
         /\ \A p \in Slots \ A : /\ Cardinality(A \cup {p}) = Cardinality(A) + 1
                                 /\ Cardinality(A) < MaxProcs
         /\ \A p \in A : Cardinality(A \ {p}) = Cardinality(A) - 1
         /\ Cardinality(A) = 0 <=> A = {}
<1>1. IsFiniteSet(A) /\ Cardinality(A) \in Nat
  BY SlotCount, FS_Subset, FS_CardinalityType
<1>2. ASSUME NEW B \in SUBSET A
      PROVE  IsFiniteSet(B) /\ Cardinality(B) \in Nat /\ Cardinality(B) <= Cardinality(A)
  BY <1>1, FS_Subset, FS_CardinalityType
<1>3. ASSUME NEW p \in Slots \ A
      PROVE  Cardinality(A \cup {p}) = Cardinality(A) + 1 /\ Cardinality(A) < MaxProcs
  <2>1. Cardinality(A \cup {p}) = Cardinality(A) + 1
    BY <1>1, <1>3, FS_AddElement
  <2>2. A \cup {p} \in SUBSET Slots
    BY <1>3
  <2>3. Cardinality(A \cup {p}) <= Cardinality(Slots)
    BY <2>2, SlotCount, FS_Subset
  <2> QED BY <1>1, <2>1, <2>3, SlotCount, MaxProcsAssumption
<1>4. \A p \in A : Cardinality(A \ {p}) = Cardinality(A) - 1
  BY <1>1, FS_RemoveElement
<1>5. Cardinality(A) = 0 <=> A = {}
  BY <1>1, FS_EmptySet
<1> QED BY <1>1, <1>2, <1>3, <1>4, <1>5

LEMMA TableRoom ==
  ASSUME IInv
  PROVE  /\ IsFiniteSet(live) /\ Cardinality(live) \in Nat
         /\ \A place \in Slots \ live : /\ Cardinality(live) < MaxProcs
                                        /\ Cardinality(live \cup {place}) = Cardinality(live) + 1
         /\ \A p \in live : Cardinality(live \ {p}) = Cardinality(live) - 1
         /\ Cardinality(live) >= 1 /\ Cardinality(live) <= MaxProcs
         /\ current # 0 => Cardinality(live) >= 2
<1>1. live \in SUBSET Slots /\ 0 \in live /\ current \in live
  BY DEF IInv, TableSound, TableTypeOK, TableConsistent
<1>2. /\ IsFiniteSet(live) /\ Cardinality(live) \in Nat
      /\ \A place \in Slots \ live : /\ Cardinality(live) < MaxProcs
                                     /\ Cardinality(live \cup {place}) = Cardinality(live) + 1
      /\ \A p \in live : Cardinality(live \ {p}) = Cardinality(live) - 1
      /\ Cardinality(live) # 0
  BY <1>1, SlotSets
<1>3. Cardinality(live) <= MaxProcs
  BY <1>1, SlotCount, FS_Subset
<1>4. ASSUME current # 0  PROVE Cardinality(live) >= 2
  <2>1. 0 \in live \ {current} /\ live \ {current} \in SUBSET Slots
    BY <1>1, <1>4
  <2>2. Cardinality(live \ {current}) # 0 /\ Cardinality(live \ {current}) \in Nat
    BY <2>1, SlotSets
  <2> QED BY <1>1, <1>2, <2>2
<1> QED BY <1>2, <1>3, <1>4

LEMMA InitHeapSized == Init => HeapSized
<1> SUFFICES ASSUME Init PROVE HeapSized
  OBVIOUS
<1>1. live = {0} /\ current = 0 /\ status[0] = "ACTIVE" /\ active = insert(Empty, 0, ShellPriority)
      /\ 0 \in Slots
  BY BootHasZero, SchedulerAssumption, MaxProcsAssumption DEF Init, TableInit, Slots
<1>2. ShellPriority \in Priorities /\ 0 \in Priorities
  BY NumbersAssumption, PrioritiesAssumption DEF Priorities
<1>3. priority \in [Slots -> Priorities]
  BY <1>2 DEF Init
<1>4. Empty \in Queues /\ Empty.bos = 0 /\ 0 < MaxProcs
  BY EmptyGood, MaxProcsAssumption DEF Good
<1>5. active \in Queues /\ active.bos = 1
  BY <1>1, <1>2, <1>4, InsertType
<1>6. Cardinality(live) = 1
  BY <1>1, FS_Singleton
<1> QED BY <1>1, <1>3, <1>5, <1>6 DEF HeapSized, InUse

(* The scheduler takes one entry out.                                      *)
LEMMA ServedSized ==
  ASSUME NEW q \in Queues, NEW st, NEW next, scheduler2(q, st, next)
  PROVE  /\ active' \in Queues /\ active'.bos = q.bos - 1
         /\ next \in Slots
         /\ st \in [Slots -> {"DEAD", "ACTIVE", "SCHEDULED"}] => status'[next] = "SCHEDULED"
<1>1. q.bos >= 1 /\ active' = pop_min(q) /\ next \in Slots /\ status' = [st EXCEPT ![next] = "SCHEDULED"]
  <2>1. q.bos \in Nat
    BY QueueFields, RootPlace
  <2> QED BY <2>1 DEF scheduler2, Serves
<1> QED BY <1>1, PopFields

(* The queue with the process that runs back in line.                      *)
LEMMA RequeuedSized ==
  ASSUME TInv
  PROVE  Requeued \in Queues /\ Requeued.bos = Cardinality(live)
<1>1. /\ active \in Queues /\ priority[current] \in Priorities /\ current \in Slots /\ current \in live
      /\ active.bos = InUse /\ Cardinality(live) \in Nat /\ Cardinality(live) <= MaxProcs
      /\ Cardinality(live) >= 1
  BY TableRoom DEF TInv, HeapSized, IInv, TableSound, TableTypeOK, TableConsistent
<1> DEFINE aged == newPriority(active, current)
<1>2. aged \in Queues /\ aged.bos = active.bos
  BY <1>1, AgeFields
<1>3. Requeued = IF status[current] = "SCHEDULED" THEN insert(aged, current, priority[current])
                                                  ELSE aged
  BY DEF Requeued
<1> HIDE DEF aged
<1>4. CASE status[current] = "SCHEDULED"
  <2>1. aged.bos = Cardinality(live) - 1 /\ aged.bos < MaxProcs
    BY <1>1, <1>2, <1>4, MaxProcsAssumption DEF InUse
  <2>2. insert(aged, current, priority[current]) \in Queues
        /\ insert(aged, current, priority[current]).bos = aged.bos + 1
    BY <1>1, <1>2, <2>1, InsertType
  <2> QED BY <1>1, <1>3, <1>4, <2>1, <2>2
<1>5. CASE status[current] # "SCHEDULED"
  BY <1>1, <1>2, <1>3, <1>5 DEF InUse
<1> QED BY <1>4, <1>5

(* Every step keeps the account of the heap's length.                      *)
LEMMA StepSized == TInv /\ [Next]_vars => HeapSized'
<1> SUFFICES ASSUME TInv, [Next]_vars PROVE HeapSized'
  OBVIOUS
<1>t. /\ live \in SUBSET Slots /\ current \in live /\ current \in Slots
      /\ status \in [Slots -> {"DEAD", "ACTIVE", "SCHEDULED"}]
      /\ \A p \in Slots : status[p] = "ACTIVE" => p \in live
      /\ active \in Queues /\ priority \in [Slots -> Priorities]
      /\ status[current] # "DEAD"
      /\ status[current] = "ACTIVE" => current = 0
      /\ active.bos = InUse
      /\ Cardinality(live) \in Nat
  BY TableRoom DEF TInv, IInv, HeapSized, TableSound, TableTypeOK, TableConsistent,
                   OnlyLiveWait, Waiting
<1>q. priority[current] \in Priorities
  BY <1>t
<1>1. CASE Run
  BY <1>1, <1>t DEF Run, Compute, HeapSized, InUse
<1>2. CASE Reschedule
  <2>1. CASE Idle
    BY <2>1, <1>t DEF Idle, Fails, HeapSized, InUse
  <2>2. CASE /\ Switches(Requeued, RequeuedStatus)
             /\ UNCHANGED <<live, noProcesses, priority>>
    <3>1. PICK next \in Slots : scheduler2(Requeued, RequeuedStatus, next) /\ SwitchTo(next)
      BY <2>2 DEF Switches
    <3>2. Requeued \in Queues /\ Requeued.bos = Cardinality(live)
      BY RequeuedSized
    <3>3. RequeuedStatus \in [Slots -> {"DEAD", "ACTIVE", "SCHEDULED"}]
      BY <1>t DEF RequeuedStatus
    <3>4. active' \in Queues /\ active'.bos = Requeued.bos - 1 /\ status'[next] = "SCHEDULED"
      BY <3>1, <3>2, <3>3, ServedSized
    <3>5. current' = next /\ UNCHANGED <<live, priority>>
      BY <2>2, <3>1 DEF SwitchTo
    <3> QED BY <1>t, <3>2, <3>4, <3>5 DEF HeapSized, InUse
  <2>3. QED  BY <1>2, <2>1, <2>2, RescheduleCases
<1>3. CASE Fork
  <2>1. CASE Idle
    BY <2>1, <1>t DEF Idle, Fails, HeapSized, InUse
  <2>2. CASE ~ Idle
    <3>1. PICK place \in Slots \ live :
            /\ ForkInto(place)
            /\ priority' = [priority EXCEPT ![place] = priority[current]]
            /\ status' = [status EXCEPT ![place] = "ACTIVE"]
            /\ active' = insert(active, place, priority[current])
      BY <1>3, <2>2, ForkCases DEF TInv
    <3>2. live' = live \cup {place} /\ current' = current
      BY <3>1 DEF ForkInto
    <3>3. Cardinality(live) < MaxProcs /\ Cardinality(live') = Cardinality(live) + 1
      BY <3>1, <3>2, TableRoom DEF TInv
    <3>4. active.bos < MaxProcs
      BY <1>t, <3>3, MaxProcsAssumption DEF InUse
    <3>5. active' \in Queues /\ active'.bos = active.bos + 1
      BY <1>t, <1>q, <3>1, <3>4, InsertType
    <3>6. status'[current'] = status[current] /\ priority' \in [Slots -> Priorities]
      BY <1>t, <1>q, <3>1, <3>2
    <3> QED BY <1>t, <3>2, <3>3, <3>5, <3>6 DEF HeapSized, InUse
  <2>3. QED  BY <2>1, <2>2
<1>4. CASE ForkTableFull
  BY <1>4, <1>t DEF ForkTableFull, ForkRefused, ForkPastTable, Fails, HeapSized, InUse
<1>5. CASE Exit
  <2> DEFINE st == [status EXCEPT ![current] = "DEAD"]
             q == newPriority(active, -1)
  <2>1. CASE Idle
    BY <2>1, <1>t DEF Idle, Fails, HeapSized, InUse
  <2>2. CASE /\ exit_kernel
             /\ priority' = [priority EXCEPT ![current] = 0]
             /\ Leaves(q, st)
    <3>1. PICK next \in Slots : scheduler2(q, st, next) /\ AbandonFor(next)
      BY <2>2 DEF Leaves
    <3>2. q \in Queues /\ q.bos = active.bos
      BY <1>t, AgeFields
    <3>3. st \in [Slots -> {"DEAD", "ACTIVE", "SCHEDULED"}]
      BY <1>t
    <3> HIDE DEF q, st
    <3>4. active' \in Queues /\ active'.bos = q.bos - 1 /\ status'[next] = "SCHEDULED"
      BY <3>1, <3>2, <3>3, ServedSized
    <3>5. current' = next /\ live' = live \ {current} /\ current # 0
      BY <1>5, <2>2, <3>1 DEF AbandonFor, exit_kernel, Exit
    <3>6. Cardinality(live') = Cardinality(live) - 1
      BY <1>t, <3>5, TableRoom DEF TInv
    <3>7. active.bos = Cardinality(live) - 1
      BY <1>t, <3>5 DEF InUse
    <3>8. priority' \in [Slots -> Priorities]
      <4>1. 0 \in Priorities
        BY NumbersAssumption DEF Priorities
      <4> QED BY <1>t, <2>2, <4>1
    <3> QED BY <1>t, <3>2, <3>4, <3>5, <3>6, <3>7, <3>8 DEF HeapSized, InUse
  <2>3. QED  BY <1>5, <2>1, <2>2, ExitCases
<1>6. CASE Exec
  <2>1. PICK prog \in Programs, prio \in ExecPriorities :
          Load(prog) /\ priority' = [priority EXCEPT ![current] = prio]
    BY <1>6 DEF Exec
  <2>2. prio \in Priorities
    BY PrioritiesAssumption
  <2>3. priority' \in [Slots -> Priorities]
    BY <1>t, <2>1, <2>2
  <2> QED BY <1>6, <1>t, <2>1, <2>3 DEF Exec, Load, HeapSized, InUse
<1>7. CASE UNCHANGED vars
  BY <1>7, <1>t DEF vars, tableVars, HeapSized, InUse
<1>8. QED
  BY <1>1, <1>2, <1>3, <1>4, <1>5, <1>6, <1>7 DEF Next, Yield, Tick

(* For any table size and any priorities, the ones that have wrapped       *)
(* included, activeBos is the number of processes waiting for the          *)
(* processor, whatever entries the heap has come to hold: so insert never  *)
(* writes past activeStack, pop_min is called with an entry in it, and     *)
(* priorities stay 32-bit numbers.  See TypeOK and HeapSized.  A handler   *)
(* whose insert would not end ends the behaviour with a fault.             *)
THEOREM TypeCorrect == Spec => [](TypeOK /\ HeapSized)
<1>1. Init => TInv
  BY InitIInv, InitHeapSized DEF TInv
<1>2. TInv /\ [Next]_vars => TInv'
  BY StepSound, StepSized DEF TInv
<1>3. TInv => TypeOK /\ HeapSized
  BY DEF TInv, HeapSized, IInv, TableSound, OnlyLiveWait, TypeOK
<1>4. QED  BY <1>1, <1>2, <1>3, PTL DEF Spec

-----------------------------------------------------------------------------
(* The order of the heap.  A number that has aged to 0 would wrap at the   *)
(* next call of newPriority.  It never gets there while few processes are  *)
(* about: between two calls of the scheduler at most t of those that wait  *)
(* have a number of at most t.                                             *)
Urgent(q, t) == {p \in Slots : \E e \in In(q) : e.pid = p /\ e.priority <= t}
Calm(q, k) == \A t \in Nat : Cardinality(Urgent(q, t)) <= t + k

(* Exactly the processes of A wait in q.                                   *)
InLine(q, A) ==
  /\ Good(q) /\ Queued(q) = A
  /\ A \in SUBSET Slots
  /\ Cardinality(A) = q.bos

LEMMA UrgentWaits ==
  ASSUME NEW q, NEW A, InLine(q, A), NEW t
  PROVE  /\ Urgent(q, t) \in SUBSET A
         /\ IsFiniteSet(Urgent(q, t)) /\ Cardinality(Urgent(q, t)) \in Nat
         /\ Cardinality(Urgent(q, t)) <= Cardinality(A)
<1>1. Urgent(q, t) \in SUBSET A
  BY QueuedIs DEF InLine, Urgent
<1> QED BY <1>1, SlotSets DEF InLine

(* The entries of a queue in line, and their numbers.                      *)
LEMMA LineEntries ==
  ASSUME NEW q, NEW A, InLine(q, A)
  PROVE  /\ \A e \in In(q) : e \in Entries /\ e.pid \in A /\ e.pid \in Slots /\ e.priority \in Nat
                             /\ e = [pid |-> e.pid, priority |-> e.priority]
         /\ \A p \in A : \E e \in In(q) : e.pid = p
         /\ \A i \in 1 .. q.bos : i \in Places /\ q.stack[i] \in In(q)
         /\ q.bos \in Nat
<1>1. q.stack \in Stacks /\ q.bos \in Nat /\ \A i \in 1 .. q.bos : i \in Places
  BY QueueFields, MaxProcsAssumption DEF InLine, Good, Places
<1>2. ASSUME NEW e \in In(q)
      PROVE  e \in Entries /\ e.pid \in A /\ e.pid \in Slots /\ e.priority \in Nat
             /\ e = [pid |-> e.pid, priority |-> e.priority]
  <2>1. PICK i \in 1 .. q.bos : e = q.stack[i]
    BY DEF In, Content
  <2>2. e \in Entries /\ e.priority \in Nat
    BY <1>1, <2>1, EntryType
  <2>3. e.pid \in A
    BY QueuedIs DEF InLine
  <2>4. e = [pid |-> e.pid, priority |-> e.priority]
    BY <2>2 DEF Entries
  <2> QED BY <2>2, <2>3, <2>4 DEF InLine
<1>3. \A p \in A : \E e \in In(q) : e.pid = p
  BY QueuedIs DEF InLine
<1>4. \A i \in 1 .. q.bos : q.stack[i] \in In(q)
  BY DEF In, Content
<1> QED BY <1>1, <1>2, <1>3, <1>4

(* In a calm queue no number is 0.                                         *)
LEMMA CalmLowers ==
  ASSUME NEW q, NEW A, InLine(q, A), Calm(q, 0)
  PROVE  Lowers(q)
<1> SUFFICES ASSUME NEW i \in 1 .. q.bos  PROVE q.stack[i].priority >= 1
  BY DEF Lowers
<1>1. q.stack[i] \in In(q) /\ q.stack[i].pid \in Slots /\ q.stack[i].priority \in Nat
  BY LineEntries
<1>2. Cardinality(Urgent(q, 0)) <= 0 /\ Cardinality(Urgent(q, 0)) \in Nat /\ IsFiniteSet(Urgent(q, 0))
  BY UrgentWaits DEF Calm
<1>3. Urgent(q, 0) = {}
  BY <1>2, FS_EmptySet
<1>4. ASSUME q.stack[i].priority <= 0  PROVE FALSE
  <2>1. q.stack[i].pid \in Urgent(q, 0)
    BY <1>1, <1>4 DEF Urgent
  <2> QED BY <1>3, <2>1
<1> QED BY <1>1, <1>4

(* Where all numbers are at least as large as the queue is long.           *)
LEMMA EvenCalm ==
  ASSUME NEW q, NEW A, InLine(q, A), NEW c \in Nat, Cardinality(A) <= c,
         \A e \in In(q) : e.priority >= c
  PROVE  Calm(q, 0)
<1> SUFFICES ASSUME NEW t \in Nat  PROVE Cardinality(Urgent(q, t)) <= t
  BY UrgentWaits DEF Calm
<1>1. Cardinality(Urgent(q, t)) \in Nat /\ Cardinality(Urgent(q, t)) <= Cardinality(A)
  BY UrgentWaits
<1>2. Cardinality(A) \in Nat
  BY SlotSets DEF InLine
<1>3. CASE t >= c
  BY <1>1, <1>2, <1>3
<1>4. CASE t < c
  <2>1. \A e \in In(q) : e.priority \in Nat
    BY LineEntries
  <2>2. Urgent(q, t) = {}
    BY <1>4, <2>1 DEF Urgent
  <2> QED BY <2>2, FS_EmptySet
<1> QED BY <1>3, <1>4

(* Everyone waiting ages.                                                  *)
LEMMA AgeLine ==
  ASSUME NEW q, NEW A, InLine(q, A), Calm(q, 0), NEW pid, pid \notin A
  PROVE  InLine(newPriority(q, pid), A) /\ Calm(newPriority(q, pid), 1)
<1> DEFINE r == newPriority(q, pid)
<1>1. Lowers(q)
  BY CalmLowers
<1>2. /\ Good(r) /\ r.bos = q.bos
      /\ \A e \in In(r) : \E d \in In(q) : d.pid = e.pid /\ e.priority = d.priority - 1
      /\ \A d \in In(q) : \E e \in In(r) : d.pid = e.pid /\ e.priority = d.priority - 1
  BY <1>1, AgeIn DEF InLine
<1>3. \A d \in In(q) : d.priority \in Nat
  BY LineEntries
<1> HIDE DEF r
<1>4. Queued(r) = Queued(q)
  <2>1. {e.pid : e \in In(r)} = {d.pid : d \in In(q)}
    BY <1>2
  <2> QED BY <2>1, QueuedIs
<1>5. InLine(r, A)
  BY <1>2, <1>4 DEF InLine
<1>6. ASSUME NEW t \in Nat  PROVE Cardinality(Urgent(r, t)) <= t + 1
  <2>1. \A p \in Urgent(r, t) : p \in Urgent(q, t + 1)
    BY <1>2, <1>3 DEF Urgent
  <2>2. \A p \in Urgent(q, t + 1) : p \in Urgent(r, t)
    BY <1>2, <1>3 DEF Urgent
  <2>3. Urgent(r, t) = Urgent(q, t + 1)
    BY <2>1, <2>2
  <2>4. t + 1 \in Nat /\ Cardinality(Urgent(q, t + 1)) <= (t + 1) + 0
    BY DEF Calm
  <2> QED BY <2>3, <2>4
<1> QED BY <1>5, <1>6 DEF Calm, r

(* A process joins the line.                                               *)
LEMMA InsertLine ==
  ASSUME NEW q, NEW A, InLine(q, A), NEW k \in {0, 1}, Calm(q, k), NEW pid \in Slots \ A,
         NEW prio \in Priorities, Cardinality(A) + 1 <= Clamped(prio) + k
  PROVE  /\ InLine(insert(q, pid, prio), A \cup {pid})
         /\ Calm(insert(q, pid, prio), k)
         /\ In(insert(q, pid, prio)) = In(q) \cup {[pid |-> pid, priority |-> Clamped(prio)]}
<1> DEFINE r == insert(q, pid, prio)
           c == Clamped(prio)
           e == [pid |-> pid, priority |-> c]
<1>1. /\ A \in SUBSET Slots /\ Cardinality(A) \in Nat /\ Cardinality(A) < MaxProcs
      /\ Cardinality(A \cup {pid}) = Cardinality(A) + 1 /\ Cardinality(A) = q.bos
      /\ Good(q) /\ Queued(q) = A
  BY SlotSets DEF InLine
<1>2. Good(r) /\ r.bos = q.bos + 1 /\ In(r) = In(q) \cup {e}
  BY <1>1, InsertGood
<1>3. c \in Nat
  BY NumbersAssumption DEF Clamped, Priorities
<1>4. e.pid = pid /\ e.priority = c
  OBVIOUS
<1> HIDE DEF r, e, c
<1>5. Queued(r) = A \cup {pid}
  <2>1. {d.pid : d \in In(r)} = {d.pid : d \in In(q)} \cup {pid}
    BY <1>2, <1>4
  <2> QED BY <1>1, <2>1, QueuedIs
<1>6. InLine(r, A \cup {pid})
  BY <1>1, <1>2, <1>5 DEF InLine
<1>7. ASSUME NEW t \in Nat  PROVE Cardinality(Urgent(r, t)) <= t + k
  <2>1. CASE t >= c
    <3>1. Cardinality(Urgent(r, t)) \in Nat /\ Cardinality(Urgent(r, t)) <= Cardinality(A) + 1
      BY <1>1, <1>6, UrgentWaits
    <3>2. Cardinality(A) + 1 <= c + k
      BY DEF c
    <3> QED BY <1>1, <1>3, <2>1, <3>1, <3>2
  <2>2. CASE t < c
    <3>1. Urgent(r, t) = Urgent(q, t)
      BY <1>2, <1>3, <1>4, <2>2 DEF Urgent
    <3> QED BY <3>1 DEF Calm
  <2> QED BY <1>3, <2>1, <2>2
<1> QED BY <1>2, <1>6, <1>7 DEF Calm, r, e, c

(* pop_min takes one out.                                                  *)
LEMMA TakeLine ==
  ASSUME NEW q, Poppable(q), NEW A \in SUBSET Slots, Queued(q) = A, Cardinality(A) = q.bos,
         ~ Sunk(q).beyond
  PROVE  /\ q.stack[1].pid \in A
         /\ InLine(pop_min(q), A \ {q.stack[1].pid})
         /\ In(pop_min(q)) = In(q) \ {q.stack[1]}
<1> DEFINE r == pop_min(q)
           m == q.stack[1]
<1>1. Good(r) /\ r.bos = q.bos - 1 /\ In(r) = In(q) \ {m}
  BY PopGood
<1>2. m \in In(q) /\ Distinct(q.stack, q.bos)
  <2>1. q.bos \in Nat /\ q.bos >= 1
    BY QueueFields, RootPlace DEF Poppable
  <2>2. 1 \in 1 .. q.bos
    BY <2>1
  <2> QED BY <2>2 DEF Poppable, In, Content
<1>3. m.pid \in A
  BY <1>2, QueuedIs
<1>4. \A d \in In(q) : d.pid = m.pid => d = m
  BY <1>2, OneEntryEach
<1> HIDE DEF r, m
<1>5. {d.pid : d \in In(r)} = {d.pid : d \in In(q)} \ {m.pid}
  BY <1>1, <1>2, <1>4
<1>6. Queued(r) = A \ {m.pid}
  BY <1>5, QueuedIs
<1>7. Cardinality(A \ {m.pid}) = Cardinality(A) - 1
  BY <1>3, SlotSets
<1> QED BY <1>1, <1>3, <1>6, <1>7 DEF InLine, r, m

(* It takes the most urgent one, and the line is calm again.               *)
LEMMA PopLine ==
  ASSUME NEW q, NEW A, InLine(q, A), q.bos >= 1, Calm(q, 1), ~ Sunk(q).beyond
  PROVE  /\ q.stack[1].pid \in A /\ q.stack[1] \in In(q)
         /\ \A e \in In(q) : q.stack[1].priority <= e.priority
         /\ InLine(pop_min(q), A \ {q.stack[1].pid}) /\ Calm(pop_min(q), 0)
         /\ In(pop_min(q)) = In(q) \ {q.stack[1]}
<1> DEFINE r == pop_min(q)
           m == q.stack[1]
<1>1. /\ m.pid \in A /\ InLine(r, A \ {m.pid}) /\ In(r) = In(q) \ {m}
      /\ m \in In(q) /\ \A e \in In(q) : m.priority <= e.priority
  <2>1. Poppable(q)
    BY GoodIsPoppable DEF InLine
  <2>2. A \in SUBSET Slots /\ Queued(q) = A /\ Cardinality(A) = q.bos /\ Good(q)
    BY DEF InLine
  <2> QED BY <2>1, <2>2, TakeLine, RootIsLeast
<1>2. \A e \in In(q) : e.priority \in Nat /\ e.pid \in Slots
  BY LineEntries
<1>3. \A e \in In(q) : e.pid = m.pid => e = m
  BY <1>1, OneEntryEach DEF InLine, Good
<1> HIDE DEF r, m
<1>4. ASSUME NEW t \in Nat  PROVE Cardinality(Urgent(r, t)) <= t
  <2>1. IsFiniteSet(Urgent(q, t)) /\ Cardinality(Urgent(q, t)) \in Nat /\ Cardinality(Urgent(q, t)) <= t + 1
    BY UrgentWaits DEF Calm
  <2>2. CASE m.priority <= t
    <3>1. m.pid \in Urgent(q, t)
      BY <1>1, <1>2, <2>2 DEF Urgent
    <3>2. Urgent(r, t) = Urgent(q, t) \ {m.pid}
      BY <1>1, <1>3 DEF Urgent
    <3>3. Cardinality(Urgent(q, t) \ {m.pid}) = Cardinality(Urgent(q, t)) - 1
      BY <2>1, <3>1, FS_RemoveElement
    <3> QED BY <2>1, <3>2, <3>3
  <2>3. CASE ~ (m.priority <= t)
    <3>1. Urgent(r, t) = {}
      BY <1>1, <1>2, <2>3 DEF Urgent
    <3> QED BY <3>1, FS_EmptySet
  <2> QED BY <2>2, <2>3
<1>5. Calm(r, 0)
  <2>1. \A t \in Nat : Cardinality(Urgent(r, t)) \in Nat
    BY <1>1, UrgentWaits
  <2> QED BY <1>4, <2>1 DEF Calm
<1> QED BY <1>1, <1>5 DEF r, m

-----------------------------------------------------------------------------
(* Before the first switch everyone has process 0's number and process 0   *)
(* is at the root.                                                         *)
AtBoot(q) == /\ q.stack[1].pid = 0
             /\ \A i \in 1 .. q.bos : q.stack[i].priority = ShellPriority

(* A number that is not smaller than the others stays at the bottom.       *)
LEMMA InsertLast ==
  ASSUME NEW q, Good(q), q.bos < MaxProcs, NEW pid \in Slots,
         \A i \in 1 .. q.bos : q.stack[i].priority = ShellPriority
  PROVE  /\ \A i \in 1 .. q.bos + 1 : insert(q, pid, ShellPriority).stack[i].priority = ShellPriority
         /\ q.bos = 0 => insert(q, pid, ShellPriority).stack[1].pid = pid
         /\ q.bos >= 1 => insert(q, pid, ShellPriority).stack[1] = q.stack[1]
<1> DEFINE n == q.bos + 1
           b == Bottom(q, pid, ShellPriority)
<1>1. /\ ShellPriority \in Priorities /\ ShellPriority <= LowestPriority /\ ShellPriority \in Nat
      /\ Clamped(ShellPriority) = ShellPriority
  BY NumbersAssumption, PrioritiesAssumption DEF Priorities, Clamped
<1>2. /\ n \in Places /\ q.bos \in Nat /\ b \in Stacks
      /\ b[n] = [pid |-> pid, priority |-> ShellPriority]
      /\ \A j \in Places : j # n => b[j] = q.stack[j]
  BY <1>1, BottomFields DEF Good
<1> HIDE DEF b
<1>3. \A i \in 1 .. n : i \in Places /\ (i # n => i \in 1 .. q.bos)
  BY <1>2, MaxProcsAssumption DEF Places
<1>4. \A i \in 1 .. n : b[i].priority = ShellPriority
  BY <1>2, <1>3
<1>5. n > 1 => n \div 2 \in 1 .. n
  BY <1>2, Halves
<1>6. ~ (n > 1 /\ b[n].priority < b[n \div 2].priority)
  <2>1. n \in 1 .. n
    BY <1>2
  <2> QED BY <1>1, <1>4, <1>5, <2>1
<1>7. SiftUp[n][b] = b
  BY <1>2, <1>6, SiftUpUnfolds
<1>8. insert(q, pid, ShellPriority).stack = b
  BY <1>1, <1>7, InsertIs DEF b
<1>9. q.bos = 0 => n = 1
  BY <1>2
<1>10. q.bos >= 1 => 1 \in Places /\ n # 1
  BY <1>2, RootPlace
<1> QED BY <1>2, <1>4, <1>8, <1>9, <1>10

(* The scheduler finds a process and stays in the array until the heap is  *)
(* half full.                                                              *)
LEMMA LineServes ==
  ASSUME NEW q, Poppable(q), NEW A \in SUBSET Slots, Queued(q) = A,
         NEW st, \A p \in A : st[p] = "ACTIVE", ~ Serves(q, st)
  PROVE  2 * q.bos >= MaxProcs
<1>1. q.bos \in Nat /\ q.bos >= 1 /\ 1 \in 1 .. q.bos
  BY QueueFields, RootPlace DEF Poppable
<1>2. q.stack[1].pid \in A
  BY <1>1 DEF Queued
<1>3. Sunk(q).beyond
  BY <1>1, <1>2 DEF Serves
<1> QED BY <1>1, <1>3, PopStays, MaxProcsAssumption

ActiveOnes == {p \in Slots : status[p] = "ACTIVE"}

(* The inductive invariant behind the order of the heap.                   *)
HInv ==
  /\ TInv
  /\ InLine(active, ActiveOnes) /\ Calm(active, 0)
  /\ live = ActiveOnes \cup {current}
  /\ Cardinality(live) <= MaxLive
  /\ \A p \in live : MaxLive <= Clamped(priority[p]) + 1
  /\ Booting => priority[0] = ShellPriority /\ AtBoot(active)
  /\ StraysOnlyWhenHalfFull

(* There are never more processes at once than the shell's priority, nor   *)
(* more than one above a priority that exec asks for.                      *)
Roomy == /\ MaxLive \in 1 .. ShellPriority
         /\ \A number \in ExecPriorities : MaxLive <= number + 1

LEMMA ShellFacts ==
  /\ ShellPriority \in Priorities /\ ShellPriority \in Nat
  /\ Clamped(ShellPriority) = ShellPriority
BY NumbersAssumption, PrioritiesAssumption DEF Priorities, Clamped

LEMMA InitHeap ==
  ASSUME Roomy, Init
  PROVE  HInv
<1>1. TInv
  BY InitIInv, InitHeapSized DEF TInv
<1>2. /\ live = {0} /\ current = 0 /\ status[0] = "ACTIVE" /\ 0 \in Slots /\ fault = FALSE
      /\ active = insert(Empty, 0, ShellPriority) /\ priority[0] = ShellPriority
      /\ ActiveOnes = {0} /\ {} \in SUBSET Slots /\ 0 \in Slots \ {}
  BY BootHasZero, SchedulerAssumption, MaxProcsAssumption DEF Init, TableInit, ActiveOnes
<1>3. Cardinality(live) = 1 /\ Cardinality({}) = 0
  BY <1>2, FS_Singleton, FS_EmptySet
<1>4. MaxLive \in Nat /\ MaxLive >= 1 /\ MaxLive <= ShellPriority /\ ShellPriority \in Nat
  BY ShellFacts DEF Roomy
<1>5. InLine(Empty, {})
  BY <1>3, EmptyGood DEF InLine
<1>6. Calm(Empty, 0)
  BY <1>3, <1>5, EmptyGood, EvenCalm
<1>7. /\ InLine(active, {} \cup {0}) /\ Calm(active, 0)
  BY <1>2, <1>3, <1>4, <1>5, <1>6, ShellFacts, InsertLine
<1>8. AtBoot(active)
  <2>1. Good(Empty) /\ Empty.bos = 0 /\ 0 < MaxProcs
    BY EmptyGood, MaxProcsAssumption
  <2>2. \A i \in 1 .. Empty.bos : Empty.stack[i].priority = ShellPriority
    BY <2>1
  <2>3. /\ \A i \in 1 .. 0 + 1 : active.stack[i].priority = ShellPriority
        /\ active.stack[1].pid = 0
    BY <1>2, <2>1, <2>2, InsertLast
  <2>4. active.bos = 1
    BY <1>1, <1>2, <1>3 DEF TInv, HeapSized, InUse
  <2> QED BY <2>3, <2>4 DEF AtBoot
<1>9. {} \cup {0} = {0}
  OBVIOUS
<1>10. \A p \in live : MaxLive <= Clamped(priority[p]) + 1
  BY <1>2, <1>4, ShellFacts
<1> QED BY <1>1, <1>2, <1>3, <1>4, <1>7, <1>8, <1>9, <1>10 DEF HInv, StraysOnlyWhenHalfFull

LEMMA HeapFacts ==
  ASSUME HInv
  PROVE  /\ current \in live /\ current \in Slots /\ live \in SUBSET Slots
         /\ status \in [Slots -> {"DEAD", "ACTIVE", "SCHEDULED"}]
         /\ priority \in [Slots -> Priorities] /\ priority[current] \in Priorities
         /\ Cardinality(live) \in Nat /\ ActiveOnes \in SUBSET live
         /\ InLine(active, ActiveOnes) /\ Good(active) /\ active.bos = Cardinality(ActiveOnes)
         /\ ~ Booting => /\ status[current] = "SCHEDULED" /\ current \notin ActiveOnes
                         /\ Cardinality(live) = Cardinality(ActiveOnes) + 1
         /\ Booting => current = 0 /\ 0 \in ActiveOnes /\ live = ActiveOnes
         /\ current # 0 => ~ Booting
<1>1. /\ current \in live /\ current \in Slots /\ live \in SUBSET Slots
      /\ status \in [Slots -> {"DEAD", "ACTIVE", "SCHEDULED"}]
      /\ priority \in [Slots -> Priorities]
      /\ InLine(active, ActiveOnes) /\ live = ActiveOnes \cup {current}
      /\ status[current] # "DEAD" /\ (status[current] = "ACTIVE" => current = 0)
  BY DEF HInv, TInv, IInv, HeapSized, TableSound, TableTypeOK, TableConsistent, OnlyLiveWait
<1>2. Cardinality(live) \in Nat
  BY <1>1, SlotSets
<1>3. Good(active) /\ active.bos = Cardinality(ActiveOnes) /\ ActiveOnes \in SUBSET Slots
  BY <1>1 DEF InLine
<1>4. ASSUME ~ Booting
      PROVE  /\ status[current] = "SCHEDULED" /\ current \notin ActiveOnes
             /\ Cardinality(live) = Cardinality(ActiveOnes) + 1
  <2>1. status[current] = "SCHEDULED"
    BY <1>1, <1>4 DEF Booting
  <2>2. current \in Slots \ ActiveOnes
    BY <1>1, <2>1 DEF ActiveOnes
  <2>3. Cardinality(ActiveOnes \cup {current}) = Cardinality(ActiveOnes) + 1
    BY <1>3, <2>2, SlotSets
  <2> QED BY <1>1, <2>1, <2>2, <2>3
<1>5. ASSUME Booting  PROVE current = 0 /\ 0 \in ActiveOnes /\ live = ActiveOnes
  BY <1>1, <1>5 DEF Booting, ActiveOnes
<1> QED BY <1>1, <1>2, <1>3, <1>4, <1>5 DEF Booting

(* The line with the process that runs back in it.                         *)
LEMMA RequeuedLine ==
  ASSUME Roomy, HInv, ~ Booting
  PROVE  /\ InLine(Requeued, live) /\ Calm(Requeued, 1)
         /\ In(Requeued) = In(newPriority(active, current))
                             \cup {[pid |-> current, priority |-> Clamped(priority[current])]}
<1> DEFINE aged == newPriority(active, current)
<1>1. InLine(active, ActiveOnes) /\ Calm(active, 0) /\ current \notin ActiveOnes
  BY HeapFacts DEF HInv
<1>2. InLine(aged, ActiveOnes) /\ Calm(aged, 1)
  BY <1>1, AgeLine
<1>3. current \in Slots \ ActiveOnes /\ priority[current] \in Priorities
      /\ Cardinality(ActiveOnes) + 1 = Cardinality(live) /\ Cardinality(live) \in Nat
  BY HeapFacts
<1>4. Clamped(priority[current]) \in Nat
  BY <1>3, NumbersAssumption DEF Clamped, Priorities
<1>5. Cardinality(live) <= MaxLive /\ MaxLive <= Clamped(priority[current]) + 1
  BY HeapFacts DEF HInv
<1>6. Cardinality(ActiveOnes) + 1 <= Clamped(priority[current]) + 1
  <2>1. MaxLive \in Int
    BY ShellFacts DEF Roomy
  <2> QED BY <1>3, <1>4, <1>5, <2>1
<1>7. Requeued = insert(aged, current, priority[current])
  BY HeapFacts DEF Requeued
<1> HIDE DEF aged
<1>8. live = ActiveOnes \cup {current}
  BY DEF HInv
<1>9. /\ InLine(insert(aged, current, priority[current]), ActiveOnes \cup {current})
      /\ Calm(insert(aged, current, priority[current]), 1)
      /\ In(insert(aged, current, priority[current])) =
           In(aged) \cup {[pid |-> current, priority |-> Clamped(priority[current])]}
  BY <1>2, <1>3, <1>6, InsertLine
<1> QED BY <1>7, <1>8, <1>9 DEF aged

(* The line at the first call after reset: process 0 is in it already.     *)
LEMMA RequeuedBoot ==
  ASSUME Roomy, HInv, Booting
  PROVE  /\ Requeued = newPriority(active, current) /\ Poppable(Requeued)
         /\ Queued(Requeued) = live /\ Cardinality(live) = Requeued.bos
         /\ Requeued.stack[1].pid = 0
         /\ \A e \in In(Requeued) : e.pid # 0 => e.priority = ShellPriority - 1
<1>1. /\ InLine(active, ActiveOnes) /\ Calm(active, 0) /\ current = 0 /\ live = ActiveOnes
      /\ AtBoot(active) /\ active.bos = Cardinality(live) /\ 0 \in ActiveOnes
      /\ active \in Queues /\ Good(active)
  BY HeapFacts DEF HInv, Good
<1>2. Requeued = newPriority(active, 0)
  BY <1>1 DEF Requeued, Booting
<1>3. Lowers(active)
  BY <1>1, CalmLowers
<1>4. /\ active.bos \in Nat /\ active.bos >= 1 /\ \A i \in 1 .. active.bos : i \in Places
  <2>1. active.bos \in Nat /\ \A i \in 1 .. active.bos : i \in Places
    BY <1>1, LineEntries
  <2>2. active.bos # 0
    <3>1. Queued(active) # {}
      BY <1>1 DEF InLine
    <3> QED BY <3>1 DEF Queued
  <2> QED BY <2>1, <2>2
<1>5. \A i \in 2 .. active.bos : active.stack[i].pid # 0
  <2>1. \A j, k \in 1 .. active.bos : active.stack[j].pid = active.stack[k].pid => j = k
    BY <1>1 DEF Good, Distinct
  <2> QED BY <1>1, <1>4, <2>1 DEF AtBoot
<1> DEFINE r == newPriority(active, 0)
<1>6. /\ \A i \in 1 .. active.bos :
           r.stack[i].priority = IF active.stack[i].pid # 0 THEN active.stack[i].priority - 1
                                                            ELSE active.stack[i].priority
      /\ Poppable(r)
  BY <1>1, <1>3, <1>4, <1>5, AgePoppable
<1>7. r.bos = active.bos /\ \A i \in Places : r.stack[i].pid = active.stack[i].pid
  BY <1>1, AgeFields
<1> HIDE DEF r
<1>8. Queued(r) = Queued(active)
  BY <1>4, <1>7 DEF Queued
<1>9. r.stack[1].pid = 0
  BY <1>1, <1>7, RootPlace DEF AtBoot
<1>10. ASSUME NEW e \in In(r), e.pid # 0  PROVE e.priority = ShellPriority - 1
  <2>1. PICK i \in 1 .. active.bos : e = r.stack[i]
    BY <1>7 DEF In, Content
  <2>2. active.stack[i].pid # 0 /\ active.stack[i].priority = ShellPriority
    BY <1>1, <1>4, <1>7, <1>10, <2>1 DEF AtBoot
  <2> QED BY <1>6, <2>1, <2>2
<1> QED BY <1>1, <1>2, <1>6, <1>7, <1>8, <1>9, <1>10 DEF InLine, r

(* What a call of the scheduler for a process that stays runnable leaves.  *)
LEMMA RescheduleHeap ==
  ASSUME Roomy, HInv, NEW next \in Slots,
         scheduler2(Requeued, RequeuedStatus, next), SwitchTo(next), UNCHANGED live
  PROVE  /\ next \in live /\ next = Requeued.stack[1].pid
         /\ InLine(active', live \ {next}) /\ Calm(active', 0)
         /\ ActiveOnes' = live \ {next} /\ ~ Booting'
         /\ ~ Booting => /\ Requeued.stack[1] \in In(Requeued)
                         /\ \A e \in In(Requeued) : Requeued.stack[1].priority <= e.priority
         /\ Booting => \A e \in In(active') : e.priority = ShellPriority - 1
         /\ In(active') = In(Requeued) \ {Requeued.stack[1]}
<1> DEFINE q == Requeued
<1>1. /\ active' = pop_min(q) /\ next = q.stack[1].pid /\ ~ Sunk(q).beyond /\ q.bos > 0
      /\ status' = [RequeuedStatus EXCEPT ![next] = "SCHEDULED"]
      /\ RequeuedStatus = [status EXCEPT ![current] = "ACTIVE"]
      /\ current' = next /\ live' = live
  BY DEF scheduler2, Serves, RequeuedStatus, SwitchTo
<1>2. /\ status \in [Slots -> {"DEAD", "ACTIVE", "SCHEDULED"}] /\ live \in SUBSET Slots
      /\ live = ActiveOnes \cup {current} /\ current \in Slots
  BY HeapFacts DEF HInv
<1>3. status'[next] = "SCHEDULED" /\ ActiveOnes' = live \ {next}
  BY <1>1, <1>2 DEF ActiveOnes
<1>4. ~ Booting'
  BY <1>1, <1>3 DEF Booting
<1>5. CASE ~ Booting
  <2>1. InLine(q, live) /\ Calm(q, 1)
    BY <1>5, RequeuedLine
  <2>2. q.bos >= 1
    <3>1. q.bos \in Nat
      BY <2>1, LineEntries
    <3> QED BY <1>1, <3>1
  <2>3. /\ q.stack[1].pid \in live /\ q.stack[1] \in In(q)
        /\ \A e \in In(q) : q.stack[1].priority <= e.priority
        /\ InLine(pop_min(q), live \ {q.stack[1].pid}) /\ Calm(pop_min(q), 0)
        /\ In(pop_min(q)) = In(q) \ {q.stack[1]}
    BY <1>1, <2>1, <2>2, PopLine
  <2> HIDE DEF q
  <2> QED BY <1>1, <1>3, <1>4, <1>5, <2>3 DEF q
<1>6. CASE Booting
  <2>1. /\ Poppable(q) /\ Queued(q) = live /\ Cardinality(live) = q.bos /\ q.stack[1].pid = 0
        /\ \A e \in In(q) : e.pid # 0 => e.priority = ShellPriority - 1
    BY <1>6, RequeuedBoot
  <2>2. /\ 0 \in live /\ InLine(pop_min(q), live \ {0}) /\ In(pop_min(q)) = In(q) \ {q.stack[1]}
    BY <1>1, <1>2, <2>1, TakeLine
  <2>3. ASSUME NEW e \in In(pop_min(q))  PROVE e.priority = ShellPriority - 1
    <3>1. e.pid \in live \ {0}
      BY <2>2, LineEntries
    <3> QED BY <2>1, <2>2, <3>1
  <2>4. ShellPriority - 1 \in Nat /\ Cardinality(live \ {0}) <= ShellPriority - 1
    <3>1. Cardinality(live \ {0}) = Cardinality(live) - 1 /\ Cardinality(live) \in Nat
      BY <1>2, <2>2, SlotSets
    <3>2. Cardinality(live) <= MaxLive /\ MaxLive \in 1 .. ShellPriority /\ ShellPriority \in Nat
      BY ShellFacts DEF HInv, Roomy
    <3> QED BY <3>1, <3>2
  <2>5. Calm(pop_min(q), 0)
    <3>1. ShellPriority - 1 \in Nat /\ \A e \in In(pop_min(q)) : e.priority >= ShellPriority - 1
      BY <2>3, <2>4
    <3> QED BY <2>2, <2>4, <3>1, EvenCalm
  <2> HIDE DEF q
  <2> QED BY <1>1, <1>3, <1>4, <1>6, <2>1, <2>2, <2>3, <2>5 DEF q
<1> QED BY <1>5, <1>6

(* What exit leaves.                                                       *)
LEMMA ExitHeap ==
  ASSUME HInv, current # 0, NEW next \in Slots,
         scheduler2(newPriority(active, -1), [status EXCEPT ![current] = "DEAD"], next),
         AbandonFor(next), exit_kernel
  PROVE  /\ next \in live \ {current} /\ next = newPriority(active, -1).stack[1].pid
         /\ InLine(active', (live \ {current}) \ {next}) /\ Calm(active', 0)
         /\ ActiveOnes' = (live \ {current}) \ {next} /\ ~ Booting'
         /\ newPriority(active, -1).stack[1] \in In(newPriority(active, -1))
         /\ \A e \in In(newPriority(active, -1)) :
              newPriority(active, -1).stack[1].priority <= e.priority
         /\ In(active') = In(newPriority(active, -1)) \ {newPriority(active, -1).stack[1]}
<1> DEFINE q == newPriority(active, -1)
           st == [status EXCEPT ![current] = "DEAD"]
<1>1. /\ active' = pop_min(q) /\ next = q.stack[1].pid /\ ~ Sunk(q).beyond /\ q.bos > 0
      /\ status' = [st EXCEPT ![next] = "SCHEDULED"]
      /\ current' = next
  BY DEF scheduler2, Serves, AbandonFor
<1>2. /\ status \in [Slots -> {"DEAD", "ACTIVE", "SCHEDULED"}] /\ live \in SUBSET Slots
      /\ live = ActiveOnes \cup {current} /\ current \in Slots
      /\ current \notin ActiveOnes /\ ActiveOnes \in SUBSET Slots
      /\ InLine(active, ActiveOnes) /\ Calm(active, 0)
  BY HeapFacts DEF HInv
<1>3. /\ status'[next] = "SCHEDULED" /\ ActiveOnes' = (live \ {current}) \ {next}
      /\ ActiveOnes = live \ {current}
  BY <1>1, <1>2 DEF ActiveOnes
<1>4. ~ Booting'
  BY <1>1, <1>3 DEF Booting
<1>5. InLine(q, ActiveOnes) /\ Calm(q, 1)
  <2>1. -1 \notin ActiveOnes
    BY <1>2 DEF Slots
  <2> QED BY <1>2, <2>1, AgeLine
<1>6. q.bos >= 1
  <2>1. q.bos \in Nat
    BY <1>5, LineEntries
  <2> QED BY <1>1, <2>1
<1> HIDE DEF q
<1>7. /\ q.stack[1].pid \in ActiveOnes /\ q.stack[1] \in In(q)
      /\ \A e \in In(q) : q.stack[1].priority <= e.priority
      /\ InLine(pop_min(q), ActiveOnes \ {q.stack[1].pid}) /\ Calm(pop_min(q), 0)
      /\ In(pop_min(q)) = In(q) \ {q.stack[1]}
  BY <1>1, <1>5, <1>6, PopLine
<1> QED BY <1>1, <1>3, <1>4, <1>7 DEF q

(* What fork leaves.                                                       *)
LEMMA ForkHeap ==
  ASSUME Roomy, HInv, Cardinality(live) < MaxLive, NEW place \in Slots \ live,
         live' = live \cup {place}, current' = current,
         priority' = [priority EXCEPT ![place] = priority[current]],
         status' = [status EXCEPT ![place] = "ACTIVE"],
         active' = insert(active, place, priority[current])
  PROVE  /\ ActiveOnes' = ActiveOnes \cup {place}
         /\ InLine(active', ActiveOnes') /\ Calm(active', 0)
         /\ live' = ActiveOnes' \cup {current'} /\ Cardinality(live') <= MaxLive
         /\ \A p \in live' : MaxLive <= Clamped(priority'[p]) + 1
         /\ Booting' => priority'[0] = ShellPriority /\ AtBoot(active')
         /\ In(active') = In(active)
              \cup {[pid |-> place, priority |-> Clamped(priority[current])]}
<1>1. /\ current \in live /\ live \in SUBSET Slots /\ Cardinality(live) \in Nat
      /\ status \in [Slots -> {"DEAD", "ACTIVE", "SCHEDULED"}]
      /\ priority \in [Slots -> Priorities] /\ priority[current] \in Priorities
      /\ ActiveOnes \in SUBSET live /\ ActiveOnes \in SUBSET Slots
      /\ InLine(active, ActiveOnes) /\ Calm(active, 0) /\ Good(active)
      /\ active.bos = Cardinality(ActiveOnes)
      /\ live = ActiveOnes \cup {current}
  BY HeapFacts DEF HInv
<1>2. MaxLive \in Nat /\ MaxLive <= ShellPriority /\ ShellPriority \in Nat
  BY ShellFacts DEF Roomy
<1>3. ActiveOnes' = ActiveOnes \cup {place} /\ place \in Slots \ ActiveOnes
  BY <1>1 DEF ActiveOnes
<1>4. Clamped(priority[current]) \in Nat
  BY <1>1, NumbersAssumption DEF Clamped, Priorities
<1>5. Cardinality(ActiveOnes) \in Nat /\ Cardinality(ActiveOnes) < MaxProcs
      /\ (Cardinality(ActiveOnes) = 0 <=> ActiveOnes = {})
  BY <1>1, <1>3, SlotSets
<1>6. Cardinality(ActiveOnes) + 1 <= Clamped(priority[current]) + 0
  <2>1. CASE ~ Booting
    <3>1. Cardinality(live) = Cardinality(ActiveOnes) + 1
      BY <2>1, HeapFacts
    <3>2. MaxLive <= Clamped(priority[current]) + 1
      BY <1>1 DEF HInv
    <3> QED BY <1>1, <1>2, <1>4, <3>1, <3>2
  <2>2. CASE Booting
    <3>1. Cardinality(live) = Cardinality(ActiveOnes) /\ priority[current] = ShellPriority
      BY <2>2, HeapFacts DEF HInv
    <3> QED BY <1>1, <1>2, <3>1, ShellFacts
  <2> QED BY <2>1, <2>2
<1>7. /\ InLine(active', ActiveOnes \cup {place}) /\ Calm(active', 0)
      /\ In(active') = In(active)
           \cup {[pid |-> place, priority |-> Clamped(priority[current])]}
  <2> DEFINE prio == priority[current]
  <2>1. prio \in Priorities /\ Cardinality(ActiveOnes) + 1 <= Clamped(prio) + 0
    BY <1>1, <1>6
  <2> HIDE DEF prio
  <2>2. /\ InLine(insert(active, place, prio), ActiveOnes \cup {place})
        /\ Calm(insert(active, place, prio), 0)
        /\ In(insert(active, place, prio)) =
             In(active) \cup {[pid |-> place, priority |-> Clamped(prio)]}
    <3> DEFINE A == ActiveOnes
    <3>1. InLine(active, A) /\ Calm(active, 0) /\ place \in Slots \ A
          /\ Cardinality(A) + 1 <= Clamped(prio) + 0
      BY <1>1, <1>3, <2>1
    <3> HIDE DEF A
    <3>2. InLine(insert(active, place, prio), A \cup {place})
      BY <2>1, <3>1, InsertLine
    <3>3. Calm(insert(active, place, prio), 0)
      BY <2>1, <3>1, InsertLine
    <3>4. In(insert(active, place, prio)) =
             In(active) \cup {[pid |-> place, priority |-> Clamped(prio)]}
      <4>1. Good(active) /\ active.bos < MaxProcs /\ place \notin Queued(active)
        BY <1>1, <1>3, <1>5 DEF InLine
      <4> QED BY <2>1, <4>1, InsertGood
    <3> QED BY <3>2, <3>3, <3>4 DEF A
  <2>3. active' = insert(active, place, prio)
    BY DEF prio
  <2> QED BY <2>2, <2>3 DEF prio
<1>8. live' = ActiveOnes' \cup {current'}
  BY <1>1, <1>3
<1>9. Cardinality(live') <= MaxLive
  <2>1. Cardinality(live \cup {place}) = Cardinality(live) + 1
    BY <1>1, SlotSets
  <2> QED BY <1>1, <1>2, <2>1
<1>10. ASSUME NEW p \in live'  PROVE MaxLive <= Clamped(priority'[p]) + 1
  <2>1. CASE p = place
    <3>1. priority'[p] = priority[current]
      BY <1>1, <2>1
    <3> QED BY <1>1, <3>1 DEF HInv
  <2>2. CASE p # place
    <3>1. p \in live /\ priority'[p] = priority[p]
      BY <1>1, <2>2
    <3> QED BY <3>1 DEF HInv
  <2> QED BY <2>1, <2>2
<1>11. ASSUME Booting'  PROVE priority'[0] = ShellPriority /\ AtBoot(active')
  <2>1. current = 0 /\ 0 \in live /\ place # 0
    BY <1>1, <1>11 DEF Booting
  <2>2. status'[0] = status[0] /\ priority'[0] = priority[0]
    BY <1>1, <2>1
  <2>3. Booting
    BY <1>11, <2>1, <2>2 DEF Booting
  <2>4. priority[0] = ShellPriority /\ AtBoot(active) /\ 0 \in ActiveOnes
    BY <2>3, HeapFacts DEF HInv
  <2>5. active.bos >= 1 /\ active.bos < MaxProcs
    BY <1>1, <1>5, <2>4
  <2>6. active' = insert(active, place, ShellPriority)
    BY <2>1, <2>4
  <2>7. /\ \A i \in 1 .. active.bos + 1 : active'.stack[i].priority = ShellPriority
        /\ active'.stack[1] = active.stack[1]
    BY <1>1, <2>4, <2>5, <2>6, InsertLast DEF AtBoot
  <2>8. active'.bos = active.bos + 1
    <3>1. active \in Queues /\ ShellPriority \in Priorities
      BY <1>1, ShellFacts DEF Good
    <3> QED BY <2>5, <2>6, <3>1, InsertType
  <2> QED BY <2>2, <2>4, <2>7, <2>8 DEF AtBoot
<1> QED BY <1>3, <1>7, <1>8, <1>9, <1>10, <1>11

(* A process that is not queued finds a place.                             *)
LEMMA LineInserts ==
  ASSUME NEW q, NEW A \in SUBSET Slots, InLine(q, A), NEW pid \in Slots \ A, NEW number
  PROVE  ~ InsertFails(q, pid, number)
<1>1. Queued(q) = A /\ q.bos = Cardinality(A) /\ Cardinality(A) \in Nat /\ Cardinality(A) < MaxProcs
  BY SlotSets DEF InLine
<1>2. \A a \in Ancestors(q.bos + 1) : a \in 1 .. q.bos
  BY <1>1 DEF Ancestors
<1>3. \A a \in Ancestors(q.bos + 1) : q.stack[a].pid # pid
  BY <1>1, <1>2 DEF Queued
<1> QED BY <1>1, <1>3, MaxProcsAssumption DEF InsertFails, NeverSettles

(* The loop of decreasePriority ends, whoever the scheduler puts back ...  *)
LEMMA RequeueSettles ==
  ASSUME HInv
  PROVE  ~ RequeueFails
<1> SUFFICES ASSUME status[current] = "SCHEDULED"
             PROVE  ~ InsertFails(newPriority(active, current), current, priority[current])
  BY DEF RequeueFails
<1>1. ~ Booting
  BY DEF Booting
<1>2. /\ InLine(active, ActiveOnes) /\ Calm(active, 0) /\ ActiveOnes \in SUBSET Slots
      /\ current \in Slots \ ActiveOnes
  BY <1>1, HeapFacts DEF HInv
<1>3. InLine(newPriority(active, current), ActiveOnes)
  BY <1>2, AgeLine
<1> QED BY <1>2, <1>3, LineInserts

(* ... or fork puts in.                                                    *)
LEMMA ForkSettles ==
  ASSUME HInv, NEW place \in Slots \ live
  PROVE  ~ InsertFails(active, place, priority[current])
<1>1. InLine(active, ActiveOnes) /\ ActiveOnes \in SUBSET Slots /\ place \in Slots \ ActiveOnes
  BY HeapFacts DEF HInv
<1> QED BY <1>1, LineInserts

(* The scheduler strays only from a table that is half full.               *)
LEMMA StraysHalfFull ==
  ASSUME Roomy, HInv, Reschedule \/ Exit, fault', ~ fault
  PROVE  2 * Cardinality(live) >= MaxProcs
<1>1. /\ current \in live /\ live \in SUBSET Slots /\ Cardinality(live) \in Nat
      /\ status \in [Slots -> {"DEAD", "ACTIVE", "SCHEDULED"}]
      /\ ActiveOnes \in SUBSET live /\ live = ActiveOnes \cup {current}
      /\ InLine(active, ActiveOnes) /\ Calm(active, 0) /\ current \in Slots
  BY HeapFacts DEF HInv
<1>2. CASE Reschedule
  <2>1. ~ Serves(Requeued, RequeuedStatus)
    BY <1>2, RescheduleCases, RequeueSettles DEF scheduler2, Switches
  <2>2. /\ Poppable(Requeued) /\ Queued(Requeued) = live /\ Cardinality(live) = Requeued.bos
    <3>1. CASE Booting
      BY <3>1, RequeuedBoot
    <3>2. CASE ~ Booting
      <4>1. InLine(Requeued, live)
        BY <3>2, RequeuedLine
      <4>2. Good(Requeued) /\ Queued(Requeued) = live /\ Cardinality(live) = Requeued.bos
        BY <4>1 DEF InLine
      <4>3. Requeued.bos >= 1
        BY <4>2, TableRoom DEF HInv, TInv
      <4> QED BY <4>2, <4>3, GoodIsPoppable
    <3> QED BY <3>1, <3>2
  <2>3. \A p \in live : RequeuedStatus[p] = "ACTIVE"
    BY <1>1 DEF RequeuedStatus, ActiveOnes
  <2> QED BY <1>1, <2>1, <2>2, <2>3, LineServes
<1>3. CASE Exit
  <2> DEFINE q == newPriority(active, -1)
             st == [status EXCEPT ![current] = "DEAD"]
  <2>1. ~ Serves(q, st) /\ current # 0
    BY <1>3, ExitCases DEF scheduler2, Leaves
  <2>2. current \notin ActiveOnes /\ Cardinality(live) = Cardinality(ActiveOnes) + 1
        /\ Cardinality(live) >= 2
    BY <2>1, HeapFacts, TableRoom DEF HInv, TInv
  <2>3. InLine(q, ActiveOnes)
    <3>1. -1 \notin ActiveOnes
      BY <1>1 DEF Slots
    <3> QED BY <1>1, <3>1, AgeLine
  <2> HIDE DEF q
  <2>4. Good(q) /\ Queued(q) = ActiveOnes /\ Cardinality(ActiveOnes) = q.bos /\ q.bos \in Nat
        /\ ActiveOnes \in SUBSET Slots
    BY <2>3, LineEntries DEF InLine
  <2>5. Poppable(q)
    BY <1>1, <2>2, <2>4, GoodIsPoppable
  <2>6. \A p \in ActiveOnes : st[p] = "ACTIVE"
    BY <1>1, <2>2 DEF ActiveOnes
  <2> HIDE DEF st
  <2>7. 2 * q.bos >= MaxProcs
    BY <2>1, <2>4, <2>5, <2>6, LineServes
  <2> QED BY <1>1, <2>2, <2>4, <2>7, MaxProcsAssumption
<1> QED BY <1>2, <1>3

(* Every step keeps the invariant.                                         *)
LEMMA StepHeap ==
  ASSUME Roomy, HInv, [Next]_vars
  PROVE  HInv'
<1>i. TInv'
  BY StepSound, StepSized DEF HInv, TInv
<1>t. /\ current \in live /\ live \in SUBSET Slots /\ current \in Slots
      /\ status \in [Slots -> {"DEAD", "ACTIVE", "SCHEDULED"}]
      /\ priority \in [Slots -> Priorities]
      /\ Cardinality(live) \in Nat
      /\ ActiveOnes \in SUBSET live
      /\ MaxLive \in Nat /\ MaxLive <= ShellPriority
  BY HeapFacts, ShellFacts DEF Roomy
<1>h. /\ InLine(active, ActiveOnes) /\ Calm(active, 0)
      /\ live = ActiveOnes \cup {current}
      /\ Cardinality(live) <= MaxLive
      /\ \A p \in live : MaxLive <= Clamped(priority[p]) + 1
      /\ Booting => priority[0] = ShellPriority /\ AtBoot(active)
      /\ StraysOnlyWhenHalfFull
  BY DEF HInv
(* A step that leaves the heap and the table's occupants alone.            *)
<1>k. ASSUME UNCHANGED <<live, current, status, priority, active>>, StraysOnlyWhenHalfFull'
      PROVE  HInv'
  <2>1. ActiveOnes' = ActiveOnes
    BY <1>k DEF ActiveOnes
  <2>2. Booting' = Booting
    BY <1>k DEF Booting
  <2> QED BY <1>i, <1>h, <1>k, <2>1, <2>2 DEF HInv
<1>1. CASE Run
  <2>1. UNCHANGED <<live, current, status, priority, active>> /\ fault' = fault
    BY <1>1 DEF Run, Compute
  <2>2. StraysOnlyWhenHalfFull'
    BY <1>h, <2>1 DEF StraysOnlyWhenHalfFull
  <2> QED BY <1>k, <2>1, <2>2
<1>2. CASE Reschedule
  <2>1. CASE Idle
    <3>1. UNCHANGED <<live, current, status, priority, active>> /\ fault' /\ ~ fault
      BY <1>2, <2>1, RescheduleCases DEF Idle, Fails
    <3>2. 2 * Cardinality(live) >= MaxProcs
      BY <1>2, <3>1, StraysHalfFull
    <3>3. StraysOnlyWhenHalfFull'
      BY <3>1, <3>2 DEF StraysOnlyWhenHalfFull
    <3> QED BY <1>k, <3>1, <3>3
  <2>2. CASE /\ Switches(Requeued, RequeuedStatus)
             /\ UNCHANGED <<live, noProcesses, priority>>
    <3>1. PICK next \in Slots : scheduler2(Requeued, RequeuedStatus, next) /\ SwitchTo(next)
      BY <2>2 DEF Switches
    <3>2. live' = live /\ priority' = priority /\ current' = next /\ fault' = fault /\ ~ fault
      BY <1>2, <2>2, <3>1, RescheduleCases DEF SwitchTo, scheduler2
    <3>3. /\ next \in live /\ InLine(active', live \ {next}) /\ Calm(active', 0)
          /\ ActiveOnes' = live \ {next} /\ ~ Booting'
      BY <3>1, <3>2, RescheduleHeap
    <3>4. InLine(active', ActiveOnes') /\ live' = ActiveOnes' \cup {current'}
      BY <3>2, <3>3
    <3>5. StraysOnlyWhenHalfFull'
      BY <3>2 DEF StraysOnlyWhenHalfFull
    <3> QED BY <1>i, <1>h, <3>2, <3>3, <3>4, <3>5 DEF HInv
  <2>3. QED  BY <1>2, <2>1, <2>2, RescheduleCases
<1>3. CASE Fork
  <2>1. PICK place \in Slots \ live :
          /\ ForkInto(place) /\ UNCHANGED fault
          /\ priority' = [priority EXCEPT ![place] = priority[current]]
          /\ status' = [status EXCEPT ![place] = "ACTIVE"]
          /\ active' = insert(active, place, priority[current])
    BY <1>3, ForkCases, ForkSettles DEF HInv, TInv
  <2>2. /\ live' = live \cup {place} /\ current' = current
        /\ Cardinality(live) < MaxLive /\ fault' = fault /\ ~ fault
    BY <1>3, <2>1, ForkCases DEF ForkInto, HInv, TInv
  <2>3. /\ InLine(active', ActiveOnes') /\ Calm(active', 0)
        /\ live' = ActiveOnes' \cup {current'} /\ Cardinality(live') <= MaxLive
        /\ \A p \in live' : MaxLive <= Clamped(priority'[p]) + 1
        /\ Booting' => priority'[0] = ShellPriority /\ AtBoot(active')
    BY <2>1, <2>2, ForkHeap
  <2>4. StraysOnlyWhenHalfFull'
    BY <2>2 DEF StraysOnlyWhenHalfFull
  <2> QED BY <1>i, <2>3, <2>4 DEF HInv
<1>4. CASE ForkTableFull
  <2>1. /\ live = Slots /\ UNCHANGED <<live, current, status, priority, active>>
    BY <1>4 DEF ForkTableFull, ForkRefused, ForkPastTable, Fails
  <2>2. 2 * Cardinality(live) >= MaxProcs
    BY <2>1, SlotCount, MaxProcsAssumption
  <2>3. StraysOnlyWhenHalfFull'
    BY <2>1, <2>2 DEF StraysOnlyWhenHalfFull
  <2> QED BY <1>k, <2>1, <2>3
<1>5. CASE Exit
  <2> DEFINE st == [status EXCEPT ![current] = "DEAD"]
             q == newPriority(active, -1)
  <2>1. CASE Idle
    <3>1. UNCHANGED <<live, current, status, priority, active>> /\ fault' /\ ~ fault
      BY <1>5, <2>1, ExitCases DEF Idle, Fails
    <3>2. 2 * Cardinality(live) >= MaxProcs
      BY <1>5, <3>1, StraysHalfFull
    <3>3. StraysOnlyWhenHalfFull'
      BY <3>1, <3>2 DEF StraysOnlyWhenHalfFull
    <3> QED BY <1>k, <3>1, <3>3
  <2>2. CASE /\ exit_kernel
             /\ priority' = [priority EXCEPT ![current] = 0]
             /\ Leaves(q, st)
    <3>1. PICK next \in Slots : scheduler2(q, st, next) /\ AbandonFor(next)
      BY <2>2 DEF Leaves
    <3>2. /\ live' = live \ {current} /\ current' = next /\ fault' = fault /\ ~ fault
          /\ current # 0 /\ exit_kernel
      BY <1>5, <2>2, <3>1, ExitCases DEF AbandonFor, scheduler2, exit_kernel
    <3>3. /\ next \in live \ {current}
          /\ InLine(active', (live \ {current}) \ {next}) /\ Calm(active', 0)
          /\ ActiveOnes' = (live \ {current}) \ {next} /\ ~ Booting'
      BY <3>1, <3>2, ExitHeap
    <3>4. InLine(active', ActiveOnes') /\ live' = ActiveOnes' \cup {current'}
      BY <3>2, <3>3
    <3>5. Cardinality(live') <= MaxLive
      <4>1. Cardinality(live \ {current}) = Cardinality(live) - 1
        BY <1>t, SlotSets
      <4> QED BY <1>t, <1>h, <3>2, <4>1
    <3>6. \A p \in live' : MaxLive <= Clamped(priority'[p]) + 1
      <4>1. \A p \in live' : p \in live /\ priority'[p] = priority[p]
        BY <1>t, <2>2, <3>2
      <4> QED BY <1>h, <4>1
    <3>7. StraysOnlyWhenHalfFull'
      BY <3>2 DEF StraysOnlyWhenHalfFull
    <3> QED BY <1>i, <3>3, <3>4, <3>5, <3>6, <3>7 DEF HInv
  <2>3. QED  BY <1>5, <2>1, <2>2, ExitCases
<1>6. CASE Exec
  <2>1. PICK prog \in Programs, prio \in ExecPriorities :
          Load(prog) /\ priority' = [priority EXCEPT ![current] = prio]
    BY <1>6 DEF Exec
  <2>2. /\ UNCHANGED <<live, current, status, active>> /\ fault' = fault /\ current # 0
    BY <1>6, <2>1 DEF Exec, Load
  <2>3. ActiveOnes' = ActiveOnes /\ ~ Booting'
    BY <2>2 DEF ActiveOnes, Booting
  <2>4. MaxLive <= Clamped(prio) + 1
    <3>1. prio \in Nat /\ MaxLive <= prio + 1
      BY NumbersAssumption, PrioritiesAssumption DEF Roomy, Priorities
    <3>2. ShellPriority \in Nat /\ LowestPriority \in Nat /\ ShellPriority <= LowestPriority
      BY NumbersAssumption, PrioritiesAssumption
    <3> QED BY <1>t, <3>1, <3>2 DEF Clamped
  <2>5. \A p \in live' : MaxLive <= Clamped(priority'[p]) + 1
    <3> SUFFICES ASSUME NEW p \in live  PROVE MaxLive <= Clamped(priority'[p]) + 1
      BY <2>2
    <3>1. CASE p = current
      <4>1. priority'[p] = prio
        BY <1>t, <2>1, <3>1
      <4> QED BY <2>4, <4>1
    <3>2. CASE p # current
      <4>1. priority'[p] = priority[p]
        BY <1>t, <2>1, <3>2
      <4> QED BY <1>h, <4>1
    <3> QED BY <3>1, <3>2
  <2>6. StraysOnlyWhenHalfFull'
    BY <1>h, <2>2 DEF StraysOnlyWhenHalfFull
  <2> QED BY <1>i, <1>h, <2>2, <2>3, <2>5, <2>6 DEF HInv
<1>7. CASE UNCHANGED vars
  <2>1. UNCHANGED <<live, current, status, priority, active>> /\ fault' = fault
    BY <1>7 DEF vars, tableVars
  <2>2. StraysOnlyWhenHalfFull'
    BY <1>h, <2>1 DEF StraysOnlyWhenHalfFull
  <2> QED BY <1>k, <2>1, <2>2
<1>8. QED
  BY <1>1, <1>2, <1>3, <1>4, <1>5, <1>6, <1>7 DEF Next, Yield, Tick

(* The heap agrees with the process table and is in order, and the         *)
(* scheduler strays from a table that is half full only: see               *)
(* QueueMatchesTable, HeapOrdered and StraysOnlyWhenHalfFull.              *)
THEOREM HeapInvariance ==
  ASSUME Roomy
  PROVE  Spec => []HInv
<1>1. Init => HInv
  BY InitHeap
<1>2. HInv /\ [Next]_vars => HInv'
  BY StepHeap
<1>3. QED  BY <1>1, <1>2, PTL DEF Spec

(* Every process but the one that runs waits in the heap, once: see        *)
(* QueueMatchesTable.                                                      *)
THEOREM QueueIsTheTable ==
  ASSUME Roomy
  PROVE  Spec => []QueueMatchesTable
<1>1. ASSUME HInv  PROVE QueueMatchesTable
  <2>1. Queued(active) = ActiveOnes /\ Cardinality(ActiveOnes) = active.bos
        /\ live = ActiveOnes \cup {current}
    BY <1>1 DEF HInv, InLine
  <2>2. current \in ActiveOnes => Booting
    BY <1>1, HeapFacts
  <2> QED BY <2>1, <2>2 DEF QueueMatchesTable, ActiveOnes
<1>2. QED  BY <1>1, HeapInvariance, PTL

(* Aging never breaks the order of the heap: see HeapOrdered.              *)
THEOREM HeapStaysOrdered ==
  ASSUME Roomy
  PROVE  Spec => []HeapOrdered
<1>1. HInv => HeapOrdered
  BY DEF HInv, InLine, Good, Ordered, HeapOrdered
<1>2. QED  BY <1>1, HeapInvariance, PTL

(* pop_min stays inside activeStack while the table is less than half      *)
(* full: see StraysOnlyWhenHalfFull.                                       *)
THEOREM StaysInsideTheHeap ==
  ASSUME Roomy
  PROVE  Spec => []StraysOnlyWhenHalfFull
<1>1. HInv => StraysOnlyWhenHalfFull
  BY DEF HInv
<1>2. QED  BY <1>1, HeapInvariance, PTL

-----------------------------------------------------------------------------
(* Who runs next, and the numbers of those who wait.                       *)
NumberIn(q, p) == CHOOSE n \in Priorities :
  \E i \in 1 .. q.bos : q.stack[i] = [pid |-> p, priority |-> n]

LEMMA NumberIs ==
  ASSUME NEW q, NEW A, InLine(q, A), NEW e \in In(q)
  PROVE  NumberIn(q, e.pid) = e.priority
<1> DEFINE Has(n) == \E i \in 1 .. q.bos : q.stack[i] = [pid |-> e.pid, priority |-> n]
<1>1. e \in Entries /\ e = [pid |-> e.pid, priority |-> e.priority]
  BY LineEntries
<1>2. e.priority \in Priorities /\ Has(e.priority)
  <2>1. \E i \in 1 .. q.bos : q.stack[i] = e
    BY DEF In, Content
  <2> QED BY <1>1, <2>1 DEF Entries
<1>3. ASSUME NEW n, Has(n)  PROVE n = e.priority
  <2>1. PICK i \in 1 .. q.bos : q.stack[i] = [pid |-> e.pid, priority |-> n]
    BY <1>3
  <2>2. q.stack[i] \in In(q) /\ q.stack[i].pid = e.pid /\ q.stack[i].priority = n
    BY <2>1 DEF In, Content
  <2>3. q.stack[i] = e
    BY <2>2, OneEntryEach DEF InLine, Good
  <2> QED BY <2>2, <2>3
<1>4. NumberIn(q, e.pid) = CHOOSE n \in Priorities : Has(n)
  BY DEF NumberIn
<1> HIDE DEF Has
<1> QED BY <1>2, <1>3, <1>4

(* An entry of the aged heap is one of the heap, one less.                 *)
LEMMA AgedFrom ==
  ASSUME HInv, NEW pid, pid \notin ActiveOnes
  PROVE  \A e \in In(newPriority(active, pid)) :
           \E d \in In(active) : d.pid = e.pid /\ e.priority = d.priority - 1 /\ d.priority \in Nat
<1>1. InLine(active, ActiveOnes) /\ Calm(active, 0)
  BY DEF HInv
<1>2. Lowers(active) /\ Good(active) /\ pid \notin Queued(active)
  BY <1>1, CalmLowers DEF InLine
<1>3. \A d \in In(active) : d.priority \in Nat
  BY <1>1, LineEntries
<1> QED BY <1>2, <1>3, AgeIn

(* Numbers do not grow from one queue to the next.                         *)
LEMMA Gains ==
  ASSUME NEW q, NEW A, InLine(q, A), NEW r, NEW B, InLine(r, B),
         \A e \in In(r) : e.pid \in A => \E d \in In(q) : d.pid = e.pid /\ e.priority <= d.priority
  PROVE  \A p \in Queued(q) \cap Queued(r) : NumberIn(r, p) <= NumberIn(q, p)
<1> SUFFICES ASSUME NEW p \in Queued(q), p \in Queued(r)
             PROVE  NumberIn(r, p) <= NumberIn(q, p)
  OBVIOUS
<1>1. PICK e \in In(r) : e.pid = p
  BY QueuedIs
<1>2. p \in A
  BY DEF InLine
<1>3. PICK d \in In(q) : d.pid = e.pid /\ e.priority <= d.priority
  BY <1>1, <1>2
<1>4. NumberIn(r, p) = e.priority
  BY <1>1, NumberIs
<1>5. NumberIn(q, p) = d.priority
  BY <1>1, <1>3, NumberIs
<1> QED BY <1>3, <1>4, <1>5

(* The root is the least of those left behind.                             *)
LEMMA Least ==
  ASSUME NEW q, NEW r, NEW B, InLine(r, B), NEW number,
         \A e \in In(q) : number <= e.priority, In(r) \subseteq In(q)
  PROVE  \A p \in Queued(r) : number <= NumberIn(r, p)
<1> SUFFICES ASSUME NEW p \in Queued(r)  PROVE number <= NumberIn(r, p)
  OBVIOUS
<1>1. PICK e \in In(r) : e.pid = p
  BY QueuedIs
<1>2. NumberIn(r, p) = e.priority
  BY <1>1, NumberIs
<1> QED BY <1>1, <1>2

(* The step itself, for the two properties of steps.                       *)
MostUrgentStep == (Reschedule \/ Exit) /\ ~ fault' /\ ~ Booting =>
                     \A p \in Queued(active') : ChosenNumber <= Number(p)'
GainStep == \A p \in Queued(active) \cap Queued(active') : Number(p)' <= Number(p)

LEMMA RescheduleUrgent ==
  ASSUME Roomy, HInv, NEW next \in Slots,
         scheduler2(Requeued, RequeuedStatus, next), SwitchTo(next), UNCHANGED <<live, priority>>
  PROVE  /\ ~ Booting => \A p \in Queued(active') : ChosenNumber <= NumberIn(active', p)
         /\ \A p \in Queued(active) \cap Queued(active') : NumberIn(active', p) <= NumberIn(active, p)
<1> DEFINE m == Requeued.stack[1]
           aged == newPriority(active, current)
           c == [pid |-> current, priority |-> Clamped(priority[current])]
<1>1. /\ next \in live /\ next = m.pid /\ InLine(active', live \ {next})
      /\ ~ Booting => m \in In(Requeued) /\ \A e \in In(Requeued) : m.priority <= e.priority
      /\ Booting => \A e \in In(active') : e.priority = ShellPriority - 1
      /\ In(active') = In(Requeued) \ {m}
  BY RescheduleHeap
<1>2. /\ InLine(active, ActiveOnes) /\ Good(active)
      /\ live = ActiveOnes \cup {current} /\ current' = next
      /\ ~ Booting => current \notin ActiveOnes
      /\ Booting => AtBoot(active)
  BY HeapFacts DEF HInv, SwitchTo
<1>3. c.pid = current /\ c.priority = Clamped(priority[current])
  OBVIOUS
<1> HIDE DEF m, aged, c
<1>4. CASE ~ Booting
  <2>1. In(Requeued) = In(aged) \cup {c}
    BY <1>4, RequeuedLine DEF aged, c
  <2>2. \A e \in In(aged) : \E d \in In(active) :
           d.pid = e.pid /\ e.priority = d.priority - 1 /\ d.priority \in Nat
    BY <1>2, <1>4, AgedFrom DEF aged
  <2>3. \A d \in In(active) : d.pid \in ActiveOnes
    BY <1>2, LineEntries
  <2>4. m.priority = ChosenNumber
    <3>1. CASE next = current
      <4>1. m \notin In(aged)
        BY <1>1, <1>2, <1>4, <2>2, <2>3, <3>1
      <4>2. m = c
        BY <1>1, <1>4, <2>1, <4>1
      <4> QED BY <1>2, <1>3, <3>1, <4>2 DEF ChosenNumber, Clamped
    <3>2. CASE next # current
      <4>1. m \in In(aged)
        BY <1>1, <1>3, <1>4, <2>1, <3>2
      <4>2. PICK d \in In(active) : d.pid = next /\ m.priority = d.priority - 1
        BY <1>1, <2>2, <4>1
      <4>3. NumberIn(active, next) = d.priority
        BY <1>2, <4>2, NumberIs
      <4>4. Number(next) = NumberIn(active, next)
        BY DEF Number, NumberIn
      <4>5. ChosenNumber = Number(next) - 1
        BY <1>2, <3>2 DEF ChosenNumber
      <4> QED BY <4>2, <4>3, <4>4, <4>5
    <3> QED BY <3>1, <3>2
  <2>5. \A p \in Queued(active') : m.priority <= NumberIn(active', p)
    BY <1>1, <1>4, Least
  <2>6. \A e \in In(active') : e.pid \in ActiveOnes =>
           \E d \in In(active) : d.pid = e.pid /\ e.priority <= d.priority
    <3> SUFFICES ASSUME NEW e \in In(active'), e.pid \in ActiveOnes
                 PROVE  \E d \in In(active) : d.pid = e.pid /\ e.priority <= d.priority
      OBVIOUS
    <3>1. e \in In(aged)
      BY <1>1, <1>2, <1>3, <1>4, <2>1
    <3>2. PICK d \in In(active) : d.pid = e.pid /\ e.priority = d.priority - 1 /\ d.priority \in Nat
      BY <2>2, <3>1
    <3> QED BY <3>2
  <2>7. \A p \in Queued(active) \cap Queued(active') : NumberIn(active', p) <= NumberIn(active, p)
    BY <1>1, <1>2, <2>6, Gains
  <2> QED BY <2>4, <2>5, <2>7
<1>5. CASE Booting
  <2>1. \A d \in In(active) : d.priority = ShellPriority
    BY <1>2, <1>5 DEF AtBoot, In, Content
  <2>2. \A p \in ActiveOnes : \E d \in In(active) : d.pid = p
    BY <1>2, LineEntries
  <2>3. \A e \in In(active') : e.pid \in ActiveOnes =>
           \E d \in In(active) : d.pid = e.pid /\ e.priority <= d.priority
    BY <1>1, <1>5, <2>1, <2>2, ShellFacts
  <2>4. \A p \in Queued(active) \cap Queued(active') : NumberIn(active', p) <= NumberIn(active, p)
    BY <1>1, <1>2, <2>3, Gains
  <2> QED BY <1>5, <2>4
<1> QED BY <1>4, <1>5

LEMMA ExitUrgent ==
  ASSUME HInv, current # 0, NEW next \in Slots,
         scheduler2(newPriority(active, -1), [status EXCEPT ![current] = "DEAD"], next),
         AbandonFor(next), exit_kernel
  PROVE  /\ \A p \in Queued(active') : ChosenNumber <= NumberIn(active', p)
         /\ \A p \in Queued(active) \cap Queued(active') : NumberIn(active', p) <= NumberIn(active, p)
<1> DEFINE aged == newPriority(active, -1)
           m == aged.stack[1]
<1>1. /\ next \in live \ {current} /\ next = m.pid
      /\ InLine(active', (live \ {current}) \ {next})
      /\ m \in In(aged) /\ \A e \in In(aged) : m.priority <= e.priority
      /\ In(active') = In(aged) \ {m}
  BY ExitHeap
<1>2. InLine(active, ActiveOnes) /\ ActiveOnes \in SUBSET Slots /\ current' = next
  BY HeapFacts DEF HInv, InLine, AbandonFor
<1>3. -1 \notin ActiveOnes
  BY <1>2 DEF Slots
<1> HIDE DEF m
<1>4. \A e \in In(aged) : \E d \in In(active) :
         d.pid = e.pid /\ e.priority = d.priority - 1 /\ d.priority \in Nat
  BY <1>3, AgedFrom
<1> HIDE DEF aged
<1>5. m.priority = ChosenNumber
  <2>1. PICK d \in In(active) : d.pid = next /\ m.priority = d.priority - 1
    BY <1>1, <1>4
  <2>2. NumberIn(active, next) = d.priority
    BY <1>2, <2>1, NumberIs
  <2>3. Number(next) = NumberIn(active, next)
    BY DEF Number, NumberIn
  <2>4. ChosenNumber = Number(next) - 1
    BY <1>1, <1>2 DEF ChosenNumber
  <2> QED BY <2>1, <2>2, <2>3, <2>4
<1>6. \A p \in Queued(active') : m.priority <= NumberIn(active', p)
  BY <1>1, Least
<1>7. \A e \in In(active') : e.pid \in ActiveOnes =>
         \E d \in In(active) : d.pid = e.pid /\ e.priority <= d.priority
  <2> SUFFICES ASSUME NEW e \in In(active')
               PROVE  \E d \in In(active) : d.pid = e.pid /\ e.priority <= d.priority
    OBVIOUS
  <2>1. PICK d \in In(active) : d.pid = e.pid /\ e.priority = d.priority - 1 /\ d.priority \in Nat
    BY <1>1, <1>4
  <2> QED BY <2>1
<1>8. \A p \in Queued(active) \cap Queued(active') : NumberIn(active', p) <= NumberIn(active, p)
  BY <1>1, <1>2, <1>7, Gains
<1> QED BY <1>5, <1>6, <1>8

LEMMA StepMostUrgent ==
  ASSUME Roomy, HInv
  PROVE  MostUrgentStep
<1> SUFFICES ASSUME Reschedule \/ Exit, ~ fault', ~ Booting
             PROVE  \A p \in Queued(active') : ChosenNumber <= NumberIn(active', p)
  BY DEF MostUrgentStep, Number, NumberIn
<1>1. CASE Reschedule
  <2>1. PICK next \in Slots : scheduler2(Requeued, RequeuedStatus, next) /\ SwitchTo(next)
                              /\ UNCHANGED <<live, noProcesses, priority>>
    BY <1>1, RescheduleCases DEF Idle, Fails, Switches
  <2> QED BY <2>1, RescheduleUrgent
<1>2. CASE Exit
  <2>1. PICK next \in Slots :
          /\ scheduler2(newPriority(active, -1), [status EXCEPT ![current] = "DEAD"], next)
          /\ AbandonFor(next) /\ exit_kernel
    BY <1>2, ExitCases DEF Idle, Fails, Leaves
  <2>2. current # 0
    BY <1>2, ExitCases
  <2> QED BY <2>1, <2>2, ExitUrgent
<1> QED BY <1>1, <1>2

LEMMA StepGains ==
  ASSUME Roomy, HInv, Next
  PROVE  GainStep
<1> SUFFICES \A p \in Queued(active) \cap Queued(active') :
                NumberIn(active', p) <= NumberIn(active, p)
  BY DEF GainStep, Number, NumberIn
<1>t. InLine(active, ActiveOnes) /\ ActiveOnes \in SUBSET live
  BY HeapFacts
<1>k. ASSUME active' = active
      PROVE  \A p \in Queued(active) \cap Queued(active') :
                NumberIn(active', p) <= NumberIn(active, p)
  <2>1. \A e \in In(active) : e.priority \in Nat
    BY <1>t, LineEntries
  <2>2. \A e \in In(active) : e.pid \in ActiveOnes =>
           \E d \in In(active) : d.pid = e.pid /\ e.priority <= d.priority
    BY <2>1
  <2>3. \A p \in Queued(active) \cap Queued(active) : NumberIn(active, p) <= NumberIn(active, p)
    BY <1>t, <2>2, Gains
  <2> QED BY <1>k, <2>3
<1>1. CASE Run \/ ForkTableFull \/ Exec
  BY <1>1, <1>k DEF Run, ForkTableFull, Exec
<1>2. CASE Reschedule
  <2>1. CASE Idle
    BY <2>1, <1>k DEF Idle
  <2>2. CASE ~ Idle
    <3>1. PICK next \in Slots : scheduler2(Requeued, RequeuedStatus, next) /\ SwitchTo(next)
                                /\ UNCHANGED <<live, noProcesses, priority>>
      BY <1>2, <2>2, RescheduleCases DEF Switches
    <3> QED BY <3>1, RescheduleUrgent
  <2> QED BY <2>1, <2>2
<1>3. CASE Fork
  <2>1. PICK place \in Slots \ live :
          /\ ForkInto(place)
          /\ priority' = [priority EXCEPT ![place] = priority[current]]
          /\ status' = [status EXCEPT ![place] = "ACTIVE"]
          /\ active' = insert(active, place, priority[current])
    BY <1>3, ForkCases, ForkSettles DEF HInv, TInv
  <2>2. /\ live' = live \cup {place} /\ current' = current
        /\ Cardinality(live) < MaxLive
    BY <1>3, <2>1, ForkCases DEF ForkInto, HInv, TInv
  <2>3. /\ InLine(active', ActiveOnes')
        /\ In(active') = In(active)
             \cup {[pid |-> place, priority |-> Clamped(priority[current])]}
    BY <2>1, <2>2, ForkHeap
  <2>4. \A e \in In(active') : e.pid \in ActiveOnes =>
           \E d \in In(active) : d.pid = e.pid /\ e.priority <= d.priority
    <3> SUFFICES ASSUME NEW e \in In(active'), e.pid \in ActiveOnes
                 PROVE  \E d \in In(active) : d.pid = e.pid /\ e.priority <= d.priority
      OBVIOUS
    <3>1. e.pid # place
      BY <1>t, <2>2
    <3>2. e \in In(active)
      BY <2>3, <3>1
    <3>3. e.priority \in Nat
      BY <1>t, <3>2, LineEntries
    <3> QED BY <3>2, <3>3
  <2> QED BY <1>t, <2>3, <2>4, Gains
<1>4. CASE Exit
  <2>1. CASE Idle
    BY <2>1, <1>k DEF Idle
  <2>2. CASE ~ Idle
    <3>1. PICK next \in Slots :
            /\ scheduler2(newPriority(active, -1), [status EXCEPT ![current] = "DEAD"], next)
            /\ AbandonFor(next) /\ exit_kernel
      BY <1>4, <2>2, ExitCases DEF Leaves
    <3>2. current # 0
      BY <1>4, ExitCases
    <3> QED BY <3>1, <3>2, ExitUrgent
  <2> QED BY <2>1, <2>2
<1>5. QED
  BY <1>1, <1>2, <1>3, <1>4 DEF Next, Yield, Tick

(* The scheduler runs the most urgent process: see DispatchesMostUrgent.   *)
THEOREM MostUrgentRuns ==
  ASSUME Roomy
  PROVE  Spec => DispatchesMostUrgent
<1>1. HInv /\ [Next]_vars => [MostUrgentStep]_vars
  BY StepMostUrgent
<1>2. Spec => [][MostUrgentStep]_vars
  BY <1>1, HeapInvariance, PTL DEF Spec
<1>3. QED  BY <1>2 DEF DispatchesMostUrgent, MostUrgentStep

(* Waiting makes a process more urgent: see WaitingGainsUrgency.           *)
THEOREM WaitingHelps ==
  ASSUME Roomy
  PROVE  Spec => WaitingGainsUrgency
<1>1. HInv /\ [Next]_vars => [GainStep]_vars
  BY StepGains
<1>2. Spec => [][GainStep]_vars
  BY <1>1, HeapInvariance, PTL DEF Spec
<1>3. QED  BY <1>2 DEF WaitingGainsUrgency, GainStep
=============================================================================
