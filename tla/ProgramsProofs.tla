---------------------------- MODULE ProgramsProofs ----------------------------
(***************************************************************************)
(* Proofs about Programs for any table sizes, any number of rounds, and    *)
(* any commands that name a program or make a pipeline of two that call    *)
(* neither pipe nor fork themselves (Plain): the invariant IInv is         *)
(* inductive, and what follows from it; and for commands without P3        *)
(* (Patient) that pipes are queues, and that the kernel stays within its   *)
(* tables as long as there are pipes.                                      *)
(*                                                                         *)
(* IInv gives, for each place a process can be at, the descriptor table it *)
(* has there (Shaped), says which processes can share a pipe (Apart), what *)
(* a pipe counts (Counted), and where the token of T2 is (Token).          *)
(*                                                                         *)
(* The proof says first what each kernel call does to descriptor tables,   *)
(* then what the tables of each place look like, then, call by call, that  *)
(* a step keeps the plumbing (..Keeps) and the token (..Token), that it is *)
(* a step of the queues (..Tidy, ..Queued) and what it takes of the pipes  *)
(* that are free (..Spares, ..Supplied).                                   *)
(***************************************************************************)
EXTENDS Programs, FiniteSetTheorems, WellFoundedInduction, TLAPS

-----------------------------------------------------------------------------
(* The descriptor tables of a process, by what it has done so far.         *)
Loose(perm) == [Unused EXCEPT !.active = TRUE, !.type = "PIPE", !.perm = perm]
End(perm, k) == [Loose(perm) EXCEPT !.pipe = k]
Closed(perm, k) == [End(perm, k) EXCEPT !.active = FALSE]

(* Table t after a call of pipe that found the pair of descriptors at m.   *)
Opened(t, m, k) == [t EXCEPT ![m] = End("READ", k), ![m + 1] = End("WRITE", k)]

Console == initialisefdt
Both(k) == Opened(Console, 2, k)
InHalf(k) == [Both(k) EXCEPT ![0] = End("READ", k), ![2] = Closed("READ", k)]
InDone(k) == [InHalf(k) EXCEPT ![3] = Closed("WRITE", k)]
OutHalf(k) == [Both(k) EXCEPT ![1] = End("WRITE", k), ![3] = Closed("WRITE", k)]
OutDone(k) == [OutHalf(k) EXCEPT ![2] = Closed("READ", k)]
Two(j, k) == Opened(Both(j), 4, k)
Three(j, k, l) == Opened(Two(j, k), 6, l)

(* The places of the programs.                                             *)
Quiet == {"P0", "P1", "P2", "T0", "T1", "T3"}
Begin == {"prompt", "pipeline", "P3", "T2"}
Paired == {"plumb", "in_dup2", "out_dup2"}
Arranging == Paired \cup {"in_close_0", "in_close_1", "out_close_0", "out_close_1"}
Starting == {"T2", "T2_pipe_2", "T2_pipe_3", "T2_fork_1"}
First == {"P1_write", "P1_read"}
Second == {"T2_fork_2", "P2_read", "P2_write"}
Third == {"P3_read", "P3_write"}
Ring == First \cup Second \cup Third
Places == {"free", "T_exit", "P3_writer", "P3_reader"}
          \cup Quiet \cup Begin \cup Arranging \cup Starting \cup Ring

(* The commands: no program of a pipeline calls pipe or fork.              *)
Plain ==
  /\ Commands \subseteq {<<c>> : c \in Quiet \cup {"P3", "T2"}} \cup {<<c, d>> : c \in Quiet, d \in Quiet}
  /\ 1 \in Bytes
  /\ <<"T2">> \in Commands => 0 .. 3 * Rounds \subseteq Bytes

-----------------------------------------------------------------------------
PipeRecord == [fdCount : Int, bufferIndex : Nat, buffer : [0 .. BufferSize - 1 -> Bytes]]

Tables == [fdt : [Pids -> [Fds -> Descriptor]],
           pipe : [Pipes -> PipeRecord],
           used : [Pipes -> BOOLEAN],
           file : [Pipes -> Names \cup {Unnamed}],
           fileCount : Int,
           disk : [Names -> {NoFile, 0, 1, 2}],
           fault : BOOLEAN]

Words == Quiet \cup {"P3", "T2", "P3_writer", "P3_reader"}

Process == [at : Places, cmd : Seq(Words), ends : Seq([r : Nat, w : Nat]),
            x : Nat, i : 0 .. Rounds]

Typed == io \in Tables /\ proc \in [Pids -> Process] /\ typed \subseteq Commands

Pair(m) == [r |-> m, w |-> m + 1]

(* Neither Null twice nor the same pipe.                                   *)
Distinct(j, k) == j = k => j = Null

(* The table t of a process, at each place its record s says it is at.     *)
Shape(s, t) ==
  LET j == t[2].pipe
      k == t[4].pipe
      l == t[6].pipe
  IN  /\ s.at \in Begin => t = Console /\ s.ends = << >> /\ s.x = 0 /\ s.i = 0
      /\ s.at = "pipeline" => s.cmd[1] \in Quiet /\ s.cmd[2] \in Quiet
      /\ s.at \in Paired => t = Both(j)
      /\ s.at \in {"in_close_0", "in_close_1"} => t = InHalf(j)
      /\ s.at = "out_close_0" => t = OutHalf(j)
      /\ s.at = "out_close_1" => t = OutDone(j)
      /\ s.at \in Arranging => /\ s.ends = <<Pair(2)>>
                               /\ s.cmd[1] \in Quiet \cup {"P3_writer"}
                               /\ s.cmd[2] \in Quiet \cup {"P3_reader"}
      /\ s.at \in Quiet => /\ t \in {Console, InDone(j), OutDone(j)}
                           /\ Len(s.ends) < 3
      /\ s.at = "P3_writer" => t = OutDone(j)
      /\ s.at = "P3_reader" => t = InDone(j)
      /\ s.at = "T_exit" => IF Len(s.ends) = 3 THEN t = Three(j, k, l)
                            ELSE t \in {Console, InDone(j), OutDone(j)}
      /\ s.at = "T2_pipe_2" => t = Both(j) /\ s.ends = <<Pair(2)>> /\ s.x = 0 /\ s.i = 0
      /\ s.at = "T2_pipe_3" => /\ t = Two(j, k) /\ s.ends = <<Pair(2), Pair(4)>>
                               /\ Distinct(j, k) /\ s.x = 0 /\ s.i = 0
      /\ s.at \in Ring \cup {"T2_fork_1"} =>
           /\ t = Three(j, k, l) /\ s.ends = <<Pair(2), Pair(4), Pair(6)>>
           /\ Distinct(j, k) /\ Distinct(j, l) /\ Distinct(k, l)
      /\ s.at = "T2_fork_1" => s.x = 0 /\ s.i = 0

Shaped(p) == Shape(proc[p], io.fdt[p])

(* The pipes a process has, or had, descriptors for.                       *)
LinksOf(t) == {t[2].pipe, t[4].pipe, t[6].pipe} \ {Null}
Links(p) == LinksOf(io.fdt[p])

Reader(p) == proc[p].at = "in_dup2" \/ io.fdt[p][0].type = "PIPE"
Writer(p) == proc[p].at = "out_dup2" \/ io.fdt[p][1].type = "PIPE"
InRing(p) == proc[p].at \in Ring \/ (proc[p].at = "T_exit" /\ Len(proc[p].ends) = 3)

(* The two sides of one pipeline, or processes of the ring.                *)
Partners(p, q) == \/ InRing(p) /\ InRing(q)
                  \/ Reader(p) /\ Writer(q)
                  \/ Writer(p) /\ Reader(q)

LinksInUse == \A p \in Live : \A k \in Links(p) : io.used[k]

Apart == \A p, q \in Live : p # q /\ Links(p) \cap Links(q) # {} => Partners(p, q)

(* dup2 counts the end it copies twice, until the original is closed.      *)
InTwice(k) ==
  IF \E p \in Pids : proc[p].at \in {"in_close_0", "in_close_1"} /\ k \in Links(p) THEN 1 ELSE 0
OutTwice(k) ==
  IF \E p \in Pids : proc[p].at = "out_close_0" /\ k \in Links(p) THEN 1 ELSE 0

Counted == \A k \in Pipes :
  /\ ~ io.used[k] => io.pipe[k].fdCount = 0 /\ io.pipe[k].bufferIndex = 0
  /\ io.used[k] => io.pipe[k].fdCount = 2 + InTwice(k) + OutTwice(k)

(* T2 is run once, and its ring has one process of each kind.              *)
OneRing ==
  /\ \A p \in Pids : proc[p].at \in Starting \cup Ring => <<"T2">> \in typed
  /\ \A p, q \in Pids : p # q =>
       /\ proc[p].at \in Starting => proc[q].at \notin Starting \cup Ring
       /\ ~ {proc[p].at, proc[q].at} \subseteq First
       /\ ~ {proc[p].at, proc[q].at} \subseteq Second
       /\ ~ {proc[p].at, proc[q].at} \subseteq Third
       /\ proc[p].at = "T2_fork_2" => proc[q].at \notin Third
       /\ proc[p].at \in Ring /\ proc[q].at \in Ring => io.fdt[p] = io.fdt[q]

Plumbed == /\ Typed /\ LinksInUse /\ Apart /\ Counted /\ OneRing
           /\ \A p \in Pids : Shaped(p)

-----------------------------------------------------------------------------
(* Of these pipes the kth, if there is one, holds nothing, or only the     *)
(* number v.                                                               *)
Drained(pipe, k) == k # Null => pipe[k].bufferIndex = 0
Carries(pipe, k, v) == k # Null => pipe[k].bufferIndex = 1 /\ pipe[k].buffer[0] = v

(* Where the token of T2 is in round n: at stage 1, 3 and 5 with a process *)
(* about to write it, at stage 2, 4 and 6 in a pipe.  What that says of a  *)
(* process of the ring, and of the pipes of their table t.                 *)
PlaceFor(s, n, stage) ==
  /\ s.at \in First =>
       IF stage = 1 THEN s.at = "P1_write" /\ s.i = n /\ s.x = 3 * n
       ELSE s.at = "P1_read" /\ s.i = n + 1
  /\ s.at \in Second =>
       /\ s.i < Rounds
       /\ IF stage = 3 THEN s.at = "P2_write" /\ s.i = n /\ s.x = 3 * n + 1
          ELSE /\ s.at # "P2_write" /\ s.i = IF stage < 3 THEN n ELSE n + 1
               /\ stage > 3 => s.at = "P2_read"
  /\ s.at \in Third =>
       /\ s.i < Rounds
       /\ IF stage = 5 THEN s.at = "P3_write" /\ s.i = n /\ s.x = 3 * n + 2
          ELSE s.at = "P3_read" /\ s.i = IF stage < 5 THEN n ELSE n + 1

Filled(pipe, t, n, stage) ==
  /\ IF stage = 2 THEN Carries(pipe, t[2].pipe, 3 * n) ELSE Drained(pipe, t[2].pipe)
  /\ IF stage = 4 THEN Carries(pipe, t[4].pipe, 3 * n + 1) ELSE Drained(pipe, t[4].pipe)
  /\ IF stage = 6 THEN Carries(pipe, t[6].pipe, 3 * n + 2) ELSE Drained(pipe, t[6].pipe)

TokenFor(p, n, stage) ==
  /\ PlaceFor(proc[p], n, stage)
  /\ proc[p].at \in Ring => Filled(io.pipe, io.fdt[p], n, stage)
  /\ proc[p].at \in Starting => \A k \in Links(p) : Drained(io.pipe, k)

Token == \E n \in 0 .. Rounds - 1, stage \in 1 .. 6 : \A p \in Pids : TokenFor(p, n, stage)

IInv == Plumbed /\ Token

-----------------------------------------------------------------------------
(* The tables, entry by entry.                                             *)
LEMMA SmallFds == /\ 0 \in Fds /\ 1 \in Fds /\ 2 \in Fds /\ 3 \in Fds
                  /\ 4 \in Fds /\ 5 \in Fds /\ 6 \in Fds /\ 7 \in Fds
                  /\ Fds \subseteq Nat
  BY ProgramsAssumption, DescriptorsAssumption DEF Fds

LEMMA EndIs ==
  ASSUME NEW perm \in {"READ", "WRITE"}, NEW k \in Pipes \cup {Null}
  PROVE  /\ End(perm, k) \in Descriptor /\ Closed(perm, k) \in Descriptor
         /\ End(perm, k).type = "PIPE" /\ End(perm, k).active /\ End(perm, k).pipe = k
         /\ Closed(perm, k).type = "PIPE" /\ ~ Closed(perm, k).active /\ Closed(perm, k).pipe = k
<1>1. Loose(perm) \in Descriptor /\ Loose(perm).type = "PIPE" /\ Loose(perm).active
  BY DEF Loose, Unused, Descriptor
<1>2. /\ End(perm, k) \in Descriptor /\ End(perm, k).type = "PIPE"
      /\ End(perm, k).active /\ End(perm, k).pipe = k
  BY <1>1 DEF End, Descriptor
<1> QED BY <1>2 DEF Closed, Descriptor

LEMMA LooseIs ==
  ASSUME NEW perm \in {"READ", "WRITE"}
  PROVE  Loose(perm) = End(perm, Null)
<1>1. Loose(perm) \in Descriptor /\ Loose(perm).pipe = Null
  BY DEF Loose, Unused, Descriptor
<1> QED BY <1>1 DEF End, Descriptor

LEMMA ConsoleIs ==
  /\ Console \in [Fds -> Descriptor]
  /\ Console[0].type = "STDI" /\ Console[1].type = "STDO"
  /\ Console[0].active /\ Console[1].active
  /\ \A fd \in Fds : fd >= 2 => Console[fd] = Unused
  /\ \A fd \in Fds : Console[fd].pipe = Null
<1>1. Unused \in Descriptor /\ Unused.pipe = Null
  BY DEF Unused, Descriptor
<1> DEFINE a == [Unused EXCEPT !.type = "STDI", !.active = TRUE]
           b == [Unused EXCEPT !.type = "STDO", !.perm = "WRITE", !.active = TRUE]
<1>2. /\ a \in Descriptor /\ b \in Descriptor /\ a.type = "STDI" /\ b.type = "STDO"
      /\ a.active /\ b.active /\ a.pipe = Null /\ b.pipe = Null
  BY DEF Unused, Descriptor
<1> HIDE DEF a, b
<1>3. Console = [i \in Fds |-> CASE i = 0 -> a [] i = 1 -> b [] OTHER -> Unused]
  BY DEF Console, initialisefdt, a, b
<1>4. /\ Console[0] = a /\ Console[1] = b
      /\ \A fd \in Fds : fd # 0 /\ fd # 1 => Console[fd] = Unused
      /\ Console = [i \in Fds |-> Console[i]]
  <2>1. 0 \in Fds /\ 1 \in Fds /\ 0 # 1
    BY SmallFds
  <2> QED BY <1>3, <2>1
<1>5. \A fd \in Fds : fd >= 2 => fd # 0 /\ fd # 1
  BY DEF Fds
<1>6. \A fd \in Fds : Console[fd] \in Descriptor /\ Console[fd].pipe = Null
  BY <1>1, <1>2, <1>4
<1>7. Console \in [Fds -> Descriptor]
  BY <1>4, <1>6
<1> QED BY <1>2, <1>4, <1>5, <1>6, <1>7

LEMMA UnusedIs == /\ Unused \in Descriptor /\ Unused.type = "PIPE" /\ ~ Unused.active
                  /\ Unused.perm = "READ" /\ Unused.pipe = Null /\ Unused.file = Null
  BY DEF Unused, Descriptor

(* Table t has the entries a, b, c, d and nothing behind them.             *)
Has(t, a, b, c, d) ==
  /\ t \in [Fds -> Descriptor]
  /\ t[0] = a /\ t[1] = b /\ t[2] = c /\ t[3] = d
  /\ \A fd \in Fds : fd >= 4 => t[fd] = Unused

LEMMA TablesAre ==
  ASSUME NEW k \in Pipes \cup {Null}
  PROVE  /\ Has(Console, Console[0], Console[1], Unused, Unused)
         /\ Has(Both(k), Console[0], Console[1], End("READ", k), End("WRITE", k))
         /\ Has(InHalf(k), End("READ", k), Console[1], Closed("READ", k), End("WRITE", k))
         /\ Has(InDone(k), End("READ", k), Console[1], Closed("READ", k), Closed("WRITE", k))
         /\ Has(OutHalf(k), Console[0], End("WRITE", k), End("READ", k), Closed("WRITE", k))
         /\ Has(OutDone(k), Console[0], End("WRITE", k), Closed("READ", k), Closed("WRITE", k))
<1> DEFINE r1 == End("READ", k)
           r0 == Closed("READ", k)
           w1 == End("WRITE", k)
           w0 == Closed("WRITE", k)
<1>1. /\ r1 \in Descriptor /\ r0 \in Descriptor
      /\ w1 \in Descriptor /\ w0 \in Descriptor
  BY EndIs
<1> HIDE DEF r1, r0, w1, w0
<1>2. Has(Console, Console[0], Console[1], Unused, Unused)
  BY ConsoleIs, SmallFds DEF Has
<1>3. Has(Both(k), Console[0], Console[1], r1, w1)
  <2>1. Both(k) = [Console EXCEPT ![2] = r1, ![3] = w1]
    BY DEF Both, Opened, r1, w1
  <2> HIDE DEF Both
  <2> QED BY <1>1, <1>2, <2>1, SmallFds DEF Has
<1>4. Has(InHalf(k), r1, Console[1], r0, w1)
  <2>1. InHalf(k) = [Both(k) EXCEPT ![0] = r1, ![2] = r0]
    BY DEF InHalf, r1, r0
  <2> QED BY <1>1, <1>3, <2>1, SmallFds DEF Has
<1>5. Has(InDone(k), r1, Console[1], r0, w0)
  <2>1. InDone(k) = [InHalf(k) EXCEPT ![3] = w0]
    BY DEF InDone, w0
  <2> QED BY <1>1, <1>4, <2>1, SmallFds DEF Has
<1>6. Has(OutHalf(k), Console[0], w1, r1, w0)
  <2>1. OutHalf(k) = [Both(k) EXCEPT ![1] = w1, ![3] = w0]
    BY DEF OutHalf, w1, w0
  <2> QED BY <1>1, <1>3, <2>1, SmallFds DEF Has
<1>7. Has(OutDone(k), Console[0], w1, r0, w0)
  <2>1. OutDone(k) = [OutHalf(k) EXCEPT ![2] = r0]
    BY DEF OutDone, r0
  <2> QED BY <1>1, <1>6, <2>1, SmallFds DEF Has
<1> QED BY <1>2, <1>3, <1>4, <1>5, <1>6, <1>7 DEF r1, r0, w1, w0

LEMMA RingTablesAre ==
  ASSUME NEW j \in Pipes \cup {Null}, NEW k \in Pipes \cup {Null}, NEW l \in Pipes \cup {Null}
  PROVE  /\ Two(j, k) \in [Fds -> Descriptor] /\ Three(j, k, l) \in [Fds -> Descriptor]
         /\ Two(j, k)[0] = Console[0] /\ Two(j, k)[1] = Console[1]
         /\ Two(j, k)[2] = End("READ", j) /\ Two(j, k)[3] = End("WRITE", j)
         /\ Two(j, k)[4] = End("READ", k) /\ Two(j, k)[5] = End("WRITE", k)
         /\ Three(j, k, l)[0] = Console[0] /\ Three(j, k, l)[1] = Console[1]
         /\ Three(j, k, l)[2] = End("READ", j) /\ Three(j, k, l)[3] = End("WRITE", j)
         /\ Three(j, k, l)[4] = End("READ", k) /\ Three(j, k, l)[5] = End("WRITE", k)
         /\ \A fd \in Fds : fd >= 6 => Two(j, k)[fd] = Unused
         /\ Three(j, k, l)[6] = End("READ", l) /\ Three(j, k, l)[7] = End("WRITE", l)
         /\ \A fd \in Fds : fd >= 8 => Three(j, k, l)[fd] = Unused
<1> DEFINE r(a) == End("READ", a)
           w(a) == End("WRITE", a)
<1>1. /\ r(j) \in Descriptor /\ w(j) \in Descriptor /\ r(k) \in Descriptor /\ w(k) \in Descriptor
      /\ r(l) \in Descriptor /\ w(l) \in Descriptor
  BY EndIs
<1> HIDE DEF r, w
<1>2. Has(Both(j), Console[0], Console[1], r(j), w(j))
  BY TablesAre DEF r, w
<1>3. Two(j, k) = [Both(j) EXCEPT ![4] = r(k), ![5] = w(k)]
  BY DEF Two, Opened, r, w
<1>4. Three(j, k, l) = [Two(j, k) EXCEPT ![6] = r(l), ![7] = w(l)]
  BY DEF Three, Opened, r, w
<1>5. /\ Two(j, k) \in [Fds -> Descriptor]
      /\ Two(j, k)[0] = Console[0] /\ Two(j, k)[1] = Console[1]
      /\ Two(j, k)[2] = r(j) /\ Two(j, k)[3] = w(j)
      /\ Two(j, k)[4] = r(k) /\ Two(j, k)[5] = w(k)
      /\ \A fd \in Fds : fd >= 6 => Two(j, k)[fd] = Unused
  BY <1>1, <1>2, <1>3, SmallFds DEF Has
<1>6. /\ Three(j, k, l) \in [Fds -> Descriptor]
      /\ \A fd \in {0, 1, 2, 3, 4, 5} : Three(j, k, l)[fd] = Two(j, k)[fd]
      /\ Three(j, k, l)[6] = r(l) /\ Three(j, k, l)[7] = w(l)
      /\ \A fd \in Fds : fd >= 8 => Three(j, k, l)[fd] = Unused
  <2> HIDE DEF Two
  <2> QED BY <1>1, <1>4, <1>5, SmallFds
<1> QED BY <1>5, <1>6 DEF r, w

-----------------------------------------------------------------------------
(* What each call does to the tables.                                      *)
LEMMA TablesFields ==
  ASSUME NEW s \in Tables
  PROVE  /\ s.fdt \in [Pids -> [Fds -> Descriptor]] /\ s.pipe \in [Pipes -> PipeRecord]
         /\ s.used \in [Pipes -> BOOLEAN]
  BY DEF Tables

LEMMA DescriptorFields ==
  ASSUME NEW s \in Tables, NEW p \in Pids, NEW fd \in Fds
  PROVE  /\ s.fdt[p] \in [Fds -> Descriptor] /\ s.fdt[p][fd] \in Descriptor
         /\ s.fdt[p][fd].pipe \in Pipes \cup {Null}
<1>1. s.fdt[p] \in [Fds -> Descriptor] /\ s.fdt[p][fd] \in Descriptor
  BY TablesFields
<1> QED BY <1>1 DEF Descriptor

LEMMA PipeFields ==
  ASSUME NEW s \in Tables, NEW k \in Pipes
  PROVE  /\ s.pipe[k] \in PipeRecord /\ s.pipe[k].fdCount \in Int
         /\ s.pipe[k].bufferIndex \in Nat /\ s.pipe[k].buffer \in [0 .. BufferSize - 1 -> Bytes]
<1>1. s.pipe[k] \in PipeRecord
  BY TablesFields
<1> QED BY <1>1 DEF PipeRecord

LEMMA FaultIs ==
  ASSUME NEW s \in Tables
  PROVE  /\ Fault(s) \in Tables /\ Fault(s).fault
         /\ Fault(s).fdt = s.fdt /\ Fault(s).pipe = s.pipe /\ Fault(s).used = s.used
  BY DEF Fault, Tables

LEMMA TableIs ==
  ASSUME NEW s \in Tables, NEW p \in Pids, NEW t \in [Fds -> Descriptor]
  PROVE  /\ [s EXCEPT !.fdt[p] = t] \in Tables
         /\ [s EXCEPT !.fdt[p] = t].fdt = [s.fdt EXCEPT ![p] = t]
         /\ [s EXCEPT !.fdt[p] = t].pipe = s.pipe /\ [s EXCEPT !.fdt[p] = t].used = s.used
         /\ [s EXCEPT !.fdt[p] = t].fault = s.fault
<1> DEFINE f == [s.fdt EXCEPT ![p] = t]
<1>1. f \in [Pids -> [Fds -> Descriptor]]
  BY TablesFields
<1>2. [s EXCEPT !.fdt[p] = t] = [s EXCEPT !.fdt = f]
  BY DEF Tables
<1> HIDE DEF f
<1>3. /\ [s EXCEPT !.fdt = f] \in Tables /\ [s EXCEPT !.fdt = f].fdt = f
      /\ [s EXCEPT !.fdt = f].pipe = s.pipe /\ [s EXCEPT !.fdt = f].used = s.used
      /\ [s EXCEPT !.fdt = f].fault = s.fault
  BY <1>1 DEF Tables
<1> QED BY <1>2, <1>3 DEF f

Entered(s, p, fd, e) == [s EXCEPT !.fdt[p][fd] = e]

LEMMA EntryIs ==
  ASSUME NEW s \in Tables, NEW p \in Pids, NEW fd \in Fds, NEW e \in Descriptor
  PROVE  /\ Entered(s, p, fd, e) \in Tables
         /\ Entered(s, p, fd, e).fdt = [s.fdt EXCEPT ![p] = [s.fdt[p] EXCEPT ![fd] = e]]
         /\ Entered(s, p, fd, e).fdt[p] = [s.fdt[p] EXCEPT ![fd] = e]
         /\ Entered(s, p, fd, e).pipe = s.pipe /\ Entered(s, p, fd, e).used = s.used
         /\ Entered(s, p, fd, e).fault = s.fault
<1> DEFINE t == [s.fdt[p] EXCEPT ![fd] = e]
<1>1. t \in [Fds -> Descriptor]
  BY DescriptorFields
<1>2. Entered(s, p, fd, e) = [s EXCEPT !.fdt[p] = t]
  BY DEF Entered
<1> HIDE DEF t
<1>3. [s.fdt EXCEPT ![p] = t][p] = t
  BY TablesFields
<1> QED BY <1>1, <1>2, <1>3, TableIs DEF t

LEMMA EnteredIs ==
  ASSUME NEW s \in Tables, NEW p \in Pids, NEW fd \in Fds, NEW e \in Descriptor,
         NEW t, t = s.fdt[p], NEW r, r = Entered(s, p, fd, e)
  PROVE  /\ r \in Tables /\ r.fdt = [s.fdt EXCEPT ![p] = [t EXCEPT ![fd] = e]]
         /\ r.fdt[p] = [t EXCEPT ![fd] = e]
         /\ r.pipe = s.pipe /\ r.used = s.used /\ r.fault = s.fault
  BY EntryIs

LEMMA PipeIs ==
  ASSUME NEW s \in Tables, NEW k \in Pipes, NEW q \in PipeRecord
  PROVE  /\ [s EXCEPT !.pipe[k] = q] \in Tables
         /\ [s EXCEPT !.pipe[k] = q].pipe = [s.pipe EXCEPT ![k] = q]
         /\ [s EXCEPT !.pipe[k] = q].fdt = s.fdt /\ [s EXCEPT !.pipe[k] = q].used = s.used
         /\ [s EXCEPT !.pipe[k] = q].fault = s.fault
<1> DEFINE f == [s.pipe EXCEPT ![k] = q]
<1>1. f \in [Pipes -> PipeRecord]
  BY TablesFields
<1>2. [s EXCEPT !.pipe[k] = q] = [s EXCEPT !.pipe = f]
  BY DEF Tables
<1> HIDE DEF f
<1>3. /\ [s EXCEPT !.pipe = f] \in Tables /\ [s EXCEPT !.pipe = f].pipe = f
      /\ [s EXCEPT !.pipe = f].fdt = s.fdt /\ [s EXCEPT !.pipe = f].used = s.used
      /\ [s EXCEPT !.pipe = f].fault = s.fault
  BY <1>1 DEF Tables
<1> QED BY <1>2, <1>3 DEF f

(* Pipe k with its count changed by d.                                     *)
Bumped(pipe, k, d) ==
  IF k = Null THEN pipe ELSE [pipe EXCEPT ![k] = [pipe[k] EXCEPT !.fdCount = pipe[k].fdCount + d]]

LEMMA BumpedIs ==
  ASSUME NEW pipe \in [Pipes -> PipeRecord], NEW k \in Pipes \cup {Null}, NEW d \in Int
  PROVE  /\ Bumped(pipe, k, d) \in [Pipes -> PipeRecord]
         /\ \A j \in Pipes :
              /\ Bumped(pipe, k, d)[j].fdCount = IF j = k THEN pipe[j].fdCount + d ELSE pipe[j].fdCount
              /\ Bumped(pipe, k, d)[j].bufferIndex = pipe[j].bufferIndex
              /\ Bumped(pipe, k, d)[j].buffer = pipe[j].buffer
              /\ j # k => Bumped(pipe, k, d)[j] = pipe[j]
<1>1. Null \notin Pipes
  BY DEF Null, Pipes
<1>2. CASE k = Null
  BY <1>1, <1>2 DEF Bumped
<1>3. CASE k \in Pipes
  <2> DEFINE q == [pipe[k] EXCEPT !.fdCount = pipe[k].fdCount + d]
  <2>1. pipe[k] \in PipeRecord
    BY <1>3
  <2>2. /\ q \in PipeRecord /\ q.fdCount = pipe[k].fdCount + d
        /\ q.bufferIndex = pipe[k].bufferIndex /\ q.buffer = pipe[k].buffer
    BY <2>1 DEF PipeRecord
  <2>3. Bumped(pipe, k, d) = [pipe EXCEPT ![k] = q]
    BY <1>1, <1>3 DEF Bumped
  <2> HIDE DEF q
  <2> QED BY <1>3, <2>2, <2>3
<1> QED BY <1>2, <1>3

(* Closing an active pipe end that is not the last.                        *)
LEMMA CloseIs ==
  ASSUME NEW s \in Tables, NEW p \in Pids, NEW fd \in Fds,
         NEW perm \in {"READ", "WRITE"}, NEW k \in Pipes \cup {Null},
         s.fdt[p][fd] = End(perm, k), k # Null => s.pipe[k].fdCount # 1
  PROVE  /\ close_kernel(s, p, fd) \in Tables
         /\ close_kernel(s, p, fd).fdt = [s.fdt EXCEPT ![p] = [@ EXCEPT ![fd] = Closed(perm, k)]]
         /\ close_kernel(s, p, fd).pipe = Bumped(s.pipe, k, -1)
         /\ close_kernel(s, p, fd).used = s.used
         /\ k # Null => close_kernel(s, p, fd).fault = s.fault
<1> DEFINE d == s.fdt[p][fd]
           closed == [s EXCEPT !.fdt[p][fd].active = FALSE]
           t == [s.fdt[p] EXCEPT ![fd] = Closed(perm, k)]
<1>1. fd # FdNo
  BY DescriptorsAssumption DEF Fds
<1>2. /\ End(perm, k).active /\ End(perm, k).type = "PIPE" /\ End(perm, k).pipe = k
      /\ Closed(perm, k) \in Descriptor
      /\ [End(perm, k) EXCEPT !.active = FALSE] = Closed(perm, k)
  <2>1. [End(perm, k) EXCEPT !.active = FALSE] = Closed(perm, k)
    BY DEF Closed
  <2> QED BY <2>1, EndIs
<1>3. close_kernel(s, p, fd) = Deactivate(s, p, fd)
  BY <1>1, <1>2 DEF close_kernel
<1>4. t \in [Fds -> Descriptor]
  BY <1>2, DescriptorFields
<1>5. closed = [s EXCEPT !.fdt[p] = t]
  BY <1>2 DEF Tables
<1> HIDE DEF t, closed
<1>6. /\ closed \in Tables /\ closed.fdt = [s.fdt EXCEPT ![p] = t]
      /\ closed.pipe = s.pipe /\ closed.used = s.used /\ closed.fault = s.fault
  BY <1>4, <1>5, TableIs
<1>7. CASE k = Null
  <2>1. Deactivate(s, p, fd) = Fault(closed)
    BY <1>2, <1>7 DEF Deactivate, closed
  <2>2. /\ Fault(closed) \in Tables /\ Fault(closed).fdt = closed.fdt
        /\ Fault(closed).pipe = closed.pipe /\ Fault(closed).used = closed.used
    BY <1>6, FaultIs
  <2>3. Bumped(s.pipe, k, -1) = s.pipe
    BY <1>7 DEF Bumped
  <2> QED BY <1>3, <1>6, <1>7, <2>1, <2>2, <2>3 DEF t
<1>8. CASE k # Null
  <2>1. Deactivate(s, p, fd) = ReleaseEnd(closed, k)
    BY <1>2, <1>8 DEF Deactivate, closed
  <2> DEFINE c == s.pipe[k].fdCount
             q == [s.pipe[k] EXCEPT !.fdCount = c + (-1)]
             q0 == [fdCount |-> c - 1, buffer |-> IF c = 1 THEN NoBytes ELSE s.pipe[k].buffer,
                    bufferIndex |-> IF c = 1 THEN 0 ELSE s.pipe[k].bufferIndex]
  <2>2. k \in Pipes /\ s.pipe[k] \in PipeRecord /\ c \in Int /\ c # 1
    BY <1>8, PipeFields
  <2>3. q = q0 /\ q \in PipeRecord
    BY <2>2 DEF PipeRecord
  <2>4. ReleaseEnd(closed, k)
          = [closed EXCEPT !.pipe = [s.pipe EXCEPT ![k] = q0],
                           !.used = [s.used EXCEPT ![k] = s.used[k] /\ ~ (c = 1)]]
    BY <1>6 DEF ReleaseEnd, Released, Tables
  <2>5. [s.used EXCEPT ![k] = s.used[k] /\ ~ (c = 1)] = s.used
    BY <2>2, TablesFields
  <2> HIDE DEF q, q0, c
  <2>6. ReleaseEnd(closed, k) = [closed EXCEPT !.pipe[k] = q]
    <3> DEFINE f == [s.pipe EXCEPT ![k] = q]
    <3>1. ReleaseEnd(closed, k) = [closed EXCEPT !.pipe = f, !.used = closed.used]
      BY <1>6, <2>3, <2>4, <2>5
    <3>2. [closed EXCEPT !.pipe[k] = q] = [closed EXCEPT !.pipe = f]
      BY <1>6 DEF Tables
    <3> HIDE DEF f
    <3> QED BY <1>6, <3>1, <3>2 DEF Tables
  <2>7. /\ [closed EXCEPT !.pipe[k] = q] \in Tables
        /\ [closed EXCEPT !.pipe[k] = q].pipe = [closed.pipe EXCEPT ![k] = q]
        /\ [closed EXCEPT !.pipe[k] = q].fdt = closed.fdt /\ [closed EXCEPT !.pipe[k] = q].used = closed.used
        /\ [closed EXCEPT !.pipe[k] = q].fault = closed.fault
    BY <1>6, <2>2, <2>3, PipeIs
  <2>8. Bumped(s.pipe, k, -1) = [s.pipe EXCEPT ![k] = q]
    BY <1>8 DEF Bumped, q, c
  <2> QED BY <1>3, <1>6, <2>1, <2>6, <2>7, <2>8 DEF t
<1> QED BY <1>7, <1>8

(* Closing a descriptor that is closed.                                    *)
LEMMA CloseIdle ==
  ASSUME NEW s, NEW p, NEW fd \in Fds, ~ s.fdt[p][fd].active
  PROVE  close_kernel(s, p, fd) = s
<1>1. fd # FdNo
  BY DescriptorsAssumption DEF Fds
<1> QED BY <1>1 DEF close_kernel

(* dup2 of an active pipe end: the count changes by two and minus one.     *)
LEMMA Dup2Is ==
  ASSUME NEW s \in Tables, NEW p \in Pids, NEW old \in Fds, NEW new \in Fds, old # new,
         NEW perm \in {"READ", "WRITE"}, NEW k \in Pipes \cup {Null},
         s.fdt[p][new] = End(perm, k), k # Null => s.pipe[k].fdCount >= 0
  PROVE  /\ dup2kernel(s, p, old, new) \in Tables
         /\ dup2kernel(s, p, old, new).fdt
              = [s.fdt EXCEPT ![p] = [@ EXCEPT ![old] = End(perm, k), ![new] = Closed(perm, k)]]
         /\ dup2kernel(s, p, old, new).pipe = Bumped(s.pipe, k, 1)
         /\ dup2kernel(s, p, old, new).used = s.used
         /\ k # Null => dup2kernel(s, p, old, new).fault = s.fault
<1> DEFINE t == [s.fdt[p] EXCEPT ![old] = End(perm, k)]
           copied == [s EXCEPT !.fdt[p][old] = s.fdt[p][new]]
           r == dup2kernel(s, p, old, new)
<1>1. /\ End(perm, k).active /\ End(perm, k).pipe = k /\ End(perm, k) \in Descriptor
      /\ old # FdNo /\ new # FdNo /\ {old, new} \subseteq 0 .. FdNo
  <2>1. End(perm, k).active /\ End(perm, k).pipe = k /\ End(perm, k) \in Descriptor
    BY EndIs
  <2>2. old # FdNo /\ new # FdNo /\ {old, new} \subseteq 0 .. FdNo
    BY DescriptorsAssumption DEF Fds
  <2> QED BY <2>1, <2>2
<1>2. t \in [Fds -> Descriptor] /\ t[new] = End(perm, k) /\ s.fdt[p] \in [Fds -> Descriptor]
  BY <1>1, DescriptorFields
<1>3. copied = [s EXCEPT !.fdt[p] = t]
  BY DEF Tables
<1> HIDE DEF copied
<1>4. [t EXCEPT ![new] = Closed(perm, k)]
        = [s.fdt[p] EXCEPT ![old] = End(perm, k), ![new] = Closed(perm, k)]
  BY <1>2
<1> HIDE DEF t
<1>5. /\ copied \in Tables /\ copied.fdt = [s.fdt EXCEPT ![p] = t]
      /\ copied.pipe = s.pipe /\ copied.used = s.used /\ copied.fault = s.fault
  BY <1>2, <1>3, TableIs
<1>6. copied.fdt[p] = t
  BY <1>5, TablesFields
<1>7. ASSUME NEW u \in Tables, u.fdt = copied.fdt, u.used = s.used,
             k # Null => u.pipe[k].fdCount # 1, r = close_kernel(u, p, new)
      PROVE  /\ r \in Tables
             /\ r.fdt = [s.fdt EXCEPT ![p] = [t EXCEPT ![new] = Closed(perm, k)]]
             /\ r.pipe = Bumped(u.pipe, k, -1) /\ r.used = s.used
             /\ k # Null => r.fault = u.fault
  <2> HIDE DEF r
  <2>1. u.fdt[p][new] = End(perm, k)
    BY <1>2, <1>6, <1>7
  <2>2. /\ close_kernel(u, p, new) \in Tables
        /\ close_kernel(u, p, new).fdt = [u.fdt EXCEPT ![p] = [u.fdt[p] EXCEPT ![new] = Closed(perm, k)]]
        /\ close_kernel(u, p, new).pipe = Bumped(u.pipe, k, -1)
        /\ close_kernel(u, p, new).used = u.used
        /\ k # Null => close_kernel(u, p, new).fault = u.fault
    <3>1. u \in Tables /\ p \in Pids /\ new \in Fds /\ perm \in {"READ", "WRITE"} /\ k \in Pipes \cup {Null}
          /\ (k # Null => u.pipe[k].fdCount # 1)
      BY <1>7
    <3> QED BY ONLY <2>1, <3>1, CloseIs
  <2>3. [u.fdt EXCEPT ![p] = [t EXCEPT ![new] = Closed(perm, k)]]
          = [s.fdt EXCEPT ![p] = [t EXCEPT ![new] = Closed(perm, k)]]
    <3> DEFINE e == [t EXCEPT ![new] = Closed(perm, k)]
    <3> HIDE DEF e
    <3> QED BY <1>5, <1>7, TablesFields
  <2> QED BY <1>6, <1>7, <2>2, <2>3
<1>8. CASE k = Null
  <2>1. r = close_kernel(Fault(copied), p, new)
    BY <1>1, <1>8 DEF dup2kernel, copied
  <2>2. /\ Fault(copied) \in Tables /\ Fault(copied).fdt = copied.fdt
        /\ Fault(copied).pipe = copied.pipe /\ Fault(copied).used = copied.used
    BY <1>5, FaultIs
  <2>3. /\ r \in Tables
        /\ r.fdt = [s.fdt EXCEPT ![p] = [t EXCEPT ![new] = Closed(perm, k)]]
        /\ r.pipe = Bumped(Fault(copied).pipe, k, -1) /\ r.used = s.used
    <3> HIDE DEF r
    <3> QED BY <1>5, <1>7, <1>8, <2>1, <2>2
  <2>4. Bumped(Fault(copied).pipe, k, -1) = Bumped(s.pipe, k, 1)
    BY <1>5, <1>8, <2>2 DEF Bumped
  <2> HIDE DEF r
  <2> QED BY <1>4, <1>8, <2>3, <2>4 DEF r
<1>9. CASE k # Null
  <2> DEFINE c == s.pipe[k].fdCount
             u == [copied EXCEPT !.pipe[k].fdCount = @ + 2]
             q == [copied.pipe[k] EXCEPT !.fdCount = copied.pipe[k].fdCount + 2]
             g == [copied.pipe EXCEPT ![k] = q]
  <2>1. r = close_kernel(u, p, new)
    BY <1>1, <1>9 DEF dup2kernel, copied
  <2>2. k \in Pipes /\ c \in Int /\ c >= 0 /\ s.pipe[k] \in PipeRecord
    BY <1>9, PipeFields
  <2>3. q \in PipeRecord /\ q.fdCount = c + 2
    BY <1>5, <2>2 DEF PipeRecord
  <2>4. u = [copied EXCEPT !.pipe[k] = q]
    OBVIOUS
  <2> HIDE DEF u, q
  <2>5. u \in Tables /\ u.pipe = g /\ u.fdt = copied.fdt /\ u.used = copied.used /\ u.fault = copied.fault
    BY <1>5, <2>2, <2>3, <2>4, PipeIs
  <2>6. g[k] = q
    BY <1>5, <2>2, TablesFields
  <2>7. k # Null => u.pipe[k].fdCount # 1
    BY <2>2, <2>3, <2>5, <2>6
  <2>8. /\ r \in Tables
        /\ r.fdt = [s.fdt EXCEPT ![p] = [t EXCEPT ![new] = Closed(perm, k)]]
        /\ r.pipe = Bumped(u.pipe, k, -1) /\ r.used = s.used /\ r.fault = u.fault
    <3> HIDE DEF r, c, g
    <3> QED BY <1>5, <1>7, <1>9, <2>1, <2>5, <2>7
  <2>9. Bumped(u.pipe, k, -1) = Bumped(s.pipe, k, 1)
    <3> DEFINE q1 == [q EXCEPT !.fdCount = q.fdCount + (-1)]
               q2 == [s.pipe[k] EXCEPT !.fdCount = c + 1]
    <3>1. q1 = q2
      <4> DEFINE e == s.pipe[k]
      <4>1. q = [e EXCEPT !.fdCount = c + 2]
        BY <1>5 DEF q
      <4>2. q.fdCount + (-1) = c + 1 /\ c + 1 \in Int /\ c + 2 \in Int
        BY <2>2, <2>3
      <4>3. q1 = [q EXCEPT !.fdCount = c + 1] /\ e \in PipeRecord
        BY <2>2, <4>2
      <4> HIDE DEF e, c, q1
      <4>4. [q EXCEPT !.fdCount = c + 1] = [e EXCEPT !.fdCount = c + 1]
        BY <4>1, <4>2, <4>3 DEF PipeRecord
      <4> QED BY <4>3, <4>4 DEF e
    <3>2. Bumped(u.pipe, k, -1) = [g EXCEPT ![k] = q1]
      BY <1>9, <2>5, <2>6 DEF Bumped
    <3>3. Bumped(s.pipe, k, 1) = [s.pipe EXCEPT ![k] = q2]
      BY <1>9 DEF Bumped
    <3> HIDE DEF q1, q2
    <3> QED BY <1>5, <2>2, <3>1, <3>2, <3>3, TablesFields
  <2> HIDE DEF r
  <2> QED BY <1>4, <1>5, <2>5, <2>8, <2>9 DEF r
<1> QED BY <1>8, <1>9

LEMMA MinInSet ==
  ASSUME NEW S \in SUBSET Nat, S # {}
  PROVE  Min(S) \in S
<1>1. PICK x \in S : \A y \in S : ~ (<<y, x>> \in OpToRel(<, Nat))
  BY NatLessThanWellFounded, WFMin
<1>2. ASSUME NEW y \in S, ~ (x <= y)
      PROVE  FALSE
  <2>1. y < x /\ <<y, x>> \in Nat \X Nat
    BY <1>2
  <2>2. <<y, x>>[1] = y /\ <<y, x>>[2] = x
    OBVIOUS
  <2>3. <<y, x>> \in OpToRel(<, Nat)
    BY <2>1, <2>2 DEF OpToRel
  <2> QED BY <1>1, <2>3
<1> QED BY <1>2 DEF Min

LEMMA MinIs ==
  ASSUME NEW S \in SUBSET Nat, NEW x \in S, \A y \in S : x <= y
  PROVE  Min(S) = x
<1>1. \A z \in S : (\A y \in S : z <= y) => z = x
  <2> TAKE z \in S
  <2> HAVE \A y \in S : z <= y
  <2>1. z <= x /\ x <= z
    OBVIOUS
  <2> QED BY <2>1
<1> QED BY <1>1 DEF Min

(* The pipe that pipe finds, if any.                                       *)
NewPipe(s) == IF FreePipes(s) = {} THEN Null ELSE Min(FreePipes(s))
Given(used, k) == IF k = Null THEN used ELSE [used EXCEPT ![k] = TRUE]

LEMMA NewPipeIs ==
  ASSUME NEW s
  PROVE  /\ NewPipe(s) \in Pipes \cup {Null}
         /\ NewPipe(s) # Null => NewPipe(s) \in Pipes /\ ~ s.used[NewPipe(s)]
         /\ NewPipe(s) = Null => FreePipes(s) = {}
<1>1. FreePipes(s) \in SUBSET Nat /\ FreePipes(s) \subseteq Pipes /\ Null \notin Pipes
  BY DescriptorsAssumption DEF FreePipes, Pipes, Null
<1>2. FreePipes(s) # {} => Min(FreePipes(s)) \in FreePipes(s)
  BY <1>1, MinInSet
<1>3. \A k \in FreePipes(s) : ~ s.used[k]
  BY DEF FreePipes
<1> QED BY <1>1, <1>2, <1>3 DEF NewPipe

(* A table whose first m descriptors are taken.                            *)
TakenUpTo(t, m) == \A fd \in Fds : IF fd < m THEN t[fd].active ELSE t[fd] = Unused

LEMMA FreeEnds ==
  ASSUME NEW s \in Tables, NEW p \in Pids, NEW m \in {2, 4, 6}, TakenUpTo(s.fdt[p], m)
  PROVE  /\ FreeFds(s, p) # {} /\ FreeFds(s, p) # {m} /\ FreeFds(s, p) \ {m} # {}
         /\ ReadEnd(s, p) = m /\ WriteEnd(s, p) = m + 1
<1>1. m \in Fds /\ m + 1 \in Fds /\ m \in Nat /\ Fds \subseteq Nat
  BY SmallFds
<1>2. FreeFds(s, p) = {fd \in Fds : m <= fd}
  <2>1. \A fd \in Fds : m <= fd <=> ~ s.fdt[p][fd].active
    BY <1>1, UnusedIs DEF TakenUpTo
  <2> QED BY <2>1 DEF FreeFds
<1>3. ReadEnd(s, p) = m
  <2> DEFINE S == {fd \in Fds : m <= fd}
  <2>1. S \subseteq Fds /\ \A y \in S : m <= y
    OBVIOUS
  <2>2. m \in S
    BY <1>1
  <2>3. Min(S) = m
    <3> HIDE DEF S
    <3> QED BY <1>1, <2>1, <2>2, MinIs
  <2> QED BY <1>2, <2>3 DEF ReadEnd
<1>4. WriteEnd(s, p) = m + 1
  <2> DEFINE S == {fd \in Fds : m <= fd} \ {m}
  <2>1. S \subseteq Fds /\ \A y \in S : m <= y /\ y # m
    OBVIOUS
  <2>2. m + 1 \in S
    BY <1>1
  <2>3. Min(S) = m + 1
    <3> HIDE DEF S
    <3>1. \A y \in S : m + 1 <= y
      BY <1>1, <2>1
    <3> QED BY <1>1, <2>1, <2>2, <3>1, MinIs
  <2> QED BY <1>2, <1>3, <2>3 DEF WriteEnd
<1>5. m + 1 \in FreeFds(s, p) /\ m + 1 # m /\ m \in FreeFds(s, p)
  BY <1>1, <1>2
<1> QED BY <1>3, <1>4, <1>5

LEMMA OpenedIs ==
  ASSUME NEW t \in [Fds -> Descriptor], NEW m \in {2, 4, 6}, NEW k \in Pipes \cup {Null}
  PROVE  /\ Opened(t, m, k) \in [Fds -> Descriptor]
         /\ Opened(t, m, k)[m] = End("READ", k) /\ Opened(t, m, k)[m + 1] = End("WRITE", k)
         /\ \A fd \in Fds : fd # m /\ fd # m + 1 => Opened(t, m, k)[fd] = t[fd]
<1>1. End("READ", k) \in Descriptor /\ End("WRITE", k) \in Descriptor
  BY EndIs
<1>2. m \in Fds /\ m + 1 \in Fds /\ m # m + 1
  BY SmallFds
<1> QED BY <1>1, <1>2 DEF Opened

LEMMA OpenIs ==
  ASSUME NEW s \in Tables, NEW p \in Pids, NEW t, t = s.fdt[p], NEW m \in {2, 4, 6}, TakenUpTo(t, m),
         NEW r, r = pipe_kernel(s, p), NEW k, k = NewPipe(s)
  PROVE  /\ r \in Tables /\ r.fdt = [s.fdt EXCEPT ![p] = Opened(t, m, k)]
         /\ r.used = Given(s.used, k) /\ r.fault = s.fault
         /\ \A j \in Pipes : /\ r.pipe[j].fdCount = IF j = k THEN 2 ELSE s.pipe[j].fdCount
                             /\ r.pipe[j].bufferIndex = s.pipe[j].bufferIndex
                             /\ j # k => r.pipe[j] = s.pipe[j]
<1> DEFINE rd == ReadEnd(s, p)
           wr == WriteEnd(s, p)
           t2 == [t EXCEPT ![rd] = Loose("READ"), ![wr] = Loose("WRITE")]
           t4 == [t2 EXCEPT ![rd] = End("READ", k), ![wr] = End("WRITE", k)]
           reading == [s EXCEPT !.fdt[p][rd] = [@ EXCEPT !.active = TRUE, !.type = "PIPE", !.perm = "READ"]]
           both == [reading EXCEPT !.fdt[p][wr] =
                      [@ EXCEPT !.active = TRUE, !.type = "PIPE", !.perm = "WRITE"]]
           oneEnd == [both EXCEPT !.fdt[p][rd].pipe = k]
           twoEnds == [oneEnd EXCEPT !.fdt[p][wr].pipe = k]
           given == [twoEnds EXCEPT !.used[k] = TRUE, !.pipe[k].fdCount = 2]
<1>1. /\ rd \in Fds /\ wr \in Fds /\ rd # wr /\ t[rd] = Unused /\ t[wr] = Unused
      /\ t \in [Fds -> Descriptor] /\ rd = m /\ wr = m + 1
  <2>1. m \in Fds /\ m + 1 \in Fds /\ m # m + 1 /\ ~ (m < m) /\ ~ (m + 1 < m)
    BY SmallFds
  <2> HIDE DEF rd, wr
  <2>2. rd = m /\ wr = m + 1
    BY FreeEnds DEF rd, wr
  <2> QED BY <2>1, <2>2, DescriptorFields DEF TakenUpTo
<1>0. FreeFds(s, p) # {} /\ FreeFds(s, p) # {rd} /\ FreeFds(s, p) \ {rd} # {}
  BY FreeEnds
<1>2. /\ Loose("READ") = End("READ", Null) /\ Loose("WRITE") = End("WRITE", Null)
      /\ [Loose("READ") EXCEPT !.pipe = k] = End("READ", k)
      /\ [Loose("WRITE") EXCEPT !.pipe = k] = End("WRITE", k)
      /\ Loose("READ") \in Descriptor /\ Loose("WRITE") \in Descriptor
      /\ End("READ", k) \in Descriptor /\ End("WRITE", k) \in Descriptor
      /\ Opened(t, m, Null) = t2
  <2>1. /\ Loose("READ") = End("READ", Null) /\ Loose("WRITE") = End("WRITE", Null)
        /\ [Loose("READ") EXCEPT !.pipe = k] = End("READ", k)
        /\ [Loose("WRITE") EXCEPT !.pipe = k] = End("WRITE", k)
    BY LooseIs DEF End
  <2>2. /\ End("READ", Null) \in Descriptor /\ End("WRITE", Null) \in Descriptor
        /\ End("READ", k) \in Descriptor /\ End("WRITE", k) \in Descriptor
    BY EndIs, NewPipeIs
  <2> HIDE DEF rd, wr
  <2>3. Opened(t, m, Null) = t2
    BY <1>1, <2>1 DEF Opened
  <2> QED BY <2>1, <2>2, <2>3
<1> HIDE DEF rd, wr
<1>3. /\ both \in Tables /\ both.fdt = [s.fdt EXCEPT ![p] = t2] /\ both.fdt[p] = t2
      /\ both.pipe = s.pipe /\ both.used = s.used /\ both.fault = s.fault
  <2> DEFINE t1 == [t EXCEPT ![rd] = Loose("READ")]
  <2>1. reading = Entered(s, p, rd, Loose("READ"))
    BY <1>1 DEF Loose, Entered
  <2> HIDE DEF reading
  <2>2. /\ reading \in Tables /\ reading.fdt = [s.fdt EXCEPT ![p] = t1] /\ reading.fdt[p] = t1
        /\ reading.pipe = s.pipe /\ reading.used = s.used /\ reading.fault = s.fault
    BY <1>1, <1>2, <2>1, EntryIs
  <2>3. t1[wr] = Unused /\ [t1 EXCEPT ![wr] = Loose("WRITE")] = t2
    BY <1>1, <1>2
  <2> HIDE DEF t1
  <2>4. both = Entered(reading, p, wr, Loose("WRITE"))
    BY <2>2, <2>3 DEF Loose, Entered
  <2> HIDE DEF both, t2
  <2>5. /\ both \in Tables /\ both.fdt = [reading.fdt EXCEPT ![p] = t2] /\ both.fdt[p] = t2
        /\ both.pipe = reading.pipe /\ both.used = reading.used /\ both.fault = reading.fault
    <3>1. wr \in Fds /\ Loose("WRITE") \in Descriptor
      BY <1>1, <1>2
    <3>2. reading \in Tables /\ reading.fdt[p] = t1
      BY <2>2
    <3> QED BY <2>3, <2>4, <3>1, <3>2, EnteredIs
  <2>6. [[s.fdt EXCEPT ![p] = t1] EXCEPT ![p] = t2] = [s.fdt EXCEPT ![p] = t2]
    BY TablesFields
  <2> QED BY <2>2, <2>5, <2>6
<1>4. CASE k = Null
  <2>1. r = both
    <3>1. FreePipes(s) = {}
      BY <1>4, NewPipeIs
    <3> QED BY <1>0, <3>1 DEF pipe_kernel, both, reading, rd, wr
  <2>2. Given(s.used, k) = s.used /\ \A j \in Pipes : j # k
    BY <1>4 DEF Given, Pipes, Null
  <2> HIDE DEF t2, both, reading
  <2> QED BY <1>2, <1>3, <1>4, <2>1, <2>2
<1>5. CASE k # Null
  <2>1. r = given
    <3>1. FreePipes(s) # {} /\ k = Min(FreePipes(s))
      BY <1>5 DEF NewPipe
    <3> QED BY <1>0, <3>1 DEF pipe_kernel, both, reading, rd, wr
  <2> HIDE DEF both, reading
  <2>2. k \in Pipes
    BY <1>5, NewPipeIs
  <2> HIDE DEF t2
  <2>3. t2[rd] = Loose("READ") /\ t2[wr] = Loose("WRITE") /\ t2 \in [Fds -> Descriptor]
    BY <1>1, <1>2 DEF t2
  <2> DEFINE t3 == [t2 EXCEPT ![rd] = End("READ", k)]
  <2>4. t3[wr] = Loose("WRITE") /\ [t3 EXCEPT ![wr] = End("WRITE", k)] = t4
    BY <1>1, <2>3
  <2>5. oneEnd = Entered(both, p, rd, End("READ", k))
    BY <1>2, <1>3, <2>3 DEF Entered
  <2> HIDE DEF t3, t4, oneEnd
  <2>6. /\ oneEnd \in Tables /\ oneEnd.fdt = [both.fdt EXCEPT ![p] = t3] /\ oneEnd.fdt[p] = t3
        /\ oneEnd.pipe = s.pipe /\ oneEnd.used = s.used /\ oneEnd.fault = s.fault
    <3>1. rd \in Fds /\ End("READ", k) \in Descriptor
      BY <1>1, <1>2
    <3>2. both \in Tables /\ both.fdt[p] = t2
      BY <1>3
    <3>3. /\ oneEnd \in Tables /\ oneEnd.fdt = [both.fdt EXCEPT ![p] = t3] /\ oneEnd.fdt[p] = t3
          /\ oneEnd.pipe = both.pipe /\ oneEnd.used = both.used /\ oneEnd.fault = both.fault
      BY <2>5, <3>1, <3>2, EnteredIs DEF t3
    <3> QED BY <1>3, <3>3
  <2>7. twoEnds = Entered(oneEnd, p, wr, End("WRITE", k))
    BY <1>2, <2>4, <2>6 DEF Entered
  <2> HIDE DEF twoEnds
  <2>8. /\ twoEnds \in Tables /\ twoEnds.fdt = [oneEnd.fdt EXCEPT ![p] = t4]
        /\ twoEnds.pipe = s.pipe /\ twoEnds.used = s.used /\ twoEnds.fault = s.fault
    <3>1. wr \in Fds /\ End("WRITE", k) \in Descriptor
      BY <1>1, <1>2
    <3>2. oneEnd \in Tables /\ oneEnd.fdt[p] = t3
      BY <2>6
    <3>3. /\ twoEnds \in Tables /\ twoEnds.fdt = [oneEnd.fdt EXCEPT ![p] = t4]
          /\ twoEnds.pipe = oneEnd.pipe /\ twoEnds.used = oneEnd.used /\ twoEnds.fault = oneEnd.fault
      BY <2>4, <2>7, <3>1, <3>2, EnteredIs
    <3> QED BY <2>6, <3>3
  <2>9. t4 = Opened(t, m, k)
    BY <1>1, <1>2 DEF t2, t4, Opened
  <2>10. twoEnds.fdt = [s.fdt EXCEPT ![p] = Opened(t, m, k)]
    <3> HIDE DEF t4
    <3>1. [[[s.fdt EXCEPT ![p] = t2] EXCEPT ![p] = t3] EXCEPT ![p] = t4] = [s.fdt EXCEPT ![p] = t4]
      BY TablesFields
    <3> QED BY <1>3, <2>6, <2>8, <2>9, <3>1
  <2> DEFINE q == [s.pipe[k] EXCEPT !.fdCount = 2]
             u == [s.used EXCEPT ![k] = TRUE]
             g == [s.pipe EXCEPT ![k] = q]
  <2>11. given = [twoEnds EXCEPT !.used = u, !.pipe = g]
    BY <2>8 DEF Tables
  <2>12. s.pipe[k] \in PipeRecord /\ q \in PipeRecord /\ q.fdCount = 2 /\ q.bufferIndex = s.pipe[k].bufferIndex
    <3>1. s.pipe[k] \in PipeRecord
      BY <2>2, PipeFields
    <3> QED BY <3>1 DEF PipeRecord
  <2> HIDE DEF q
  <2>13. /\ g \in [Pipes -> PipeRecord] /\ u \in [Pipes -> BOOLEAN]
         /\ g[k] = q /\ \A j \in Pipes : j # k => g[j] = s.pipe[j]
    BY <2>2, <2>12, TablesFields
  <2>14. u = Given(s.used, k)
    BY <1>5 DEF Given
  <2> HIDE DEF u, g, given
  <2>15. /\ given \in Tables /\ given.fdt = twoEnds.fdt /\ given.used = u /\ given.pipe = g
         /\ given.fault = s.fault
    BY <2>8, <2>11, <2>13 DEF Tables
  <2>16. \A j \in Pipes : /\ g[j].fdCount = IF j = k THEN 2 ELSE s.pipe[j].fdCount
                          /\ g[j].bufferIndex = s.pipe[j].bufferIndex
                          /\ j # k => g[j] = s.pipe[j]
    BY <2>12, <2>13
  <2> QED BY <2>1, <2>10, <2>14, <2>15, <2>16
<1> QED BY <1>4, <1>5

LEMMA StoredType ==
  ASSUME NEW q \in PipeRecord, NEW x \in Seq(Bytes)
  PROVE  /\ Stored(q, x) \in PipeRecord /\ Stored(q, x).fdCount = q.fdCount
         /\ Stored(q, x).bufferIndex = q.bufferIndex + Len(x)
         /\ Stored(q, x).buffer = [i \in DOMAIN q.buffer |-> IF i + 1 \in DOMAIN x THEN x[i + 1] ELSE q.buffer[i]]
<1> DEFINE b == [i \in DOMAIN q.buffer |-> IF i + 1 \in DOMAIN x THEN x[i + 1] ELSE q.buffer[i]]
<1>1. b \in [0 .. BufferSize - 1 -> Bytes]
  <2>1. q.buffer \in [0 .. BufferSize - 1 -> Bytes]
    BY DEF PipeRecord
  <2>2. \A j \in DOMAIN x : x[j] \in Bytes
    OBVIOUS
  <2> QED BY <2>1, <2>2
<1>2. Stored(q, x) = [q EXCEPT !.buffer = b, !.bufferIndex = q.bufferIndex + Len(x)]
  BY DEF Stored, PipeRecord
<1>3. q.bufferIndex + Len(x) \in Nat
  BY DEF PipeRecord
<1> HIDE DEF b
<1>4. /\ Stored(q, x) \in PipeRecord /\ Stored(q, x).fdCount = q.fdCount
      /\ Stored(q, x).bufferIndex = q.bufferIndex + Len(x) /\ Stored(q, x).buffer = b
  BY <1>1, <1>2, <1>3 DEF PipeRecord
<1> QED BY <1>4 DEF b

(* read takes no more than there is, and moves bytes inside the buffer.    *)
LEMMA TakenType ==
  ASSUME NEW q \in PipeRecord, NEW count \in Nat, count <= q.bufferIndex, ~ TakesBeyond(q, count)
  PROVE  /\ Taken(q, count) \in PipeRecord /\ Taken(q, count).fdCount = q.fdCount
         /\ Taken(q, count).bufferIndex = q.bufferIndex - count
<1> DEFINE last == q.bufferIndex
           b == [i \in DOMAIN q.buffer |-> IF last > count /\ i \in last - count .. last - 1
                                           THEN q.buffer[i + count] ELSE q.buffer[i]]
<1>1. last \in Nat /\ last - count \in Nat /\ q.buffer \in [0 .. BufferSize - 1 -> Bytes]
  BY DEF PipeRecord
<1>2. b \in [0 .. BufferSize - 1 -> Bytes]
  <2>1. ASSUME NEW i \in 0 .. BufferSize - 1, last > count, i \in last - count .. last - 1
        PROVE  i + count \in 0 .. BufferSize - 1
    BY <1>1, <2>1, DescriptorsAssumption DEF TakesBeyond
  <2> HIDE DEF last
  <2> QED BY <1>1, <2>1
<1>3. Taken(q, count) = [q EXCEPT !.buffer = b, !.bufferIndex = last - count]
  BY DEF Taken, PipeRecord
<1> HIDE DEF b, last
<1>4. /\ Taken(q, count) \in PipeRecord /\ Taken(q, count).fdCount = q.fdCount
      /\ Taken(q, count).bufferIndex = last - count
  BY <1>1, <1>2, <1>3 DEF PipeRecord
<1> QED BY <1>4 DEF last

(* A call that moves bytes through descriptor fd changes one pipe's bytes. *)
Moves(s, r, p, fd) ==
  /\ r \in Tables /\ r.fdt = s.fdt /\ r.used = s.used
  /\ \A j \in Pipes : /\ r.pipe[j].fdCount = s.pipe[j].fdCount
                      /\ j # s.fdt[p][fd].pipe \/ ~ IsPipeEnd(s, p, fd) => r.pipe[j] = s.pipe[j]

LEMMA SamePipeMoves ==
  ASSUME NEW s \in Tables, NEW p \in Pids, NEW fd \in Fds, NEW k \in Pipes, s.fdt[p][fd].pipe = k,
         IsPipeEnd(s, p, fd), NEW q \in PipeRecord, q.fdCount = s.pipe[k].fdCount
  PROVE  Moves(s, [s EXCEPT !.pipe[k] = q], p, fd)
<1> DEFINE r == [s EXCEPT !.pipe[k] = q]
<1>1. r \in Tables /\ r.pipe = [s.pipe EXCEPT ![k] = q] /\ r.fdt = s.fdt /\ r.used = s.used
  BY PipeIs
<1> HIDE DEF r
<1>2. \A j \in Pipes : r.pipe[j] = IF j = k THEN q ELSE s.pipe[j]
  BY <1>1, TablesFields
<1> QED BY <1>1, <1>2 DEF Moves, r

LEMMA FaultMoves ==
  ASSUME NEW s \in Tables, NEW p \in Pids, NEW fd \in Fds
  PROVE  Moves(s, s, p, fd) /\ Moves(s, Fault(s), p, fd)
  BY FaultIs DEF Moves

LEMMA WriteMoves ==
  ASSUME NEW s \in Tables, NEW p \in Pids, NEW fd \in Fds, NEW x \in Seq(Bytes)
  PROVE  Moves(s, write(s, p, fd, x), p, fd)
<1> DEFINE k == s.fdt[p][fd].pipe
<1>1. CASE ~ IsPipeEnd(s, p, fd)
  BY <1>1, FaultMoves DEF write
<1>2. CASE IsPipeEnd(s, p, fd) /\ (k = Null \/ Len(x) > BufferSize)
  BY <1>2, FaultMoves DEF write
<1>3. CASE IsPipeEnd(s, p, fd) /\ ~ (k = Null \/ Len(x) > BufferSize)
  <2>1. write(s, p, fd, x) = [s EXCEPT !.pipe[k] = Stored(s.pipe[k], x)]
    BY <1>3 DEF write
  <2>2. k \in Pipes
    BY <1>3, DescriptorFields
  <2>3. Stored(s.pipe[k], x) \in PipeRecord /\ Stored(s.pipe[k], x).fdCount = s.pipe[k].fdCount
    BY <2>2, PipeFields, StoredType
  <2>4. s \in Tables /\ p \in Pids /\ fd \in Fds /\ k = s.fdt[p][fd].pipe /\ IsPipeEnd(s, p, fd)
    BY <1>3
  <2> HIDE DEF k
  <2> DEFINE q == Stored(s.pipe[k], x)
  <2>5. q \in PipeRecord /\ q.fdCount = s.pipe[k].fdCount
    BY <2>3
  <2> HIDE DEF q
  <2>6. Moves(s, [s EXCEPT !.pipe[k] = q], p, fd)
    BY ONLY <2>2, <2>4, <2>5, SamePipeMoves
  <2> QED BY ONLY <2>1, <2>6 DEF q
<1> QED BY <1>1, <1>2, <1>3

LEMMA ReadMoves ==
  ASSUME NEW s \in Tables, NEW p \in Pids, NEW fd \in Fds, NEW n \in Nat
  PROVE  Moves(s, read(s, p, fd, n), p, fd)
<1> DEFINE k == s.fdt[p][fd].pipe
           count == ReadCount(s, k, n)
<1>1. CASE ~ IsPipeEnd(s, p, fd)
  BY <1>1, FaultMoves DEF read
<1>2. CASE IsPipeEnd(s, p, fd) /\ (k = Null \/ TakesBeyond(s.pipe[k], count))
  <2>1. read(s, p, fd, n) = Fault(s)
    BY <1>2 DEF read
  <2> QED BY <2>1, FaultMoves
<1>3. CASE IsPipeEnd(s, p, fd) /\ k # Null /\ ~ TakesBeyond(s.pipe[k], count)
  <2>1. read(s, p, fd, n) = [s EXCEPT !.pipe[k] = Taken(s.pipe[k], count)]
    BY <1>3 DEF read
  <2>2. k \in Pipes
    BY <1>3, DescriptorFields
  <2>3. s.pipe[k] \in PipeRecord /\ s.pipe[k].bufferIndex \in Nat
    BY <2>2, PipeFields
  <2>4. count \in Nat /\ count <= s.pipe[k].bufferIndex
    BY <2>3 DEF ReadCount
  <2> HIDE DEF count
  <2>5. Taken(s.pipe[k], count) \in PipeRecord /\ Taken(s.pipe[k], count).fdCount = s.pipe[k].fdCount
    BY <1>3, <2>3, <2>4, TakenType
  <2>6. s \in Tables /\ p \in Pids /\ fd \in Fds /\ k = s.fdt[p][fd].pipe /\ IsPipeEnd(s, p, fd)
    BY <1>3
  <2> HIDE DEF k
  <2> DEFINE q == Taken(s.pipe[k], count)
  <2>7. q \in PipeRecord /\ q.fdCount = s.pipe[k].fdCount
    BY <2>5
  <2> HIDE DEF q
  <2>8. Moves(s, [s EXCEPT !.pipe[k] = q], p, fd)
    BY ONLY <2>2, <2>6, <2>7, SamePipeMoves
  <2> QED BY ONLY <2>1, <2>8 DEF q
<1> QED BY <1>1, <1>2, <1>3

LEMMA ForkIs ==
  ASSUME NEW s \in Tables, NEW p \in Pids, NEW c \in Pids
  PROVE  /\ copy_parents_fd(s, p, c) \in Tables
         /\ copy_parents_fd(s, p, c).fdt = [s.fdt EXCEPT ![c] = s.fdt[p]]
         /\ copy_parents_fd(s, p, c).pipe = s.pipe /\ copy_parents_fd(s, p, c).used = s.used
         /\ copy_parents_fd(s, p, c).fault = s.fault
<1>1. s.fdt[p] \in [Fds -> Descriptor]
  BY TablesFields
<1> QED BY <1>1, TableIs DEF copy_parents_fd

LEMMA ExitIs ==
  ASSUME NEW s \in Tables, NEW p \in Pids
  PROVE  /\ exit_fds(s, p) \in Tables /\ exit_fds(s, p).fdt = [s.fdt EXCEPT ![p] = exitfdt]
         /\ exit_fds(s, p).pipe = s.pipe /\ exit_fds(s, p).used = s.used
         /\ exit_fds(s, p).fault = s.fault
<1>1. exitfdt \in [Fds -> Descriptor]
  BY DEF exitfdt, Unused, Descriptor
<1> QED BY <1>1, TableIs DEF exit_fds

-----------------------------------------------------------------------------
(* What the tables say about pipes.                                        *)
LEMMA PairTables ==
  ASSUME NEW k \in Pipes \cup {Null},
         NEW t \in {Both(k), InHalf(k), InDone(k), OutHalf(k), OutDone(k)}
  PROVE  /\ t \in [Fds -> Descriptor] /\ t[2].pipe = k
         /\ LinksOf(t) = {k} \ {Null}
         /\ \A fd \in Fds : t[fd].pipe \in {k, Null}
<1> DEFINE es == {Console[0], Console[1], End("READ", k), End("WRITE", k),
                  Closed("READ", k), Closed("WRITE", k), Unused}
<1>1. \A e \in es : e.pipe \in {k, Null}
  BY EndIs, ConsoleIs, UnusedIs, SmallFds
<1>2. PICK a \in es, b \in es, c \in {End("READ", k), Closed("READ", k)}, d \in es : Has(t, a, b, c, d)
  BY TablesAre
<1>3. c.pipe = k
  BY EndIs
<1> HIDE DEF es
<1>4. t \in [Fds -> Descriptor] /\ t[2].pipe = k
  BY <1>2, <1>3 DEF Has
<1>5. \A fd \in Fds : t[fd].pipe \in {k, Null}
  <2> SUFFICES ASSUME NEW fd \in Fds PROVE t[fd].pipe \in {k, Null}
    OBVIOUS
  <2>1. fd = 0 \/ fd = 1 \/ fd = 2 \/ fd = 3 \/ fd >= 4
    BY DEF Fds
  <2> QED BY <1>1, <1>2, <1>3, <2>1, UnusedIs DEF Has
<1>6. t[4].pipe = Null /\ t[6].pipe = Null
  BY <1>2, UnusedIs, SmallFds DEF Has
<1> QED BY <1>4, <1>5, <1>6 DEF LinksOf

LEMMA ConsoleLinks ==
  /\ Console \in [Fds -> Descriptor] /\ LinksOf(Console) = {}
  /\ Console[2].pipe = Null /\ Console[4].pipe = Null /\ Console[6].pipe = Null
  /\ \A fd \in Fds : Console[fd].pipe = Null
  BY ConsoleIs, SmallFds DEF LinksOf

LEMMA RingTables ==
  ASSUME NEW j \in Pipes \cup {Null}, NEW k \in Pipes \cup {Null}, NEW l \in Pipes \cup {Null}
  PROVE  /\ Two(j, k)[2].pipe = j /\ Two(j, k)[4].pipe = k /\ LinksOf(Two(j, k)) = {j, k} \ {Null}
         /\ Three(j, k, l)[2].pipe = j /\ Three(j, k, l)[4].pipe = k /\ Three(j, k, l)[6].pipe = l
         /\ LinksOf(Three(j, k, l)) = {j, k, l} \ {Null}
         /\ \A fd \in Fds : /\ Two(j, k)[fd].pipe \in {j, k, Null}
                            /\ Three(j, k, l)[fd].pipe \in {j, k, l, Null}
<1> DEFINE es == {Console[0], Console[1], End("READ", j), End("WRITE", j), End("READ", k),
                  End("WRITE", k), End("READ", l), End("WRITE", l), Unused}
           t2 == Two(j, k)
           t3 == Three(j, k, l)
<1>1. /\ End("READ", j).pipe = j /\ End("WRITE", j).pipe = j
      /\ End("READ", k).pipe = k /\ End("WRITE", k).pipe = k
      /\ End("READ", l).pipe = l /\ End("WRITE", l).pipe = l
      /\ Console[0].pipe = Null /\ Console[1].pipe = Null /\ Unused.pipe = Null
  BY EndIs, ConsoleIs, UnusedIs, SmallFds
<1>2. /\ t2[0] = Console[0] /\ t2[1] = Console[1] /\ t2[2] = End("READ", j) /\ t2[3] = End("WRITE", j)
      /\ t2[4] = End("READ", k) /\ t2[5] = End("WRITE", k)
      /\ \A fd \in Fds : fd >= 6 => t2[fd] = Unused
  BY RingTablesAre
<1>3. /\ t3[0] = Console[0] /\ t3[1] = Console[1] /\ t3[2] = End("READ", j) /\ t3[3] = End("WRITE", j)
      /\ t3[4] = End("READ", k) /\ t3[5] = End("WRITE", k)
      /\ t3[6] = End("READ", l) /\ t3[7] = End("WRITE", l)
      /\ \A fd \in Fds : fd >= 8 => t3[fd] = Unused
  <2>1. t3[0] = Console[0] /\ t3[1] = Console[1] /\ t3[2] = End("READ", j) /\ t3[3] = End("WRITE", j)
    BY RingTablesAre
  <2>2. t3[4] = End("READ", k) /\ t3[5] = End("WRITE", k) /\ t3[6] = End("READ", l) /\ t3[7] = End("WRITE", l)
    BY RingTablesAre
  <2>3. ASSUME NEW fd \in Fds, fd >= 8
        PROVE  t3[fd] = Unused
    BY <2>3, RingTablesAre
  <2> QED BY <2>1, <2>2, <2>3
<1> HIDE DEF t2, t3
<1>4. \A fd \in Fds : t2[fd].pipe \in {j, k, Null} /\ t3[fd].pipe \in {j, k, l, Null}
  <2> SUFFICES ASSUME NEW fd \in Fds
               PROVE  t2[fd].pipe \in {j, k, Null} /\ t3[fd].pipe \in {j, k, l, Null}
    OBVIOUS
  <2>1. \/ fd = 0 \/ fd = 1 \/ fd = 2 \/ fd = 3 \/ fd = 4 \/ fd = 5
        \/ fd = 6 \/ fd = 7 \/ fd >= 8
    BY DEF Fds
  <2>2. fd >= 8 => fd >= 6
    BY SmallFds
  <2> QED BY <1>1, <1>2, <1>3, <2>1, <2>2, SmallFds
<1>5. t2[6].pipe = Null
  BY <1>1, <1>2, SmallFds
<1> QED BY <1>1, <1>2, <1>3, <1>4, <1>5 DEF t2, t3, LinksOf

(* Whether descriptors 0 and 1 are ends of pipes, and which are active.    *)
LEMMA Sides ==
  ASSUME NEW k \in Pipes \cup {Null}
  PROVE  /\ \A t \in {Console, Both(k)} : t[0].type = "STDI" /\ t[1].type = "STDO"
         /\ \A t \in {InHalf(k), InDone(k)} : t[0].type = "PIPE" /\ t[1].type = "STDO"
         /\ \A t \in {OutHalf(k), OutDone(k)} : t[0].type = "STDI" /\ t[1].type = "PIPE"
         /\ \A fd \in Fds : InDone(k)[fd].type = "PIPE" /\ InDone(k)[fd].active => fd = 0
         /\ \A fd \in Fds : OutDone(k)[fd].type = "PIPE" /\ OutDone(k)[fd].active => fd = 1
<1>1. /\ Console[0].type = "STDI" /\ Console[1].type = "STDO"
      /\ End("READ", k).type = "PIPE" /\ End("WRITE", k).type = "PIPE"
      /\ ~ Closed("READ", k).active /\ ~ Closed("WRITE", k).active /\ ~ Unused.active
  BY EndIs, ConsoleIs, UnusedIs
<1>2. \A fd \in Fds : fd = 0 \/ fd = 1 \/ fd = 2 \/ fd = 3 \/ fd >= 4
  BY DEF Fds
<1> QED BY <1>1, <1>2, TablesAre DEF Has

LEMMA RingSides ==
  ASSUME NEW j \in Pipes \cup {Null}, NEW k \in Pipes \cup {Null}, NEW l \in Pipes \cup {Null},
         NEW t \in {Two(j, k), Three(j, k, l)}
  PROVE  /\ t[0].type = "STDI" /\ t[1].type = "STDO"
         /\ \A fd \in Fds : t[fd].pipe \in {j, k, l, Null}
<1>1. /\ Two(j, k)[0] = Console[0] /\ Two(j, k)[1] = Console[1]
      /\ Three(j, k, l)[0] = Console[0] /\ Three(j, k, l)[1] = Console[1]
  BY RingTablesAre
<1>2. \A fd \in Fds : /\ Two(j, k)[fd].pipe \in {j, k, l, Null}
                      /\ Three(j, k, l)[fd].pipe \in {j, k, l, Null}
  BY RingTables
<1>3. Console[0].type = "STDI" /\ Console[1].type = "STDO"
  BY ConsoleIs
<1> QED BY <1>1, <1>2, <1>3

-----------------------------------------------------------------------------
(* What makes a table the right one for each place.                        *)
LEMMA PlainShape ==
  ASSUME NEW s, NEW t, NEW k, k = t[2].pipe,
         \/ s.at = "free"
         \/ /\ s.at \in {"prompt", "P3", "T2"} /\ t = Console
            /\ s.ends = << >> /\ s.x = 0 /\ s.i = 0
         \/ /\ s.at = "pipeline" /\ t = Console /\ s.cmd[1] \in Quiet /\ s.cmd[2] \in Quiet
            /\ s.ends = << >> /\ s.x = 0 /\ s.i = 0
         \/ s.at \in Quiet /\ t \in {Console, InDone(k), OutDone(k)} /\ Len(s.ends) < 3
         \/ s.at = "T_exit" /\ t \in {Console, InDone(k), OutDone(k)} /\ Len(s.ends) # 3
         \/ s.at = "P3_writer" /\ t = OutDone(k)
         \/ s.at = "P3_reader" /\ t = InDone(k)
  PROVE  Shape(s, t)
<1>1. CASE s.at = "free"
  BY <1>1 DEF Shape, Begin, Paired, Arranging, Quiet, Ring, First, Second, Third
<1>2. CASE /\ s.at \in {"prompt", "P3", "T2"} /\ t = Console
           /\ s.ends = << >> /\ s.x = 0 /\ s.i = 0
  BY <1>2 DEF Shape, Begin, Paired, Arranging, Quiet, Ring, First, Second, Third
<1>3. CASE /\ s.at = "pipeline" /\ t = Console /\ s.cmd[1] \in Quiet /\ s.cmd[2] \in Quiet
           /\ s.ends = << >> /\ s.x = 0 /\ s.i = 0
  <2>1. /\ s.at \in Begin /\ s.at = "pipeline" /\ s.at \notin Quiet /\ s.at \notin Arranging
        /\ s.at \notin Paired /\ s.at \notin Ring \cup {"T2_fork_1"}
    BY <1>3 DEF Begin, Paired, Arranging, Quiet, Ring, First, Second, Third
  <2> QED BY <1>3, <2>1 DEF Shape
<1>4. CASE s.at \in Quiet /\ t \in {Console, InDone(k), OutDone(k)} /\ Len(s.ends) < 3
  BY <1>4 DEF Shape, Begin, Paired, Arranging, Quiet, Ring, First, Second, Third
<1>5. CASE s.at = "T_exit" /\ t \in {Console, InDone(k), OutDone(k)} /\ Len(s.ends) # 3
  BY <1>5 DEF Shape, Begin, Paired, Arranging, Quiet, Ring, First, Second, Third
<1>6. CASE \/ s.at = "P3_writer" /\ t = OutDone(k)
           \/ s.at = "P3_reader" /\ t = InDone(k)
  BY <1>6 DEF Shape, Begin, Paired, Arranging, Quiet, Ring, First, Second, Third
<1> QED BY <1>1, <1>2, <1>3, <1>4, <1>5, <1>6

-----------------------------------------------------------------------------
(* What the shape of a process says about its pipes.                       *)
LEMMA LinkedPipes ==
  ASSUME io \in Tables, NEW p \in Pids
  PROVE  /\ Links(p) \subseteq Pipes
         /\ io.fdt[p][2].pipe \in Pipes \cup {Null} /\ io.fdt[p][4].pipe \in Pipes \cup {Null}
         /\ io.fdt[p][6].pipe \in Pipes \cup {Null}
<1>1. /\ io.fdt[p][2].pipe \in Pipes \cup {Null} /\ io.fdt[p][4].pipe \in Pipes \cup {Null}
      /\ io.fdt[p][6].pipe \in Pipes \cup {Null}
  BY DescriptorFields, SmallFds
<1> QED BY <1>1 DEF Links, LinksOf

Busy == Places \ {"free"}

LEMMA PlacesAre ==
  ASSUME NEW at \in Busy
  PROVE  /\ at \in Begin \cup Arranging \cup Quiet \cup Starting \cup Ring
                  \cup {"T_exit", "P3_writer", "P3_reader"}
  BY DEF Busy, Places

(* Every table is one of the eight, for the pipes it names.                *)
LEMMA ShapeIs ==
  ASSUME io \in Tables, NEW p \in Pids, Shaped(p), proc[p].at \in Busy
  PROVE  LET t == io.fdt[p]
             j == t[2].pipe
             k == t[4].pipe
             l == t[6].pipe
         IN  t \in {Console, Both(j), InHalf(j), InDone(j), OutHalf(j), OutDone(j),
                    Two(j, k), Three(j, k, l)}
  BY PlacesAre DEF Shaped, Shape, Arranging, Starting, Begin

(* Every descriptor of a process belongs to one of the pipes it is linked  *)
(* to.                                                                     *)
LEMMA EndsAreLinks ==
  ASSUME io \in Tables, NEW p \in Pids, Shaped(p), proc[p].at \in Busy, NEW fd \in Fds
  PROVE  io.fdt[p][fd].pipe \in Links(p) \cup {Null}
<1> DEFINE t == io.fdt[p]
           j == t[2].pipe
           k == t[4].pipe
           l == t[6].pipe
<1>1. j \in Pipes \cup {Null} /\ k \in Pipes \cup {Null} /\ l \in Pipes \cup {Null}
  BY LinkedPipes
<1>2. t \in {Console, Both(j), InHalf(j), InDone(j), OutHalf(j), OutDone(j), Two(j, k), Three(j, k, l)}
  BY ShapeIs
<1>3. LinksOf(t) = {j, k, l} \ {Null}
  BY DEF LinksOf
<1> HIDE DEF t, j, k, l
<1>4. CASE t = Console
  BY <1>4, ConsoleLinks DEF Links, t
<1>5. CASE t \in {Both(j), InHalf(j), InDone(j), OutHalf(j), OutDone(j)}
  <2>1. t[fd].pipe \in {j, Null}
    BY <1>1, <1>5, PairTables
  <2> QED BY <1>3, <2>1 DEF Links, t
<1>6. CASE t \in {Two(j, k), Three(j, k, l)}
  <2>1. t[fd].pipe \in {j, k, l, Null}
    BY <1>1, <1>6, RingSides
  <2> QED BY <1>3, <2>1 DEF Links, t
<1> QED BY <1>2, <1>4, <1>5, <1>6

Inside == {"in_dup2", "in_close_0", "in_close_1"}
Outside == {"out_dup2", "out_close_0", "out_close_1"}

(* A process is on one side of a pipeline at most, and none of the ring is.*)
LEMMA OneSide ==
  ASSUME io \in Tables, NEW p \in Pids, Shaped(p), proc[p].at \in Busy
  PROVE  /\ Reader(p) => ~ Writer(p) /\ ~ InRing(p)
         /\ Writer(p) => ~ InRing(p)
         /\ proc[p].at \in Begin \cup Starting \cup {"plumb"} => ~ Reader(p) /\ ~ Writer(p) /\ ~ InRing(p)
         /\ proc[p].at \in Inside => Reader(p)
         /\ proc[p].at \in Outside => Writer(p)
<1> DEFINE t == io.fdt[p]
           j == t[2].pipe
           k == t[4].pipe
           l == t[6].pipe
           at == proc[p].at
<1>1. j \in Pipes \cup {Null} /\ k \in Pipes \cup {Null} /\ l \in Pipes \cup {Null}
  BY LinkedPipes
<1>2. /\ t \in {Console, Both(j)} => t[0].type = "STDI" /\ t[1].type = "STDO"
      /\ t \in {InHalf(j), InDone(j)} => t[0].type = "PIPE" /\ t[1].type = "STDO"
      /\ t \in {OutHalf(j), OutDone(j)} => t[0].type = "STDI" /\ t[1].type = "PIPE"
  BY <1>1, Sides
<1>3. ASSUME t \in {Two(j, k), Three(j, k, l)}
      PROVE  t[0].type = "STDI" /\ t[1].type = "STDO"
  <2> HIDE DEF t, j, k, l
  <2> QED BY <1>1, <1>3, RingSides
<1>4. /\ at \in Begin => t = Console
      /\ at \in Paired => t = Both(j)
      /\ at \in {"in_close_0", "in_close_1"} => t = InHalf(j)
      /\ at = "out_close_0" => t = OutHalf(j)
      /\ at = "out_close_1" => t = OutDone(j)
      /\ at \in Quiet => t \in {Console, InDone(j), OutDone(j)}
      /\ at = "P3_writer" => t = OutDone(j)
      /\ at = "P3_reader" => t = InDone(j)
      /\ at = "T_exit" /\ Len(proc[p].ends) = 3 => t = Three(j, k, l)
      /\ at = "T_exit" /\ Len(proc[p].ends) # 3 => t \in {Console, InDone(j), OutDone(j)}
      /\ at = "T2_pipe_2" => t = Both(j)
      /\ at = "T2_pipe_3" => t = Two(j, k)
      /\ at \in Ring \cup {"T2_fork_1"} => t = Three(j, k, l)
  BY DEF Shaped, Shape
<1>5. /\ Reader(p) <=> at = "in_dup2" \/ t[0].type = "PIPE"
      /\ Writer(p) <=> at = "out_dup2" \/ t[1].type = "PIPE"
      /\ InRing(p) <=> at \in Ring \/ (at = "T_exit" /\ Len(proc[p].ends) = 3)
  BY DEF Reader, Writer, InRing
<1>6. at \in Busy
  OBVIOUS
<1> HIDE DEF t, j, k, l, at
<1>7. CASE at \in Begin \cup Starting \cup Ring \cup {"plumb"}
  BY <1>2, <1>3, <1>4, <1>5, <1>7
     DEF Begin, Starting, Ring, First, Second, Third, Inside, Outside, Paired, at
<1>8. CASE at \in Arranging \ {"plumb"}
  BY <1>2, <1>4, <1>5, <1>8
     DEF Begin, Starting, Ring, First, Second, Third, Inside, Outside, Paired, Arranging, at
<1>9. CASE at \in Quiet \cup {"T_exit", "P3_writer", "P3_reader"}
  BY <1>2, <1>3, <1>4, <1>5, <1>9
     DEF Begin, Starting, Ring, First, Second, Third, Inside, Outside, Quiet, at
<1> QED BY <1>6, <1>7, <1>8, <1>9, PlacesAre

-----------------------------------------------------------------------------
(* What a step leaves as it is.                                            *)
Untouched(q) == proc'[q] = proc[q] /\ io'.fdt[q] = io.fdt[q]

(* Process q is, after the step, on every side that p was on before it.    *)
SidesKept(p, q) == /\ Reader(p) => Reader(q)'
                   /\ Writer(p) => Writer(q)'
                   /\ InRing(p) => InRing(q)'

LEMMA UntouchedIs ==
  ASSUME NEW q \in Pids, Untouched(q)
  PROVE  /\ Links(q)' = Links(q) /\ Reader(q)' = Reader(q) /\ Writer(q)' = Writer(q)
         /\ InRing(q)' = InRing(q) /\ Shaped(q)' = Shaped(q)
         /\ q \in Live' <=> q \in Live
<1>1. proc'[q] = proc[q] /\ io'.fdt[q] = io.fdt[q]
  BY DEF Untouched
<1>2. Shaped(q)' = Shaped(q)
  BY <1>1 DEF Shaped, Shape
<1> QED BY <1>1, <1>2 DEF Links, Reader, Writer, InRing, Live

LEMMA LiveIs ==
  ASSUME proc \in [Pids -> Process], NEW p \in Pids
  PROVE  p \in Live <=> proc[p].at \in Busy
<1>1. proc[p].at \in Places
  BY DEF Process
<1> QED BY <1>1 DEF Live, Busy

(* The pipes stay in use and apart when one process moves on, or exits.    *)
LEMMA LinksKept ==
  ASSUME Plumbed, NEW p \in Live, \A q \in Pids \ {p} : Untouched(q), Typed',
         \A k \in Pipes : io.used[k] => io'.used[k],
         p \in Live' => /\ SidesKept(p, p)
                        /\ \A k \in Links(p)' : k \in Links(p) \/ (k \in Pipes /\ ~ io.used[k] /\ io'.used[k])
  PROVE  LinksInUse' /\ Apart'
<1>1. \A q \in Pids \ {p} : /\ Links(q)' = Links(q) /\ Reader(q)' = Reader(q) /\ Writer(q)' = Writer(q)
                            /\ InRing(q)' = InRing(q)
                            /\ q \in Live' <=> q \in Live
  BY UntouchedIs
<1>2. p \in Pids /\ Live \subseteq Pids /\ Live' \subseteq Pids
  BY DEF Live
<1>3. \A q \in Live : Links(q) \subseteq Pipes /\ \A k \in Links(q) : io.used[k]
  BY <1>2, LinkedPipes DEF Plumbed, Typed, LinksInUse
<1>4. LinksInUse'
  BY <1>1, <1>2, <1>3 DEF LinksInUse
<1>5. Apart'
  <2> SUFFICES ASSUME NEW q \in Live', NEW r \in Live', q # r,
                      NEW k \in Links(q)', k \in Links(r)'
               PROVE  Partners(q, r)'
    BY Zenon DEF Apart
  <2>1. \A a, b \in Live : a # b /\ Links(a) \cap Links(b) # {} => Partners(a, b)
    BY DEF Plumbed, Apart
  <2>2. CASE q # p /\ r # p
    <3>1. q \in Live /\ r \in Live /\ k \in Links(q) /\ k \in Links(r)
      BY <1>1, <1>2, <2>2
    <3>2. Partners(q, r)
      BY <2>1, <3>1
    <3> QED BY <1>1, <1>2, <2>2, <3>2 DEF Partners
  <2>3. CASE q = p
    <3>1. r \in Live /\ k \in Links(r) /\ io.used[k]
      BY <1>1, <1>2, <1>3, <2>3
    <3>2. k \in Links(p)
      BY <2>3, <3>1
    <3>3. Partners(p, r)
      BY <2>1, <2>3, <3>1, <3>2
    <3> QED BY <1>1, <1>2, <2>3, <3>3 DEF Partners, SidesKept
  <2>4. CASE r = p
    <3>1. q \in Live /\ k \in Links(q) /\ io.used[k]
      BY <1>1, <1>2, <1>3, <2>4
    <3>2. k \in Links(p)
      BY <2>4, <3>1
    <3>3. Partners(q, p)
      BY <2>1, <2>4, <3>1, <3>2
    <3> QED BY <1>1, <1>2, <2>4, <3>3 DEF Partners, SidesKept
  <2> QED BY <2>2, <2>3, <2>4
<1> QED BY <1>4, <1>5

(* And when a process forks, if the two become partners or share nothing.  *)
LEMMA LinksForked ==
  ASSUME Plumbed, NEW p \in Live, NEW c \in Pids \ Live, Typed',
         \A q \in Pids \ {p, c} : Untouched(q),
         io'.used = io.used, Links(p)' = Links(p), Links(c)' = Links(p),
         SidesKept(p, p), SidesKept(p, c),
         Links(p) # {} => Partners(p, c)'
  PROVE  LinksInUse' /\ Apart'
<1>1. \A q \in Pids \ {p, c} : /\ Links(q)' = Links(q) /\ Reader(q)' = Reader(q) /\ Writer(q)' = Writer(q)
                               /\ InRing(q)' = InRing(q)
                               /\ q \in Live' <=> q \in Live
  BY UntouchedIs
<1>2. p \in Pids /\ Live \subseteq Pids /\ Live' \subseteq Pids /\ p # c
  BY DEF Live
<1>3. \A q \in Live : \A k \in Links(q) : io.used[k]
  BY DEF Plumbed, LinksInUse
<1>4. LinksInUse'
  BY <1>1, <1>2, <1>3 DEF LinksInUse
<1>5. Apart'
  <2> SUFFICES ASSUME NEW q \in Live', NEW r \in Live', q # r,
                      NEW k \in Links(q)', k \in Links(r)'
               PROVE  Partners(q, r)'
    BY Zenon DEF Apart
  <2>1. \A a, b \in Live : a # b /\ Links(a) \cap Links(b) # {} => Partners(a, b)
    BY DEF Plumbed, Apart
  <2>2. CASE q \notin {p, c} /\ r \notin {p, c}
    <3>1. q \in Live /\ r \in Live /\ k \in Links(q) /\ k \in Links(r)
      BY <1>1, <1>2, <2>2
    <3>2. Partners(q, r)
      BY <2>1, <3>1
    <3> QED BY <1>1, <1>2, <2>2, <3>2 DEF Partners
  <2>3. CASE q \in {p, c} /\ r \notin {p, c}
    <3>1. r \in Live /\ k \in Links(r) /\ k \in Links(p)
      BY <1>1, <1>2, <2>3
    <3>2. Partners(p, r)
      BY <1>2, <2>1, <2>3, <3>1
    <3> QED BY <1>1, <1>2, <2>3, <3>2 DEF Partners, SidesKept
  <2>4. CASE q \notin {p, c} /\ r \in {p, c}
    <3>1. q \in Live /\ k \in Links(q) /\ k \in Links(p)
      BY <1>1, <1>2, <2>4
    <3>2. Partners(q, p)
      BY <1>2, <2>1, <2>4, <3>1
    <3> QED BY <1>1, <1>2, <2>4, <3>2 DEF Partners, SidesKept
  <2>5. CASE q \in {p, c} /\ r \in {p, c}
    <3>1. Partners(p, c)'
      BY <2>5
    <3> QED BY <2>5, <3>1 DEF Partners
  <2> QED BY <2>2, <2>3, <2>4, <2>5
<1> QED BY <1>4, <1>5

-----------------------------------------------------------------------------
(* Two processes on the same side of a pipeline share no pipe.             *)
LEMMA OneSided ==
  ASSUME Plumbed, NEW p \in Pids, NEW q \in Pids, p # q,
         \/ proc[p].at \in Inside /\ proc[q].at \in Inside
         \/ proc[p].at \in Outside /\ proc[q].at \in Outside
  PROVE  Links(p) \cap Links(q) = {}
<1>1. proc[p].at \in Busy /\ proc[q].at \in Busy
  BY DEF Inside, Outside, Busy, Places, Arranging, Paired
<1>2. p \in Live /\ q \in Live /\ io \in Tables /\ Shaped(p) /\ Shaped(q)
  BY <1>1, LiveIs DEF Plumbed, Typed
<1>3. ~ Partners(p, q)
  <2>1. \/ Reader(p) /\ Reader(q)
        \/ Writer(p) /\ Writer(q)
    BY <1>1, <1>2, OneSide
  <2> QED BY <1>1, <1>2, <2>1, OneSide DEF Partners
<1> QED BY <1>2, <1>3 DEF Plumbed, Apart

InClose == {"in_close_0", "in_close_1"}

(* Counts stay right when no process begins or ends to be counted twice.   *)
LEMMA CountedKept ==
  ASSUME Plumbed,
         \A q \in Pids : /\ proc'[q].at \in InClose <=> proc[q].at \in InClose
                         /\ proc'[q].at = "out_close_0" <=> proc[q].at = "out_close_0"
                         /\ proc[q].at \in InClose \/ proc[q].at = "out_close_0" => Links(q)' = Links(q),
         \A k \in Pipes :
           \/ /\ (io'.used[k] <=> io.used[k]) /\ io'.pipe[k].fdCount = io.pipe[k].fdCount
              /\ ~ io.used[k] => io'.pipe[k].bufferIndex = io.pipe[k].bufferIndex
           \/ ~ io.used[k] /\ io'.used[k] /\ io'.pipe[k].fdCount = 2
  PROVE  Counted'
<1> SUFFICES ASSUME NEW k \in Pipes
             PROVE  /\ ~ io'.used[k] => io'.pipe[k].fdCount = 0 /\ io'.pipe[k].bufferIndex = 0
                    /\ io'.used[k] => io'.pipe[k].fdCount = 2 + InTwice(k)' + OutTwice(k)'
  BY DEF Counted
<1>1. InTwice(k)' = InTwice(k)
  BY DEF InTwice, InClose
<1>2. OutTwice(k)' = OutTwice(k)
  BY DEF OutTwice, InClose
<1>3. /\ ~ io.used[k] => io.pipe[k].fdCount = 0 /\ io.pipe[k].bufferIndex = 0
      /\ io.used[k] => io.pipe[k].fdCount = 2 + InTwice(k) + OutTwice(k)
  BY DEF Plumbed, Counted
<1>4. ~ io.used[k] => InTwice(k) = 0 /\ OutTwice(k) = 0
  <2>1. \A q \in Pids : proc[q].at \in {"in_close_0", "in_close_1", "out_close_0"} => q \in Live
    BY DEF Live
  <2>2. \A q \in Live : k \in Links(q) => io.used[k]
    BY DEF Plumbed, LinksInUse
  <2> QED BY <2>1, <2>2 DEF InTwice, OutTwice
<1> QED BY <1>1, <1>2, <1>3, <1>4

(* A step that changes the count of pipe k, and nothing else of a pipe, by *)
(* d; and the moves of a process that change how often it is counted.      *)
SameBytes(j) == /\ io'.pipe[j].bufferIndex = io.pipe[j].bufferIndex
                /\ io'.pipe[j].buffer = io.pipe[j].buffer

BytesKept == \A j \in Pipes : SameBytes(j)

Recounted(k, d) ==
  \A j \in Pipes : /\ io'.pipe[j].fdCount = IF j = k THEN io.pipe[j].fdCount + d ELSE io.pipe[j].fdCount
                   /\ SameBytes(j)

Doubles(at, next, d) ==
  \/ at = "in_dup2" /\ next \in InClose /\ d = 1
  \/ at \in InClose /\ next \notin InClose /\ next # "out_close_0" /\ d = -1
  \/ at = "out_dup2" /\ next = "out_close_0" /\ d = 1
  \/ at = "out_close_0" /\ next \notin InClose /\ next # "out_close_0" /\ d = -1

(* Counts stay right when a process begins or ends to be counted twice.    *)
LEMMA CountedMoved ==
  ASSUME Plumbed, NEW p \in Pids, \A q \in Pids \ {p} : Untouched(q), Links(p)' = Links(p),
         NEW k \in Pipes \cup {Null}, Links(p) = {k} \ {Null},
         NEW d \in Int, io'.used = io.used, Recounted(k, d), Doubles(proc[p].at, proc'[p].at, d)
  PROVE  Counted'
<1> DEFINE at == proc[p].at
           next == proc'[p].at
<1>0. \/ at = "in_dup2" /\ next \in InClose /\ d = 1
      \/ at \in InClose /\ next \notin InClose /\ next # "out_close_0" /\ d = -1
      \/ at = "out_dup2" /\ next = "out_close_0" /\ d = 1
      \/ at = "out_close_0" /\ next \notin InClose /\ next # "out_close_0" /\ d = -1
  BY DEF Doubles
<1>1. p \in Live /\ io \in Tables
  <2>1. at # "free"
    BY <1>0 DEF InClose
  <2> QED BY <2>1 DEF Live, Plumbed, Typed
<1>2. \A q \in Pids \ {p} : Links(q)' = Links(q) /\ proc'[q].at = proc[q].at
  BY UntouchedIs DEF Untouched
<1>3. /\ at \in Inside \/ at \in Outside
      /\ at \in Inside => \A q \in Pids \ {p} : proc[q].at \in InClose => Links(p) \cap Links(q) = {}
      /\ at \in Outside => \A q \in Pids \ {p} : proc[q].at = "out_close_0" => Links(p) \cap Links(q) = {}
  <2>1. InClose \subseteq Inside /\ "out_close_0" \in Outside
    BY DEF InClose, Inside, Outside
  <2>2. at \in Inside \/ at \in Outside
    BY <1>0 DEF InClose, Inside, Outside
  <2>3. ASSUME at \in Inside, NEW q \in Pids \ {p}, proc[q].at \in InClose
        PROVE  Links(p) \cap Links(q) = {}
    BY <2>1, <2>3, OneSided
  <2>4. ASSUME at \in Outside, NEW q \in Pids \ {p}, proc[q].at = "out_close_0"
        PROVE  Links(p) \cap Links(q) = {}
    BY <2>1, <2>4, OneSided
  <2> QED BY <2>2, <2>3, <2>4
<1> SUFFICES ASSUME NEW i \in Pipes
             PROVE  /\ ~ io'.used[i] => io'.pipe[i].fdCount = 0 /\ io'.pipe[i].bufferIndex = 0
                    /\ io'.used[i] => io'.pipe[i].fdCount = 2 + InTwice(i)' + OutTwice(i)'
  BY DEF Counted
<1>4. /\ ~ io.used[i] => io.pipe[i].fdCount = 0 /\ io.pipe[i].bufferIndex = 0
      /\ io.used[i] => io.pipe[i].fdCount = 2 + InTwice(i) + OutTwice(i)
  BY DEF Plumbed, Counted
<1>5. /\ io'.pipe[i].fdCount = IF i = k THEN io.pipe[i].fdCount + d ELSE io.pipe[i].fdCount
      /\ io'.pipe[i].bufferIndex = io.pipe[i].bufferIndex
  BY DEF Recounted, SameBytes
<1>6. CASE i # k
  <2>1. i \notin Links(p)
    BY <1>6
  <2>2. InTwice(i)' = InTwice(i) /\ OutTwice(i)' = OutTwice(i)
    BY <1>2, <2>1 DEF InTwice, OutTwice
  <2> QED BY <1>4, <1>5, <1>6, <2>2
<1>7. CASE i = k
  <2>1. i \in Links(p) /\ io.used[i]
    <3>1. i \in Links(p)
      BY <1>7 DEF Pipes, Null
    <3> QED BY <1>1, <3>1 DEF Plumbed, LinksInUse
  <2>2. \A q \in Pids \ {p} : /\ i \in Links(q)' <=> i \in Links(q)
                              /\ proc'[q].at = proc[q].at
                              /\ at \in Inside /\ proc[q].at \in InClose => i \notin Links(q)
                              /\ at \in Outside /\ proc[q].at = "out_close_0" => i \notin Links(q)
    BY <1>2, <1>3, <2>1
  <2>3. i \in Links(p)'
    BY <2>1
  <2>4. InTwice(i) \in Int /\ OutTwice(i) \in Int /\ InTwice(i)' \in Int /\ OutTwice(i)' \in Int
    BY DEF InTwice, OutTwice
  <2>5. io.pipe[i].fdCount = 2 + InTwice(i) + OutTwice(i)
    BY <1>4, <2>1
  <2>6. InTwice(i)' + OutTwice(i)' = InTwice(i) + OutTwice(i) + d
    <3>1. CASE at \in Inside
      <4>1. InTwice(i) = IF at \in InClose THEN 1 ELSE 0
        BY <2>1, <2>2, <3>1 DEF InTwice, InClose
      <4>2. InTwice(i)' = IF next \in InClose THEN 1 ELSE 0
        BY <2>2, <2>3, <3>1 DEF InTwice, InClose
      <4>3. at \notin {"out_dup2", "out_close_0"} /\ next # "out_close_0" /\ "in_dup2" \notin InClose
        BY <1>0, <3>1 DEF Inside, InClose
      <4>4. OutTwice(i)' = OutTwice(i)
        BY <2>2, <4>3 DEF OutTwice
      <4>5. InTwice(i)' = InTwice(i) + d
        BY <1>0, <4>1, <4>2, <4>3
      <4> QED BY <2>4, <4>4, <4>5
    <3>2. CASE at \in Outside
      <4>1. OutTwice(i) = IF at = "out_close_0" THEN 1 ELSE 0
        BY <2>1, <2>2, <3>2 DEF OutTwice
      <4>2. OutTwice(i)' = IF next = "out_close_0" THEN 1 ELSE 0
        BY <2>2, <2>3, <3>2 DEF OutTwice
      <4>3. at \notin InClose /\ at # "in_dup2" /\ next \notin InClose
        BY <1>0, <3>2 DEF Outside, InClose
      <4>4. InTwice(i)' = InTwice(i)
        BY <2>2, <4>3 DEF InTwice, InClose
      <4>5. OutTwice(i)' = OutTwice(i) + d
        BY <1>0, <4>1, <4>2, <4>3
      <4> QED BY <2>4, <4>4, <4>5
    <3> QED BY <1>3, <3>1, <3>2
  <2>7. io'.pipe[i].fdCount = 2 + InTwice(i)' + OutTwice(i)'
    BY <1>5, <1>7, <2>4, <2>5, <2>6
  <2> QED BY <2>1, <2>7
<1> QED BY <1>6, <1>7

-----------------------------------------------------------------------------
(* Process q is as far into T2 as it was.                                  *)
SameRing(q) ==
  /\ proc'[q].at \in Starting => proc[q].at \in Starting
  /\ proc'[q].at \in First => proc[q].at \in First
  /\ proc'[q].at \in Second => proc[q].at \in Second
  /\ proc'[q].at \in Third => proc[q].at \in Third
  /\ proc'[q].at = "T2_fork_2" => proc[q].at = "T2_fork_2"
  /\ proc'[q].at \in Ring => io'.fdt[q] = io.fdt[q]

LEMMA RingKept ==
  ASSUME Plumbed, typed \subseteq typed', \A q \in Pids : SameRing(q)
  PROVE  OneRing'
<1>1. OneRing
  BY DEF Plumbed
<1>2. ASSUME NEW q \in Pids, proc'[q].at \in Starting \cup Ring
      PROVE  <<"T2">> \in typed'
  BY <1>1, <1>2 DEF OneRing, SameRing, Ring
<1>3. ASSUME NEW q \in Pids, NEW r \in Pids, q # r
      PROVE  /\ proc'[q].at \in Starting => proc'[r].at \notin Starting \cup Ring
             /\ ~ {proc'[q].at, proc'[r].at} \subseteq First
             /\ ~ {proc'[q].at, proc'[r].at} \subseteq Second
             /\ ~ {proc'[q].at, proc'[r].at} \subseteq Third
             /\ proc'[q].at = "T2_fork_2" => proc'[r].at \notin Third
             /\ proc'[q].at \in Ring /\ proc'[r].at \in Ring => io'.fdt[q] = io'.fdt[r]
  BY <1>1, <1>3 DEF OneRing, SameRing, Ring
<1> QED BY <1>2, <1>3 DEF OneRing

LEMMA SameRingIs ==
  ASSUME NEW q
  PROVE  /\ Untouched(q) => SameRing(q)
         /\ proc'[q].at \notin Starting \cup Ring => SameRing(q)
<1>1. Untouched(q) => SameRing(q)
  BY DEF Untouched, SameRing
<1>2. ASSUME proc'[q].at \notin Starting \cup Ring
      PROVE  SameRing(q)
  <2>1. /\ proc'[q].at \notin Starting /\ proc'[q].at \notin First /\ proc'[q].at \notin Second
        /\ proc'[q].at \notin Third /\ proc'[q].at # "T2_fork_2" /\ proc'[q].at \notin Ring
    BY <1>2 DEF Ring, Second
  <2> QED BY <2>1 DEF SameRing
<1> QED BY <1>1, <1>2

(* What has to be shown of a step of one process.                          *)
LEMMA PlumbedMoves ==
  ASSUME Plumbed, NEW p \in Live, \A q \in Pids \ {p} : Untouched(q), Typed',
         typed \subseteq typed', Counted', SameRing(p), Shaped(p)',
         \A k \in Pipes : io.used[k] => io'.used[k],
         p \in Live' => /\ SidesKept(p, p)
                        /\ \A k \in Links(p)' : k \in Links(p) \/ (k \in Pipes /\ ~ io.used[k] /\ io'.used[k])
  PROVE  Plumbed'
<1>1. LinksInUse' /\ Apart'
  BY LinksKept
<1>2. OneRing'
  <2>1. \A q \in Pids : SameRing(q)
    BY SameRingIs
  <2> QED BY <2>1, RingKept
<1>3. \A q \in Pids : Shaped(q)'
  <2>1. ASSUME NEW q \in Pids, q # p
        PROVE  Shaped(q)'
    <3>1. Untouched(q) /\ Shaped(q)
      BY <2>1 DEF Plumbed
    <3> QED BY <3>1, UntouchedIs
  <2> QED BY <2>1
<1> QED BY <1>1, <1>2, <1>3 DEF Plumbed

(* The process record after a step.                                        *)
Becomes(p, at, ends, x, i) ==
  /\ proc' \in [Pids -> Process] /\ \A q \in Pids \ {p} : proc'[q] = proc[q]
  /\ proc'[p].at = at /\ proc'[p].ends = ends /\ proc'[p].x = x /\ proc'[p].i = i
  /\ proc'[p].cmd = proc[p].cmd

LEMMA ProcessIs ==
  ASSUME proc \in [Pids -> Process], NEW p \in Pids
  PROVE  /\ proc[p] \in Process /\ proc[p].at \in Places /\ proc[p].cmd \in Seq(Words)
         /\ proc[p].ends \in Seq([r : Nat, w : Nat]) /\ proc[p].x \in Nat /\ proc[p].i \in 0 .. Rounds
<1>1. proc[p] \in Process
  OBVIOUS
<1> QED BY <1>1 DEF Process

Changed(s, at, ends, x, i) == [s EXCEPT !.at = at, !.ends = ends, !.x = x, !.i = i]

LEMMA ChangedIs ==
  ASSUME NEW s \in Process, NEW at \in Places,
         NEW ends \in Seq([r : Nat, w : Nat]), NEW x \in Nat, NEW i \in 0 .. Rounds
  PROVE  /\ Changed(s, at, ends, x, i) \in Process /\ Changed(s, at, ends, x, i).at = at
         /\ Changed(s, at, ends, x, i).ends = ends /\ Changed(s, at, ends, x, i).x = x
         /\ Changed(s, at, ends, x, i).i = i /\ Changed(s, at, ends, x, i).cmd = s.cmd
  BY DEF Changed, Process

LEMMA BecomesIs ==
  ASSUME proc \in [Pids -> Process], NEW p \in Pids, NEW at \in Places,
         NEW ends \in Seq([r : Nat, w : Nat]), NEW x \in Nat, NEW i \in 0 .. Rounds,
         proc' = [proc EXCEPT ![p] = Changed(proc[p], at, ends, x, i)]
  PROVE  Becomes(p, at, ends, x, i)
<1> DEFINE s == Changed(proc[p], at, ends, x, i)
<1>1. proc[p] \in Process
  OBVIOUS
<1>2. /\ s \in Process /\ s.at = at /\ s.ends = ends /\ s.x = x /\ s.i = i /\ s.cmd = proc[p].cmd
  BY <1>1, ChangedIs
<1> HIDE DEF s
<1>3. proc' \in [Pids -> Process] /\ proc'[p] = s /\ \A q \in Pids \ {p} : proc'[q] = proc[q]
  BY <1>2 DEF s
<1> QED BY <1>2, <1>3 DEF Becomes

LEMMA GotoIs ==
  ASSUME proc \in [Pids -> Process], NEW p \in Pids, NEW at \in Places, Goto(p, at)
  PROVE  Becomes(p, at, proc[p].ends, proc[p].x, proc[p].i)
<1> DEFINE s == proc[p]
<1>1. s \in Process
  OBVIOUS
<1>2. [s EXCEPT !.at = at] = Changed(s, at, s.ends, s.x, s.i)
  BY <1>1 DEF Process, Changed
<1>3. proc' = [proc EXCEPT ![p] = Changed(s, at, s.ends, s.x, s.i)]
  BY <1>2 DEF Goto
<1> QED BY <1>3, ProcessIs, BecomesIs

-----------------------------------------------------------------------------
(* Calls that move bytes.                                                  *)
LEMMA MovingKeeps ==
  ASSUME Plumbed, NEW p \in Live, NEW fd \in Fds, Moves(io, io', p, fd), typed' = typed,
         NEW w, NEW ends, NEW x, NEW i, Becomes(p, w, ends, x, i),
         proc[p].at \notin Arranging, w \notin Arranging,
         InRing(p) => InRing(p)', SameRing(p), Shaped(p)'
  PROVE  Plumbed'
<1>1. /\ p \in Pids /\ io \in Tables /\ proc \in [Pids -> Process] /\ Shaped(p) /\ proc[p].at \in Busy
      /\ typed \subseteq Commands
  BY LiveIs DEF Live, Plumbed, Typed
<1>2. /\ io' \in Tables /\ io'.fdt = io.fdt /\ io'.used = io.used
      /\ \A j \in Pipes : io'.pipe[j].fdCount = io.pipe[j].fdCount
      /\ \A j \in Pipes : j # io.fdt[p][fd].pipe => io'.pipe[j] = io.pipe[j]
  BY DEF Moves
<1>3. /\ proc' \in [Pids -> Process] /\ \A q \in Pids \ {p} : proc'[q] = proc[q]
      /\ proc'[p].at = w
  BY DEF Becomes
<1>4. Typed' /\ \A q \in Pids \ {p} : Untouched(q)
  BY <1>1, <1>2, <1>3 DEF Typed, Untouched
<1>5. \A q \in Pids : Links(q)' = Links(q)
  BY <1>2 DEF Links
<1>6. Counted'
  <2>1. \A k \in Pipes : ~ io.used[k] => io'.pipe[k].bufferIndex = io.pipe[k].bufferIndex
    <3>1. io.fdt[p][fd].pipe \in Links(p) \cup {Null}
      BY <1>1, EndsAreLinks
    <3>2. \A k \in Pipes : ~ io.used[k] => k \notin Links(p) /\ k # Null
      BY DEF Plumbed, LinksInUse, Pipes, Null
    <3> QED BY <1>2, <3>1, <3>2
  <2>2. \A q \in Pids : /\ proc'[q].at \in InClose <=> proc[q].at \in InClose
                        /\ proc'[q].at = "out_close_0" <=> proc[q].at = "out_close_0"
    <3>1. /\ proc[p].at \notin InClose /\ proc[p].at # "out_close_0"
          /\ w \notin InClose /\ w # "out_close_0"
      BY DEF Arranging, InClose
    <3> QED BY <1>3, <3>1
  <2>3. \A q \in Pids : Links(q)' = Links(q)
    BY <1>5
  <2> QED BY <1>2, <2>1, <2>2, <2>3, CountedKept
<1>7. SidesKept(p, p)
  <2>1. proc[p].at # "in_dup2" /\ proc[p].at # "out_dup2"
    BY DEF Arranging, Paired
  <2> QED BY <1>2, <2>1 DEF SidesKept, Reader, Writer
<1>8. /\ typed \subseteq typed' /\ \A k \in Pipes : io.used[k] => io'.used[k]
      /\ \A k \in Links(p)' : k \in Links(p)
  BY <1>1, <1>2, <1>5
<1> QED BY <1>4, <1>6, <1>7, <1>8, PlumbedMoves

LEMMA PlumbedIs ==
  ASSUME Plumbed, NEW p \in Pids, proc[p].at # "free"
  PROVE  /\ p \in Live /\ io \in Tables /\ proc \in [Pids -> Process] /\ Shaped(p)
         /\ proc[p].at \in Busy /\ typed \subseteq Commands /\ proc[p] \in Process
<1>1. p \in Live /\ io \in Tables /\ proc \in [Pids -> Process] /\ Shaped(p) /\ typed \subseteq Commands
  BY DEF Plumbed, Typed, Live
<1> QED BY <1>1, LiveIs, ProcessIs

(* A step of p that leaves the ring alone, p not being part of it after.   *)
Leaves(p) ==
  /\ \A q \in Pids \ {p} : Untouched(q)
  /\ proc'[p].at \notin Starting \cup Ring
  /\ BytesKept \/ (~ InRing(p) /\ \A k \in Pipes : k \notin Links(p) /\ io.used[k] => SameBytes(k))

LEMMA MovesAside ==
  ASSUME io \in Tables, NEW p \in Pids, Shaped(p), proc[p].at \in Busy,
         NEW fd \in Fds, Moves(io, io', p, fd)
  PROVE  \A k \in Pipes : k \notin Links(p) => SameBytes(k)
<1>1. io.fdt[p][fd].pipe \in Links(p) \cup {Null} /\ Null \notin Pipes
  BY EndsAreLinks DEF Null, Pipes
<1>2. \A k \in Pipes : k \notin Links(p) => io'.pipe[k] = io.pipe[k]
  BY <1>1 DEF Moves
<1> QED BY <1>2 DEF SameBytes

LEMMA QuietKeeps ==
  ASSUME Plain, Plumbed, NEW p \in Pids, (T0(p) /\ ~ At(p, "T_exit")) \/ T1(p) \/ T3(p) \/ P3(p), typed' = typed
  PROVE  Plumbed' /\ Leaves(p)
<1> DEFINE at == proc[p].at
           w == proc'[p].at
<1>1. /\ at \in {"T0", "T1", "T3", "P3_writer", "P3_reader"}
      /\ \/ at = "T0" /\ Goto(p, "T_exit")
         \/ at \in {"T1", "T3"} /\ Goto(p, "T0")
         \/ at \in {"P3_writer", "P3_reader"} /\ proc' = proc
      /\ io' = write(io, p, 1, <<1>>) \/ io' = read(io, p, 0, 1)
  BY DEF T0, T1, T3, P3, At
<1>2. at # "free"
  BY <1>1
<1>3. /\ p \in Live /\ io \in Tables /\ proc \in [Pids -> Process] /\ Shaped(p) /\ proc[p] \in Process
  BY <1>2, PlumbedIs
<1>4. PICK fd \in Fds : Moves(io, io', p, fd)
  <2>1. <<1>> \in Seq(Bytes)
    BY DEF Plain
  <2> QED BY <1>1, <1>3, <2>1, SmallFds, WriteMoves, ReadMoves
<1>5. /\ Becomes(p, w, proc[p].ends, proc[p].x, proc[p].i)
      /\ \/ at = "T0" /\ w = "T_exit"
         \/ at \in {"T1", "T3"} /\ w = "T0"
         \/ at \in {"P3_writer", "P3_reader"} /\ w = at
  <2>1. "T_exit" \in Places /\ "T0" \in Places
    BY DEF Places, Quiet
  <2>2. CASE at = "T0" /\ Goto(p, "T_exit")
    <3>1. Becomes(p, "T_exit", proc[p].ends, proc[p].x, proc[p].i)
      BY <1>3, <2>1, <2>2, GotoIs
    <3> QED BY <2>2, <3>1 DEF Becomes
  <2>3. CASE at \in {"T1", "T3"} /\ Goto(p, "T0")
    <3>1. Becomes(p, "T0", proc[p].ends, proc[p].x, proc[p].i)
      BY <1>3, <2>1, <2>3, GotoIs
    <3> QED BY <2>3, <3>1 DEF Becomes
  <2>4. CASE at \in {"P3_writer", "P3_reader"} /\ proc' = proc
    BY <1>3, <2>4 DEF Becomes
  <2> QED BY <1>1, <2>2, <2>3, <2>4
<1> HIDE DEF at, w
<1>6. at \notin Arranging /\ w \notin Arranging /\ w \notin Starting \cup Ring /\ at \notin Ring
  BY <1>1, <1>5 DEF Arranging, Paired, Starting, Ring, First, Second, Third
<1>7. SameRing(p) /\ (InRing(p) => InRing(p)')
  BY <1>1, <1>6, SameRingIs DEF InRing, at, w
<1>8. Shaped(p)'
  <2>1. proc'[p].ends = proc[p].ends /\ proc'[p].at = w /\ io'.fdt = io.fdt
    BY <1>4, <1>5 DEF Becomes, Moves
  <2>2. /\ at \in Quiet => /\ io.fdt[p] \in {Console, InDone(io.fdt[p][2].pipe), OutDone(io.fdt[p][2].pipe)}
                           /\ Len(proc[p].ends) < 3
        /\ at = "P3_writer" => io.fdt[p] = OutDone(io.fdt[p][2].pipe)
        /\ at = "P3_reader" => io.fdt[p] = InDone(io.fdt[p][2].pipe)
    BY <1>3 DEF Shaped, Shape, at
  <2>3. Len(proc[p].ends) \in Nat
    BY <1>3, ProcessIs
  <2>4. \/ at \in Quiet /\ w \in {"T_exit", "T0"}
        \/ at = "P3_writer" /\ w = "P3_writer"
        \/ at = "P3_reader" /\ w = "P3_reader"
    BY <1>5 DEF Quiet
  <2>5. Len(proc[p].ends) # 3 \/ at \notin Quiet
    <3> DEFINE n == Len(proc[p].ends)
    <3>1. n \in Nat /\ (at \in Quiet => n < 3)
      BY <2>2, <2>3
    <3> HIDE DEF n
    <3>2. n # 3 \/ at \notin Quiet
      BY <3>1
    <3> QED BY <3>2 DEF n
  <2>6. "T0" \in Quiet
    BY DEF Quiet
  <2>7. Shape(proc'[p], io'.fdt[p])
    BY <2>1, <2>2, <2>4, <2>5, <2>6, PlainShape
  <2> QED BY <2>7 DEF Shaped
<1>9. proc[p].at \notin Arranging
  BY <1>6 DEF at
<1>10. Plumbed'
  BY <1>3, <1>4, <1>5, <1>6, <1>7, <1>8, <1>9, MovingKeeps
<1>11. Leaves(p)
  <2>1. \A q \in Pids \ {p} : Untouched(q)
    BY <1>4, <1>5 DEF Untouched, Becomes, Moves
  <2>2. ~ InRing(p)
    BY <1>1, <1>6 DEF InRing, at
  <2>3. proc[p].at \in Busy
    BY <1>2, PlumbedIs DEF at
  <2>4. \A k \in Pipes : k \notin Links(p) => SameBytes(k)
    BY <1>3, <1>4, <2>3, MovesAside
  <2> QED BY <1>6, <2>1, <2>2, <2>4 DEF Leaves, w
<1> QED BY <1>10, <1>11

-----------------------------------------------------------------------------
(* The two sides of a pipeline arranging their descriptors.                *)
LEMMA ArrangingShape ==
  ASSUME NEW s, NEW t, NEW k, k = t[2].pipe, s.ends = <<Pair(2)>>,
         s.cmd[1] \in Quiet \cup {"P3_writer"}, s.cmd[2] \in Quiet \cup {"P3_reader"},
         \/ s.at \in Paired /\ t = Both(k)
         \/ s.at \in InClose /\ t = InHalf(k)
         \/ s.at = "out_close_0" /\ t = OutHalf(k)
         \/ s.at = "out_close_1" /\ t = OutDone(k)
  PROVE  Shape(s, t)
<1>1. /\ s.at \notin Begin /\ s.at # "pipeline" /\ s.at \notin Quiet /\ s.at \notin Ring \cup {"T2_fork_1"}
      /\ s.at \notin {"P3_writer", "P3_reader", "T_exit", "T2_pipe_2", "T2_pipe_3", "T2_fork_1"}
  BY DEF Begin, Paired, InClose, Quiet, Ring, First, Second, Third
<1>2. /\ s.at \in Paired => t = Both(k)
      /\ s.at \in {"in_close_0", "in_close_1"} => t = InHalf(k)
      /\ s.at = "out_close_0" => t = OutHalf(k)
      /\ s.at = "out_close_1" => t = OutDone(k)
  BY DEF Paired, InClose
<1> QED BY <1>1, <1>2 DEF Shape

(* Where the process stands before the step: pair k, in use, counted twice *)
(* or more.                                                                *)
LEMMA ArrangingIs ==
  ASSUME Plumbed, NEW p \in Pids, proc[p].at \in Arranging, NEW k, k = io.fdt[p][2].pipe
  PROVE  /\ p \in Live /\ io \in Tables /\ proc \in [Pids -> Process]
         /\ k \in Pipes \cup {Null}
         /\ proc[p].at \in Paired => io.fdt[p] = Both(k)
         /\ proc[p].at \in InClose => io.fdt[p] = InHalf(k)
         /\ proc[p].at = "out_close_0" => io.fdt[p] = OutHalf(k)
         /\ proc[p].at = "out_close_1" => io.fdt[p] = OutDone(k)
         /\ Links(p) = {k} \ {Null}
         /\ proc[p].ends = <<Pair(2)>> /\ Len(proc[p].ends) = 1
         /\ proc[p].ends[1].r = 2 /\ proc[p].ends[1].w = 3
         /\ proc[p].cmd[1] \in Quiet \cup {"P3_writer"}
         /\ proc[p].cmd[2] \in Quiet \cup {"P3_reader"}
         /\ k # Null => io.pipe[k].fdCount >= 2
<1>1. proc[p].at # "free"
  BY DEF Arranging, Paired
<1>2. /\ p \in Live /\ io \in Tables /\ proc \in [Pids -> Process] /\ Shaped(p)
  BY <1>1, PlumbedIs
<1>3. k \in Pipes \cup {Null}
  BY <1>2, LinkedPipes
<1>4. /\ proc[p].at \in Paired => io.fdt[p] = Both(k)
      /\ proc[p].at \in InClose => io.fdt[p] = InHalf(k)
      /\ proc[p].at = "out_close_0" => io.fdt[p] = OutHalf(k)
      /\ proc[p].at = "out_close_1" => io.fdt[p] = OutDone(k)
      /\ proc[p].ends = <<Pair(2)>>
      /\ proc[p].cmd[1] \in Quiet \cup {"P3_writer"}
      /\ proc[p].cmd[2] \in Quiet \cup {"P3_reader"}
  BY <1>2 DEF Shaped, Shape, InClose
<1>5. io.fdt[p] \in {Both(k), InHalf(k), InDone(k), OutHalf(k), OutDone(k)}
  BY <1>4 DEF Arranging, InClose
<1>6. Links(p) = {k} \ {Null}
  BY <1>3, <1>5, PairTables DEF Links
<1>7. proc[p].ends[1] = Pair(2) /\ Pair(2).r = 2 /\ Pair(2).w = 3 /\ Len(<<Pair(2)>>) = 1
  BY <1>4 DEF Pair
<1>8. ASSUME k # Null
      PROVE  io.pipe[k].fdCount >= 2
  <2>1. k \in Pipes /\ k \in Links(p)
    BY <1>3, <1>6, <1>8
  <2>2. io.used[k]
    BY <1>2, <2>1 DEF Plumbed, LinksInUse
  <2>3. io.pipe[k].fdCount = 2 + InTwice(k) + OutTwice(k)
    BY <2>1, <2>2 DEF Plumbed, Counted
  <2>4. InTwice(k) \in Nat /\ OutTwice(k) \in Nat
    BY DEF InTwice, OutTwice
  <2> QED BY <2>3, <2>4
<1> QED BY <1>2, <1>3, <1>4, <1>6, <1>7, <1>8

LEMMA ArrangingKeeps ==
  ASSUME Plumbed, NEW p \in Pids, proc[p].at \in Arranging, typed' = typed,
         NEW w \in Places, Becomes(p, w, proc[p].ends, proc[p].x, proc[p].i), w \notin Starting \cup Ring,
         NEW k, k = io.fdt[p][2].pipe, NEW t \in [Fds -> Descriptor], LinksOf(t) = {k} \ {Null},
         io' \in Tables, io'.fdt = [io.fdt EXCEPT ![p] = t], io'.used = io.used,
         \/ proc[p].at \in Inside /\ t[0].type = "PIPE"
         \/ proc[p].at \in Outside /\ t[1].type = "PIPE",
         Counted', Shape(proc'[p], t)
  PROVE  Plumbed'
<1>1. proc[p].at # "free"
  BY DEF Arranging, Paired
<1>2. /\ p \in Live /\ io \in Tables /\ Shaped(p) /\ proc[p].at \in Busy /\ typed \subseteq Commands
  BY <1>1, PlumbedIs
<1>3. /\ proc' \in [Pids -> Process] /\ \A q \in Pids \ {p} : proc'[q] = proc[q]
      /\ proc'[p].at = w
  BY DEF Becomes
<1>4. /\ io'.fdt[p] = t /\ \A q \in Pids \ {p} : io'.fdt[q] = io.fdt[q]
  BY <1>2, TablesFields
<1>5. Typed' /\ \A q \in Pids \ {p} : Untouched(q)
  BY <1>2, <1>3, <1>4 DEF Typed, Untouched
<1>6. SameRing(p) /\ Shaped(p)'
  BY <1>3, <1>4, SameRingIs DEF Shaped
<1>7. Links(p)' = Links(p)
  BY <1>4, ArrangingIs DEF Links
<1>8. SidesKept(p, p)
  <2>1. /\ proc[p].at \in Inside => Reader(p)' /\ ~ Writer(p) /\ ~ InRing(p)
        /\ proc[p].at \in Outside => Writer(p)' /\ ~ Reader(p) /\ ~ InRing(p)
    <3>1. /\ proc[p].at \in Inside => Reader(p)
          /\ proc[p].at \in Outside => Writer(p)
          /\ Reader(p) => ~ Writer(p) /\ ~ InRing(p)
          /\ Writer(p) => ~ InRing(p)
      BY <1>2, OneSide
    <3>2. \/ proc[p].at \in Inside /\ Reader(p)'
          \/ proc[p].at \in Outside /\ Writer(p)'
      BY <1>4 DEF Reader, Writer
    <3>3. proc[p].at \in Inside => proc[p].at \notin Outside
      BY DEF Inside, Outside
    <3> QED BY <3>1, <3>2, <3>3
  <2> QED BY <2>1 DEF SidesKept
<1>9. /\ typed \subseteq typed' /\ \A i \in Pipes : io.used[i] => io'.used[i]
      /\ \A i \in Links(p)' : i \in Links(p)
  BY <1>7
<1> QED BY <1>2, <1>5, <1>6, <1>8, <1>9, PlumbedMoves

LEMMA RecountedIs ==
  ASSUME io \in Tables, NEW k \in Pipes \cup {Null}, NEW d \in Int, io'.pipe = Bumped(io.pipe, k, d)
  PROVE  Recounted(k, d)
<1>1. io.pipe \in [Pipes -> PipeRecord]
  BY TablesFields
<1>2. \A j \in Pipes :
        /\ io'.pipe[j].fdCount = IF j = k THEN io.pipe[j].fdCount + d ELSE io.pipe[j].fdCount
        /\ io'.pipe[j].bufferIndex = io.pipe[j].bufferIndex
        /\ io'.pipe[j].buffer = io.pipe[j].buffer
  <2> DEFINE pipe == io.pipe
  <2>1. io'.pipe = Bumped(pipe, k, d) /\ pipe \in [Pipes -> PipeRecord]
    BY <1>1
  <2> HIDE DEF pipe
  <2>2. \A j \in Pipes :
          /\ io'.pipe[j].fdCount = IF j = k THEN pipe[j].fdCount + d ELSE pipe[j].fdCount
          /\ io'.pipe[j].bufferIndex = pipe[j].bufferIndex
          /\ io'.pipe[j].buffer = pipe[j].buffer
    BY ONLY k \in Pipes \cup {Null}, d \in Int, <2>1, BumpedIs
  <2> QED BY <2>2 DEF pipe
<1> QED BY <1>2 DEF Recounted, SameBytes

(* A step of p that arranges its descriptors.                              *)
Arranges(p) ==
  /\ \A q \in Pids \ {p} : Untouched(q)
  /\ BytesKept
  /\ Links(p)' = Links(p) /\ proc'[p].cmd = proc[p].cmd
  /\ proc[p].at \in Inside => io'.fdt[p][1].type = "STDO"
  /\ io'.used = io.used
  /\ LET k == io.fdt[p][2].pipe
     IN  /\ io'.fdt[p] \in {InHalf(k), InDone(k), OutHalf(k), OutDone(k)}
         /\ k # Null => io'.fault = io.fault

(* A table the process gets, and how a move changes what it counts for.    *)
Arranged(at, t, k) == \/ at \in Inside /\ t \in {InHalf(k), InDone(k)}
                      \/ at \in Outside /\ t \in {OutHalf(k), OutDone(k)}
CountsBy(at, next, d) == \/ /\ d = 0 /\ (at \in InClose <=> next \in InClose)
                            /\ at # "out_close_0" /\ next # "out_close_0"
                         \/ Doubles(at, next, d)

LEMMA PlumbDone ==
  ASSUME Plumbed, NEW p \in Pids, proc[p].at \in Arranging, typed' = typed,
         NEW w \in Places, Goto(p, w), w \notin Starting \cup Ring,
         NEW k, k = io.fdt[p][2].pipe, NEW t, Arranged(proc[p].at, t, k),
         io' \in Tables, io'.fdt = [io.fdt EXCEPT ![p] = t], io'.used = io.used,
         k # Null => io'.fault = io.fault,
         NEW d \in Int, Recounted(k, d), CountsBy(proc[p].at, w, d), Shape(proc'[p], t)
  PROVE  Plumbed' /\ Leaves(p) /\ Arranges(p)
<1>1. /\ p \in Live /\ io \in Tables /\ proc \in [Pids -> Process] /\ k \in Pipes \cup {Null}
      /\ Links(p) = {k} \ {Null}
  BY ArrangingIs
<1>2. /\ t \in {InHalf(k), InDone(k), OutHalf(k), OutDone(k)}
      /\ \/ proc[p].at \in Inside /\ t \in {InHalf(k), InDone(k)}
         \/ proc[p].at \in Outside /\ t \in {OutHalf(k), OutDone(k)}
  BY DEF Arranged
<1>3. t \in [Fds -> Descriptor] /\ LinksOf(t) = {k} \ {Null}
  BY <1>1, <1>2, PairTables
<1>4. \/ proc[p].at \in Inside /\ t[0].type = "PIPE" /\ t[1].type = "STDO"
      \/ proc[p].at \in Outside /\ t[1].type = "PIPE"
  BY <1>1, <1>2, Sides
<1>5. Becomes(p, w, proc[p].ends, proc[p].x, proc[p].i)
  BY <1>1, GotoIs
<1>6. io'.fdt[p] = t /\ \A q \in Pids \ {p} : io'.fdt[q] = io.fdt[q]
  BY <1>1, TablesFields
<1>7. proc'[p].at = w /\ \A q \in Pids \ {p} : proc'[q] = proc[q]
  BY <1>5 DEF Becomes
<1>8. \A q \in Pids \ {p} : Untouched(q)
  BY <1>6, <1>7 DEF Untouched
<1>9. Links(p)' = Links(p)
  BY <1>1, <1>3, <1>6 DEF Links
<1>10. \A j \in Pipes : /\ io'.pipe[j].fdCount = IF j = k THEN io.pipe[j].fdCount + d
                                                          ELSE io.pipe[j].fdCount
                        /\ io'.pipe[j].bufferIndex = io.pipe[j].bufferIndex
  BY DEF Recounted, SameBytes
<1>11. Counted'
  <2>1. CASE /\ d = 0 /\ (proc[p].at \in InClose <=> w \in InClose)
             /\ proc[p].at # "out_close_0" /\ w # "out_close_0"
    <3>1. \A q \in Pids : /\ proc'[q].at \in InClose <=> proc[q].at \in InClose
                          /\ proc'[q].at = "out_close_0" <=> proc[q].at = "out_close_0"
      BY <1>7, <2>1
    <3>2. \A q \in Pids : Links(q)' = Links(q)
      BY <1>8, <1>9, UntouchedIs
    <3>3. \A j \in Pipes : io.pipe[j].fdCount \in Int
      BY <1>1, PipeFields
    <3>4. \A j \in Pipes : io'.pipe[j].fdCount = io.pipe[j].fdCount
      BY <1>10, <2>1, <3>3
    <3> QED BY <1>10, <3>1, <3>2, <3>4, CountedKept
  <2>2. CASE Doubles(proc[p].at, w, d)
    <3>1. Doubles(proc[p].at, proc'[p].at, d)
      BY <1>7, <2>2
    <3> QED BY <1>1, <1>8, <1>9, <3>1, CountedMoved
  <2> QED BY <2>1, <2>2 DEF CountsBy
<1>12. Plumbed'
  BY <1>1, <1>3, <1>4, <1>5, <1>11, ArrangingKeeps
<1>13. BytesKept
  BY DEF Recounted, BytesKept
<1>14. proc[p].at \in Inside => t[1].type = "STDO"
  BY <1>4 DEF Inside, Outside
<1>15. Arranges(p)
  BY <1>2, <1>5, <1>6, <1>8, <1>9, <1>13, <1>14 DEF Arranges, Becomes
<1> QED BY <1>7, <1>8, <1>12, <1>13, <1>15 DEF Leaves

LEMMA PlumbKeeps ==
  ASSUME Plumbed, NEW p \in Pids, Plumb(p), typed' = typed,
         NEW at, at = proc[p].at, NEW k, k = io.fdt[p][2].pipe
  PROVE  Plumbed' /\ Leaves(p) /\ Arranges(p)
<1> DEFINE rd == End("READ", k)
           r0 == Closed("READ", k)
           wr == End("WRITE", k)
           w0 == Closed("WRITE", k)
<1>1. /\ at \in Arranging /\ at # "plumb"
      /\ \/ at = "in_dup2" /\ io' = dup2kernel(io, p, 0, proc[p].ends[1].r) /\ Goto(p, "in_close_0")
         \/ at = "in_close_0" /\ io' = close_kernel(io, p, proc[p].ends[1].r) /\ Goto(p, "in_close_1")
         \/ at = "in_close_1" /\ io' = close_kernel(io, p, proc[p].ends[1].w) /\ Goto(p, proc[p].cmd[2])
         \/ at = "out_dup2" /\ io' = dup2kernel(io, p, 1, proc[p].ends[1].w) /\ Goto(p, "out_close_0")
         \/ at = "out_close_0" /\ io' = close_kernel(io, p, proc[p].ends[1].r) /\ Goto(p, "out_close_1")
         \/ at = "out_close_1" /\ io' = close_kernel(io, p, proc[p].ends[1].w) /\ Goto(p, proc[p].cmd[1])
  BY DEF Plumb, At, Arranging, Paired
<1>2. /\ p \in Live /\ io \in Tables /\ proc \in [Pids -> Process]
      /\ k \in Pipes \cup {Null}
      /\ at \in Paired => io.fdt[p] = Both(k)
      /\ at \in InClose => io.fdt[p] = InHalf(k)
      /\ at = "out_close_0" => io.fdt[p] = OutHalf(k)
      /\ at = "out_close_1" => io.fdt[p] = OutDone(k)
      /\ proc[p].ends[1].r = 2 /\ proc[p].ends[1].w = 3
      /\ proc[p].ends = <<Pair(2)>> /\ Len(proc[p].ends) = 1
      /\ proc[p].cmd[1] \in Quiet \cup {"P3_writer"}
      /\ proc[p].cmd[2] \in Quiet \cup {"P3_reader"}
      /\ k # Null => io.pipe[k].fdCount >= 2
  BY <1>1, ArrangingIs
<1>3. /\ Has(Both(k), Console[0], Console[1], rd, wr)
      /\ Has(InHalf(k), rd, Console[1], r0, wr)
      /\ Has(InDone(k), rd, Console[1], r0, w0)
      /\ Has(OutHalf(k), Console[0], wr, rd, w0)
      /\ Has(OutDone(k), Console[0], wr, r0, w0)
  BY <1>2, TablesAre
<1>4. /\ k # Null => io.pipe[k].fdCount >= 0 /\ io.pipe[k].fdCount # 1
      /\ 0 \in Fds /\ 1 \in Fds /\ 2 \in Fds /\ 3 \in Fds
      /\ ~ r0.active /\ ~ w0.active
  <2>1. k # Null => io.pipe[k].fdCount >= 0 /\ io.pipe[k].fdCount # 1
    <3>1. k # Null => io.pipe[k].fdCount \in Int
      BY <1>2, PipeFields
    <3> QED BY <1>2, <3>1
  <2> QED BY <1>2, <2>1, SmallFds, EndIs
<1>5. /\ {"in_close_0", "in_close_1", "out_close_0", "out_close_1", "P3_writer", "P3_reader"} \subseteq Places
      /\ Quiet \subseteq Places
      /\ {"in_close_0", "in_close_1", "out_close_0", "out_close_1", "P3_writer", "P3_reader"}
           \cap (Starting \cup Ring) = {}
      /\ Quiet \cap (Starting \cup Ring) = {}
  BY DEF Places, Arranging, Quiet, Starting, Ring, First, Second, Third
<1>6. \A w \in Quiet \cup {"P3_writer", "P3_reader"} : w \notin InClose /\ w # "out_close_0"
  BY DEF Quiet, InClose
<1>7. CASE at = "in_dup2"
  <2>1. io' = dup2kernel(io, p, 0, 2) /\ Goto(p, "in_close_0")
    BY <1>1, <1>2, <1>7
  <2>2. io.fdt[p] = Both(k) /\ io.fdt[p][2] = rd
    BY <1>2, <1>3, <1>7 DEF Has, Paired
  <2> DEFINE r == dup2kernel(io, p, 0, 2)
  <2>3. /\ r \in Tables /\ r.pipe = Bumped(io.pipe, k, 1) /\ r.used = io.used /\ (k # Null => r.fault = io.fault)
        /\ r.fdt = [io.fdt EXCEPT ![p] = [Both(k) EXCEPT ![0] = rd, ![2] = r0]]
    <3>1. /\ io \in Tables /\ p \in Pids /\ 0 \in Fds /\ 2 \in Fds /\ 0 # 2
          /\ k \in Pipes \cup {Null} /\ io.fdt[p][2] = rd
          /\ (k # Null => io.pipe[k].fdCount >= 0)
      <4> HIDE DEF rd, r0, wr, w0
      <4>1. k # Null => io.pipe[k].fdCount >= 0 /\ io.pipe[k].fdCount # 1
        BY <1>4
      <4>2. io \in Tables /\ p \in Pids /\ k \in Pipes \cup {Null}
        BY <1>2
      <4> QED BY ONLY <1>4, <2>2, <4>1, <4>2
    <3>2. /\ r \in Tables /\ r.pipe = Bumped(io.pipe, k, 1) /\ r.used = io.used /\ (k # Null => r.fault = io.fault)
          /\ r.fdt = [io.fdt EXCEPT ![p] = [@ EXCEPT ![0] = rd, ![2] = r0]]
      BY ONLY <3>1, Dup2Is
    <3> QED BY <2>2, <3>2
  <2>4. [Both(k) EXCEPT ![0] = rd, ![2] = r0] = InHalf(k)
    BY DEF InHalf
  <2> HIDE DEF r
  <2>5. /\ io' \in Tables /\ io'.used = io.used /\ (k # Null => io'.fault = io.fault)
        /\ Recounted(k, 1)
        /\ io'.fdt = [io.fdt EXCEPT ![p] = InHalf(k)]
    <3>1. /\ io' \in Tables /\ io'.used = io.used /\ io'.pipe = Bumped(io.pipe, k, 1)
          /\ (k # Null => io'.fault = io.fault)
          /\ io'.fdt = [io.fdt EXCEPT ![p] = InHalf(k)]
      BY <2>1, <2>3, <2>4 DEF r
    <3>2. io \in Tables /\ k \in Pipes \cup {Null} /\ 1 \in Int
      BY <1>2
    <3> QED BY ONLY <3>1, <3>2, RecountedIs
  <2>6. CountsBy(at, "in_close_0", 1) /\ Arranged(at, InHalf(k), k)
    BY <1>7 DEF CountsBy, Doubles, InClose, Arranged, Inside
  <2>7. Shape(proc'[p], InHalf(k))
    <3>1. proc'[p].at = "in_close_0" /\ proc'[p].ends = proc[p].ends /\ proc'[p].cmd = proc[p].cmd
      BY <1>2, <1>5, <2>1, GotoIs DEF Becomes
    <3>2. InHalf(k)[2].pipe = k
      BY <1>2, PairTables
    <3> QED BY <1>2, <3>1, <3>2, ArrangingShape DEF InClose
  <2>8. /\ Plumbed /\ p \in Pids /\ proc[p].at \in Arranging /\ typed' = typed
        /\ "in_close_0" \in Places /\ Goto(p, "in_close_0") /\ "in_close_0" \notin Starting \cup Ring
        /\ k = io.fdt[p][2].pipe /\ Arranged(proc[p].at, InHalf(k), k)
        /\ CountsBy(proc[p].at, "in_close_0", 1) /\ 1 \in Int
    BY <1>1, <1>2, <1>5, <2>1, <2>6
  <2> QED BY ONLY <2>5, <2>7, <2>8, PlumbDone
<1>8. CASE at = "in_close_0"
  <2>1. io' = close_kernel(io, p, 2) /\ Goto(p, "in_close_1")
    BY <1>1, <1>2, <1>8
  <2>2. io.fdt[p] = InHalf(k) /\ io.fdt[p][2] = r0
    BY <1>2, <1>3, <1>8 DEF Has, InClose
  <2>3. io' = io
    BY <1>4, <2>1, <2>2, CloseIdle
  <2>4. Recounted(k, 0)
    <3>1. \A j \in Pipes : io.pipe[j].fdCount \in Int
      BY <1>2, PipeFields
    <3> QED BY <2>3, <3>1 DEF Recounted, SameBytes
  <2>5. /\ io' \in Tables /\ io'.used = io.used /\ io'.fault = io.fault
        /\ io'.fdt = [io.fdt EXCEPT ![p] = InHalf(k)]
    BY <1>2, <2>2, <2>3, TablesFields
  <2>6. CountsBy(at, "in_close_1", 0) /\ Arranged(at, InHalf(k), k)
    BY <1>2, <1>6, <1>8 DEF CountsBy, InClose, Arranged, Inside
  <2>7. Shape(proc'[p], InHalf(k))
    <3>1. proc'[p].at = "in_close_1" /\ proc'[p].ends = proc[p].ends /\ proc'[p].cmd = proc[p].cmd
      BY <1>2, <1>5, <2>1, GotoIs DEF Becomes
    <3>2. InHalf(k)[2].pipe = k
      BY <1>2, PairTables
    <3> QED BY <1>2, <3>1, <3>2, ArrangingShape DEF InClose
  <2>8. /\ Plumbed /\ p \in Pids /\ proc[p].at \in Arranging /\ typed' = typed
        /\ "in_close_1" \in Places /\ Goto(p, "in_close_1") /\ "in_close_1" \notin Starting \cup Ring
        /\ k = io.fdt[p][2].pipe /\ Arranged(proc[p].at, InHalf(k), k)
        /\ CountsBy(proc[p].at, "in_close_1", 0) /\ 0 \in Int
    BY <1>1, <1>2, <1>5, <2>1, <2>6
  <2> QED BY ONLY <2>4, <2>5, <2>7, <2>8, PlumbDone
<1>9. CASE at = "in_close_1"
  <2>1. io' = close_kernel(io, p, 3) /\ Goto(p, proc[p].cmd[2])
    BY <1>1, <1>2, <1>9
  <2>2. io.fdt[p] = InHalf(k) /\ io.fdt[p][3] = wr
    BY <1>2, <1>3, <1>9 DEF Has, InClose
  <2> DEFINE r == close_kernel(io, p, 3)
  <2>3. /\ r \in Tables /\ r.pipe = Bumped(io.pipe, k, -1) /\ r.used = io.used /\ (k # Null => r.fault = io.fault)
        /\ r.fdt = [io.fdt EXCEPT ![p] = [InHalf(k) EXCEPT ![3] = w0]]
    <3>1. /\ io \in Tables /\ p \in Pids /\ 3 \in Fds /\ k \in Pipes \cup {Null}
          /\ io.fdt[p][3] = wr /\ (k # Null => io.pipe[k].fdCount # 1)
      <4> HIDE DEF rd, r0, wr, w0
      <4>1. k # Null => io.pipe[k].fdCount >= 0 /\ io.pipe[k].fdCount # 1
        BY <1>4
      <4>2. io \in Tables /\ p \in Pids /\ k \in Pipes \cup {Null}
        BY <1>2
      <4> QED BY ONLY <1>4, <2>2, <4>1, <4>2
    <3>2. /\ r \in Tables /\ r.pipe = Bumped(io.pipe, k, -1) /\ r.used = io.used /\ (k # Null => r.fault = io.fault)
          /\ r.fdt = [io.fdt EXCEPT ![p] = [@ EXCEPT ![3] = w0]]
      BY ONLY <3>1, CloseIs
    <3> QED BY <2>2, <3>2
  <2>4. [InHalf(k) EXCEPT ![3] = w0] = InDone(k)
    BY DEF InDone
  <2> HIDE DEF r
  <2>5. /\ io' \in Tables /\ io'.used = io.used /\ (k # Null => io'.fault = io.fault)
        /\ Recounted(k, -1)
        /\ io'.fdt = [io.fdt EXCEPT ![p] = InDone(k)]
    <3>1. /\ io' \in Tables /\ io'.used = io.used /\ io'.pipe = Bumped(io.pipe, k, -1)
          /\ (k # Null => io'.fault = io.fault)
          /\ io'.fdt = [io.fdt EXCEPT ![p] = InDone(k)]
      BY <2>1, <2>3, <2>4 DEF r
    <3>2. io \in Tables /\ k \in Pipes \cup {Null} /\ -1 \in Int
      BY <1>2
    <3> QED BY ONLY <3>1, <3>2, RecountedIs
  <2>6. CountsBy(at, proc[p].cmd[2], -1) /\ Arranged(at, InDone(k), k)
    BY <1>2, <1>6, <1>9 DEF CountsBy, Doubles, InClose, Arranged, Inside
  <2>7. Shape(proc'[p], InDone(k))
    <3>1. proc'[p].at = proc[p].cmd[2] /\ proc'[p].ends = proc[p].ends /\ proc'[p].cmd = proc[p].cmd
      BY <1>2, <1>5, <2>1, GotoIs DEF Becomes
    <3>2. InDone(k)[2].pipe = k
      BY <1>2, PairTables
    <3>3. CASE proc[p].cmd[2] \in Quiet
      <4>1. Len(proc'[p].ends) < 3
        BY <1>2, <3>1
      <4> QED BY <3>1, <3>2, <3>3, <4>1, PlainShape
    <3>4. CASE proc[p].cmd[2] = "P3_reader"
      BY <3>1, <3>2, <3>4, PlainShape
    <3> QED BY <1>2, <3>3, <3>4
  <2>8. /\ Plumbed /\ p \in Pids /\ proc[p].at \in Arranging /\ typed' = typed
        /\ proc[p].cmd[2] \in Places /\ Goto(p, proc[p].cmd[2]) /\ proc[p].cmd[2] \notin Starting \cup Ring
        /\ k = io.fdt[p][2].pipe /\ Arranged(proc[p].at, InDone(k), k)
        /\ CountsBy(proc[p].at, proc[p].cmd[2], -1) /\ -1 \in Int
    BY <1>1, <1>2, <1>5, <2>1, <2>6
  <2> QED BY ONLY <2>5, <2>7, <2>8, PlumbDone
<1>10. CASE at = "out_dup2"
  <2>1. io' = dup2kernel(io, p, 1, 3) /\ Goto(p, "out_close_0")
    BY <1>1, <1>2, <1>10
  <2>2. io.fdt[p] = Both(k) /\ io.fdt[p][3] = wr
    BY <1>2, <1>3, <1>10 DEF Has, Paired
  <2> DEFINE r == dup2kernel(io, p, 1, 3)
  <2>3. /\ r \in Tables /\ r.pipe = Bumped(io.pipe, k, 1) /\ r.used = io.used /\ (k # Null => r.fault = io.fault)
        /\ r.fdt = [io.fdt EXCEPT ![p] = [Both(k) EXCEPT ![1] = wr, ![3] = w0]]
    <3>1. /\ io \in Tables /\ p \in Pids /\ 1 \in Fds /\ 3 \in Fds /\ 1 # 3
          /\ k \in Pipes \cup {Null} /\ io.fdt[p][3] = wr
          /\ (k # Null => io.pipe[k].fdCount >= 0)
      <4> HIDE DEF rd, r0, wr, w0
      <4>1. k # Null => io.pipe[k].fdCount >= 0 /\ io.pipe[k].fdCount # 1
        BY <1>4
      <4>2. io \in Tables /\ p \in Pids /\ k \in Pipes \cup {Null}
        BY <1>2
      <4> QED BY ONLY <1>4, <2>2, <4>1, <4>2
    <3>2. /\ r \in Tables /\ r.pipe = Bumped(io.pipe, k, 1) /\ r.used = io.used /\ (k # Null => r.fault = io.fault)
          /\ r.fdt = [io.fdt EXCEPT ![p] = [@ EXCEPT ![1] = wr, ![3] = w0]]
      BY ONLY <3>1, Dup2Is
    <3> QED BY <2>2, <3>2
  <2>4. [Both(k) EXCEPT ![1] = wr, ![3] = w0] = OutHalf(k)
    BY DEF OutHalf
  <2> HIDE DEF r
  <2>5. /\ io' \in Tables /\ io'.used = io.used /\ (k # Null => io'.fault = io.fault)
        /\ Recounted(k, 1)
        /\ io'.fdt = [io.fdt EXCEPT ![p] = OutHalf(k)]
    <3>1. /\ io' \in Tables /\ io'.used = io.used /\ io'.pipe = Bumped(io.pipe, k, 1)
          /\ (k # Null => io'.fault = io.fault)
          /\ io'.fdt = [io.fdt EXCEPT ![p] = OutHalf(k)]
      BY <2>1, <2>3, <2>4 DEF r
    <3>2. io \in Tables /\ k \in Pipes \cup {Null} /\ 1 \in Int
      BY <1>2
    <3> QED BY ONLY <3>1, <3>2, RecountedIs
  <2>6. CountsBy(at, "out_close_0", 1) /\ Arranged(at, OutHalf(k), k)
    BY <1>10 DEF CountsBy, Doubles, InClose, Arranged, Outside
  <2>7. Shape(proc'[p], OutHalf(k))
    <3>1. proc'[p].at = "out_close_0" /\ proc'[p].ends = proc[p].ends /\ proc'[p].cmd = proc[p].cmd
      BY <1>2, <1>5, <2>1, GotoIs DEF Becomes
    <3>2. OutHalf(k)[2].pipe = k
      BY <1>2, PairTables
    <3> QED BY <1>2, <3>1, <3>2, ArrangingShape DEF InClose
  <2>8. /\ Plumbed /\ p \in Pids /\ proc[p].at \in Arranging /\ typed' = typed
        /\ "out_close_0" \in Places /\ Goto(p, "out_close_0") /\ "out_close_0" \notin Starting \cup Ring
        /\ k = io.fdt[p][2].pipe /\ Arranged(proc[p].at, OutHalf(k), k)
        /\ CountsBy(proc[p].at, "out_close_0", 1) /\ 1 \in Int
    BY <1>1, <1>2, <1>5, <2>1, <2>6
  <2> QED BY ONLY <2>5, <2>7, <2>8, PlumbDone
<1>11. CASE at = "out_close_0"
  <2>1. io' = close_kernel(io, p, 2) /\ Goto(p, "out_close_1")
    BY <1>1, <1>2, <1>11
  <2>2. io.fdt[p] = OutHalf(k) /\ io.fdt[p][2] = rd
    BY <1>2, <1>3, <1>11 DEF Has, InClose
  <2> DEFINE r == close_kernel(io, p, 2)
  <2>3. /\ r \in Tables /\ r.pipe = Bumped(io.pipe, k, -1) /\ r.used = io.used /\ (k # Null => r.fault = io.fault)
        /\ r.fdt = [io.fdt EXCEPT ![p] = [OutHalf(k) EXCEPT ![2] = r0]]
    <3>1. /\ io \in Tables /\ p \in Pids /\ 2 \in Fds /\ k \in Pipes \cup {Null}
          /\ io.fdt[p][2] = rd /\ (k # Null => io.pipe[k].fdCount # 1)
      <4> HIDE DEF rd, r0, wr, w0
      <4>1. k # Null => io.pipe[k].fdCount >= 0 /\ io.pipe[k].fdCount # 1
        BY <1>4
      <4>2. io \in Tables /\ p \in Pids /\ k \in Pipes \cup {Null}
        BY <1>2
      <4> QED BY ONLY <1>4, <2>2, <4>1, <4>2
    <3>2. /\ r \in Tables /\ r.pipe = Bumped(io.pipe, k, -1) /\ r.used = io.used /\ (k # Null => r.fault = io.fault)
          /\ r.fdt = [io.fdt EXCEPT ![p] = [@ EXCEPT ![2] = r0]]
      BY ONLY <3>1, CloseIs
    <3> QED BY <2>2, <3>2
  <2>4. [OutHalf(k) EXCEPT ![2] = r0] = OutDone(k)
    BY DEF OutDone
  <2> HIDE DEF r
  <2>5. /\ io' \in Tables /\ io'.used = io.used /\ (k # Null => io'.fault = io.fault)
        /\ Recounted(k, -1)
        /\ io'.fdt = [io.fdt EXCEPT ![p] = OutDone(k)]
    <3>1. /\ io' \in Tables /\ io'.used = io.used /\ io'.pipe = Bumped(io.pipe, k, -1)
          /\ (k # Null => io'.fault = io.fault)
          /\ io'.fdt = [io.fdt EXCEPT ![p] = OutDone(k)]
      BY <2>1, <2>3, <2>4 DEF r
    <3>2. io \in Tables /\ k \in Pipes \cup {Null} /\ -1 \in Int
      BY <1>2
    <3> QED BY ONLY <3>1, <3>2, RecountedIs
  <2>6. CountsBy(at, "out_close_1", -1) /\ Arranged(at, OutDone(k), k)
    BY <1>2, <1>6, <1>11 DEF CountsBy, Doubles, InClose, Arranged, Outside
  <2>7. Shape(proc'[p], OutDone(k))
    <3>1. proc'[p].at = "out_close_1" /\ proc'[p].ends = proc[p].ends /\ proc'[p].cmd = proc[p].cmd
      BY <1>2, <1>5, <2>1, GotoIs DEF Becomes
    <3>2. OutDone(k)[2].pipe = k
      BY <1>2, PairTables
    <3> QED BY <1>2, <3>1, <3>2, ArrangingShape DEF InClose
  <2>8. /\ Plumbed /\ p \in Pids /\ proc[p].at \in Arranging /\ typed' = typed
        /\ "out_close_1" \in Places /\ Goto(p, "out_close_1") /\ "out_close_1" \notin Starting \cup Ring
        /\ k = io.fdt[p][2].pipe /\ Arranged(proc[p].at, OutDone(k), k)
        /\ CountsBy(proc[p].at, "out_close_1", -1) /\ -1 \in Int
    BY <1>1, <1>2, <1>5, <2>1, <2>6
  <2> QED BY ONLY <2>5, <2>7, <2>8, PlumbDone
<1>12. CASE at = "out_close_1"
  <2>1. io' = close_kernel(io, p, 3) /\ Goto(p, proc[p].cmd[1])
    BY <1>1, <1>2, <1>12
  <2>2. io.fdt[p] = OutDone(k) /\ io.fdt[p][3] = w0
    BY <1>2, <1>3, <1>12 DEF Has, InClose
  <2>3. io' = io
    BY <1>4, <2>1, <2>2, CloseIdle
  <2>4. Recounted(k, 0)
    <3>1. \A j \in Pipes : io.pipe[j].fdCount \in Int
      BY <1>2, PipeFields
    <3> QED BY <2>3, <3>1 DEF Recounted, SameBytes
  <2>5. /\ io' \in Tables /\ io'.used = io.used /\ io'.fault = io.fault
        /\ io'.fdt = [io.fdt EXCEPT ![p] = OutDone(k)]
    BY <1>2, <2>2, <2>3, TablesFields
  <2>6. CountsBy(at, proc[p].cmd[1], 0) /\ Arranged(at, OutDone(k), k)
    BY <1>2, <1>6, <1>12 DEF CountsBy, InClose, Arranged, Outside
  <2>7. Shape(proc'[p], OutDone(k))
    <3>1. proc'[p].at = proc[p].cmd[1] /\ proc'[p].ends = proc[p].ends /\ proc'[p].cmd = proc[p].cmd
      BY <1>2, <1>5, <2>1, GotoIs DEF Becomes
    <3>2. OutDone(k)[2].pipe = k
      BY <1>2, PairTables
    <3>3. CASE proc[p].cmd[1] \in Quiet
      <4>1. Len(proc'[p].ends) < 3
        BY <1>2, <3>1
      <4> QED BY <3>1, <3>2, <3>3, <4>1, PlainShape
    <3>4. CASE proc[p].cmd[1] = "P3_writer"
      BY <3>1, <3>2, <3>4, PlainShape
    <3> QED BY <1>2, <3>3, <3>4
  <2>8. /\ Plumbed /\ p \in Pids /\ proc[p].at \in Arranging /\ typed' = typed
        /\ proc[p].cmd[1] \in Places /\ Goto(p, proc[p].cmd[1]) /\ proc[p].cmd[1] \notin Starting \cup Ring
        /\ k = io.fdt[p][2].pipe /\ Arranged(proc[p].at, OutDone(k), k)
        /\ CountsBy(proc[p].at, proc[p].cmd[1], 0) /\ 0 \in Int
    BY <1>1, <1>2, <1>5, <2>1, <2>6
  <2> QED BY ONLY <2>4, <2>5, <2>7, <2>8, PlumbDone
<1> QED BY <1>1, <1>7, <1>8, <1>9, <1>10, <1>11, <1>12

-----------------------------------------------------------------------------
(* The ring of T2.                                                         *)
Pairs == <<Pair(2), Pair(4), Pair(6)>>

LEMMA PairsAre ==
  /\ Pairs \in Seq([r : Nat, w : Nat]) /\ Len(Pairs) = 3
  /\ Pairs[1].r = 2 /\ Pairs[1].w = 3 /\ Pairs[2].r = 4 /\ Pairs[2].w = 5
  /\ Pairs[3].r = 6 /\ Pairs[3].w = 7
<1>1. Pair(2).r = 2 /\ Pair(2).w = 3 /\ Pair(4).r = 4 /\ Pair(4).w = 5 /\ Pair(6).r = 6 /\ Pair(6).w = 7
  BY DEF Pair
<1>2. Pair(2) \in [r : Nat, w : Nat] /\ Pair(4) \in [r : Nat, w : Nat] /\ Pair(6) \in [r : Nat, w : Nat]
  BY DEF Pair
<1> QED BY <1>1, <1>2 DEF Pairs

LEMMA RingShape ==
  ASSUME NEW s, NEW t, NEW j, j = t[2].pipe, NEW k, k = t[4].pipe, NEW l, l = t[6].pipe,
         \/ s.at \in Ring
         \/ s.at = "T_exit"
         \/ s.at = "T2_fork_1" /\ s.x = 0 /\ s.i = 0,
         t = Three(j, k, l), s.ends = Pairs,
         Distinct(j, k), Distinct(j, l), Distinct(k, l)
  PROVE  Shape(s, t)
<1>1. /\ s.at \notin Begin /\ s.at # "pipeline" /\ s.at \notin Quiet /\ s.at \notin Arranging
      /\ s.at \notin Paired /\ s.at \notin {"in_close_0", "in_close_1"}
      /\ s.at \notin {"out_close_0", "out_close_1", "P3_writer", "P3_reader", "T2_pipe_2", "T2_pipe_3"}
  BY DEF Begin, Paired, Arranging, Quiet, Ring, First, Second, Third
<1>2. s.at = "T2_fork_1" => s.x = 0 /\ s.i = 0
  BY DEF Ring, First, Second, Third
<1>3. Len(s.ends) = 3 /\ s.ends = <<Pair(2), Pair(4), Pair(6)>>
  BY PairsAre DEF Pairs
<1> QED BY <1>1, <1>2, <1>3 DEF Shape

LEMMA RingIs ==
  ASSUME Plumbed, NEW p \in Pids, proc[p].at \in Ring \cup {"T2_fork_1"}, NEW t, t = io.fdt[p],
         NEW j, j = t[2].pipe, NEW k, k = t[4].pipe, NEW l, l = t[6].pipe
  PROVE  /\ p \in Live /\ io \in Tables /\ proc \in [Pids -> Process]
         /\ j \in Pipes \cup {Null} /\ k \in Pipes \cup {Null} /\ l \in Pipes \cup {Null}
         /\ Distinct(j, k) /\ Distinct(j, l) /\ Distinct(k, l)
         /\ t = Three(j, k, l) /\ proc[p].ends = Pairs /\ Links(p) = {j, k, l} \ {Null}
         /\ t[2] = End("READ", j) /\ t[3] = End("WRITE", j) /\ t[4] = End("READ", k)
         /\ t[5] = End("WRITE", k) /\ t[6] = End("READ", l) /\ t[7] = End("WRITE", l)
<1>1. proc[p].at # "free"
  BY DEF Ring, First, Second, Third
<1>2. /\ p \in Live /\ io \in Tables /\ proc \in [Pids -> Process] /\ Shaped(p)
  BY <1>1, PlumbedIs
<1>3. j \in Pipes \cup {Null} /\ k \in Pipes \cup {Null} /\ l \in Pipes \cup {Null}
  BY <1>2, LinkedPipes
<1>4. /\ Distinct(j, k) /\ Distinct(j, l) /\ Distinct(k, l)
      /\ t = Three(j, k, l) /\ proc[p].ends = Pairs
  BY <1>2 DEF Shaped, Shape, Pairs
<1>5. Links(p) = {j, k, l} \ {Null}
  BY DEF Links, LinksOf
<1>6. /\ t[2] = End("READ", j) /\ t[3] = End("WRITE", j) /\ t[4] = End("READ", k)
      /\ t[5] = End("WRITE", k) /\ t[6] = End("READ", l) /\ t[7] = End("WRITE", l)
  <2>1. t[2] = End("READ", j) /\ t[3] = End("WRITE", j)
    BY ONLY <1>3, <1>4, RingTablesAre
  <2>2. t[4] = End("READ", k) /\ t[5] = End("WRITE", k)
    BY ONLY <1>3, <1>4, RingTablesAre
  <2>3. Three(j, k, l)[6] = End("READ", l) /\ Three(j, k, l)[7] = End("WRITE", l)
    BY ONLY <1>3, RingTablesAre
  <2> QED BY <1>4, <2>1, <2>2, <2>3
<1> QED BY <1>2, <1>3, <1>4, <1>5, <1>6

(* Going round, or leaving.                                                *)
Rounding(at, w) == \/ w = "T_exit"
                   \/ at \in First /\ w \in First
                   \/ at \in Second /\ w \in Second \ {"T2_fork_2"}
                   \/ at \in Third /\ w \in Third

LEMMA LoopKeeps ==
  ASSUME Plumbed, NEW p \in Pids, proc[p].at \in Ring, NEW w, Rounding(proc[p].at, w),
         NEW x, NEW i, Becomes(p, w, proc[p].ends, x, i),
         NEW fd \in Fds, Moves(io, io', p, fd), typed' = typed
  PROVE  Plumbed'
<1> DEFINE t == io.fdt[p]
           j == t[2].pipe
           k == t[4].pipe
           l == t[6].pipe
<1>1. /\ p \in Live /\ io \in Tables /\ proc \in [Pids -> Process]
      /\ Distinct(j, k) /\ Distinct(j, l) /\ Distinct(k, l)
      /\ t = Three(j, k, l) /\ proc[p].ends = Pairs
  BY RingIs
<1>2. /\ proc'[p].at = w /\ proc'[p].ends = Pairs /\ io'.fdt[p] = t
  BY <1>1 DEF Becomes, Moves
<1>3. proc[p].at \notin Arranging /\ w \notin Arranging /\ w \in Ring \cup {"T_exit"}
  BY DEF Rounding, Arranging, Paired, Ring, First, Second, Third
<1> HIDE DEF t, j, k, l
<1>4. Shaped(p)'
  <2>1. Shape(proc'[p], t)
    BY <1>1, <1>2, <1>3, RingShape DEF j, k, l
  <2> QED BY <1>2, <2>1 DEF Shaped
<1>5. InRing(p)'
  BY <1>2, <1>3, PairsAre DEF InRing
<1>6. SameRing(p)
  <2>1. /\ w \notin Starting
        /\ w \in First => proc[p].at \in First
        /\ w \in Second => proc[p].at \in Second
        /\ w \in Third => proc[p].at \in Third
        /\ w # "T2_fork_2"
    BY DEF Rounding, Starting, First, Second, Third
  <2> QED BY <1>2, <2>1 DEF SameRing, t
<1> QED BY <1>1, <1>3, <1>4, <1>5, <1>6, MovingKeeps
-----------------------------------------------------------------------------
(* A byte written to, or read from, an end of pipe k.                      *)
LEMMA EndWrites ==
  ASSUME NEW s \in Tables, NEW p \in Pids, NEW fd \in Fds, NEW perm \in {"READ", "WRITE"},
         NEW k \in Pipes \cup {Null}, s.fdt[p][fd] = End(perm, k), NEW x \in Bytes,
         NEW r, r = write(s, p, fd, <<x>>)
  PROVE  /\ k = Null => r.fault
         /\ k # Null => /\ r.fault = s.fault
                        /\ r.pipe[k].bufferIndex = s.pipe[k].bufferIndex + 1
                        /\ r.pipe[k].buffer[0] = x
<1>1. IsPipeEnd(s, p, fd) /\ s.fdt[p][fd].pipe = k
  BY EndIs DEF IsPipeEnd
<1>2. /\ <<x>> \in Seq(Bytes) /\ Len(<<x>>) = 1 /\ 1 \in DOMAIN <<x>> /\ <<x>>[1] = x
      /\ ~ (1 > BufferSize) /\ 0 \in 0 .. BufferSize - 1
  BY DescriptorsAssumption
<1>3. CASE k = Null
  <2>1. r = Fault(s)
    BY <1>1, <1>3 DEF write
  <2> QED BY <1>3, <2>1, FaultIs
<1>4. CASE k # Null
  <2> DEFINE q == s.pipe[k]
             b == Stored(q, <<x>>)
  <2>1. r = [s EXCEPT !.pipe[k] = b]
    BY <1>1, <1>2, <1>4 DEF write
  <2>2. k \in Pipes /\ q \in PipeRecord /\ q.buffer \in [0 .. BufferSize - 1 -> Bytes]
    BY <1>4, PipeFields
  <2>3. /\ b \in PipeRecord /\ b.bufferIndex = q.bufferIndex + 1
        /\ b.buffer = [i \in DOMAIN q.buffer |-> IF i + 1 \in DOMAIN <<x>> THEN <<x>>[i + 1] ELSE q.buffer[i]]
    BY <1>2, <2>2, StoredType
  <2>4. b.buffer[0] = x
    <3>1. 0 + 1 \in DOMAIN <<x>> /\ <<x>>[0 + 1] = x /\ 0 \in DOMAIN q.buffer
      <4>1. 0 + 1 = 1
        OBVIOUS
      <4>2. 0 \in DOMAIN q.buffer
        BY <1>2, <2>2
      <4> QED BY <1>2, <4>1, <4>2
    <3> HIDE DEF b
    <3> QED BY <2>3, <3>1
  <2> HIDE DEF b
  <2>5. r.pipe = [s.pipe EXCEPT ![k] = b] /\ r.fault = s.fault
    <3>1. /\ [s EXCEPT !.pipe[k] = b].pipe = [s.pipe EXCEPT ![k] = b]
          /\ [s EXCEPT !.pipe[k] = b].fault = s.fault
      BY <2>2, <2>3, PipeIs
    <3> QED BY <2>1, <3>1
  <2>6. r.pipe[k] = b
    BY <2>2, <2>5, TablesFields
  <2> QED BY <1>4, <2>3, <2>4, <2>5, <2>6
<1> QED BY <1>3, <1>4

LEMMA BytesAre ==
  ASSUME NEW n \in {0, 1}, NEW b
  PROVE  /\ n = 0 => [i \in 1 .. n |-> b[i - 1]] = << >>
         /\ n = 1 => [i \in 1 .. n |-> b[i - 1]] # << >> /\ [i \in 1 .. n |-> b[i - 1]][1] = b[0]
<1> DEFINE f == [i \in 1 .. n |-> b[i - 1]]
<1>1. ASSUME n = 0
      PROVE  f = << >>
  <2>1. 1 .. n = {}
    BY <1>1
  <2> QED BY <2>1
<1>2. ASSUME n = 1
      PROVE  f # << >> /\ f[1] = b[0]
  <2>1. 1 .. n = {1}
    BY <1>2
  <2>2. f[1] = b[1 - 1] /\ 1 - 1 = 0
    BY <2>1
  <2>3. DOMAIN f = {1} /\ DOMAIN << >> = {}
    BY <2>1
  <2> QED BY <2>2, <2>3
<1> QED BY <1>1, <1>2

LEMMA EndReads ==
  ASSUME NEW s \in Tables, NEW p \in Pids, NEW fd \in Fds, NEW perm \in {"READ", "WRITE"},
         NEW k \in Pipes \cup {Null}, s.fdt[p][fd] = End(perm, k),
         NEW r, r = read(s, p, fd, 1), NEW got, got = BytesRead(s, p, fd, 1)
  PROVE  /\ got # << >> => got[1] \in Bytes
         /\ k = Null => r.fault /\ got = << >>
         /\ k # Null /\ s.pipe[k].bufferIndex = 0 =>
              /\ got = << >> /\ r.fault = s.fault
              /\ r.pipe[k].bufferIndex = 0
         /\ k # Null /\ s.pipe[k].bufferIndex = 1 =>
              /\ got # << >> /\ got[1] = s.pipe[k].buffer[0] /\ r.fault = s.fault
              /\ r.pipe[k].bufferIndex = 0
<1> DEFINE q == s.pipe[k]
           n == ReadCount(s, k, 1)
<1>1. IsPipeEnd(s, p, fd) /\ s.fdt[p][fd].pipe = k
  BY EndIs DEF IsPipeEnd
<1>2. CASE k = Null
  <2>1. r = Fault(s) /\ got = << >>
    BY <1>1, <1>2 DEF read, BytesRead
  <2> QED BY <1>2, <2>1, FaultIs
<1>3. CASE k # Null
  <2>1. k \in Pipes /\ q \in PipeRecord /\ q.buffer \in [0 .. BufferSize - 1 -> Bytes] /\ q.bufferIndex \in Nat
    BY <1>3, PipeFields
  <2>2. n \in {0, 1} /\ (q.bufferIndex = 0 => n = 0) /\ (q.bufferIndex = 1 => n = 1)
    BY <2>1 DEF ReadCount
  <2>3. got = [i \in 1 .. n |-> q.buffer[i - 1]]
    BY <1>1, <1>3 DEF BytesRead
  <2>4. r = IF TakesBeyond(q, n) THEN Fault(s) ELSE [s EXCEPT !.pipe[k] = Taken(q, n)]
    BY <1>1, <1>3 DEF read
  <2> HIDE DEF q, n
  <2>5. /\ n = 0 => got = << >>
        /\ n = 1 => got # << >> /\ got[1] = q.buffer[0]
    BY <2>2, <2>3, BytesAre
  <2>6. q.buffer[0] \in Bytes
    BY <2>1, DescriptorsAssumption
  <2>7. ASSUME q.bufferIndex \in {0, 1}
        PROVE  r.fault = s.fault /\ r.pipe[k].bufferIndex = 0
    <3>1. ~ TakesBeyond(q, n) /\ n = q.bufferIndex /\ n \in Nat /\ n <= q.bufferIndex
      BY <2>1, <2>2, <2>7, DescriptorsAssumption DEF TakesBeyond
    <3> DEFINE b == Taken(q, n)
    <3>2. b \in PipeRecord /\ b.bufferIndex = 0
      BY <2>1, <3>1, TakenType
    <3> HIDE DEF b
    <3>3. r = [s EXCEPT !.pipe[k] = b]
      BY <2>4, <3>1 DEF b
    <3>4. r.pipe = [s.pipe EXCEPT ![k] = b] /\ r.fault = s.fault
      <4>1. /\ [s EXCEPT !.pipe[k] = b].pipe = [s.pipe EXCEPT ![k] = b]
            /\ [s EXCEPT !.pipe[k] = b].fault = s.fault
        BY <2>1, <3>2, PipeIs
      <4> QED BY <3>3, <4>1
    <3>5. r.pipe[k] = b
      BY <2>1, <3>4, TablesFields
    <3> QED BY <3>2, <3>4, <3>5
  <2> QED BY <1>3, <2>2, <2>5, <2>6, <2>7 DEF q
<1> QED BY <1>2, <1>3

LEMMA PassIs ==
  ASSUME Plumbed, NEW p \in Pids, proc[p].at \in Ring, NEW n \in {1, 2, 3}, NEW next \in Places,
         NEW x, x = proc[p].x, x \in Bytes, NEW i, i = proc[p].i, i + 1 <= Rounds,
         NEW fd, fd = Pairs[n].w, Pass(p, n, next)
  PROVE  /\ fd \in Fds /\ io' = write(io, p, fd, <<x>>) /\ Moves(io, io', p, fd)
         /\ Becomes(p, next, proc[p].ends, x, i + 1)
<1>1. /\ io \in Tables /\ proc \in [Pids -> Process] /\ proc[p].ends = Pairs
  BY RingIs
<1>2. /\ proc[p] \in Process /\ proc[p].ends \in Seq([r : Nat, w : Nat])
      /\ x \in Nat /\ i \in 0 .. Rounds
  BY <1>1, ProcessIs
<1>3. fd \in Fds
  BY PairsAre, SmallFds
<1>4. io' = write(io, p, fd, <<x>>) /\ proc' = [proc EXCEPT ![p].at = next, ![p].i = proc[p].i + 1]
  BY <1>1 DEF Pass
<1>5. <<x>> \in Seq(Bytes)
  OBVIOUS
<1>6. Moves(io, io', p, fd)
  BY <1>1, <1>3, <1>4, <1>5, WriteMoves
<1>7. i + 1 \in 0 .. Rounds
  BY <1>2, ProgramsAssumption
<1>8. proc' = [proc EXCEPT ![p] = Changed(proc[p], next, proc[p].ends, x, i + 1)]
  <2> DEFINE s == proc[p]
  <2>1. [s EXCEPT !.at = next, !.i = i + 1] = Changed(s, next, s.ends, x, i + 1)
    BY <1>2 DEF Changed, Process
  <2>2. proc' = [proc EXCEPT ![p] = [s EXCEPT !.at = next, !.i = i + 1]]
    BY <1>1, <1>4
  <2> QED BY <2>1, <2>2
<1>9. Becomes(p, next, proc[p].ends, x, i + 1)
  BY <1>1, <1>2, <1>7, <1>8, BecomesIs
<1> QED BY <1>3, <1>4, <1>6, <1>9

LEMMA PollIs ==
  ASSUME Plumbed, NEW p \in Pids, proc[p].at \in Ring, NEW n \in {1, 2, 3}, NEW next \in Places,
         NEW x, x = proc[p].x, NEW i, i = proc[p].i, NEW fd, fd = Pairs[n].r,
         NEW got, got = BytesRead(io, p, fd, 1), Poll(p, n, next)
  PROVE  /\ fd \in Fds /\ io' = read(io, p, fd, 1) /\ Moves(io, io', p, fd)
         /\ got = << >> => Becomes(p, proc[p].at, proc[p].ends, x, i)
         /\ got # << >> => Becomes(p, next, proc[p].ends, got[1] + 1, i)
<1> DEFINE t == io.fdt[p]
           j == t[2].pipe
           k == t[4].pipe
           l == t[6].pipe
<1>1. /\ io \in Tables /\ proc \in [Pids -> Process] /\ proc[p].ends = Pairs
      /\ j \in Pipes \cup {Null} /\ k \in Pipes \cup {Null} /\ l \in Pipes \cup {Null}
      /\ t[2] = End("READ", j) /\ t[4] = End("READ", k) /\ t[6] = End("READ", l)
  BY RingIs
<1>2. /\ proc[p] \in Process /\ proc[p].ends \in Seq([r : Nat, w : Nat]) /\ proc[p].at \in Places
      /\ x \in Nat /\ i \in 0 .. Rounds
  BY <1>1, ProcessIs
<1> HIDE DEF j, k, l
<1>3. fd \in Fds /\ \E m \in Pipes \cup {Null} : t[fd] = End("READ", m)
  BY <1>1, PairsAre, SmallFds
<1>4. /\ io' = read(io, p, fd, 1)
      /\ proc' = IF got = << >> THEN proc ELSE [proc EXCEPT ![p].at = next, ![p].x = got[1] + 1]
  BY <1>1 DEF Poll
<1>5. Moves(io, io', p, fd)
  BY <1>1, <1>3, <1>4, ReadMoves
<1>6. got # << >> => got[1] + 1 \in Nat
  <2>1. got # << >> => got[1] \in Bytes
    BY <1>1, <1>3, EndReads
  <2> DEFINE y == got[1]
  <2> HIDE DEF y
  <2>2. y \in Bytes => y + 1 \in Nat
    BY DescriptorsAssumption
  <2> QED BY <2>1, <2>2 DEF y
<1>7. ASSUME got = << >>
      PROVE  Becomes(p, proc[p].at, proc[p].ends, x, i)
  BY <1>1, <1>4, <1>7 DEF Becomes
<1>8. ASSUME got # << >>
      PROVE  Becomes(p, next, proc[p].ends, got[1] + 1, i)
  <2> DEFINE s == proc[p]
             y == got[1] + 1
  <2>1. [s EXCEPT !.at = next, !.x = y] = Changed(s, next, s.ends, y, i)
    <3>1. y \in Nat
      BY <1>6, <1>8
    <3> HIDE DEF y
    <3> QED BY <1>2 DEF Changed, Process
  <2>2. proc' = [proc EXCEPT ![p] = [s EXCEPT !.at = next, !.x = y]]
    BY <1>1, <1>4, <1>8
  <2>3. proc' = [proc EXCEPT ![p] = Changed(s, next, s.ends, y, i)] /\ y \in Nat
    BY <1>6, <1>8, <2>1, <2>2
  <2> HIDE DEF y
  <2>4. Becomes(p, next, proc[p].ends, y, i)
    BY <1>1, <1>2, <2>3, BecomesIs
  <2> QED BY <2>4 DEF y
<1> QED BY <1>3, <1>4, <1>5, <1>7, <1>8

Writing == {"P1_write", "P2_write", "P3_write"}

(* Whoever writes the token has a round left, and the token is a byte.     *)
LEMMA TokenIsByte ==
  ASSUME Plain, Plumbed, Token, NEW p \in Pids, proc[p].at \in Writing
  PROVE  proc[p].x \in Bytes /\ proc[p].i + 1 <= Rounds
<1> DEFINE s == proc[p]
<1>1. PICK n \in 0 .. Rounds - 1, stage \in 1 .. 6 : TokenFor(p, n, stage)
  BY DEF Token
<1>2. /\ s.at = "P1_write" => s.x = 3 * n /\ s.i = n
      /\ s.at = "P2_write" => s.x = 3 * n + 1 /\ s.i = n
      /\ s.at = "P3_write" => s.x = 3 * n + 2 /\ s.i = n
  BY <1>1 DEF TokenFor, PlaceFor, First, Second, Third
<1>3. 0 .. 3 * Rounds \subseteq Bytes
  <2>1. s.at \in Starting \cup Ring
    BY DEF Writing, Ring, First, Second, Third
  <2>2. <<"T2">> \in Commands
    BY <2>1 DEF Plumbed, OneRing, Typed
  <2> QED BY <2>2 DEF Plain
<1>4. s.i = n /\ s.x \in {3 * n, 3 * n + 1, 3 * n + 2}
  BY <1>2 DEF Writing
<1>5. \A m \in {3 * n, 3 * n + 1, 3 * n + 2} : m \in 0 .. 3 * Rounds
  BY ProgramsAssumption
<1>6. n + 1 <= Rounds
  BY ProgramsAssumption
<1> QED BY <1>3, <1>4, <1>5, <1>6

LEMMA RingKeeps ==
  ASSUME Plain, Plumbed, Token, NEW p \in Pids, T2Loop(p), typed' = typed
  PROVE  Plumbed'
<1> DEFINE at == proc[p].at
<1>1. CASE at \in Writing
  <2>1. PICK n, next : /\ n \in {1, 2, 3} /\ Pass(p, n, next)
                       /\ \/ at = "P1_write" /\ next = "P1_read"
                          \/ at = "P2_write" /\ next = Again(p, "P2_read")
                          \/ at = "P3_write" /\ next = Again(p, "P3_read")
    BY <1>1 DEF T2Loop, At, Writing
  <2>2. next \in Places /\ Rounding(at, next) /\ at \in Ring
    BY <2>1 DEF Again, Rounding, Places, Ring, First, Second, Third
  <2>3. proc[p].x \in Bytes /\ proc[p].i + 1 <= Rounds
    BY <1>1, <2>1, TokenIsByte
  <2> DEFINE fd == Pairs[n].w
             i == proc[p].i + 1
  <2>4. fd \in Fds /\ Moves(io, io', p, fd) /\ Becomes(p, next, proc[p].ends, proc[p].x, i)
    BY <2>1, <2>2, <2>3, PassIs
  <2> HIDE DEF fd, i
  <2> QED BY <2>2, <2>4, LoopKeeps
<1>2. CASE at \notin Writing
  <2>1. PICK n, next : /\ n \in {1, 2, 3} /\ Poll(p, n, next)
                       /\ \/ at = "P1_read" /\ next \in {"P1_write", "T_exit"}
                          \/ at = "P2_read" /\ next = "P2_write"
                          \/ at = "P3_read" /\ next = "P3_write"
    BY <1>2 DEF T2Loop, At, Writing
  <2>2. next \in Places /\ Rounding(at, next) /\ Rounding(at, at) /\ at \in Ring
    BY <2>1 DEF Rounding, Places, Ring, First, Second, Third
  <2> DEFINE fd == Pairs[n].r
             got == BytesRead(io, p, fd, 1)
             x == got[1] + 1
  <2>3. /\ fd \in Fds /\ Moves(io, io', p, fd)
        /\ got = << >> => Becomes(p, at, proc[p].ends, proc[p].x, proc[p].i)
        /\ got # << >> => Becomes(p, next, proc[p].ends, x, proc[p].i)
    BY <2>1, <2>2, PollIs
  <2> HIDE DEF fd, got, x
  <2>4. PICK w, y : Rounding(at, w) /\ Becomes(p, w, proc[p].ends, y, proc[p].i)
    BY <2>2, <2>3
  <2> QED BY <2>2, <2>3, <2>4, LoopKeeps
<1> QED BY <1>1, <1>2

-----------------------------------------------------------------------------
(* exit.                                                                   *)
LEMMA ExitKeeps ==
  ASSUME Plumbed, NEW p \in Pids, At(p, "T_exit"), Exits(p), typed' = typed
  PROVE  Plumbed' /\ Leaves(p)
<1>1. proc[p].at = "T_exit" /\ proc[p].at # "free"
  BY DEF At
<1>2. /\ p \in Live /\ io \in Tables /\ proc \in [Pids -> Process] /\ typed \subseteq Commands
  BY <1>1, PlumbedIs
<1>3. Free \in Process /\ Free.at = "free"
  <2>1. << >> \in Seq(Words) /\ << >> \in Seq([r : Nat, w : Nat]) /\ 0 \in 0 .. Rounds
    BY ProgramsAssumption
  <2> QED BY <2>1 DEF Free, Shell, Process, Places
<1>4. proc' = [proc EXCEPT ![p] = Free] /\ io' = exit_fds(io, p)
  BY DEF Exits
<1>5. /\ proc' \in [Pids -> Process] /\ proc'[p].at = "free" /\ \A q \in Pids \ {p} : proc'[q] = proc[q]
  BY <1>2, <1>3, <1>4
<1>6. /\ io' \in Tables /\ io'.fdt = [io.fdt EXCEPT ![p] = exitfdt]
      /\ io'.pipe = io.pipe /\ io'.used = io.used
  BY <1>2, <1>4, ExitIs
<1>7. \A q \in Pids \ {p} : io'.fdt[q] = io.fdt[q]
  BY <1>2, <1>6, TablesFields
<1>8. Typed' /\ \A q \in Pids \ {p} : Untouched(q)
  BY <1>2, <1>5, <1>6, <1>7 DEF Typed, Untouched
<1>9. Counted'
  <2>1. \A q \in Pids : /\ proc'[q].at \in InClose <=> proc[q].at \in InClose
                        /\ proc'[q].at = "out_close_0" <=> proc[q].at = "out_close_0"
                        /\ proc[q].at \in InClose \/ proc[q].at = "out_close_0" => Links(q)' = Links(q)
    <3>1. "T_exit" \notin InClose /\ "free" \notin InClose
      BY DEF InClose
    <3> QED BY <1>1, <1>5, <1>7, <3>1 DEF Links
  <2> QED BY <1>6, <2>1, CountedKept
<1>10. SameRing(p)
  <2>1. "free" \notin Starting \cup Ring
    BY DEF Starting, Ring, First, Second, Third
  <2> QED BY <1>5, <2>1, SameRingIs
<1>11. Shaped(p)'
  <2>1. Shape(proc'[p], io'.fdt[p])
    BY <1>5, PlainShape
  <2> QED BY <2>1 DEF Shaped
<1>12. p \notin Live' /\ typed \subseteq typed' /\ \A k \in Pipes : io.used[k] => io'.used[k]
  BY <1>5, <1>6 DEF Live
<1>13. Plumbed'
  BY <1>2, <1>8, <1>9, <1>10, <1>11, <1>12, PlumbedMoves
<1>14. BytesKept /\ proc'[p].at \notin Starting \cup Ring
  BY <1>5, <1>6 DEF BytesKept, SameBytes, Starting, Ring, First, Second, Third
<1> QED BY <1>8, <1>13, <1>14 DEF Leaves

-----------------------------------------------------------------------------
(* pipe.                                                                   *)
LEMMA Takens ==
  ASSUME NEW j \in Pipes \cup {Null}, NEW k \in Pipes \cup {Null}
  PROVE  TakenUpTo(Console, 2) /\ TakenUpTo(Both(j), 4) /\ TakenUpTo(Two(j, k), 6)
<1>1. /\ End("READ", j).active /\ End("WRITE", j).active /\ End("READ", k).active /\ End("WRITE", k).active
      /\ Console[0].active /\ Console[1].active
  BY EndIs, ConsoleIs
<1>2. TakenUpTo(Console, 2)
  <2>1. \A fd \in Fds : fd = 0 \/ fd = 1 \/ fd >= 2
    BY DEF Fds
  <2> QED BY <1>1, <2>1, SmallFds, ConsoleIs DEF TakenUpTo
<1>3. TakenUpTo(Both(j), 4)
  <2>1. \A fd \in Fds : fd = 0 \/ fd = 1 \/ fd = 2 \/ fd = 3 \/ fd >= 4
    BY DEF Fds
  <2>2. Has(Both(j), Console[0], Console[1], End("READ", j), End("WRITE", j))
    BY TablesAre
  <2> QED BY <1>1, <2>1, <2>2, SmallFds DEF TakenUpTo, Has
<1>4. TakenUpTo(Two(j, k), 6)
  <2>1. \A fd \in Fds : fd = 0 \/ fd = 1 \/ fd = 2 \/ fd = 3 \/ fd = 4 \/ fd = 5 \/ fd >= 6
    BY DEF Fds
  <2> DEFINE t == Two(j, k)
  <2>2. /\ t[0] = Console[0] /\ t[1] = Console[1] /\ t[2] = End("READ", j) /\ t[3] = End("WRITE", j)
        /\ t[4] = End("READ", k) /\ t[5] = End("WRITE", k) /\ \A fd \in Fds : fd >= 6 => t[fd] = Unused
    BY RingTablesAre
  <2> HIDE DEF t
  <2>3. TakenUpTo(t, 6)
    <3> SUFFICES ASSUME NEW fd \in Fds
                 PROVE  IF fd < 6 THEN t[fd].active ELSE t[fd] = Unused
      BY DEF TakenUpTo
    <3>1. fd < 6 => fd = 0 \/ fd = 1 \/ fd = 2 \/ fd = 3 \/ fd = 4 \/ fd = 5
      BY DEF Fds
    <3>2. ~ (fd < 6) => fd >= 6
      BY DEF Fds
    <3> QED BY <1>1, <2>2, <3>1, <3>2
  <2> QED BY <2>3 DEF t
<1> QED BY <1>2, <1>3, <1>4

(* The process that opens the ring's pipes.                                *)
LEMMA StartShape ==
  ASSUME NEW s, NEW t, NEW j, j = t[2].pipe, NEW k, k = t[4].pipe,
         \/ s.at = "T2_pipe_2" /\ t = Both(j) /\ s.ends = <<Pair(2)>>
         \/ s.at = "T2_pipe_3" /\ t = Two(j, k) /\ s.ends = <<Pair(2), Pair(4)>> /\ Distinct(j, k),
         s.x = 0, s.i = 0
  PROVE  Shape(s, t)
<1>1. /\ s.at \notin Begin /\ s.at # "pipeline" /\ s.at \notin Quiet /\ s.at \notin Arranging
      /\ s.at \notin Paired /\ s.at \notin {"in_close_0", "in_close_1"} /\ s.at \notin Ring \cup {"T2_fork_1"}
      /\ s.at \notin {"out_close_0", "out_close_1", "P3_writer", "P3_reader", "T_exit"}
  BY DEF Begin, Paired, Arranging, Quiet, Ring, First, Second, Third
<1>2. /\ s.at = "T2_pipe_2" => t = Both(j) /\ s.ends = <<Pair(2)>>
      /\ s.at = "T2_pipe_3" => t = Two(j, k) /\ s.ends = <<Pair(2), Pair(4)>> /\ Distinct(j, k)
  OBVIOUS
<1>3. s.at # "T2_fork_1"
  OBVIOUS
<1> QED BY <1>1, <1>2, <1>3 DEF Shape

(* A step of p that gives it a pipe.                                       *)
Opens(p) ==
  /\ \A q \in Pids \ {p} : Untouched(q)
  /\ \A k \in Pipes : io'.pipe[k].bufferIndex = io.pipe[k].bufferIndex
  /\ \A k \in Pipes : io.used[k] => SameBytes(k)
  /\ \A k \in Links(p)' : k \in Links(p) \/ io'.pipe[k].bufferIndex = 0
  /\ io'.used = Given(io.used, NewPipe(io)) /\ io'.fault = io.fault
  /\ \A fd \in Fds : io'.fdt[p][fd] = io.fdt[p][fd] \/ io'.fdt[p][fd].pipe = NewPipe(io)

LEMMA OpenKeeps ==
  ASSUME Plumbed, NEW p \in Pids, proc[p].at \in Begin \cup Starting,
         NEW m \in {2, 4, 6}, NEW t, t = io.fdt[p], TakenUpTo(t, m), io' = pipe_kernel(io, p),
         proc' \in [Pids -> Process], \A q \in Pids \ {p} : proc'[q] = proc[q], typed' = typed,
         proc'[p].at \in Starting \cup {"plumb"}, proc'[p].at \in Starting => proc[p].at \in Starting,
         Shape(proc'[p], Opened(t, m, NewPipe(io)))
  PROVE  Plumbed' /\ Opens(p)
<1> DEFINE k == NewPipe(io)
<1>1. proc[p].at # "free"
  BY DEF Begin, Starting
<1>2. /\ p \in Live /\ io \in Tables /\ Shaped(p) /\ typed \subseteq Commands
      /\ proc[p].at \in Busy /\ t \in [Fds -> Descriptor]
  BY <1>1, PlumbedIs, TablesFields
<1>3. /\ k \in Pipes \cup {Null} /\ (k # Null => k \in Pipes /\ ~ io.used[k])
  BY NewPipeIs
<1> DEFINE u == Opened(t, m, k)
<1>4. /\ io' \in Tables /\ io'.fdt = [io.fdt EXCEPT ![p] = u] /\ io'.used = Given(io.used, k)
      /\ io'.fault = io.fault
      /\ \A j \in Pipes : /\ io'.pipe[j].fdCount = IF j = k THEN 2 ELSE io.pipe[j].fdCount
                          /\ io'.pipe[j].bufferIndex = io.pipe[j].bufferIndex
                          /\ j # k => io'.pipe[j] = io.pipe[j]
  <2> HIDE DEF k
  <2> QED BY <1>2, OpenIs DEF k
<1>5. \A fd \in {2, 4, 6} : u[fd].pipe \in {t[fd].pipe, k}
  <2>1. /\ u[m] = End("READ", k) /\ End("READ", k).pipe = k
        /\ \A fd \in Fds : fd # m /\ fd # m + 1 => u[fd] = t[fd]
    BY <1>2, <1>3, OpenedIs, EndIs
  <2> HIDE DEF u, k
  <2>2. \A fd \in {2, 4, 6} : fd \in Fds /\ fd # m + 1
    BY SmallFds
  <2> QED BY <2>1, <2>2
<1>17. \A fd \in Fds : u[fd] = t[fd] \/ u[fd].pipe = k
  <2>1. /\ u[m] = End("READ", k) /\ u[m + 1] = End("WRITE", k)
        /\ End("READ", k).pipe = k /\ End("WRITE", k).pipe = k
        /\ \A fd \in Fds : fd # m /\ fd # m + 1 => u[fd] = t[fd]
    BY <1>2, <1>3, OpenedIs, EndIs
  <2> HIDE DEF u, k
  <2> QED BY <2>1
<1> HIDE DEF k, u
<1>6. io'.fdt[p] = u /\ \A q \in Pids \ {p} : io'.fdt[q] = io.fdt[q]
  BY <1>2, <1>4, TablesFields
<1>7. \A j \in Pipes : /\ j = k => io'.used[j] /\ ~ io.used[j]
                       /\ j # k => (io'.used[j] <=> io.used[j])
                       /\ io.used[j] => io'.used[j]
  <2>1. io.used \in [Pipes -> BOOLEAN] /\ Null \notin Pipes
    BY <1>2, TablesFields DEF Pipes, Null
  <2> QED BY <1>3, <1>4, <2>1 DEF Given
<1>8. Typed' /\ \A q \in Pids \ {p} : Untouched(q)
  BY <1>2, <1>4, <1>6 DEF Typed, Untouched
<1>9. Counted'
  <2>1. \A q \in Pids : /\ proc'[q].at \in InClose <=> proc[q].at \in InClose
                        /\ proc'[q].at = "out_close_0" <=> proc[q].at = "out_close_0"
                        /\ proc[q].at \in InClose \/ proc[q].at = "out_close_0" => Links(q)' = Links(q)
    <3>1. /\ proc[p].at \notin InClose /\ proc[p].at # "out_close_0"
          /\ proc'[p].at \notin InClose /\ proc'[p].at # "out_close_0"
      BY DEF InClose, Begin, Starting
    <3> QED BY <1>6, <3>1 DEF Links
  <2>2. \A j \in Pipes :
           \/ /\ (io'.used[j] <=> io.used[j]) /\ io'.pipe[j].fdCount = io.pipe[j].fdCount
              /\ ~ io.used[j] => io'.pipe[j].bufferIndex = io.pipe[j].bufferIndex
           \/ ~ io.used[j] /\ io'.used[j] /\ io'.pipe[j].fdCount = 2
    <3> SUFFICES ASSUME NEW j \in Pipes
                 PROVE  \/ /\ (io'.used[j] <=> io.used[j]) /\ io'.pipe[j].fdCount = io.pipe[j].fdCount
                           /\ ~ io.used[j] => io'.pipe[j].bufferIndex = io.pipe[j].bufferIndex
                        \/ ~ io.used[j] /\ io'.used[j] /\ io'.pipe[j].fdCount = 2
      OBVIOUS
    <3>1. CASE j = k
      BY <1>4, <1>7, <3>1
    <3>2. CASE j # k
      BY <1>4, <1>7, <3>2
    <3> QED BY <3>1, <3>2
  <2> QED BY <2>1, <2>2, CountedKept
<1>10. SameRing(p)
  <2>1. /\ proc'[p].at \notin First /\ proc'[p].at \notin Second /\ proc'[p].at \notin Third
        /\ proc'[p].at # "T2_fork_2"
    BY DEF Starting, First, Second, Third
  <2> QED BY <2>1 DEF SameRing, Ring
<1>11. Shaped(p)'
  BY <1>6 DEF Shaped, u, k
<1>12. SidesKept(p, p)
  BY <1>2, OneSide DEF SidesKept
<1>13. \A j \in Links(p)' : j \in Links(p) \/ (j \in Pipes /\ ~ io.used[j] /\ io'.used[j])
  <2>1. \A j \in Links(p)' : j \in Links(p) \/ (j = k /\ k # Null)
    BY <1>5, <1>6 DEF Links, LinksOf
  <2> QED BY <1>3, <1>7, <2>1
<1>14. typed \subseteq typed' /\ \A j \in Pipes : io.used[j] => io'.used[j]
  BY <1>7
<1>15. Plumbed'
  BY <1>2, <1>8, <1>9, <1>10, <1>11, <1>12, <1>13, <1>14, PlumbedMoves
<1>16. Opens(p)
  <2>1. \A j \in Pipes : io.used[j] => SameBytes(j)
    BY <1>4, <1>7 DEF SameBytes
  <2>2. \A j \in Links(p)' : j \in Links(p) \/ io'.pipe[j].bufferIndex = 0
    BY <1>4, <1>13 DEF Plumbed, Counted
  <2>3. /\ io'.used = Given(io.used, NewPipe(io)) /\ io'.fault = io.fault
        /\ \A fd \in Fds : io'.fdt[p][fd] = io.fdt[p][fd] \/ io'.fdt[p][fd].pipe = NewPipe(io)
    BY <1>4, <1>6, <1>17 DEF k
  <2> QED BY <1>4, <1>8, <2>1, <2>2, <2>3 DEF Opens
<1> QED BY <1>15, <1>16

LEMMA OpenPipeIs ==
  ASSUME io \in Tables, proc \in [Pids -> Process], NEW p \in Pids, NEW m \in {2, 4, 6},
         TakenUpTo(io.fdt[p], m), NEW next \in Places, OpenPipe(p, next),
         NEW ends, ends = Append(proc[p].ends, Pair(m))
  PROVE  io' = pipe_kernel(io, p) /\ Becomes(p, next, ends, proc[p].x, proc[p].i)
<1> DEFINE s == proc[p]
<1>1. s \in Process /\ s.ends \in Seq([r : Nat, w : Nat]) /\ s.x \in Nat /\ s.i \in 0 .. Rounds
  BY ProcessIs
<1>2. [r |-> ReadEnd(io, p), w |-> WriteEnd(io, p)] = Pair(m)
  <2>1. ReadEnd(io, p) = m /\ WriteEnd(io, p) = m + 1
    BY FreeEnds
  <2> QED BY <2>1 DEF Pair
<1>3. Pair(m) \in [r : Nat, w : Nat]
  BY DEF Pair
<1>4. ends \in Seq([r : Nat, w : Nat])
  BY <1>1, <1>3
<1>5. /\ io' = pipe_kernel(io, p)
      /\ proc' = [proc EXCEPT ![p].at = next, ![p].ends = Append(proc[p].ends, Pair(m))]
  BY <1>2 DEF OpenPipe
<1>6. proc' = [proc EXCEPT ![p] = Changed(s, next, ends, s.x, s.i)]
  <2>1. [s EXCEPT !.at = next, !.ends = ends] = Changed(s, next, ends, s.x, s.i)
    BY <1>1 DEF Changed, Process
  <2>2. proc' = [proc EXCEPT ![p] = [s EXCEPT !.at = next, !.ends = ends]]
    BY <1>5
  <2> QED BY <2>1, <2>2
<1> QED BY <1>1, <1>4, <1>5, <1>6, BecomesIs

LEMMA BeginIs ==
  ASSUME Plumbed, NEW p \in Pids, proc[p].at \in Begin
  PROVE  /\ io \in Tables /\ proc \in [Pids -> Process] /\ p \in Live
         /\ io.fdt[p] = Console /\ TakenUpTo(Console, 2)
         /\ proc[p].ends = << >> /\ proc[p].x = 0 /\ proc[p].i = 0
         /\ proc[p].at = "pipeline" => proc[p].cmd[1] \in Quiet /\ proc[p].cmd[2] \in Quiet
<1>1. proc[p].at # "free"
  BY DEF Begin
<1>2. io \in Tables /\ proc \in [Pids -> Process] /\ Shaped(p) /\ p \in Live
  BY <1>1, PlumbedIs
<1>3. TakenUpTo(Console, 2)
  BY Takens
<1> QED BY <1>2, <1>3 DEF Shaped, Shape

LEMMA OpenPlumbingKeeps ==
  ASSUME Plumbed, NEW p \in Pids, OpenPlumbing(p), typed' = typed
  PROVE  Plumbed' /\ Leaves(p) /\ Opens(p)
<1> DEFINE at == proc[p].at
           k == NewPipe(io)
<1>1. at \in {"pipeline", "P3"} /\ at \in Begin
  BY DEF OpenPlumbing, At, Begin
<1>2. /\ io \in Tables /\ proc \in [Pids -> Process]
      /\ io.fdt[p] = Console /\ TakenUpTo(Console, 2)
      /\ proc[p].ends = << >> /\ proc[p].x = 0 /\ proc[p].i = 0
      /\ at = "pipeline" => proc[p].cmd[1] \in Quiet /\ proc[p].cmd[2] \in Quiet
  BY <1>1, BeginIs
<1>3. proc[p] \in Process /\ Append(<< >>, Pair(2)) = <<Pair(2)>>
  BY <1>2, ProcessIs
<1>4. k \in Pipes \cup {Null} /\ Opened(Console, 2, k) = Both(k) /\ Both(k)[2].pipe = k
  <2>1. k \in Pipes \cup {Null}
    BY NewPipeIs
  <2> HIDE DEF k
  <2>2. Both(k)[2].pipe = k
    BY <2>1, PairTables
  <2> QED BY <2>1, <2>2 DEF Both
<1>5. /\ io' = pipe_kernel(io, p) /\ proc' \in [Pids -> Process]
      /\ \A q \in Pids \ {p} : proc'[q] = proc[q]
      /\ proc'[p].at = "plumb" /\ proc'[p].ends = <<Pair(2)>>
      /\ proc'[p].cmd[1] \in Quiet \cup {"P3_writer"}
      /\ proc'[p].cmd[2] \in Quiet \cup {"P3_reader"}
  <2>1. CASE at = "pipeline"
    <3>1. OpenPipe(p, "plumb") /\ "plumb" \in Places
      BY <2>1 DEF OpenPlumbing, At, Places, Arranging, Paired
    <3>2. io' = pipe_kernel(io, p) /\ Becomes(p, "plumb", <<Pair(2)>>, proc[p].x, proc[p].i)
      BY <1>2, <1>3, <3>1, OpenPipeIs
    <3> QED BY <1>2, <2>1, <3>2 DEF Becomes
  <2>2. CASE at = "P3"
    <3> DEFINE s == proc[p]
               cmd == <<"P3_writer", "P3_reader">>
               new == [s EXCEPT !.at = "plumb", !.cmd = cmd, !.ends = <<Pair(2)>>]
    <3>1. [r |-> ReadEnd(io, p), w |-> WriteEnd(io, p)] = Pair(2)
      <4>1. ReadEnd(io, p) = 2 /\ WriteEnd(io, p) = 2 + 1
        BY <1>2, FreeEnds
      <4> QED BY <4>1 DEF Pair
    <3>2. io' = pipe_kernel(io, p) /\ proc' = [proc EXCEPT ![p] = new]
      BY <2>2, <3>1 DEF OpenPlumbing, At
    <3>3. /\ cmd \in Seq(Words) /\ <<Pair(2)>> \in Seq([r : Nat, w : Nat]) /\ "plumb" \in Places
          /\ cmd[1] = "P3_writer" /\ cmd[2] = "P3_reader"
      <4>1. cmd \in Seq(Words)
        <5>1. "P3_writer" \in Words /\ "P3_reader" \in Words
          BY DEF Words
        <5> QED BY <5>1
      <4>2. Pair(2) \in [r : Nat, w : Nat]
        BY DEF Pair
      <4>3. "plumb" \in Places
        BY DEF Places, Arranging, Paired
      <4> QED BY <4>1, <4>2, <4>3
    <3> HIDE DEF cmd
    <3>4. new \in Process /\ new.at = "plumb" /\ new.ends = <<Pair(2)>> /\ new.cmd = cmd
      BY <1>3, <3>3 DEF Process
    <3> HIDE DEF new
    <3>5. proc' \in [Pids -> Process] /\ proc'[p] = new /\ \A q \in Pids \ {p} : proc'[q] = proc[q]
      BY <1>2, <3>2, <3>4
    <3> QED BY <3>2, <3>3, <3>4, <3>5
  <2> QED BY <1>1, <2>1, <2>2
<1>6. Shape(proc'[p], Both(k))
  <2>1. "plumb" \in Paired
    BY DEF Paired
  <2> HIDE DEF k
  <2> QED BY <1>4, <1>5, <2>1, ArrangingShape
<1>7. "plumb" \notin Starting
  BY DEF Starting
<1>8. /\ proc[p].at \in Begin \cup Starting /\ TakenUpTo(io.fdt[p], 2) /\ proc'[p].at = "plumb"
      /\ Shape(proc'[p], Opened(io.fdt[p], 2, NewPipe(io))) /\ 2 \in {2, 4, 6}
  BY <1>1, <1>2, <1>4, <1>5, <1>6
<1>9. Plumbed' /\ Opens(p)
  BY <1>5, <1>7, <1>8, OpenKeeps
<1>10. ~ InRing(p)
  BY <1>1 DEF InRing, Ring, First, Second, Third
<1>11. proc'[p].at \notin Starting \cup Ring
  BY <1>8 DEF Starting, Ring, First, Second, Third
<1> QED BY <1>9, <1>10, <1>11 DEF Leaves, Opens

LEMMA NewIsDistinct ==
  ASSUME Plumbed, NEW p \in Live, NEW j \in Links(p) \cup {Null}
  PROVE  Distinct(j, NewPipe(io))
<1> DEFINE k == NewPipe(io)
<1>1. k # Null => ~ io.used[k]
  BY NewPipeIs
<1>2. j # Null => io.used[j]
  BY DEF Plumbed, LinksInUse
<1> HIDE DEF k
<1>3. j = k => j = Null
  BY <1>1, <1>2
<1> QED BY <1>3 DEF Distinct, k

LEMMA AppendIs ==
  ASSUME NEW S, NEW s \in Seq(S), NEW e \in S, NEW t \in Seq(S),
         Len(t) = Len(s) + 1, t[Len(s) + 1] = e, \A i \in 1 .. Len(s) : t[i] = s[i]
  PROVE  Append(s, e) = t
  OBVIOUS

LEMMA Appends ==
  /\ Append(<<Pair(2)>>, Pair(4)) = <<Pair(2), Pair(4)>>
  /\ Append(<<Pair(2), Pair(4)>>, Pair(6)) = Pairs
<1> DEFINE S == [r : Nat, w : Nat]
           one == <<Pair(2)>>
           two == <<Pair(2), Pair(4)>>
           three == <<Pair(2), Pair(4), Pair(6)>>
<1>1. Pair(2) \in S /\ Pair(4) \in S /\ Pair(6) \in S
  BY DEF Pair
<1> HIDE DEF S
<1>2. one \in Seq(S) /\ Len(one) = 1 /\ one[1] = Pair(2)
  BY <1>1
<1>3. two \in Seq(S) /\ Len(two) = 2 /\ two[1] = Pair(2) /\ two[2] = Pair(4)
  BY <1>1
<1>4. /\ three \in Seq(S) /\ Len(three) = 3
      /\ three[1] = Pair(2) /\ three[2] = Pair(4) /\ three[3] = Pair(6)
  BY <1>1
<1> HIDE DEF one, two, three
<1>5. (\A i \in 1 .. 1 : i = 1) /\ (\A i \in 1 .. 2 : i = 1 \/ i = 2) /\ 1 + 1 = 2 /\ 2 + 1 = 3
  OBVIOUS
<1>6. Append(one, Pair(4)) = two
  <2>1. /\ Len(two) = Len(one) + 1 /\ two[Len(one) + 1] = Pair(4)
        /\ \A i \in 1 .. Len(one) : two[i] = one[i]
    BY <1>2, <1>3, <1>5
  <2> QED BY ONLY <1>1, <1>2, <1>3, <2>1, AppendIs
<1>7. Append(two, Pair(6)) = three
  <2>1. /\ Len(three) = Len(two) + 1 /\ three[Len(two) + 1] = Pair(6)
        /\ \A i \in 1 .. Len(two) : three[i] = two[i]
    BY <1>3, <1>4, <1>5
  <2> QED BY ONLY <1>1, <1>3, <1>4, <2>1, AppendIs
<1> QED BY <1>6, <1>7 DEF one, two, three, Pairs

LEMMA OpenedFields ==
  ASSUME NEW t \in [Fds -> Descriptor], NEW m \in {2, 4, 6}, NEW k \in Pipes \cup {Null}, NEW u, u = Opened(t, m, k)
  PROVE  /\ u[m].pipe = k
         /\ \A fd \in {2, 4, 6} : fd # m => u[fd].pipe = t[fd].pipe
<1>1. /\ u[m] = End("READ", k) /\ End("READ", k).pipe = k
      /\ \A fd \in Fds : fd # m /\ fd # m + 1 => u[fd] = t[fd]
  BY OpenedIs, EndIs
<1>2. \A fd \in {2, 4, 6} : fd \in Fds /\ fd # m + 1
  BY SmallFds
<1> QED BY <1>1, <1>2

LEMMA RingOpensKeeps ==
  ASSUME Plumbed, NEW p \in Pids, typed' = typed,
         \/ At(p, "T2") /\ OpenPipe(p, "T2_pipe_2")
         \/ At(p, "T2_pipe_2") /\ OpenPipe(p, "T2_pipe_3")
         \/ At(p, "T2_pipe_3") /\ OpenPipe(p, "T2_fork_1")
  PROVE  Plumbed' /\ Opens(p) /\ {proc[p].at, proc'[p].at} \subseteq Starting
<1> DEFINE at == proc[p].at
           t == io.fdt[p]
           j == t[2].pipe
           k == t[4].pipe
           n == NewPipe(io)
<1>1. /\ at \in Starting /\ at # "free"
      /\ {"T2_pipe_2", "T2_pipe_3", "T2_fork_1"} \subseteq Places \cap Starting
  BY DEF At, Starting, Places
<1>2. /\ p \in Live /\ io \in Tables /\ proc \in [Pids -> Process] /\ Shaped(p)
  BY <1>1, PlumbedIs
<1>3. j \in Pipes \cup {Null} /\ k \in Pipes \cup {Null} /\ n \in Pipes \cup {Null}
  BY <1>2, LinkedPipes, NewPipeIs
<1>4. Distinct(j, n) /\ Distinct(k, n)
  <2>1. j \in Links(p) \cup {Null} /\ k \in Links(p) \cup {Null}
    BY DEF Links, LinksOf
  <2> QED BY <1>2, <2>1, NewIsDistinct
<1>5. ASSUME NEW m \in {2, 4, 6}, NEW next \in {"T2_pipe_2", "T2_pipe_3", "T2_fork_1"},
             TakenUpTo(t, m), OpenPipe(p, next),
             NEW ends, ends = Append(proc[p].ends, Pair(m))
      PROVE  /\ io' = pipe_kernel(io, p) /\ proc' \in [Pids -> Process]
             /\ \A q \in Pids \ {p} : proc'[q] = proc[q]
             /\ proc'[p].at = next /\ proc'[p].ends = ends
             /\ proc'[p].x = proc[p].x /\ proc'[p].i = proc[p].i
  <2>1. next \in Places /\ next \in Starting
    BY <1>1
  <2>2. io' = pipe_kernel(io, p) /\ Becomes(p, next, ends, proc[p].x, proc[p].i)
    BY <1>2, <1>5, <2>1, OpenPipeIs
  <2> QED BY <2>2 DEF Becomes
<1>9. t \in [Fds -> Descriptor]
  BY <1>2, TablesFields
<1> HIDE DEF t, j, k, n
<1>10. ASSUME NEW m \in {2, 4, 6}, TakenUpTo(t, m), io' = pipe_kernel(io, p), proc' \in [Pids -> Process],
              \A q \in Pids \ {p} : proc'[q] = proc[q],
              proc'[p].at \in {"T2_pipe_2", "T2_pipe_3", "T2_fork_1"}, Shape(proc'[p], Opened(t, m, n))
       PROVE  Plumbed' /\ Opens(p) /\ {proc[p].at, proc'[p].at} \subseteq Starting
  <2>1. /\ Plumbed /\ p \in Pids /\ proc[p].at \in Begin \cup Starting /\ m \in {2, 4, 6}
        /\ TakenUpTo(io.fdt[p], m) /\ io' = pipe_kernel(io, p)
        /\ proc' \in [Pids -> Process] /\ typed' = typed
        /\ proc'[p].at \in Starting \cup {"plumb"} /\ (proc'[p].at \in Starting => proc[p].at \in Starting)
        /\ Shape(proc'[p], Opened(io.fdt[p], m, NewPipe(io)))
    BY <1>1, <1>10 DEF t, n
  <2>2. Plumbed' /\ Opens(p)
    BY ONLY <1>10, <2>1, OpenKeeps
  <2> QED BY <1>1, <1>10, <2>2
<1>6. CASE At(p, "T2") /\ OpenPipe(p, "T2_pipe_2")
  <2>1. t = Console /\ proc[p].ends = << >> /\ proc[p].x = 0 /\ proc[p].i = 0 /\ TakenUpTo(t, 2)
    <3>1. at \in Begin
      BY <1>6 DEF At, Begin
    <3> QED BY <3>1, BeginIs DEF t
  <2> DEFINE ends == Append(proc[p].ends, Pair(2))
  <2>2. ends = <<Pair(2)>>
    BY <2>1
  <2> HIDE DEF ends
  <2>3. /\ io' = pipe_kernel(io, p) /\ proc' \in [Pids -> Process]
        /\ \A q \in Pids \ {p} : proc'[q] = proc[q]
        /\ proc'[p].at = "T2_pipe_2" /\ proc'[p].ends = ends
        /\ proc'[p].x = proc[p].x /\ proc'[p].i = proc[p].i
    BY <1>5, <1>6, <2>1 DEF ends
  <2>4. Opened(t, 2, n) = Both(n) /\ Both(n)[2].pipe = n
    <3>1. Both(n)[2].pipe = n
      BY <1>3, PairTables
    <3> QED BY <2>1, <3>1 DEF Both
  <2>5. Shape(proc'[p], Both(n))
    BY <2>1, <2>2, <2>3, <2>4, StartShape
  <2> QED BY <1>10, <2>1, <2>3, <2>4, <2>5
<1>7. CASE At(p, "T2_pipe_2") /\ OpenPipe(p, "T2_pipe_3")
  <2>1. t = Both(j) /\ proc[p].ends = <<Pair(2)>> /\ proc[p].x = 0 /\ proc[p].i = 0 /\ TakenUpTo(t, 4)
    <3>1. t = Both(j) /\ proc[p].ends = <<Pair(2)>> /\ proc[p].x = 0 /\ proc[p].i = 0
      BY <1>2, <1>7 DEF At, Shaped, Shape, t, j
    <3> QED BY <1>3, <3>1, Takens
  <2> DEFINE ends == Append(proc[p].ends, Pair(4))
  <2>2. ends = <<Pair(2), Pair(4)>>
    BY <2>1, Appends
  <2> HIDE DEF ends
  <2>3. /\ io' = pipe_kernel(io, p) /\ proc' \in [Pids -> Process]
        /\ \A q \in Pids \ {p} : proc'[q] = proc[q]
        /\ proc'[p].at = "T2_pipe_3" /\ proc'[p].ends = ends
        /\ proc'[p].x = proc[p].x /\ proc'[p].i = proc[p].i
    BY <1>5, <1>7, <2>1 DEF ends
  <2>4. Opened(t, 4, n) = Two(j, n) /\ Two(j, n)[2].pipe = j /\ Two(j, n)[4].pipe = n
    <3>1. Opened(t, 4, n)[2].pipe = j /\ Opened(t, 4, n)[4].pipe = n
      BY <1>3, <1>9, OpenedFields DEF j
    <3> QED BY <2>1, <3>1 DEF Two
  <2>5. Shape(proc'[p], Two(j, n))
    BY <1>4, <2>1, <2>2, <2>3, <2>4, StartShape
  <2> QED BY <1>10, <2>1, <2>3, <2>4, <2>5
<1>8. CASE At(p, "T2_pipe_3") /\ OpenPipe(p, "T2_fork_1")
  <2>1. /\ t = Two(j, k) /\ proc[p].ends = <<Pair(2), Pair(4)>> /\ proc[p].x = 0 /\ proc[p].i = 0
        /\ TakenUpTo(t, 6) /\ Distinct(j, k)
    <3>1. /\ t = Two(j, k) /\ proc[p].ends = <<Pair(2), Pair(4)>> /\ proc[p].x = 0 /\ proc[p].i = 0
          /\ Distinct(j, k)
      BY <1>2, <1>8 DEF At, Shaped, Shape, t, j, k
    <3> QED BY <1>3, <3>1, Takens
  <2> DEFINE ends == Append(proc[p].ends, Pair(6))
  <2>2. ends = Pairs
    BY <2>1, Appends
  <2> HIDE DEF ends
  <2>3. /\ io' = pipe_kernel(io, p) /\ proc' \in [Pids -> Process]
        /\ \A q \in Pids \ {p} : proc'[q] = proc[q]
        /\ proc'[p].at = "T2_fork_1" /\ proc'[p].ends = ends
        /\ proc'[p].x = proc[p].x /\ proc'[p].i = proc[p].i
    BY <1>5, <1>8, <2>1 DEF ends
  <2>4. /\ Opened(t, 6, n) = Three(j, k, n) /\ Three(j, k, n)[2].pipe = j
        /\ Three(j, k, n)[4].pipe = k /\ Three(j, k, n)[6].pipe = n
    <3>1. /\ Opened(t, 6, n)[2].pipe = j /\ Opened(t, 6, n)[4].pipe = k
          /\ Opened(t, 6, n)[6].pipe = n
      BY <1>3, <1>9, OpenedFields DEF j, k
    <3> QED BY <2>1, <3>1 DEF Three
  <2>5. Shape(proc'[p], Three(j, k, n))
    BY <1>4, <2>1, <2>2, <2>3, <2>4, RingShape
  <2> QED BY <1>10, <2>1, <2>3, <2>4, <2>5
<1> QED BY <1>6, <1>7, <1>8
-----------------------------------------------------------------------------
(* fork.                                                                   *)
Forks(p, c, parent, child) ==
  /\ p \in Live /\ c \in Pids \ Live /\ parent \in Process /\ child \in Process
  /\ io' = copy_parents_fd(io, p, c)
  /\ proc' = [proc EXCEPT ![p] = parent, ![c] = child]

LEMMA ForksIs ==
  ASSUME Plumbed, NEW p, NEW c, NEW parent, NEW child, Forks(p, c, parent, child),
         NEW t, t = io.fdt[p]
  PROVE  /\ p \in Pids /\ c \in Pids /\ p # c /\ p \in Live /\ c \in Pids \ Live
         /\ io' \in Tables /\ proc' \in [Pids -> Process]
         /\ proc[p].at # "free" /\ proc[c].at = "free" /\ proc'[p] = parent /\ proc'[c] = child
         /\ io'.fdt[p] = t /\ io'.fdt[c] = t /\ io'.pipe = io.pipe /\ io'.used = io.used
         /\ io'.fault = io.fault
         /\ \A q \in Pids \ {p, c} : Untouched(q)
         /\ Links(p)' = Links(p) /\ Links(c)' = Links(p)
<1>1. p \in Pids /\ c \in Pids /\ p # c /\ p \in Live /\ proc[p].at # "free" /\ proc[c].at = "free"
  BY DEF Forks, Live
<1>2. io \in Tables /\ proc \in [Pids -> Process]
  BY DEF Plumbed, Typed
<1>3. /\ io' \in Tables /\ io'.fdt = [io.fdt EXCEPT ![c] = io.fdt[p]]
      /\ io'.pipe = io.pipe /\ io'.used = io.used /\ io'.fault = io.fault
  <2>1. io' = copy_parents_fd(io, p, c)
    BY DEF Forks
  <2> QED BY <1>1, <1>2, <2>1, ForkIs
<1>4. proc' = [proc EXCEPT ![p] = parent, ![c] = child] /\ parent \in Process /\ child \in Process
  BY DEF Forks
<1>5. /\ proc' \in [Pids -> Process] /\ proc'[p] = parent /\ proc'[c] = child
      /\ \A q \in Pids \ {p, c} : proc'[q] = proc[q]
  BY <1>1, <1>2, <1>4
<1>6. io'.fdt[p] = t /\ io'.fdt[c] = t /\ \A q \in Pids \ {p, c} : io'.fdt[q] = io.fdt[q]
  BY <1>1, <1>2, <1>3, TablesFields
<1>7. \A q \in Pids \ {p, c} : Untouched(q)
  BY <1>5, <1>6 DEF Untouched
<1>8. Links(p)' = Links(p) /\ Links(c)' = Links(p)
  BY <1>6 DEF Links
<1> QED BY <1>1, <1>3, <1>5, <1>6, <1>7, <1>8 DEF Forks

LEMMA ForkKeeps ==
  ASSUME Plumbed, NEW p, NEW c, NEW parent, NEW child, Forks(p, c, parent, child),
         NEW t, t = io.fdt[p], typed' \subseteq Commands, OneRing',
         Shape(parent, t), Shape(child, t), SidesKept(p, p), SidesKept(p, c),
         Links(p) # {} => Partners(p, c)',
         \A at \in {proc[p].at, parent.at, child.at} : at \notin InClose /\ at # "out_close_0"
  PROVE  Plumbed'
<1>1. /\ p \in Pids /\ c \in Pids /\ p # c /\ p \in Live /\ c \in Pids \ Live
      /\ io' \in Tables /\ proc' \in [Pids -> Process]
      /\ proc[p].at # "free" /\ proc[c].at = "free" /\ proc'[p] = parent /\ proc'[c] = child
      /\ io'.fdt[p] = t /\ io'.fdt[c] = t /\ io'.pipe = io.pipe /\ io'.used = io.used
      /\ \A q \in Pids \ {p, c} : Untouched(q)
      /\ Links(p)' = Links(p) /\ Links(c)' = Links(p)
  BY ForksIs
<1>2. Typed'
  BY <1>1 DEF Typed
<1>3. LinksInUse' /\ Apart'
  BY <1>1, <1>2, LinksForked
<1>4. Counted'
  <2>1. \A q \in Pids : /\ proc'[q].at \in InClose <=> proc[q].at \in InClose
                        /\ proc'[q].at = "out_close_0" <=> proc[q].at = "out_close_0"
                        /\ proc[q].at \in InClose \/ proc[q].at = "out_close_0" => Links(q)' = Links(q)
    <3>1. "free" \notin InClose
      BY DEF InClose
    <3>2. \A q \in Pids \ {p, c} : proc'[q] = proc[q] /\ Links(q)' = Links(q)
      BY <1>1, UntouchedIs DEF Untouched
    <3> QED BY <1>1, <3>1, <3>2
  <2>2. \A k \in Pipes :
           /\ (io'.used[k] <=> io.used[k]) /\ io'.pipe[k].fdCount = io.pipe[k].fdCount
           /\ ~ io.used[k] => io'.pipe[k].bufferIndex = io.pipe[k].bufferIndex
    BY <1>1
  <2> QED BY <2>1, <2>2, CountedKept
<1>5. \A q \in Pids : Shaped(q)'
  <2>1. Shaped(p)' /\ Shaped(c)'
    BY <1>1 DEF Shaped
  <2>2. \A q \in Pids \ {p, c} : Shaped(q)'
    BY <1>1, UntouchedIs DEF Plumbed
  <2> QED BY <2>1, <2>2
<1> QED BY <1>2, <1>3, <1>4, <1>5 DEF Plumbed

LEMMA ForkToIs ==
  ASSUME Plumbed, NEW p \in Live, NEW parent \in Process, NEW child \in Process, ForkTo(p, parent, child)
  PROVE  \E c \in Pids : Forks(p, c, parent, child)
  BY DEF ForkTo, Forks

(* The processes of the other places are no part of a ring.                *)
LEMMA RingForked ==
  ASSUME Plumbed, NEW p, NEW c, NEW parent, NEW child, Forks(p, c, parent, child),
         typed \subseteq typed', parent = proc[p] \/ parent.at \notin Starting \cup Ring,
         child.at \notin Starting \cup Ring
  PROVE  OneRing'
<1>1. /\ p \in Pids /\ c \in Pids /\ p # c /\ proc'[p] = parent /\ proc'[c] = child
      /\ io'.fdt[p] = io.fdt[p] /\ \A q \in Pids \ {p, c} : Untouched(q)
  BY ForksIs
<1>2. SameRing(c)
  BY <1>1, SameRingIs
<1>3. SameRing(p)
  <2>1. parent = proc[p] => Untouched(p)
    BY <1>1 DEF Untouched
  <2> QED BY <1>1, <2>1, SameRingIs
<1>4. \A q \in Pids : SameRing(q)
  BY <1>1, <1>2, <1>3, SameRingIs
<1> QED BY <1>4, RingKept

(* A fork after which neither process is in the ring that was not.         *)
Branches(p) ==
  \E c \in Pids \ {p} :
    /\ \A q \in Pids \ {p, c} : Untouched(q)
    /\ io'.pipe = io.pipe
    /\ \/ proc'[p].at \notin Starting \cup Ring
       \/ Untouched(p)
    /\ \/ proc'[c].at \notin Starting \cup Ring
       \/ proc'[c].at \notin Ring /\ Links(c)' = {}

LEMMA NoSides ==
  ASSUME Plumbed, NEW p \in Live, NEW q, proc[p].at \in Begin \cup Starting \cup {"plumb"}
  PROVE  SidesKept(p, q)
<1>1. io \in Tables /\ p \in Pids /\ Shaped(p) /\ proc[p].at \in Busy
  <2>1. p \in Pids /\ proc[p].at # "free"
    BY DEF Live
  <2> QED BY <2>1, PlumbedIs
<1>2. ~ Reader(p) /\ ~ Writer(p) /\ ~ InRing(p)
  BY <1>1, OneSide
<1> QED BY <1>2 DEF SidesKept

Started(cmd) == [Shell EXCEPT !.at = IF Len(cmd) = 2 THEN "pipeline" ELSE cmd[1], !.cmd = cmd]

LEMMA StartedIs ==
  ASSUME Plain, NEW cmd \in Commands, NEW s, s = Started(cmd)
  PROVE  /\ s \in Process /\ s.ends = << >> /\ s.x = 0 /\ s.i = 0
         /\ s.at \in Quiet \cup {"P3", "T2", "pipeline"}
         /\ s.at \in {"P3", "T2"} => cmd = <<s.at>>
         /\ s.at = "pipeline" => s.cmd[1] \in Quiet /\ s.cmd[2] \in Quiet
<1> DEFINE at == IF Len(cmd) = 2 THEN "pipeline" ELSE cmd[1]
<1>1. \/ \E c \in Quiet \cup {"P3", "T2"} : cmd = <<c>>
      \/ \E c \in Quiet, d \in Quiet : cmd = <<c, d>>
  BY DEF Plain
<1>2. CASE \E c \in Quiet \cup {"P3", "T2"} : cmd = <<c>>
  <2>1. PICK c \in Quiet \cup {"P3", "T2"} : cmd = <<c>>
    BY <1>2
  <2>2. c \in Words /\ c \in Places
    BY DEF Words, Places, Begin
  <2>3. cmd \in Seq(Words) /\ Len(cmd) = 1 /\ cmd[1] = c
    BY <2>1, <2>2
  <2>4. at = c
    BY <2>3
  <2> HIDE DEF at
  <2>5. s = [at |-> c, cmd |-> cmd, ends |-> << >>, x |-> 0, i |-> 0]
    BY <2>4 DEF Started, Shell, at
  <2>6. s \in Process
    <3>1. << >> \in Seq([r : Nat, w : Nat]) /\ 0 \in 0 .. Rounds
      BY ProgramsAssumption
    <3> QED BY <2>2, <2>3, <2>5, <3>1 DEF Process
  <2>7. c # "pipeline"
    BY DEF Quiet
  <2>9. s.at = c /\ s.ends = << >> /\ s.x = 0 /\ s.i = 0
    BY <2>5
  <2> QED BY <2>1, <2>6, <2>7, <2>9
<1>3. CASE \E c \in Quiet, d \in Quiet : cmd = <<c, d>>
  <2>1. PICK c \in Quiet, d \in Quiet : cmd = <<c, d>>
    BY <1>3
  <2>2. c \in Words /\ d \in Words /\ "pipeline" \in Places
    BY DEF Words, Places, Begin
  <2>3. cmd \in Seq(Words) /\ Len(cmd) = 2 /\ cmd[1] = c /\ cmd[2] = d
    BY <2>1, <2>2
  <2>4. at = "pipeline"
    BY <2>3
  <2> HIDE DEF at
  <2>5. s = [at |-> "pipeline", cmd |-> cmd, ends |-> << >>, x |-> 0, i |-> 0]
    BY <2>4 DEF Started, Shell, at
  <2>6. s \in Process
    <3>1. << >> \in Seq([r : Nat, w : Nat]) /\ 0 \in 0 .. Rounds
      BY ProgramsAssumption
    <3> QED BY <2>2, <2>3, <2>5, <3>1 DEF Process
  <2>7. s.at = "pipeline" /\ s.cmd = cmd /\ s.ends = << >> /\ s.x = 0 /\ s.i = 0
    BY <2>5
  <2> QED BY <2>3, <2>6, <2>7
<1> QED BY <1>1, <1>2, <1>3

LEMMA T2Forked ==
  ASSUME Plumbed, NEW p, NEW c, NEW child, Forks(p, c, proc[p], child),
         child.at = "T2", proc[p].at = "prompt", <<"T2">> \notin typed, <<"T2">> \in typed'
  PROVE  OneRing'
<1>1. /\ p \in Pids /\ c \in Pids /\ p # c /\ proc'[p] = proc[p] /\ proc'[c] = child
      /\ \A q \in Pids \ {p, c} : Untouched(q)
  BY ForksIs
<1>2. \A q \in Pids : proc[q].at \notin Starting \cup Ring
  BY DEF Plumbed, OneRing
<1>3. \A q \in Pids \ {c} : proc'[q].at \notin Starting \cup Ring
  BY <1>1, <1>2 DEF Untouched
<1>4. proc'[c].at \in Starting /\ proc'[c].at \notin Ring
  BY <1>1 DEF Starting, Ring, First, Second, Third
<1>5. "T2_fork_2" \in Ring /\ First \subseteq Ring /\ Second \subseteq Ring /\ Third \subseteq Ring
  BY DEF Ring, Second
<1>6. ASSUME NEW q \in Pids, NEW r \in Pids, q # r
      PROVE  /\ proc'[q].at \in Starting => proc'[r].at \notin Starting \cup Ring
             /\ ~ {proc'[q].at, proc'[r].at} \subseteq First
             /\ ~ {proc'[q].at, proc'[r].at} \subseteq Second
             /\ ~ {proc'[q].at, proc'[r].at} \subseteq Third
             /\ proc'[q].at = "T2_fork_2" => proc'[r].at \notin Third
             /\ proc'[q].at \in Ring /\ proc'[r].at \in Ring => io'.fdt[q] = io'.fdt[r]
  <2>1. proc'[q].at \notin Ring /\ proc'[r].at \notin Ring
    BY <1>3, <1>4
  <2>2. proc'[q].at \in Starting => proc'[r].at \notin Starting \cup Ring
    BY <1>3, <1>6
  <2> QED BY <1>5, <2>1, <2>2
<1> QED BY <1>6 DEF OneRing

LEMMA CommandKeeps ==
  ASSUME Plain, Plumbed, NEW p \in Pids, Command(p)
  PROVE  Plumbed' /\ Branches(p)
<1>1. PICK cmd \in Commands \ typed : /\ At(p, "prompt") /\ typed' = typed \cup {cmd}
                                      /\ ForkTo(p, proc[p], Started(cmd))
  BY DEF Command, Started
<1> DEFINE s == Started(cmd)
           t == io.fdt[p]
<1>2. proc[p].at = "prompt" /\ proc[p].at # "free" /\ proc[p].at \in Begin
  BY <1>1 DEF At, Begin
<1>3. /\ p \in Live /\ io \in Tables /\ proc \in [Pids -> Process] /\ Shaped(p) /\ proc[p] \in Process
      /\ t = Console /\ typed \subseteq Commands
  BY <1>2, PlumbedIs, BeginIs
<1>4. /\ s \in Process /\ s.ends = << >> /\ s.x = 0 /\ s.i = 0
      /\ s.at \in Quiet \cup {"P3", "T2", "pipeline"}
      /\ s.at = "T2" => cmd = <<"T2">>
      /\ s.at = "pipeline" => s.cmd[1] \in Quiet /\ s.cmd[2] \in Quiet
  BY StartedIs
<1> HIDE DEF s
<1>5. PICK c \in Pids : Forks(p, c, proc[p], s)
  <2>1. ForkTo(p, proc[p], s)
    BY <1>1 DEF s
  <2> QED BY <1>3, <1>4, <2>1, ForkToIs
<1>6. typed' \subseteq Commands /\ typed \subseteq typed'
  BY <1>1, <1>3
<1>7. Shape(s, t)
  <2>1. Len(s.ends) < 3
    BY <1>4
  <2> QED BY <1>3, <1>4, <2>1, PlainShape
<1>8. Shape(proc[p], t)
  BY <1>3 DEF Shaped
<1>9. Links(p) = {}
  BY <1>3, ConsoleLinks DEF Links
<1>10. OneRing'
  <2>1. CASE s.at = "T2"
    BY <1>1, <1>2, <1>4, <1>5, <2>1, T2Forked
  <2>2. CASE s.at # "T2"
    <3>1. s.at \notin Starting \cup Ring
      BY <1>4, <2>2 DEF Quiet, Starting, Ring, First, Second, Third
    <3> QED BY <1>5, <1>6, <3>1, RingForked
  <2> QED BY <2>1, <2>2
<1>11. SidesKept(p, p) /\ SidesKept(p, c)
  BY <1>2, <1>3, NoSides
<1>12. \A at \in {proc[p].at, s.at} : at \notin InClose /\ at # "out_close_0"
  BY <1>2, <1>4 DEF Quiet, InClose
<1>13. Plumbed'
  BY <1>5, <1>6, <1>7, <1>8, <1>9, <1>10, <1>11, <1>12, ForkKeeps
<1>14. Branches(p)
  <2>1. /\ p # c /\ proc'[p] = proc[p] /\ proc'[c] = s /\ io'.fdt[p] = t /\ io'.pipe = io.pipe
        /\ \A q \in Pids \ {p, c} : Untouched(q)
        /\ Links(c)' = Links(p)
    BY <1>5, ForksIs
  <2>2. Untouched(p)
    BY <2>1 DEF Untouched
  <2>3. s.at \notin Ring
    BY <1>4 DEF Quiet, Ring, First, Second, Third
  <2>4. proc'[c].at \notin Ring /\ Links(c)' = {} /\ c \in Pids \ {p}
    BY <1>9, <2>1, <2>3
  <2> QED BY <2>1, <2>2, <2>4 DEF Branches
<1> QED BY <1>13, <1>14

LEMMA AtIs ==
  ASSUME NEW s \in Process, NEW at \in Places, NEW r, r = [s EXCEPT !.at = at]
  PROVE  /\ r \in Process /\ r.at = at /\ r.ends = s.ends /\ r.cmd = s.cmd /\ r.x = s.x /\ r.i = s.i
  BY DEF Process

LEMMA PlumbForkKeeps ==
  ASSUME Plumbed, NEW p \in Pids, ForkPlumbing(p), typed' = typed
  PROVE  Plumbed' /\ Branches(p)
<1> DEFINE s == proc[p]
           t == io.fdt[p]
           k == t[2].pipe
           parent == [s EXCEPT !.at = "out_dup2"]
           child == [s EXCEPT !.at = "in_dup2"]
<1>1. s.at = "plumb" /\ s.at \in Arranging /\ s.at # "free"
  BY DEF ForkPlumbing, At, Arranging, Paired
<1>2. /\ p \in Live /\ io \in Tables /\ proc \in [Pids -> Process] /\ s \in Process
      /\ typed \subseteq Commands
  BY <1>1, PlumbedIs
<1>3. /\ t = Both(k) /\ s.ends = <<Pair(2)>> /\ k \in Pipes \cup {Null}
      /\ s.cmd[1] \in Quiet \cup {"P3_writer"} /\ s.cmd[2] \in Quiet \cup {"P3_reader"}
  <2>1. s.at \in Paired
    BY <1>1 DEF Paired
  <2> QED BY <1>1, <2>1, ArrangingIs
<1>4. ForkTo(p, parent, child)
  BY DEF ForkPlumbing
<1>5. "out_dup2" \in Places /\ "in_dup2" \in Places
  BY DEF Places, Arranging, Paired
<1>6. /\ parent \in Process /\ parent.at = "out_dup2" /\ parent.ends = s.ends /\ parent.cmd = s.cmd
      /\ child \in Process /\ child.at = "in_dup2" /\ child.ends = s.ends /\ child.cmd = s.cmd
  BY <1>2, <1>5, AtIs
<1> HIDE DEF s, t, k, parent, child
<1>7. PICK c \in Pids : Forks(p, c, parent, child)
  BY <1>2, <1>4, <1>6, ForkToIs
<1>8. Shape(parent, t) /\ Shape(child, t)
  <2>1. parent.at \in Paired /\ child.at \in Paired
    BY <1>6 DEF Paired
  <2> QED BY <1>3, <1>6, <2>1, ArrangingShape DEF k
<1>9. OneRing'
  <2>1. parent.at \notin Starting \cup Ring /\ child.at \notin Starting \cup Ring
    BY <1>6 DEF Starting, Ring, First, Second, Third
  <2> QED BY <1>7, <2>1, RingForked
<1>10. SidesKept(p, p) /\ SidesKept(p, c)
  BY <1>1, <1>2, NoSides DEF s
<1>11. Partners(p, c)'
  <2>1. proc'[p] = parent /\ proc'[c] = child
    BY <1>7, ForksIs
  <2> QED BY <1>6, <2>1 DEF Partners, Reader, Writer
<1>12. \A at \in {proc[p].at, parent.at, child.at} : at \notin InClose /\ at # "out_close_0"
  BY <1>1, <1>6 DEF InClose, s
<1>13. Plumbed'
  BY <1>2, <1>7, <1>8, <1>9, <1>10, <1>11, <1>12, ForkKeeps DEF t
<1>14. Branches(p)
  <2>1. /\ p # c /\ proc'[p] = parent /\ proc'[c] = child /\ io'.pipe = io.pipe
        /\ \A q \in Pids \ {p, c} : Untouched(q)
    BY <1>7, ForksIs
  <2>2. parent.at \notin Starting \cup Ring /\ child.at \notin Starting \cup Ring
    BY <1>6 DEF Starting, Ring, First, Second, Third
  <2> QED BY <2>1, <2>2 DEF Branches
<1> QED BY <1>13, <1>14

(* The places of the two processes of a fork of T2.                        *)
Splits(at, parent, child) ==
  \/ at = "T2_fork_1" /\ parent = "P1_write" /\ child = "T2_fork_2"
  \/ at = "T2_fork_2" /\ parent = "P2_read" /\ child = "P3_read"

RingBranches(p) ==
  \E c \in Pids \ {p}, at \in Ring, kid \in Ring :
    /\ \A q \in Pids \ {p, c} : Untouched(q)
    /\ Splits(proc[p].at, at, kid) /\ io'.pipe = io.pipe
    /\ \A q \in {p, c} : /\ io'.fdt[q] = io.fdt[p] /\ proc'[q].x = proc[p].x /\ proc'[q].i = proc[p].i
    /\ proc'[p].at = at /\ proc'[c].at = kid

LEMMA RingSplit ==
  ASSUME Plumbed, NEW p, NEW c, NEW parent, NEW child, Forks(p, c, parent, child),
         Splits(proc[p].at, parent.at, child.at), typed' = typed
  PROVE  OneRing'
<1>1. /\ p \in Pids /\ c \in Pids /\ p # c /\ proc'[p] = parent /\ proc'[c] = child
      /\ io'.fdt[p] = io.fdt[p] /\ io'.fdt[c] = io.fdt[p]
      /\ \A q \in Pids \ {p, c} : Untouched(q)
  BY ForksIs
<1>2. OneRing
  BY DEF Plumbed
<1>3. proc[p].at \in Starting \cup Ring /\ <<"T2">> \in typed
  <2>1. proc[p].at \in Starting \cup Ring
    BY DEF Splits, Starting, Ring, Second
  <2> QED BY <1>1, <1>2, <2>1 DEF OneRing
<1>4. parent.at \in Ring /\ child.at \in Ring /\ parent.at \notin Starting /\ child.at \notin Starting
  BY DEF Splits, Starting, Ring, First, Second, Third
<1>5. ASSUME NEW q \in Pids \ {p, c}
      PROVE  /\ proc'[q].at = proc[q].at /\ io'.fdt[q] = io.fdt[q]
             /\ proc[q].at \notin Starting
             /\ proc[p].at = "T2_fork_1" => proc[q].at \notin Ring
             /\ proc[p].at = "T2_fork_2" => proc[q].at \notin Second \cup Third
             /\ proc[q].at \in Ring => io.fdt[q] = io.fdt[p]
  <2>1. proc'[q].at = proc[q].at /\ io'.fdt[q] = io.fdt[q]
    BY <1>1 DEF Untouched
  <2>2. q \in Pids /\ q # p
    BY <1>5
  <2>3. /\ proc[q].at \in Starting => proc[p].at \notin Starting \cup Ring
        /\ proc[p].at \in Starting => proc[q].at \notin Starting \cup Ring
        /\ ~ {proc[p].at, proc[q].at} \subseteq Second
        /\ proc[p].at = "T2_fork_2" => proc[q].at \notin Third
        /\ proc[q].at \in Ring /\ proc[p].at \in Ring => io.fdt[q] = io.fdt[p]
    BY <1>1, <1>2, <2>2 DEF OneRing
  <2>4. proc[p].at = "T2_fork_1" => proc[p].at \in Starting
    BY DEF Starting
  <2>5. proc[p].at = "T2_fork_2" => proc[p].at \in Second /\ proc[p].at \in Ring
    BY DEF Second, Ring
  <2>6. proc[p].at = "T2_fork_1" \/ proc[p].at = "T2_fork_2"
    BY DEF Splits
  <2> QED BY <1>3, <2>1, <2>3, <2>4, <2>5, <2>6
<1>6. ASSUME NEW q \in Pids, proc'[q].at \in Starting \cup Ring
      PROVE  <<"T2">> \in typed'
  BY <1>3
<1>7. ASSUME NEW q \in Pids, NEW r \in Pids, q # r
      PROVE  /\ proc'[q].at \in Starting => proc'[r].at \notin Starting \cup Ring
             /\ ~ {proc'[q].at, proc'[r].at} \subseteq First
             /\ ~ {proc'[q].at, proc'[r].at} \subseteq Second
             /\ ~ {proc'[q].at, proc'[r].at} \subseteq Third
             /\ proc'[q].at = "T2_fork_2" => proc'[r].at \notin Third
             /\ proc'[q].at \in Ring /\ proc'[r].at \in Ring => io'.fdt[q] = io'.fdt[r]
  <2>1. proc'[q].at \notin Starting
    BY <1>1, <1>4, <1>5
  <2>2. CASE q \notin {p, c} /\ r \notin {p, c}
    BY <1>2, <1>5, <1>7, <2>1, <2>2 DEF OneRing
  <2>3. CASE {q, r} \cap {p, c} # {}
    <3>1. proc'[q].at \in Ring /\ proc'[r].at \in Ring => io'.fdt[q] = io'.fdt[r]
      BY <1>1, <1>5
    <3>2. CASE proc[p].at = "T2_fork_1"
      <4>1. parent.at = "P1_write" /\ child.at = "T2_fork_2"
        BY <3>2 DEF Splits
      <4>2. \A z \in Pids \ {p, c} : proc'[z].at \notin Ring
        BY <1>5, <3>2
      <4> QED BY <1>1, <1>7, <2>1, <2>3, <3>1, <4>1, <4>2 DEF Ring, First, Second, Third
    <3>3. CASE proc[p].at = "T2_fork_2"
      <4>1. parent.at = "P2_read" /\ child.at = "P3_read"
        BY <3>3 DEF Splits
      <4>2. \A z \in Pids \ {p, c} : proc'[z].at \notin Second \cup Third
        BY <1>5, <3>3
      <4> QED BY <1>1, <1>7, <2>1, <2>3, <3>1, <4>1, <4>2 DEF First, Second, Third
    <3> QED BY <3>2, <3>3 DEF Splits
  <2> QED BY <2>2, <2>3
<1> QED BY <1>6, <1>7 DEF OneRing

LEMMA T2ForkKeeps ==
  ASSUME Plumbed, NEW p \in Pids, typed' = typed, NEW at, NEW kid, Splits(proc[p].at, at, kid),
         ForkTo(p, [proc[p] EXCEPT !.at = at], [proc[p] EXCEPT !.at = kid])
  PROVE  Plumbed' /\ RingBranches(p)
<1> DEFINE s == proc[p]
           t == io.fdt[p]
           parent == [s EXCEPT !.at = at]
           child == [s EXCEPT !.at = kid]
           j == t[2].pipe
           k == t[4].pipe
           l == t[6].pipe
<1>1. /\ s.at \in Ring \cup {"T2_fork_1"} /\ s.at # "free" /\ at \in Ring /\ kid \in Ring
      /\ at \in Places /\ kid \in Places
  BY DEF Splits, Ring, First, Second, Third, Places
<1>2. /\ p \in Live /\ io \in Tables /\ proc \in [Pids -> Process] /\ s \in Process /\ Shaped(p)
      /\ typed \subseteq Commands /\ s.at \in Busy
  BY <1>1, PlumbedIs
<1>3. /\ Distinct(j, k) /\ Distinct(j, l) /\ Distinct(k, l)
      /\ t = Three(j, k, l) /\ s.ends = Pairs
  BY <1>1, RingIs
<1>4. /\ parent \in Process /\ parent.at = at /\ parent.ends = s.ends /\ parent.x = s.x /\ parent.i = s.i
      /\ child \in Process /\ child.at = kid /\ child.ends = s.ends /\ child.x = s.x /\ child.i = s.i
  BY <1>1, <1>2, AtIs
<1>5. ForkTo(p, parent, child)
  OBVIOUS
<1> HIDE DEF s, t, parent, child, j, k, l
<1>6. PICK c \in Pids : Forks(p, c, parent, child)
  BY <1>2, <1>4, <1>5, ForkToIs
<1>7. Shape(parent, t) /\ Shape(child, t)
  BY <1>1, <1>3, <1>4, RingShape DEF j, k, l
<1>8. OneRing'
  BY <1>4, <1>6, RingSplit DEF s
<1>9. proc'[p] = parent /\ proc'[c] = child
  BY <1>6, ForksIs
<1>10. Partners(p, c)' /\ InRing(p)' /\ InRing(c)'
  BY <1>1, <1>4, <1>9 DEF Partners, InRing
<1>11. SidesKept(p, p) /\ SidesKept(p, c)
  <2>1. CASE s.at = "T2_fork_1"
    <3>1. proc[p].at \in Begin \cup Starting \cup {"plumb"}
      BY <2>1 DEF Starting, s
    <3> QED BY <1>2, <3>1, NoSides
  <2>2. CASE s.at \in Ring
    <3>1. ~ Reader(p) /\ ~ Writer(p)
      <4>1. InRing(p)
        BY <2>2 DEF InRing, s
      <4>2. io \in Tables /\ Shaped(p) /\ proc[p].at \in Busy
        BY <1>2 DEF s
      <4> QED BY <4>1, <4>2, OneSide
    <3> QED BY <1>10, <3>1 DEF SidesKept
  <2> QED BY <1>1, <2>1, <2>2
<1>12. \A w \in {proc[p].at, parent.at, child.at} : w \notin InClose /\ w # "out_close_0"
  <2>1. \A w \in Ring \cup {"T2_fork_1"} : w \notin InClose /\ w # "out_close_0"
    BY DEF InClose, Ring, First, Second, Third
  <2> QED BY <1>1, <1>4, <2>1 DEF s
<1>13. Plumbed'
  BY <1>2, <1>6, <1>7, <1>8, <1>10, <1>11, <1>12, ForkKeeps DEF t
<1>14. RingBranches(p)
  <2>1. /\ p # c /\ proc'[p] = parent /\ proc'[c] = child /\ io'.pipe = io.pipe
        /\ io'.fdt[p] = t /\ io'.fdt[c] = t
        /\ \A q \in Pids \ {p, c} : Untouched(q)
    BY <1>6, ForksIs DEF t
  <2>2. \A q \in {p, c} : /\ io'.fdt[q] = io.fdt[p] /\ proc'[q].x = proc[p].x /\ proc'[q].i = proc[p].i
    BY <1>4, <2>1 DEF s, t
  <2> QED BY <1>1, <1>4, <2>1, <2>2 DEF RingBranches, s
<1> QED BY <1>13, <1>14
-----------------------------------------------------------------------------
(* The token.  A step of a process that is not in the ring leaves it.      *)
LEMMA TokenVoid ==
  ASSUME NEW q, proc[q].at \notin Starting \cup Ring, NEW n, NEW stage
  PROVE  TokenFor(q, n, stage)
  BY DEF TokenFor, PlaceFor, Ring

LEMMA FilledAlike ==
  ASSUME NEW f, NEW g, NEW t, NEW n, NEW stage, Filled(f, t, n, stage),
         \A k \in LinksOf(t) : g[k].bufferIndex = f[k].bufferIndex /\ g[k].buffer = f[k].buffer
  PROVE  Filled(g, t, n, stage)
<1>1. \A k \in {t[2].pipe, t[4].pipe, t[6].pipe} :
        k # Null => g[k].bufferIndex = f[k].bufferIndex /\ g[k].buffer = f[k].buffer
  BY DEF LinksOf
<1> QED BY <1>1 DEF Filled, Drained, Carries

LEMMA TokenUntouched ==
  ASSUME NEW q, Untouched(q), proc[q].at \in Starting \cup Ring => \A k \in Links(q) : SameBytes(k),
         NEW n, NEW stage, TokenFor(q, n, stage)
  PROVE  TokenFor(q, n, stage)'
<1>1. proc'[q] = proc[q] /\ io'.fdt[q] = io.fdt[q] /\ Links(q)' = Links(q)
  BY DEF Untouched, Links
<1>2. PlaceFor(proc'[q], n, stage)
  BY <1>1 DEF TokenFor
<1>3. ASSUME proc'[q].at \in Ring
      PROVE  Filled(io'.pipe, io'.fdt[q], n, stage)
  <2>1. \A k \in LinksOf(io.fdt[q]) :
          /\ io'.pipe[k].bufferIndex = io.pipe[k].bufferIndex
          /\ io'.pipe[k].buffer = io.pipe[k].buffer
    BY <1>1, <1>3 DEF Links, SameBytes
  <2>2. Filled(io.pipe, io.fdt[q], n, stage)
    BY <1>1, <1>3 DEF TokenFor
  <2> QED BY <1>1, <2>1, <2>2, FilledAlike
<1>4. ASSUME proc'[q].at \in Starting, NEW k \in Links(q)'
      PROVE  Drained(io'.pipe, k)
  BY <1>1, <1>4 DEF TokenFor, SameBytes, Drained
<1> QED BY <1>2, <1>3, <1>4 DEF TokenFor

(* The other processes, and what is in the pipes of the ring, do not change. *)
Aside(p) == \A q \in Pids \ {p} :
  Untouched(q) /\ (proc[q].at \in Starting \cup Ring => \A k \in Links(q) : SameBytes(k))

LEMMA TokenAside ==
  ASSUME Token, NEW p \in Pids, Aside(p),
         \A n \in 0 .. Rounds - 1, stage \in 1 .. 6 : TokenFor(p, n, stage) => TokenFor(p, n, stage)'
  PROVE  Token'
<1>1. PICK n \in 0 .. Rounds - 1, stage \in 1 .. 6 : \A q \in Pids : TokenFor(q, n, stage)
  BY DEF Token
<1>2. \A q \in Pids \ {p} : TokenFor(q, n, stage)'
  BY <1>1, TokenUntouched DEF Aside
<1>3. \A q \in Pids : TokenFor(q, n, stage)'
  BY <1>1, <1>2
<1> QED BY <1>3 DEF Token

LEMMA TokenPasses ==
  ASSUME Token, NEW p \in Pids, Aside(p), proc'[p].at \notin Starting \cup Ring
  PROVE  Token'
<1>1. \A n, stage : TokenFor(p, n, stage)'
  BY DEF TokenFor, PlaceFor, Ring
<1> QED BY <1>1, TokenAside

LEMMA BytesAside ==
  ASSUME Plumbed, NEW p \in Pids, \A q \in Pids \ {p} : Untouched(q), BytesKept
  PROVE  Aside(p)
<1>1. \A q \in Pids : Links(q) \subseteq Pipes
  BY LinkedPipes DEF Plumbed, Typed
<1> QED BY <1>1 DEF Aside, BytesKept

LEMMA RingPartners ==
  ASSUME Plumbed, NEW p \in Live, NEW q \in Live, p # q, proc[q].at \in Starting \cup Ring,
         NEW k, k \in Links(p), k \in Links(q)
  PROVE  InRing(p)
<1>1. /\ q \in Pids /\ proc[q].at # "free" /\ Partners(p, q)
  BY DEF Live, Plumbed, Apart
<1>2. io \in Tables /\ Shaped(q) /\ proc[q].at \in Busy
  BY <1>1, PlumbedIs
<1>3. proc[q].at \in Ring => InRing(q)
  BY DEF InRing
<1>4. ~ Reader(q) /\ ~ Writer(q)
  BY <1>1, <1>2, <1>3, OneSide
<1> QED BY <1>1, <1>4 DEF Partners

LEMMA OwnAside ==
  ASSUME Plumbed, NEW p \in Live, \A q \in Pids \ {p} : Untouched(q), ~ InRing(p),
         \A k \in Pipes : k \notin Links(p) /\ io.used[k] => SameBytes(k)
  PROVE  Aside(p)
<1>1. SUFFICES ASSUME NEW q \in Pids \ {p}, proc[q].at \in Starting \cup Ring, NEW k \in Links(q)
               PROVE  SameBytes(k)
  BY DEF Aside
<1>2. q \in Live
  <2>1. "free" \notin Starting \cup Ring
    BY DEF Starting, Ring, First, Second, Third
  <2> QED BY <1>1, <2>1 DEF Live
<1>3. k \in Pipes /\ io.used[k]
  <2>1. Links(q) \subseteq Pipes
    BY <1>1, LinkedPipes DEF Plumbed, Typed
  <2> QED BY <1>1, <1>2, <2>1 DEF Plumbed, LinksInUse
<1>4. k \notin Links(p)
  BY <1>1, <1>2, RingPartners
<1> QED BY <1>3, <1>4

LEMMA LeavesToken ==
  ASSUME Plumbed, Token, NEW p \in Live, Leaves(p)
  PROVE  Token'
<1>1. p \in Pids
  BY DEF Live
<1>2. Aside(p)
  <2>1. CASE BytesKept
    BY <1>1, <2>1, BytesAside DEF Leaves
  <2>2. CASE ~ InRing(p) /\ \A k \in Pipes : k \notin Links(p) /\ io.used[k] => SameBytes(k)
    BY <2>2, OwnAside DEF Leaves
  <2> QED BY <2>1, <2>2 DEF Leaves
<1> QED BY <1>1, <1>2, TokenPasses DEF Leaves

LEMMA OpensToken ==
  ASSUME Plumbed, Token, NEW p \in Live, Opens(p), {proc[p].at, proc'[p].at} \subseteq Starting
  PROVE  Token'
<1>1. /\ p \in Pids /\ io \in Tables /\ Shaped(p) /\ proc[p].at \in Busy
      /\ proc[p].at \in Starting /\ proc'[p].at \in Starting
  BY PlumbedIs DEF Live
<1>2. ~ InRing(p) /\ proc'[p].at \notin Ring
  <2>1. ~ InRing(p)
    BY <1>1, OneSide
  <2>2. proc'[p].at \notin Ring
    BY <1>1 DEF Starting, Ring, First, Second, Third
  <2> QED BY <2>1, <2>2
<1>3. Aside(p)
  BY <1>2, OwnAside DEF Opens
<1>4. ASSUME NEW n, NEW stage, TokenFor(p, n, stage)
      PROVE  TokenFor(p, n, stage)'
  <2>1. PlaceFor(proc'[p], n, stage)
    BY <1>2 DEF PlaceFor, Ring
  <2>2. ASSUME NEW k \in Links(p)'
        PROVE  Drained(io'.pipe, k)
    <3>1. CASE io'.pipe[k].bufferIndex = 0
      BY <3>1 DEF Drained
    <3>2. CASE k \in Links(p)
      <4>1. Drained(io.pipe, k) /\ io.used[k] /\ k \in Pipes
        BY <1>1, <1>4, <3>2, LinkedPipes DEF TokenFor, Plumbed, LinksInUse
      <4>2. SameBytes(k)
        BY <4>1 DEF Opens
      <4> QED BY <4>1, <4>2 DEF SameBytes, Drained
    <3> QED BY <2>2, <3>1, <3>2 DEF Opens
  <2> QED BY <1>2, <2>1, <2>2 DEF TokenFor
<1> QED BY <1>1, <1>3, <1>4, TokenAside

LEMMA BranchesToken ==
  ASSUME Plumbed, Token, NEW p \in Pids, Branches(p)
  PROVE  Token'
<1>1. PICK c \in Pids \ {p} :
         /\ \A q \in Pids \ {p, c} : Untouched(q)
         /\ io'.pipe = io.pipe
         /\ proc'[p].at \notin Starting \cup Ring \/ Untouched(p)
         /\ \/ proc'[c].at \notin Starting \cup Ring
            \/ proc'[c].at \notin Ring /\ Links(c)' = {}
  BY DEF Branches
<1>2. PICK n \in 0 .. Rounds - 1, stage \in 1 .. 6 : \A q \in Pids : TokenFor(q, n, stage)
  BY DEF Token
<1>3. \A k : SameBytes(k)
  BY <1>1 DEF SameBytes
<1>4. ASSUME NEW q \in Pids, Untouched(q)
      PROVE  TokenFor(q, n, stage)'
  BY <1>2, <1>3, <1>4, TokenUntouched
<1>5. ASSUME NEW q \in Pids, proc'[q].at \notin Ring, proc'[q].at \in Starting => Links(q)' = {}
      PROVE  TokenFor(q, n, stage)'
  BY <1>5 DEF TokenFor, PlaceFor, Ring
<1>6. \A q \in Pids : TokenFor(q, n, stage)'
  BY <1>1, <1>4, <1>5
<1> QED BY <1>6 DEF Token

LEMMA RingBranchesToken ==
  ASSUME Plumbed, Token, NEW p \in Pids, RingBranches(p)
  PROVE  Token'
<1>1. PICK c \in Pids \ {p}, at \in Ring, kid \in Ring :
        /\ \A q \in Pids \ {p, c} : Untouched(q)
        /\ Splits(proc[p].at, at, kid) /\ io'.pipe = io.pipe
        /\ \A q \in {p, c} : /\ io'.fdt[q] = io.fdt[p] /\ proc'[q].x = proc[p].x /\ proc'[q].i = proc[p].i
        /\ proc'[p].at = at /\ proc'[c].at = kid
  BY DEF RingBranches
<1>2. PICK n \in 0 .. Rounds - 1, stage \in 1 .. 6 : \A q \in Pids : TokenFor(q, n, stage)
  BY DEF Token
<1>3. at \notin Starting /\ kid \notin Starting
  BY <1>1 DEF Splits, Starting
<1>4. CASE proc[p].at = "T2_fork_1"
  <2>1. proc[p].x = 0 /\ proc[p].i = 0
    BY <1>4 DEF Plumbed, Shaped, Shape
  <2>2. Filled(io'.pipe, io.fdt[p], 0, 1)
    <3>1. proc[p].at \in Starting
      BY <1>4 DEF Starting
    <3>2. \A k \in Links(p) : Drained(io.pipe, k)
      BY <1>2, <3>1 DEF TokenFor
    <3> QED BY <1>1, <3>2 DEF Filled, Drained, Links, LinksOf
  <2>3. TokenFor(p, 0, 1)'
    <3>1. PlaceFor(proc'[p], 0, 1)
      BY <1>1, <1>4, <2>1 DEF PlaceFor, Splits, First, Second, Third
    <3> QED BY <1>1, <1>3, <2>2, <3>1 DEF TokenFor
  <2>4. TokenFor(c, 0, 1)'
    <3>1. PlaceFor(proc'[c], 0, 1)
      BY <1>1, <1>4, <2>1, ProgramsAssumption DEF PlaceFor, Splits, First, Second, Third
    <3> QED BY <1>1, <1>3, <2>2, <3>1 DEF TokenFor
  <2>5. ASSUME NEW q \in Pids \ {p, c}
        PROVE  TokenFor(q, 0, 1)'
    <3>1. proc'[q].at \notin Starting \cup Ring
      <4>1. proc[p].at \in Starting
        BY <1>4 DEF Starting
      <4>2. proc[q].at \notin Starting \cup Ring
        BY <2>5, <4>1 DEF Plumbed, OneRing
      <4> QED BY <1>1, <4>2 DEF Untouched
    <3> QED BY <3>1 DEF TokenFor, PlaceFor, Ring
  <2>6. (\A q \in Pids : TokenFor(q, 0, 1)') /\ 0 \in 0 .. Rounds - 1 /\ 1 \in 1 .. 6
    BY <2>3, <2>4, <2>5, ProgramsAssumption
  <2> QED BY <2>6 DEF Token
<1>5. CASE proc[p].at = "T2_fork_2"
  <2>1. PlaceFor(proc[p], n, stage) /\ Filled(io.pipe, io.fdt[p], n, stage)
    <3>1. proc[p].at \in Ring
      BY <1>5 DEF Ring, Second
    <3> QED BY <1>2, <3>1 DEF TokenFor
  <2>2. stage < 3 /\ proc[p].i = n /\ proc[p].i < Rounds
    BY <1>5, <2>1 DEF PlaceFor, Second
  <2>3. TokenFor(p, n, stage)'
    <3>1. PlaceFor(proc'[p], n, stage)
      BY <1>1, <1>5, <2>2 DEF PlaceFor, Splits, First, Second, Third
    <3> QED BY <1>1, <1>3, <2>1, <3>1 DEF TokenFor
  <2>4. TokenFor(c, n, stage)'
    <3>1. PlaceFor(proc'[c], n, stage)
      BY <1>1, <1>5, <2>2 DEF PlaceFor, Splits, First, Second, Third
    <3> QED BY <1>1, <1>3, <2>1, <3>1 DEF TokenFor
  <2>5. ASSUME NEW q \in Pids \ {p, c}
        PROVE  TokenFor(q, n, stage)'
    <3>1. Untouched(q) /\ \A k : SameBytes(k)
      BY <1>1 DEF SameBytes
    <3> QED BY <1>2, <3>1, TokenUntouched
  <2>6. \A q \in Pids : TokenFor(q, n, stage)'
    BY <2>3, <2>4, <2>5
  <2> QED BY <2>6 DEF Token
<1> QED BY <1>1, <1>4, <1>5 DEF Splits

-----------------------------------------------------------------------------
(* The token goes round.                                                   *)
LEMMA PlaceMoves ==
  ASSUME NEW s, NEW n \in Nat, NEW stage, PlaceFor(s, n, stage)
  PROVE  /\ stage = 1 /\ s.at \notin First => PlaceFor(s, n, 2)
         /\ stage = 2 /\ s.at \notin Second => PlaceFor(s, n, 3)
         /\ stage = 3 /\ s.at \notin Second => PlaceFor(s, n, 4)
         /\ stage = 4 /\ s.at \notin Third => PlaceFor(s, n, 5)
         /\ stage = 5 /\ s.at \notin Third => PlaceFor(s, n, 6)
         /\ stage = 6 /\ s.at \notin First => PlaceFor(s, n + 1, 1)
  BY DEF PlaceFor

LEMMA OtherPipes ==
  ASSUME NEW p \in Pids, NEW fd \in Fds, Moves(io, io', p, fd),
         NEW k, k = io.fdt[p][fd].pipe, NEW j \in Pipes \cup {Null}, j = k => j = Null
  PROVE  /\ Drained(io.pipe, j) => Drained(io'.pipe, j)
         /\ \A v : Carries(io.pipe, j, v) => Carries(io'.pipe, j, v)
<1>1. CASE j = Null
  BY <1>1 DEF Drained, Carries
<1>2. CASE j # Null
  <2>1. io'.pipe[j] = io.pipe[j]
    BY <1>2 DEF Moves
  <2> QED BY <2>1 DEF Drained, Carries
<1> QED BY <1>1, <1>2

LEMMA PipeWritten ==
  ASSUME io \in Tables, NEW p \in Pids, NEW fd \in Fds, NEW perm \in {"READ", "WRITE"},
         NEW k \in Pipes \cup {Null}, io.fdt[p][fd] = End(perm, k), NEW v \in Bytes,
         io' = write(io, p, fd, <<v>>), Drained(io.pipe, k)
  PROVE  Carries(io'.pipe, k, v)
<1>1. CASE k = Null
  BY <1>1 DEF Carries
<1>2. CASE k # Null
  <2>1. io'.pipe[k].bufferIndex = io.pipe[k].bufferIndex + 1 /\ io'.pipe[k].buffer[0] = v
    BY <1>2, EndWrites
  <2>2. io.pipe[k].bufferIndex = 0
    BY <1>2 DEF Drained
  <2> QED BY <2>1, <2>2 DEF Carries
<1> QED BY <1>1, <1>2

LEMMA PipeRead ==
  ASSUME io \in Tables, NEW p \in Pids, NEW fd \in Fds, NEW perm \in {"READ", "WRITE"},
         NEW k \in Pipes \cup {Null}, io.fdt[p][fd] = End(perm, k),
         io' = read(io, p, fd, 1), NEW got, got = BytesRead(io, p, fd, 1)
  PROVE  /\ Drained(io.pipe, k) => got = << >> /\ Drained(io'.pipe, k)
         /\ \A v : Carries(io.pipe, k, v) =>
              /\ got # << >> => got[1] = v /\ Drained(io'.pipe, k)
              /\ got = << >> => Carries(io'.pipe, k, v)
<1>1. CASE k = Null
  <2>1. got = << >>
    BY <1>1, EndReads
  <2> QED BY <1>1, <2>1 DEF Drained, Carries
<1>2. CASE k # Null
  <2>1. io.pipe[k].bufferIndex = 0 => got = << >> /\ io'.pipe[k].bufferIndex = 0
    BY <1>2, EndReads
  <2>2. io.pipe[k].bufferIndex = 1 =>
          got # << >> /\ got[1] = io.pipe[k].buffer[0] /\ io'.pipe[k].bufferIndex = 0
    BY <1>2, EndReads
  <2> QED BY <1>2, <2>1, <2>2 DEF Drained, Carries
<1> QED BY <1>1, <1>2

LEMMA RingMoves ==
  ASSUME Plumbed, NEW p \in Pids, proc[p].at \in Ring, NEW n, NEW stage,
         \A q \in Pids : TokenFor(q, n, stage),
         NEW m \in 0 .. Rounds - 1, NEW next \in 1 .. 6,
         \A q \in Pids \ {p} : PlaceFor(proc[q], n, stage) => PlaceFor(proc[q], m, next),
         \A q \in Pids \ {p} : proc'[q] = proc[q], io'.fdt = io.fdt,
         proc'[p].at \notin Starting, PlaceFor(proc'[p], m, next),
         Filled(io'.pipe, io.fdt[p], m, next)
  PROVE  Token'
<1>1. TokenFor(p, m, next)'
  BY DEF TokenFor
<1>2. ASSUME NEW q \in Pids \ {p}
      PROVE  TokenFor(q, m, next)'
  <2>1. /\ proc[q].at \notin Starting
        /\ proc[q].at \in Ring => io.fdt[q] = io.fdt[p]
    BY <1>2 DEF Plumbed, OneRing
  <2>2. PlaceFor(proc[q], m, next) /\ proc'[q] = proc[q]
    BY <1>2 DEF TokenFor
  <2> QED BY <2>1, <2>2 DEF TokenFor
<1>3. \A q \in Pids : TokenFor(q, m, next)'
  BY <1>1, <1>2
<1> QED BY <1>3 DEF Token
-----------------------------------------------------------------------------
(* The pipes of a ring other than the one at m.                            *)
LEMMA RingOthers ==
  ASSUME Plumbed, NEW p \in Pids, proc[p].at \in Ring, NEW t, t = io.fdt[p],
         NEW m \in {2, 4, 6}, NEW fd \in {m, m + 1}, Moves(io, io', p, fd),
         NEW a \in {2, 4, 6}, a # m
  PROVE  /\ Drained(io.pipe, t[a].pipe) => Drained(io'.pipe, t[a].pipe)
         /\ \A v : Carries(io.pipe, t[a].pipe, v) => Carries(io'.pipe, t[a].pipe, v)
<1> DEFINE j == t[2].pipe
           k == t[4].pipe
           l == t[6].pipe
           f == t[fd].pipe
           b == t[a].pipe
<1>1. /\ j \in Pipes \cup {Null} /\ k \in Pipes \cup {Null} /\ l \in Pipes \cup {Null}
      /\ Distinct(j, k) /\ Distinct(j, l) /\ Distinct(k, l)
      /\ t[2] = End("READ", j) /\ t[3] = End("WRITE", j) /\ t[4] = End("READ", k)
      /\ t[5] = End("WRITE", k) /\ t[6] = End("READ", l) /\ t[7] = End("WRITE", l)
  BY RingIs
<1>2. fd \in Fds /\ \A c \in Pipes \cup {Null} : End("READ", c).pipe = c /\ End("WRITE", c).pipe = c
  BY SmallFds, EndIs
<1>3. f = t[m].pipe /\ b \in Pipes \cup {Null}
  BY <1>1, <1>2
<1>4. b = f => b = Null
  BY <1>1, <1>3 DEF Distinct
<1>5. Moves(io, io', p, fd) /\ f = io.fdt[p][fd].pipe
  OBVIOUS
<1> HIDE DEF f, b
<1>6. /\ Drained(io.pipe, b) => Drained(io'.pipe, b)
      /\ \A v : Carries(io.pipe, b, v) => Carries(io'.pipe, b, v)
  BY ONLY p \in Pids, <1>2, <1>3, <1>4, <1>5, OtherPipes
<1> QED BY <1>6 DEF b

LEMMA RingWrites ==
  ASSUME Plain, Plumbed, Token, NEW p \in Pids, proc[p].at \in Writing, NEW t, t = io.fdt[p],
         NEW n \in {1, 2, 3}, NEW m, m = 2 * n, NEW next \in Places, Pass(p, n, next)
  PROVE  /\ io'.fdt = io.fdt /\ Becomes(p, next, proc[p].ends, proc[p].x, proc[p].i + 1)
         /\ Drained(io.pipe, t[m].pipe) => Carries(io'.pipe, t[m].pipe, proc[p].x)
         /\ \A a \in {2, 4, 6} \ {m} : Drained(io.pipe, t[a].pipe) => Drained(io'.pipe, t[a].pipe)
<1> DEFINE fd == Pairs[n].w
           v == proc[p].x
           i == proc[p].i
<1>1. v \in Bytes /\ i + 1 <= Rounds /\ proc[p].at \in Ring
  BY TokenIsByte DEF Writing, Ring, First, Second, Third
<1>2. /\ fd \in Fds /\ io' = write(io, p, fd, <<v>>) /\ Moves(io, io', p, fd)
      /\ Becomes(p, next, proc[p].ends, v, i + 1)
  BY <1>1, PassIs
<1>3. m \in {2, 4, 6} /\ fd = m + 1
  BY PairsAre
<1>4. io \in Tables /\ \E c \in Pipes \cup {Null} : t[m] = End("READ", c) /\ t[fd] = End("WRITE", c)
  BY <1>1, <1>3, RingIs
<1> HIDE DEF fd, v
<1>5. PICK c \in Pipes \cup {Null} : t[m] = End("READ", c) /\ t[fd] = End("WRITE", c)
  BY <1>4
<1>6. c = t[m].pipe
  BY <1>5, EndIs
<1>7. ASSUME Drained(io.pipe, c)
      PROVE  Carries(io'.pipe, c, v)
  <2>1. io.fdt[p][fd] = End("WRITE", c) /\ "WRITE" \in {"READ", "WRITE"}
    BY <1>5
  <2> QED BY ONLY p \in Pids, c \in Pipes \cup {Null}, <1>1, <1>2, <1>4, <1>7, <2>1, PipeWritten
<1>8. \A a \in {2, 4, 6} \ {m} : Drained(io.pipe, t[a].pipe) => Drained(io'.pipe, t[a].pipe)
  <2>1. fd \in {m, m + 1}
    BY <1>3
  <2> QED BY <1>1, <1>2, <1>3, <2>1, RingOthers
<1>9. io'.fdt = io.fdt
  BY <1>2 DEF Moves
<1> QED BY <1>2, <1>6, <1>7, <1>8, <1>9 DEF v

LEMMA RingReads ==
  ASSUME Plumbed, NEW p \in Pids, proc[p].at \in Ring, NEW t, t = io.fdt[p],
         NEW n \in {1, 2, 3}, NEW m, m = 2 * n, NEW next \in Places, Poll(p, n, next)
  PROVE  /\ io'.fdt = io.fdt
         /\ Drained(io.pipe, t[m].pipe) =>
              /\ Becomes(p, proc[p].at, proc[p].ends, proc[p].x, proc[p].i)
              /\ Drained(io'.pipe, t[m].pipe)
         /\ \A v : Carries(io.pipe, t[m].pipe, v) =>
              \/ /\ Becomes(p, proc[p].at, proc[p].ends, proc[p].x, proc[p].i)
                 /\ Carries(io'.pipe, t[m].pipe, v)
              \/ /\ Becomes(p, next, proc[p].ends, v + 1, proc[p].i)
                 /\ Drained(io'.pipe, t[m].pipe)
         /\ \A a \in {2, 4, 6} \ {m} :
              /\ Drained(io.pipe, t[a].pipe) => Drained(io'.pipe, t[a].pipe)
              /\ \A v : Carries(io.pipe, t[a].pipe, v) => Carries(io'.pipe, t[a].pipe, v)
<1> DEFINE fd == Pairs[n].r
           got == BytesRead(io, p, fd, 1)
           x == proc[p].x
           i == proc[p].i
<1>1. /\ fd \in Fds /\ io' = read(io, p, fd, 1) /\ Moves(io, io', p, fd)
      /\ got = << >> => Becomes(p, proc[p].at, proc[p].ends, x, i)
      /\ got # << >> => Becomes(p, next, proc[p].ends, got[1] + 1, i)
  BY PollIs
<1>2. m \in {2, 4, 6} /\ fd = m
  BY PairsAre
<1>3. io \in Tables /\ \E c \in Pipes \cup {Null} : t[m] = End("READ", c)
  BY <1>2, RingIs
<1>4. got = BytesRead(io, p, fd, 1)
  OBVIOUS
<1> HIDE DEF fd, got, x, i
<1>5. PICK c \in Pipes \cup {Null} : t[m] = End("READ", c)
  BY <1>3
<1>6. c = t[m].pipe
  BY <1>5, EndIs
<1>7. /\ Drained(io.pipe, c) => got = << >> /\ Drained(io'.pipe, c)
      /\ \A v : Carries(io.pipe, c, v) =>
           /\ got # << >> => got[1] = v /\ Drained(io'.pipe, c)
           /\ got = << >> => Carries(io'.pipe, c, v)
  <2>1. io.fdt[p][fd] = End("READ", c) /\ "READ" \in {"READ", "WRITE"}
    BY <1>2, <1>5
  <2> QED BY ONLY p \in Pids, c \in Pipes \cup {Null}, <1>1, <1>3, <1>4, <2>1, PipeRead
<1>8. \A a \in {2, 4, 6} \ {m} :
        /\ Drained(io.pipe, t[a].pipe) => Drained(io'.pipe, t[a].pipe)
        /\ \A v : Carries(io.pipe, t[a].pipe, v) => Carries(io'.pipe, t[a].pipe, v)
  <2>1. fd \in {m, m + 1} /\ p \in Pids
    BY <1>2
  <2> QED BY ONLY Plumbed, proc[p].at \in Ring, t = io.fdt[p], <1>1, <1>2, <2>1, RingOthers
<1>9. io'.fdt = io.fdt
  BY <1>1 DEF Moves
<1>10. Drained(io.pipe, c) => Becomes(p, proc[p].at, proc[p].ends, x, i) /\ Drained(io'.pipe, c)
  BY <1>1, <1>7
<1>11. ASSUME NEW v, Carries(io.pipe, c, v)
       PROVE  \/ Becomes(p, proc[p].at, proc[p].ends, x, i) /\ Carries(io'.pipe, c, v)
              \/ Becomes(p, next, proc[p].ends, v + 1, i) /\ Drained(io'.pipe, c)
  <2>1. CASE got = << >>
    BY <1>1, <1>7, <1>11, <2>1
  <2>2. CASE got # << >>
    <3>1. got[1] = v /\ Drained(io'.pipe, c)
      BY <1>7, <1>11, <2>2
    <3> QED BY <1>1, <2>2, <3>1
  <2> QED BY <2>1, <2>2
<1> QED BY <1>6, <1>8, <1>9, <1>10, <1>11 DEF x, i

LEMMA RingTurns ==
  ASSUME Plumbed, NEW p \in Pids, proc[p].at \in Ring, NEW n \in 0 .. Rounds - 1, NEW stage \in 1 .. 6,
         \A q \in Pids : TokenFor(q, n, stage), NEW m \in 0 .. Rounds - 1, NEW next \in 1 .. 6,
         \A q \in Pids \ {p} : PlaceFor(proc[q], n, stage) => PlaceFor(proc[q], m, next),
         NEW w, w \notin Starting, NEW x, NEW i, Becomes(p, w, proc[p].ends, x, i), io'.fdt = io.fdt,
         \A s : s.at = w /\ s.x = x /\ s.i = i => PlaceFor(s, m, next),
         Filled(io'.pipe, io.fdt[p], m, next)
  PROVE  Token'
<1>1. PlaceFor(proc'[p], m, next) /\ proc'[p].at \notin Starting /\ \A q \in Pids \ {p} : proc'[q] = proc[q]
  BY DEF Becomes
<1> QED BY <1>1, RingMoves

LEMMA WriteToken ==
  ASSUME Plain, Plumbed, Token, NEW p \in Pids, T2Loop(p), proc[p].at \in Writing
  PROVE  Token'
<1> DEFINE s == proc[p]
           t == io.fdt[p]
<1>1. PICK n \in 0 .. Rounds - 1, stage \in 1 .. 6 : \A q \in Pids : TokenFor(q, n, stage)
  BY DEF Token
<1>2. /\ s.at \in Ring /\ PlaceFor(s, n, stage) /\ Filled(io.pipe, t, n, stage)
  BY <1>1 DEF TokenFor, Writing, Ring, First, Second, Third
<1>3. \A q \in Pids \ {p} : PlaceFor(proc[q], n, stage)
  BY <1>1 DEF TokenFor
<1>4. n \in Nat
  BY ProgramsAssumption
<1>5. ASSUME NEW a \in {1, 2, 3}, NEW m, m = 2 * a, stage = m - 1, NEW next \in Places \ Starting, Pass(p, a, next),
             \A q \in Pids \ {p} : PlaceFor(proc[q], n, stage) => PlaceFor(proc[q], n, m),
             \A r : r.at = next /\ r.x = s.x /\ r.i = s.i + 1 => PlaceFor(r, n, m),
             s.x = 3 * n + a - 1
      PROVE  Token'
  <2>1. /\ io'.fdt = io.fdt /\ Becomes(p, next, s.ends, s.x, s.i + 1)
        /\ Drained(io.pipe, t[m].pipe) => Carries(io'.pipe, t[m].pipe, s.x)
        /\ \A c \in {2, 4, 6} \ {m} : Drained(io.pipe, t[c].pipe) => Drained(io'.pipe, t[c].pipe)
    BY <1>5, RingWrites
  <2>2. \A c \in {2, 4, 6} : Drained(io.pipe, t[c].pipe)
    BY <1>2, <1>5 DEF Filled
  <2>3. Carries(io'.pipe, t[m].pipe, s.x) /\ \A c \in {2, 4, 6} \ {m} : Drained(io'.pipe, t[c].pipe)
    BY <1>5, <2>1, <2>2
  <2>4. Filled(io'.pipe, t, n, m)
    <3>1. CASE a = 1
      BY <1>4, <1>5, <2>3, <3>1 DEF Filled
    <3>2. CASE a = 2
      BY <1>4, <1>5, <2>3, <3>2 DEF Filled
    <3>3. CASE a = 3
      BY <1>4, <1>5, <2>3, <3>3 DEF Filled
    <3> QED BY <1>5, <3>1, <3>2, <3>3
  <2>5. m \in 1 .. 6 /\ next \notin Starting
    BY <1>5
  <2> QED BY <1>1, <1>2, <1>5, <2>1, <2>4, <2>5, RingTurns
<1>6. CASE s.at = "P1_write"
  <2>1. Pass(p, 1, "P1_read")
    BY <1>6 DEF T2Loop, At
  <2>2. stage = 1 /\ s.i = n /\ s.x = 3 * n + 1 - 1
    BY <1>2, <1>4, <1>6 DEF PlaceFor, First
  <2>3. \A q \in Pids \ {p} : PlaceFor(proc[q], n, stage) => PlaceFor(proc[q], n, 2)
    <3>1. s.at \in First /\ \A q \in Pids \ {p} : proc[q].at \notin First
      BY <1>6 DEF First, Plumbed, OneRing
    <3> QED BY <1>4, <2>2, <3>1, PlaceMoves
  <2>4. \A r : r.at = "P1_read" /\ r.x = s.x /\ r.i = s.i + 1 => PlaceFor(r, n, 2)
    BY <2>2 DEF PlaceFor, First, Second, Third
  <2>5. "P1_read" \in Places \ Starting
    BY DEF Places, Starting, Ring, First
  <2> QED BY <1>5, <2>1, <2>2, <2>3, <2>4, <2>5
<1>7. CASE s.at = "P2_write"
  <2>1. Pass(p, 2, Again(p, "P2_read"))
    BY <1>7 DEF T2Loop, At
  <2>2. stage = 3 /\ s.i = n /\ s.x = 3 * n + 2 - 1
    BY <1>2, <1>4, <1>7 DEF PlaceFor, Second
  <2>3. \A q \in Pids \ {p} : PlaceFor(proc[q], n, stage) => PlaceFor(proc[q], n, 4)
    <3>1. s.at \in Second /\ \A q \in Pids \ {p} : proc[q].at \notin Second
      BY <1>7 DEF Second, Plumbed, OneRing
    <3> QED BY <1>4, <2>2, <3>1, PlaceMoves
  <2>4. \A r : r.at = Again(p, "P2_read") /\ r.x = s.x /\ r.i = s.i + 1 => PlaceFor(r, n, 4)
    BY <1>4, <2>2 DEF Again, PlaceFor, First, Second, Third
  <2>5. Again(p, "P2_read") \in Places \ Starting
    BY DEF Again, Places, Starting, Ring, Second
  <2> QED BY <1>5, <2>1, <2>2, <2>3, <2>4, <2>5
<1>8. CASE s.at = "P3_write"
  <2>1. Pass(p, 3, Again(p, "P3_read"))
    BY <1>8 DEF T2Loop, At
  <2>2. stage = 5 /\ s.i = n /\ s.x = 3 * n + 3 - 1
    BY <1>2, <1>4, <1>8 DEF PlaceFor, Third
  <2>3. \A q \in Pids \ {p} : PlaceFor(proc[q], n, stage) => PlaceFor(proc[q], n, 6)
    <3>1. s.at \in Third /\ \A q \in Pids \ {p} : proc[q].at \notin Third
      BY <1>8 DEF Third, Plumbed, OneRing
    <3> QED BY <1>4, <2>2, <3>1, PlaceMoves
  <2>4. \A r : r.at = Again(p, "P3_read") /\ r.x = s.x /\ r.i = s.i + 1 => PlaceFor(r, n, 6)
    BY <1>4, <2>2 DEF Again, PlaceFor, First, Second, Third
  <2>5. Again(p, "P3_read") \in Places \ Starting
    BY DEF Again, Places, Starting, Ring, Third
  <2> QED BY <1>5, <2>1, <2>2, <2>3, <2>4, <2>5
<1> QED BY <1>6, <1>7, <1>8 DEF Writing

LEMMA ReadToken ==
  ASSUME Plumbed, Token, NEW p \in Pids, T2Loop(p), proc[p].at \in Ring \ Writing
  PROVE  Token'
<1> DEFINE s == proc[p]
           t == io.fdt[p]
<1>1. PICK n \in 0 .. Rounds - 1, stage \in 1 .. 6 : \A q \in Pids : TokenFor(q, n, stage)
  BY DEF Token
<1>2. s.at \in Ring /\ s.at \notin Starting /\ PlaceFor(s, n, stage) /\ Filled(io.pipe, t, n, stage)
  BY <1>1 DEF TokenFor, Writing, Starting, Ring, First, Second, Third
<1>3. n \in Nat /\ Rounds \in Nat
  BY ProgramsAssumption
(* Whatever it reads from, a read that returns nothing changes nothing.    *)
<1>4. ASSUME NEW a \in {1, 2, 3}, NEW m, m = 2 * a, NEW next \in Places, Poll(p, a, next)
      PROVE  \/ Token'
             \/ /\ stage = m /\ io'.fdt = io.fdt
                /\ Becomes(p, next, s.ends, 3 * n + a, s.i)
                /\ \A c \in {2, 4, 6} : Drained(io'.pipe, t[c].pipe)
  <2>1. /\ io'.fdt = io.fdt
        /\ Drained(io.pipe, t[m].pipe) =>
             /\ Becomes(p, s.at, s.ends, s.x, s.i)
             /\ Drained(io'.pipe, t[m].pipe)
        /\ \A v : Carries(io.pipe, t[m].pipe, v) =>
             \/ /\ Becomes(p, s.at, s.ends, s.x, s.i)
                /\ Carries(io'.pipe, t[m].pipe, v)
             \/ /\ Becomes(p, next, s.ends, v + 1, s.i)
                /\ Drained(io'.pipe, t[m].pipe)
        /\ \A c \in {2, 4, 6} \ {m} :
             /\ Drained(io.pipe, t[c].pipe) => Drained(io'.pipe, t[c].pipe)
             /\ \A v : Carries(io.pipe, t[c].pipe, v) => Carries(io'.pipe, t[c].pipe, v)
    BY <1>2, <1>4, RingReads
  <2>2. CASE Becomes(p, s.at, s.ends, s.x, s.i) /\ Filled(io'.pipe, t, n, stage)
    <3>1. \A r : r.at = s.at /\ r.x = s.x /\ r.i = s.i => PlaceFor(r, n, stage)
      BY <1>2 DEF PlaceFor
    <3> QED BY <1>1, <1>2, <2>1, <2>2, <3>1, RingTurns
  <2>3. CASE stage # m
    <3>1. Drained(io.pipe, t[m].pipe)
      BY <1>2, <1>4, <2>3 DEF Filled
    <3>2. Becomes(p, s.at, s.ends, s.x, s.i) /\ Drained(io'.pipe, t[m].pipe)
      BY <2>1, <3>1
    <3>3. Filled(io'.pipe, t, n, stage)
      <4>1. CASE a = 1
        BY <1>2, <1>4, <2>1, <2>3, <3>2, <4>1 DEF Filled
      <4>2. CASE a = 2
        BY <1>2, <1>4, <2>1, <2>3, <3>2, <4>2 DEF Filled
      <4>3. CASE a = 3
        BY <1>2, <1>4, <2>1, <2>3, <3>2, <4>3 DEF Filled
      <4> QED BY <4>1, <4>2, <4>3
    <3> QED BY <2>2, <3>2, <3>3
  <2>4. CASE stage = m
    <3>1. Carries(io.pipe, t[m].pipe, 3 * n + a - 1) /\ \A c \in {2, 4, 6} \ {m} : Drained(io.pipe, t[c].pipe)
      <4>1. CASE a = 1
        BY <1>2, <1>3, <1>4, <2>4, <4>1 DEF Filled
      <4>2. CASE a = 2
        BY <1>2, <1>3, <1>4, <2>4, <4>2 DEF Filled
      <4>3. CASE a = 3
        BY <1>2, <1>3, <1>4, <2>4, <4>3 DEF Filled
      <4> QED BY <4>1, <4>2, <4>3
    <3>2. \A c \in {2, 4, 6} \ {m} : Drained(io'.pipe, t[c].pipe)
      BY <2>1, <3>1
    <3>3. CASE /\ Becomes(p, s.at, s.ends, s.x, s.i)
               /\ Carries(io'.pipe, t[m].pipe, 3 * n + a - 1)
      <4>1. Filled(io'.pipe, t, n, stage)
        <5>1. CASE a = 1
          BY <1>3, <1>4, <2>4, <3>2, <3>3, <5>1 DEF Filled
        <5>2. CASE a = 2
          BY <1>3, <1>4, <2>4, <3>2, <3>3, <5>2 DEF Filled
        <5>3. CASE a = 3
          BY <1>3, <1>4, <2>4, <3>2, <3>3, <5>3 DEF Filled
        <5> QED BY <5>1, <5>2, <5>3
      <4> QED BY <2>2, <3>3, <4>1
    <3>4. CASE Becomes(p, next, s.ends, 3 * n + a - 1 + 1, s.i) /\ Drained(io'.pipe, t[m].pipe)
      <4>1. 3 * n + a - 1 + 1 = 3 * n + a
        BY <1>3
      <4> QED BY <2>1, <2>4, <3>2, <3>4, <4>1
    <3> QED BY <2>1, <3>1, <3>3, <3>4
  <2> QED BY <2>3, <2>4
<1>6. ASSUME NEW o \in 0 .. Rounds - 1, NEW e \in {1, 3, 5}, NEW w, w \notin Starting,
             NEW x, Becomes(p, w, s.ends, x, s.i), io'.fdt = io.fdt,
             \A c \in {2, 4, 6} : Drained(io'.pipe, t[c].pipe),
             \A q \in Pids \ {p} : PlaceFor(proc[q], n, stage) => PlaceFor(proc[q], o, e),
             \A r : r.at = w /\ r.x = x /\ r.i = s.i => PlaceFor(r, o, e)
      PROVE  Token'
  <2>1. Filled(io'.pipe, t, o, e) /\ e \in 1 .. 6
    BY <1>6 DEF Filled
  <2> QED BY <1>1, <1>2, <1>6, <2>1, RingTurns
<1>7. CASE s.at = "P2_read"
  <2>1. Poll(p, 1, "P2_write") /\ "P2_write" \in Places \ Starting
    BY <1>7 DEF T2Loop, At, Places, Starting, Ring, Second
  <2>2. SUFFICES ASSUME stage = 2, io'.fdt = io.fdt, Becomes(p, "P2_write", s.ends, 3 * n + 1, s.i),
                        \A c \in {2, 4, 6} : Drained(io'.pipe, t[c].pipe)
                 PROVE  Token'
    BY <1>4, <2>1
  <2>3. s.i = n /\ s.i < Rounds
    BY <1>2, <1>7, <2>2 DEF PlaceFor, Second
  <2>4. \A q \in Pids \ {p} : PlaceFor(proc[q], n, stage) => PlaceFor(proc[q], n, 3)
    <3>1. s.at \in Second /\ \A q \in Pids \ {p} : proc[q].at \notin Second
      BY <1>7 DEF Second, Plumbed, OneRing
    <3> QED BY <1>3, <2>2, <3>1, PlaceMoves
  <2>5. \A r : r.at = "P2_write" /\ r.x = 3 * n + 1 /\ r.i = s.i => PlaceFor(r, n, 3)
    BY <2>3 DEF PlaceFor, First, Second, Third
  <2> QED BY <1>6, <2>1, <2>2, <2>4, <2>5
<1>8. CASE s.at = "P3_read"
  <2>1. Poll(p, 2, "P3_write") /\ "P3_write" \in Places \ Starting
    BY <1>8 DEF T2Loop, At, Places, Starting, Ring, Third
  <2>2. SUFFICES ASSUME stage = 4, io'.fdt = io.fdt, Becomes(p, "P3_write", s.ends, 3 * n + 2, s.i),
                        \A c \in {2, 4, 6} : Drained(io'.pipe, t[c].pipe)
                 PROVE  Token'
    BY <1>4, <2>1
  <2>3. s.i = n /\ s.i < Rounds
    BY <1>2, <1>8, <2>2 DEF PlaceFor, Third
  <2>4. \A q \in Pids \ {p} : PlaceFor(proc[q], n, stage) => PlaceFor(proc[q], n, 5)
    <3>1. s.at \in Third /\ \A q \in Pids \ {p} : proc[q].at \notin Third
      BY <1>8 DEF Third, Plumbed, OneRing
    <3> QED BY <1>3, <2>2, <3>1, PlaceMoves
  <2>5. \A r : r.at = "P3_write" /\ r.x = 3 * n + 2 /\ r.i = s.i => PlaceFor(r, n, 5)
    BY <2>3 DEF PlaceFor, First, Second, Third
  <2> QED BY <1>6, <2>1, <2>2, <2>4, <2>5
<1>9. CASE s.at = "P1_read"
  <2> DEFINE next == IF s.i < Rounds THEN "P1_write" ELSE "T_exit"
  <2>1. Poll(p, 3, next) /\ next \in Places \ Starting
    BY <1>9 DEF T2Loop, At, Places, Starting, Ring, First
  <2>2. SUFFICES ASSUME stage = 6, io'.fdt = io.fdt, Becomes(p, next, s.ends, 3 * n + 3, s.i),
                        \A c \in {2, 4, 6} : Drained(io'.pipe, t[c].pipe)
                 PROVE  Token'
    BY <1>4, <2>1
  <2>3. s.i = n + 1 /\ s.at \in First
    BY <1>2, <1>9, <2>2 DEF PlaceFor, First
  <2>4. \A q \in Pids \ {p} : proc[q].at \notin First
    BY <2>3 DEF Plumbed, OneRing
  <2>5. CASE n + 1 < Rounds
    <3>1. next = "P1_write" /\ n + 1 \in 0 .. Rounds - 1
      BY <1>3, <2>3, <2>5
    <3>2. \A q \in Pids \ {p} : PlaceFor(proc[q], n, stage) => PlaceFor(proc[q], n + 1, 1)
      BY <1>3, <2>2, <2>4, PlaceMoves
    <3>3. \A r : r.at = "P1_write" /\ r.x = 3 * n + 3 /\ r.i = s.i => PlaceFor(r, n + 1, 1)
      BY <1>3, <2>3 DEF PlaceFor, First, Second, Third
    <3> QED BY <1>6, <2>1, <2>2, <3>1, <3>2, <3>3
  <2>6. CASE ~ n + 1 < Rounds
    <3>1. next = "T_exit"
      BY <1>3, <2>3, <2>6
    <3>2. \A q \in Pids \ {p} : PlaceFor(proc[q], n, stage) => PlaceFor(proc[q], n, 1)
      <4>1. \A q \in Pids \ {p} : PlaceFor(proc[q], n, stage) =>
              proc[q].at \notin Second /\ proc[q].at \notin Third
        BY <1>3, <2>2, <2>6 DEF PlaceFor
      <4> QED BY <2>4, <4>1 DEF PlaceFor
    <3>3. \A r : r.at = "T_exit" /\ r.x = 3 * n + 3 /\ r.i = s.i => PlaceFor(r, n, 1)
      BY DEF PlaceFor, First, Second, Third
    <3> QED BY <1>6, <2>1, <2>2, <3>1, <3>2, <3>3
  <2> QED BY <2>5, <2>6
<1>10. s.at \in {"P1_read", "P2_read", "P3_read"}
  BY DEF T2Loop, At, Writing
<1> QED BY <1>7, <1>8, <1>9, <1>10
-----------------------------------------------------------------------------
(* Every step keeps the invariant.                                         *)
LEMMA LiveAt ==
  ASSUME NEW p \in Pids, proc[p].at # "free"
  PROVE  p \in Live
  BY DEF Live

LEMMA LoopKeepsBoth ==
  ASSUME Plain, Plumbed, Token, NEW p \in Pids, T2Loop(p), typed' = typed
  PROVE  Plumbed' /\ Token'
<1>1. proc[p].at \in Ring
  BY DEF T2Loop, At, Ring, First, Second, Third
<1>2. Token'
  BY <1>1, WriteToken, ReadToken
<1> QED BY <1>2, RingKeeps

LEMMA StepKeeps ==
  ASSUME Plain, Plumbed, Token, [Next]_vars
  PROVE  Plumbed' /\ Token'
<1>1. ASSUME NEW p \in Pids, Command(p)
      PROVE  Plumbed' /\ Token'
  BY <1>1, CommandKeeps, BranchesToken
<1>2. ASSUME NEW p \in Pids, Call(p)
      PROVE  Plumbed' /\ Token'
  <2>1. typed' = typed
    BY <1>2 DEF Call
  <2>2. CASE OpenPlumbing(p)
    <3>1. p \in Live
      BY <2>2, LiveAt DEF OpenPlumbing, At
    <3> QED BY <2>1, <2>2, <3>1, OpenPlumbingKeeps, LeavesToken
  <2>3. CASE ForkPlumbing(p)
    BY <2>1, <2>3, PlumbForkKeeps, BranchesToken
  <2>4. CASE Plumb(p)
    <3>1. p \in Live
      BY <2>4, LiveAt DEF Plumb, At
    <3> QED BY <2>1, <2>4, <3>1, PlumbKeeps, LeavesToken
  <2>5. CASE T0(p)
    <3>1. (T0(p) /\ ~ At(p, "T_exit")) \/ (At(p, "T_exit") /\ Exits(p))
      BY <2>5 DEF T0, At
    <3>2. p \in Live
      BY <2>5, LiveAt DEF T0, At
    <3>3. CASE T0(p) /\ ~ At(p, "T_exit")
      BY <2>1, <3>2, <3>3, QuietKeeps, LeavesToken
    <3>4. CASE At(p, "T_exit") /\ Exits(p)
      BY <2>1, <3>2, <3>4, ExitKeeps, LeavesToken
    <3> QED BY <3>1, <3>3, <3>4
  <2>6. CASE T1(p) \/ T3(p) \/ P3(p)
    <3>1. p \in Live
      BY <2>6, LiveAt DEF T1, T3, P3, At
    <3> QED BY <2>1, <2>6, <3>1, QuietKeeps, LeavesToken
  <2>7. CASE T2Start(p)
    <3>1. CASE \/ At(p, "T2") /\ OpenPipe(p, "T2_pipe_2")
               \/ At(p, "T2_pipe_2") /\ OpenPipe(p, "T2_pipe_3")
               \/ At(p, "T2_pipe_3") /\ OpenPipe(p, "T2_fork_1")
      <4>1. p \in Live
        BY <3>1, LiveAt DEF At
      <4> QED BY <2>1, <3>1, <4>1, RingOpensKeeps, OpensToken
    <3>2. CASE At(p, "T2_fork_1") /\ ForkTo(p, [proc[p] EXCEPT !.at = "P1_write"],
                                               [proc[p] EXCEPT !.at = "T2_fork_2"])
      <4>1. Splits(proc[p].at, "P1_write", "T2_fork_2")
        BY <3>2 DEF Splits, At
      <4> QED BY <2>1, <3>2, <4>1, T2ForkKeeps, RingBranchesToken
    <3>3. CASE At(p, "T2_fork_2") /\ ForkTo(p, [proc[p] EXCEPT !.at = "P2_read"],
                                               [proc[p] EXCEPT !.at = "P3_read"])
      <4>1. Splits(proc[p].at, "P2_read", "P3_read")
        BY <3>3 DEF Splits, At
      <4> QED BY <2>1, <3>3, <4>1, T2ForkKeeps, RingBranchesToken
    <3> QED BY <2>7, <3>1, <3>2, <3>3 DEF T2Start
  <2>8. CASE T2Loop(p)
    BY <2>1, <2>8, LoopKeepsBoth
  <2> QED BY <1>2, <2>2, <2>3, <2>4, <2>5, <2>6, <2>7, <2>8 DEF Call
<1>3. ASSUME UNCHANGED vars
      PROVE  Plumbed' /\ Token'
  <2>1. io' = io /\ proc' = proc /\ typed' = typed
    BY <1>3 DEF vars
  <2>2. \A q \in Pids : Untouched(q)
    BY <2>1 DEF Untouched
  <2>3. \A q \in Pids : /\ Links(q)' = Links(q) /\ Reader(q)' = Reader(q) /\ Writer(q)' = Writer(q)
                        /\ InRing(q)' = InRing(q) /\ Shaped(q)' = Shaped(q)
                        /\ q \in Live' <=> q \in Live
    BY <2>2, UntouchedIs
  <2>4. Live \subseteq Pids /\ Live' \subseteq Pids
    BY DEF Live
  <2>5. Typed'
    BY <2>1 DEF Plumbed, Typed
  <2>6. LinksInUse'
    BY <2>1, <2>3, <2>4 DEF Plumbed, LinksInUse
  <2>7. Apart'
    BY <2>3, <2>4 DEF Plumbed, Apart, Partners
  <2>8. Counted'
    BY <2>1, <2>3, CountedKept
  <2>9. OneRing'
    BY <2>1, <2>2, SameRingIs, RingKept
  <2>10. Token'
    <3>1. PICK n \in 0 .. Rounds - 1, stage \in 1 .. 6 : \A q \in Pids : TokenFor(q, n, stage)
      BY DEF Token
    <3>2. \A k : SameBytes(k)
      BY <2>1 DEF SameBytes
    <3>3. \A q \in Pids : TokenFor(q, n, stage)'
      BY <2>2, <3>1, <3>2, TokenUntouched
    <3> QED BY <3>3 DEF Token
  <2> QED BY <2>3, <2>5, <2>6, <2>7, <2>8, <2>9, <2>10 DEF Plumbed
<1> QED BY <1>1, <1>2, <1>3 DEF Next

(* initialise_oft leaves every table as initialisefdt makes it, and no pipe*)
(* in use.                                                                 *)
LEMMA StartIs ==
  /\ initialise_oft \in Tables
  /\ \A p \in Pids : initialise_oft.fdt[p] = Console
  /\ \A k \in Pipes : /\ ~ initialise_oft.used[k]
                      /\ initialise_oft.pipe[k].fdCount = 0 /\ initialise_oft.pipe[k].bufferIndex = 0
<1>1. Console \in [Fds -> Descriptor]
  BY ConsoleIs
<1>2. initialise_oft = [fdt  |-> [p \in Pids |-> Console],
                        pipe |-> [k \in Pipes |-> [fdCount |-> 0, bufferIndex |-> 0, buffer |-> NoBytes]],
                        used |-> [k \in Pipes |-> FALSE],
                        file |-> [i \in Pipes |-> Unnamed],
                        fileCount |-> 0,
                        disk |-> [f \in Names |-> NoFile],
                        fault |-> FALSE]
  BY DEF initialise_oft, Console
<1>3. [fdCount |-> 0, bufferIndex |-> 0, buffer |-> NoBytes] \in PipeRecord
  BY DescriptorsAssumption DEF PipeRecord, NoBytes
<1> HIDE DEF Console
<1>4. /\ [p \in Pids |-> Console] \in [Pids -> [Fds -> Descriptor]]
      /\ [k \in Pipes |-> [fdCount |-> 0, bufferIndex |-> 0, buffer |-> NoBytes]] \in [Pipes -> PipeRecord]
      /\ [k \in Pipes |-> FALSE] \in [Pipes -> BOOLEAN]
      /\ [i \in Pipes |-> Unnamed] \in [Pipes -> Names \cup {Unnamed}]
      /\ [f \in Names |-> NoFile] \in [Names -> {NoFile, 0, 1, 2}]
  BY <1>1, <1>3
<1>5. initialise_oft \in Tables
  BY <1>2, <1>4 DEF Tables
<1> QED BY <1>2, <1>5

LEMMA InitIs ==
  ASSUME Init
  PROVE  Plumbed /\ Token
<1>1. /\ io \in Tables /\ \A p \in Pids : io.fdt[p] = Console
      /\ \A k \in Pipes : ~ io.used[k] /\ io.pipe[k].fdCount = 0 /\ io.pipe[k].bufferIndex = 0
  BY StartIs DEF Init
<1>2. /\ proc = [p \in Pids |-> IF p = 0 THEN Shell ELSE Free]
      /\ typed = {}
  BY DEF Init
<1>3. /\ Shell \in Process /\ Shell.at = "prompt" /\ Shell.ends = << >> /\ Shell.x = 0 /\ Shell.i = 0
      /\ Free \in Process /\ Free.at = "free"
  <2>1. << >> \in Seq(Words) /\ << >> \in Seq([r : Nat, w : Nat]) /\ 0 \in 0 .. Rounds
    BY ProgramsAssumption
  <2> QED BY <2>1 DEF Free, Shell, Process, Places, Begin
<1>4. /\ Typed
  <2>1. proc \in [Pids -> Process]
    BY <1>2, <1>3
  <2> QED BY <1>1, <1>2, <2>1 DEF Typed
<1>5. \A p \in Pids : /\ Links(p) = {} /\ proc[p].at \in {"prompt", "free"}
                      /\ proc[p].at = "prompt" => proc[p] = Shell
  BY <1>1, <1>2, <1>3, ConsoleLinks DEF Links
<1>6. \A p \in Pids : proc[p].at \notin Starting \cup Ring
  BY <1>5 DEF Starting, Ring, First, Second, Third
<1>7. LinksInUse /\ Apart
  BY <1>5 DEF LinksInUse, Apart, Live
<1>8. Counted
  BY <1>1 DEF Counted
<1>9. OneRing
  <2>1. First \subseteq Ring /\ Second \subseteq Ring /\ Third \subseteq Ring /\ "T2_fork_2" \in Ring
    BY DEF Ring, Second
  <2> QED BY <1>6, <2>1 DEF OneRing
<1>10. ASSUME NEW p \in Pids
       PROVE  Shaped(p)
  <2>1. \/ proc[p].at = "free"
        \/ /\ proc[p].at \in {"prompt", "P3", "T2"} /\ io.fdt[p] = Console
           /\ proc[p].ends = << >> /\ proc[p].x = 0 /\ proc[p].i = 0
    BY <1>1, <1>3, <1>5
  <2>2. Shape(proc[p], io.fdt[p])
    BY <2>1, PlainShape
  <2> QED BY <2>2 DEF Shaped
<1>11. Token
  <2>1. \A p \in Pids : TokenFor(p, 0, 1)
    BY <1>6, TokenVoid
  <2> QED BY <2>1, ProgramsAssumption DEF Token
<1> QED BY <1>4, <1>7, <1>8, <1>9, <1>10, <1>11 DEF Plumbed

(* The invariant is inductive.                                             *)
THEOREM Inductive ==
  ASSUME Plain
  PROVE  Spec => []IInv
<1>1. Init => IInv
  BY InitIs DEF IInv
<1>2. IInv /\ [Next]_vars => IInv'
  BY StepKeeps DEF IInv
<1> QED BY <1>1, <1>2, PTL DEF Spec

-----------------------------------------------------------------------------
(* What the invariant says of pipes and of the token.                      *)
LEMMA CountedIs ==
  ASSUME Counted, NEW k \in Pipes
  PROVE  /\ io.pipe[k].fdCount \in 0 .. 4
         /\ io.used[k] /\ InTwice(k) = 0 /\ OutTwice(k) = 0 => io.pipe[k].fdCount = 2
<1>1. InTwice(k) \in {0, 1} /\ OutTwice(k) \in {0, 1}
  BY DEF InTwice, OutTwice
<1>2. /\ ~ io.used[k] => io.pipe[k].fdCount = 0
      /\ io.used[k] => io.pipe[k].fdCount = 2 + InTwice(k) + OutTwice(k)
  BY DEF Counted
<1> QED BY <1>1, <1>2

LEMMA TypeFollows ==
  ASSUME IInv
  PROVE  TypeOK
<1>1. io \in Tables /\ proc \in [Pids -> Process] /\ typed \subseteq Commands /\ Counted
  BY DEF IInv, Plumbed, Typed
<1>2. io.fdt \in [Pids -> [Fds -> Descriptor]] /\ io.used \in [Pipes -> BOOLEAN]
  BY <1>1 DEF Tables
<1>3. \A k \in Pipes : /\ io.pipe[k].fdCount \in 0 .. 4
                       /\ io.pipe[k].bufferIndex \in Nat
                       /\ io.pipe[k].buffer \in [0 .. BufferSize - 1 -> Bytes]
  BY <1>1, CountedIs, PipeFields
<1>4. \A p \in Pids : proc[p].x \in Nat /\ proc[p].i \in 0 .. Rounds
  BY <1>1, ProcessIs
<1> QED BY <1>1, <1>2, <1>3, <1>4 DEF TypeOK

LEMMA EndsLinked ==
  ASSUME Plumbed, NEW k \in Pipes, NEW p, NEW fd, <<p, fd>> \in EndsOf(k)
  PROVE  p \in Live /\ fd \in Fds /\ k \in Links(p) /\ IsPipeEnd(io, p, fd) /\ io.used[k]
<1>1. p \in Live /\ fd \in Fds /\ IsPipeEnd(io, p, fd) /\ io.fdt[p][fd].pipe = k
  BY DEF EndsOf
<1>2. p \in Pids /\ proc[p].at # "free"
  BY <1>1 DEF Live
<1>3. io \in Tables /\ Shaped(p) /\ proc[p].at \in Busy
  BY <1>2, PlumbedIs
<1>4. k \in Links(p)
  <2>1. k # Null
    BY DEF Pipes, Null
  <2> QED BY <1>1, <1>2, <1>3, <2>1, EndsAreLinks
<1> QED BY <1>1, <1>4 DEF Plumbed, LinksInUse

LEMMA EndsOutlived ==
  ASSUME IInv
  PROVE  PipesOutliveTheirEnds
<1>1. ASSUME NEW k \in Pipes, ~ io.used[k], NEW e \in EndsOf(k)
      PROVE  FALSE
  <2>1. e \in Live \X Fds
    BY <1>1 DEF EndsOf
  <2>2. e = <<e[1], e[2]>>
    BY <2>1
  <2> QED BY <1>1, <2>2, EndsLinked DEF IInv
<1> QED BY <1>1 DEF PipesOutliveTheirEnds

(* Once it has arranged its descriptors a side has one end of its pipe.    *)
LEMMA OneEnd ==
  ASSUME Plumbed, NEW p \in Live, ~ Plumbing(p), NEW fd \in {0, 1},
         io.fdt[p][fd].type = "PIPE"
  PROVE  /\ fd = 0 => Reader(p)
         /\ fd = 1 => Writer(p)
         /\ \A e \in Fds : IsPipeEnd(io, p, e) => e = fd
         /\ proc[p].at \notin {"in_close_0", "in_close_1", "out_close_0"}
<1> DEFINE t == io.fdt[p]
           j == t[2].pipe
           k == t[4].pipe
           l == t[6].pipe
           at == proc[p].at
<1>1. /\ p \in Pids /\ io \in Tables /\ Shaped(p) /\ at \in Busy
  BY PlumbedIs DEF Live
<1>2. /\ at \notin Arranging /\ at # "pipeline"
      /\ at \notin {"in_close_0", "in_close_1", "out_close_0"}
  BY DEF Plumbing, Arranging, Paired
<1>3. /\ j \in Pipes \cup {Null} /\ k \in Pipes \cup {Null} /\ l \in Pipes \cup {Null}
  BY <1>1, LinkedPipes
<1>4. /\ at \in Begin => t = Console
      /\ at \in Quiet \cup {"P3_writer", "P3_reader"} => t \in {Console, InDone(j), OutDone(j)}
      /\ at = "T_exit" => t \in {Console, InDone(j), OutDone(j), Three(j, k, l)}
      /\ at = "T2_pipe_2" => t = Both(j)
      /\ at = "T2_pipe_3" => t = Two(j, k)
      /\ at \in Ring \cup {"T2_fork_1"} => t = Three(j, k, l)
  BY <1>1 DEF Shaped, Shape
<1>5. t \in {Console, Both(j), InDone(j), OutDone(j), Two(j, k), Three(j, k, l)}
  <2>1. at \in Begin \cup Quiet \cup Starting \cup Ring \cup {"T_exit", "P3_writer", "P3_reader"}
    BY <1>1, <1>2, PlacesAre
  <2> QED BY <1>4, <2>1 DEF Starting, Begin
<1>6. Reader(p) <=> at = "in_dup2" \/ t[0].type = "PIPE"
  BY DEF Reader
<1>7. Writer(p) <=> at = "out_dup2" \/ t[1].type = "PIPE"
  BY DEF Writer
<1>8. t[fd].type = "PIPE" /\ \A e \in Fds : IsPipeEnd(io, p, e) <=> t[e].type = "PIPE" /\ t[e].active
  BY DEF IsPipeEnd
<1> HIDE DEF t, j, k, l, at
<1>9. t \in {InDone(j), OutDone(j)}
  <2>1. t \in {Console, Both(j)} => t[0].type = "STDI" /\ t[1].type = "STDO"
    BY <1>3, Sides
  <2>2. /\ t = Two(j, k) => t[0] = Console[0] /\ t[1] = Console[1]
        /\ t = Three(j, k, l) => t[0] = Console[0] /\ t[1] = Console[1]
    BY <1>3, RingTablesAre
  <2>3. "STDI" # "PIPE" /\ "STDO" # "PIPE" /\ Console[0].type = "STDI" /\ Console[1].type = "STDO"
    BY ConsoleIs
  <2> QED BY <1>5, <1>8, <2>1, <2>2, <2>3
<1>10. CASE t = InDone(j)
  <2>1. t[1].type = "STDO" /\ \A e \in Fds : t[e].type = "PIPE" /\ t[e].active => e = 0
    BY <1>3, <1>10, Sides
  <2> QED BY <1>2, <1>6, <1>8, <2>1 DEF at
<1>11. CASE t = OutDone(j)
  <2>1. t[0].type = "STDI" /\ \A e \in Fds : t[e].type = "PIPE" /\ t[e].active => e = 1
    BY <1>3, <1>11, Sides
  <2> QED BY <1>2, <1>7, <1>8, <2>1 DEF at
<1> QED BY <1>9, <1>10, <1>11

(* A reader and a writer of a pipe are all it has.                         *)
LEMMA TwoSides ==
  ASSUME Plumbed, NEW p \in Live, NEW q \in Live, Writer(p), Reader(q),
         NEW k, k \in Links(p), k \in Links(q), NEW r \in Live, k \in Links(r)
  PROVE  r \in {p, q}
<1>1. ASSUME NEW z \in Live
      PROVE  /\ Reader(z) => ~ Writer(z) /\ ~ InRing(z)
             /\ Writer(z) => ~ InRing(z)
  <2>1. z \in Pids /\ io \in Tables /\ Shaped(z) /\ proc[z].at \in Busy
    BY <1>1, PlumbedIs DEF Live
  <2> QED BY <2>1, OneSide
<1>2. /\ r # p => Partners(r, p)
      /\ r # q => Partners(r, q)
  BY DEF Plumbed, Apart
<1> QED BY <1>1, <1>2 DEF Partners

LEMMA PlumbingFollows ==
  ASSUME IInv
  PROVE  PlumbingIsExact
<1> SUFFICES ASSUME NEW k \in Pipes, NEW p \in Live, NEW q \in Live,
                    <<p, 1>> \in EndsOf(k), ~ Plumbing(p), <<q, 0>> \in EndsOf(k), ~ Plumbing(q)
             PROVE  EndsOf(k) = {<<p, 1>>, <<q, 0>>} /\ io.pipe[k].fdCount = 2
  BY DEF PlumbingIsExact
<1>1. Plumbed /\ Counted
  BY DEF IInv, Plumbed
<1>2. /\ k \in Links(p) /\ k \in Links(q) /\ io.used[k]
      /\ IsPipeEnd(io, p, 1) /\ IsPipeEnd(io, q, 0)
  BY <1>1, EndsLinked
<1>3. /\ Writer(p) /\ \A e \in Fds : IsPipeEnd(io, p, e) => e = 1
      /\ proc[p].at \notin {"in_close_0", "in_close_1", "out_close_0"}
  BY <1>1, <1>2, OneEnd DEF IsPipeEnd
<1>4. /\ Reader(q) /\ \A e \in Fds : IsPipeEnd(io, q, e) => e = 0
      /\ proc[q].at \notin {"in_close_0", "in_close_1", "out_close_0"}
  BY <1>1, <1>2, OneEnd DEF IsPipeEnd
<1>5. \A r \in Live : k \in Links(r) => r \in {p, q}
  BY <1>1, <1>2, <1>3, <1>4, TwoSides
<1>6. EndsOf(k) \subseteq {<<p, 1>>, <<q, 0>>}
  <2>1. SUFFICES ASSUME NEW e \in EndsOf(k)
                 PROVE  e \in {<<p, 1>>, <<q, 0>>}
    OBVIOUS
  <2>2. e = <<e[1], e[2]>>
    BY DEF EndsOf
  <2>3. e[1] \in Live /\ e[2] \in Fds /\ k \in Links(e[1]) /\ IsPipeEnd(io, e[1], e[2])
    BY <1>1, <2>2, EndsLinked
  <2> QED BY <1>3, <1>4, <1>5, <2>2, <2>3
<1>7. InTwice(k) = 0 /\ OutTwice(k) = 0
  <2>1. ASSUME NEW r \in Pids, k \in Links(r), proc[r].at \in {"in_close_0", "in_close_1", "out_close_0"}
        PROVE  FALSE
    <3>1. r \in Live
      BY <2>1, LiveAt
    <3> QED BY <1>3, <1>4, <1>5, <2>1, <3>1
  <2> QED BY <2>1 DEF InTwice, OutTwice
<1> QED BY <1>1, <1>2, <1>6, <1>7, CountedIs

LEMMA TokenFollows ==
  ASSUME IInv
  PROVE  TokenCountsHops
<1>1. PICK n \in 0 .. Rounds - 1, stage \in 1 .. 6 : \A p \in Pids : TokenFor(p, n, stage)
  BY DEF IInv, Token
<1>2. \A p \in Pids : /\ proc[p].at = "P1_write" => proc[p].x = 3 * proc[p].i
                      /\ proc[p].at = "P2_write" => proc[p].x = 3 * proc[p].i + 1
                      /\ proc[p].at = "P3_write" => proc[p].x = 3 * proc[p].i + 2
  BY <1>1 DEF TokenFor, PlaceFor, First, Second, Third
<1> QED BY <1>2 DEF TokenCountsHops

(* Tables, counts and buffers stay of their types, whatever the programs   *)
(* do: a pipe never counts more than four descriptors.                     *)
THEOREM ProgramsTyped ==
  ASSUME Plain
  PROVE  Spec => []TypeOK
  BY Inductive, TypeFollows, PTL

(* No pipe is freed while a process can still reach it, for any commands   *)
(* and in any order of the two sides' closes.                              *)
THEOREM EndsOutlive ==
  ASSUME Plain
  PROVE  Spec => []PipesOutliveTheirEnds
  BY Inductive, EndsOutlived, PTL

(* When both sides of a pipeline have done arranging, the pipe has the two *)
(* ends it should and counts them.                                         *)
THEOREM PlumbingExact ==
  ASSUME Plain
  PROVE  Spec => []PlumbingIsExact
  BY Inductive, PlumbingFollows, PTL

(* The token is right at every process of T2, in every round, for any      *)
(* number of rounds and any other programs run beside it.                  *)
THEOREM TokenCounts ==
  ASSUME Plain
  PROVE  Spec => []TokenCountsHops
  BY Inductive, TokenFollows, PTL

-----------------------------------------------------------------------------
(* Pipes as queues.  P3 is left out: its parent writes without waiting for *)
(* its child, and what it writes takes the place of what is there.         *)
Patient == Plain /\ <<"P3">> \notin Commands

NoP3For(s) == /\ s.at \notin {"P3", "P3_writer", "P3_reader"}
              /\ s.at \in Arranging => s.cmd[1] \in Quiet /\ s.cmd[2] \in Quiet

(* The writer of a pipeline that has still to write.                       *)
DueAt(at, t) == \/ at \in Outside \cup {"plumb"}
                \/ at \in Quiet /\ t[1].type = "PIPE"
Due(p) == DueAt(proc[p].at, io.fdt[p])

(* No pipe holds more than one message; until the writer of a pipeline has *)
(* written, its pipe is empty.                                             *)
Orderly == /\ \A p \in Pids : NoP3For(proc[p])
           /\ \A k \in Pipes : io.pipe[k].bufferIndex <= 1
           /\ \A p \in Pids : Due(p) => \A k \in Links(p) : io.pipe[k].bufferIndex = 0

(* A step that neither writes to a pipe nor reads from one.                *)
Silent == \A k \in Pipes :
  /\ io'.pipe[k].bufferIndex = io.pipe[k].bufferIndex
  /\ io.pipe[k].bufferIndex # 0 => io'.pipe[k].buffer = io.pipe[k].buffer

Tidy(q) ==
  /\ NoP3For(proc'[q])
  /\ Due(q)' => \A k \in Links(q)' : (Due(q) /\ k \in Links(q)) \/ io.pipe[k].bufferIndex = 0

LEMMA BytesSilent ==
  ASSUME BytesKept
  PROVE  Silent
  BY DEF BytesKept, SameBytes, Silent

LEMMA SilentContents ==
  ASSUME io \in Tables, Silent
  PROVE  Contents' = Contents
<1> DEFINE Held(q) == [j \in 1 .. q.bufferIndex |-> IF j <= BufferSize THEN q.buffer[j - 1] ELSE 0]
<1>1. ASSUME NEW k \in Pipes
      PROVE  Held(io'.pipe[k]) = Held(io.pipe[k])
  <2> DEFINE n == io.pipe[k].bufferIndex
  <2>1. io'.pipe[k].bufferIndex = n /\ (n # 0 => io'.pipe[k].buffer = io.pipe[k].buffer) /\ n \in Nat
    BY PipeFields DEF Silent
  <2>2. CASE n = 0
    <3>1. 1 .. n = {}
      BY <2>2
    <3> HIDE DEF n
    <3> QED BY <2>1, <3>1 DEF n
  <2>3. CASE n # 0
    BY <2>1, <2>3
  <2> QED BY <2>2, <2>3
<1> HIDE DEF Held
<1>2. /\ Contents = [k \in Pipes |-> Held(io.pipe[k])]
      /\ Contents' = [k \in Pipes |-> Held(io'.pipe[k])]
  BY DEF Contents, Held
<1> QED BY <1>1, <1>2

LEMMA SilentKeeps ==
  ASSUME io \in Tables, io' \in Tables, Orderly, Silent, \A q \in Pids : Tidy(q)
  PROVE  Orderly' /\ Contents' = Contents
<1>1. \A k \in Pipes : io'.pipe[k].bufferIndex <= 1
  BY DEF Orderly, Silent
<1>2. ASSUME NEW q \in Pids, Due(q)', NEW k \in Links(q)'
      PROVE  io'.pipe[k].bufferIndex = 0
  <2>1. io.pipe[k].bufferIndex = 0
    BY <1>2 DEF Tidy, Orderly
  <2>2. k \in Pipes
    <3>1. io'.fdt[q][2].pipe \in Pipes \cup {Null} /\ io'.fdt[q][4].pipe \in Pipes \cup {Null}
          /\ io'.fdt[q][6].pipe \in Pipes \cup {Null}
      BY DescriptorFields, SmallFds
    <3> QED BY <1>2, <3>1 DEF Links, LinksOf
  <2> QED BY <2>1, <2>2 DEF Silent
<1>3. Orderly'
  BY <1>1, <1>2 DEF Orderly, Tidy
<1> QED BY <1>3, SilentContents

LEMMA UntouchedTidy ==
  ASSUME Orderly, NEW q \in Pids, Untouched(q)
  PROVE  Tidy(q)
<1>1. Links(q)' = Links(q)
  BY UntouchedIs
<1>2. Due(q)' <=> Due(q)
  BY DEF Untouched, Due
<1> QED BY <1>1, <1>2 DEF Tidy, Orderly, Untouched

(* Nothing is due of a process at a place before or after its pipeline.    *)
LEMMA NothingDue ==
  ASSUME NEW at, at \notin Outside, at # "plumb", NEW t, at \notin Quiet \/ t[1].type = "STDO"
  PROVE  ~ DueAt(at, t)
  BY DEF DueAt

LEMMA ForkTidy ==
  ASSUME Plumbed, Orderly, NEW p, NEW c, NEW parent, NEW child, Forks(p, c, parent, child),
         NEW t, t = io.fdt[p], NoP3For(parent), NoP3For(child),
         DueAt(parent.at, t) => DueAt(proc[p].at, t), ~ DueAt(child.at, t)
  PROVE  Silent /\ \A q \in Pids : Tidy(q)
<1>1. /\ p \in Pids /\ c \in Pids /\ p # c /\ proc'[p] = parent /\ proc'[c] = child
      /\ io'.fdt[p] = t /\ io'.fdt[c] = t /\ io'.pipe = io.pipe
      /\ \A q \in Pids \ {p, c} : Untouched(q)
      /\ Links(p)' = Links(p) /\ Links(c)' = Links(p)
  BY ForksIs
<1>2. Tidy(p)
  BY <1>1 DEF Tidy, Due
<1>3. Tidy(c)
  BY <1>1 DEF Tidy, Due
<1>4. \A q \in Pids : Tidy(q)
  BY <1>1, <1>2, <1>3, UntouchedTidy
<1> QED BY <1>1, <1>4 DEF Silent

-----------------------------------------------------------------------------
(* Pipes are given out and never given back: what the commands need in     *)
(* all is counted in advance.  Owes is the number of pipes a process at a  *)
(* place has still to open, and Needed has one element for each pipe the   *)
(* commands open between them.                                             *)
Owes(at) == CASE at \in {"pipeline", "T2_pipe_3"} -> 1
              [] at = "T2_pipe_2" -> 2
              [] at = "T2" -> 3
              [] OTHER -> 0

Needed == {e \in Commands \X (1 .. 3) : e[2] <= Owes(Started(e[1]).at)}

PipesSuffice == Cardinality(Needed) <= PipeNo

(* Every pipe end leads to a pipe.                                         *)
Attached == \A p \in Live : \A fd \in Fds : IsPipeEnd(io, p, fd) => io.fdt[p][fd].pipe # Null

(* A process that has still to open pipes does so for a command of its own.*)
Openers == \A p \in Pids : Owes(proc[p].at) # 0 =>
  /\ proc[p].cmd \in typed /\ Owes(proc[p].at) <= Owes(Started(proc[p].cmd).at)
  /\ \A q \in Pids \ {p} : Owes(proc[q].at) # 0 => proc[q].cmd # proc[p].cmd

(* What is still to be opened, by a process or by a command to be typed.   *)
Owed == {e \in Needed : e[1] \in typed =>
           \E p \in Pids : proc[p].cmd = e[1] /\ e[2] <= Owes(proc[p].at)}

Supplied == /\ ~ io.fault /\ Attached /\ Openers
            /\ Cardinality(Owed) <= Cardinality(FreePipes(io))

(* A step that opens no pipe.                                              *)
Spares == /\ io'.used = io.used
          /\ \A q \in Pids : Owes(proc'[q].at) # 0 => proc'[q] = proc[q]
          /\ Attached => Attached' /\ io'.fault = io.fault

(* A call that moves bytes, or that finds the console where it would.      *)
LEMMA MovesSpare ==
  ASSUME io \in Tables, NEW p \in Live, NEW fd \in Fds, NEW perm \in {"READ", "WRITE"},
         NEW k \in Pipes \cup {Null}, io.fdt[p][fd] = End(perm, k), Moves(io, io', p, fd),
         k # Null => io'.fault = io.fault,
         \A q \in Pids \ {p} : proc'[q] = proc[q], Owes(proc'[p].at) = 0
  PROVE  Spares
<1>1. io'.used = io.used /\ io'.fdt = io.fdt
  BY DEF Moves
<1>2. Attached => k # Null
  BY EndIs DEF Attached, IsPipeEnd
<1>3. Attached => Attached'
  BY <1>1 DEF Attached, IsPipeEnd, Live
<1> QED BY <1>1, <1>2, <1>3 DEF Spares, Live

LEMMA IdleSpares ==
  ASSUME NEW p \in Live, io' = io,
         \A q \in Pids \ {p} : proc'[q] = proc[q], Owes(proc'[p].at) = 0
  PROVE  Spares
<1>1. Attached => Attached'
  BY DEF Attached, IsPipeEnd, Live
<1> QED BY <1>1 DEF Spares, Live

LEMMA ForkAttached ==
  ASSUME Plumbed, NEW p, NEW c, NEW parent, NEW child, Forks(p, c, parent, child), Attached
  PROVE  Attached'
<1> DEFINE t == io.fdt[p]
<1>1. /\ p \in Live /\ io'.fdt[p] = t /\ io'.fdt[c] = t /\ \A q \in Pids \ {p, c} : Untouched(q)
  BY ForksIs
<1> SUFFICES ASSUME NEW q \in Pids, proc'[q].at # "free", NEW fd \in Fds,
                    io'.fdt[q][fd].type = "PIPE", io'.fdt[q][fd].active
             PROVE  io'.fdt[q][fd].pipe # Null
  BY DEF Attached, IsPipeEnd, Live
<1>2. PICK r \in Live : io'.fdt[q] = io.fdt[r]
  BY <1>1 DEF Untouched, Live
<1> QED BY <1>2 DEF Attached, IsPipeEnd

(* A fork, but for the shell's.                                            *)
LEMMA ForkSpares ==
  ASSUME Plumbed, NEW p, NEW c, NEW parent, NEW child, Forks(p, c, parent, child),
         Owes(parent.at) = 0, Owes(child.at) = 0
  PROVE  Spares
<1> DEFINE t == io.fdt[p]
<1>1. /\ p \in Pids /\ c \in Pids /\ p # c /\ p \in Live /\ proc'[p] = parent /\ proc'[c] = child
      /\ io'.fdt[p] = t /\ io'.fdt[c] = t /\ io'.used = io.used /\ io'.fault = io.fault
      /\ \A q \in Pids \ {p, c} : Untouched(q)
  BY ForksIs
<1>2. \A q \in Pids : Owes(proc'[q].at) # 0 => proc'[q] = proc[q]
  BY <1>1 DEF Untouched
<1> QED BY <1>1, <1>2, ForkAttached DEF Spares

-----------------------------------------------------------------------------
(* The calls that arrange descriptors leave the bytes alone.               *)
LEMMA LoneTidy ==
  ASSUME Orderly, NEW p \in Pids, \A q \in Pids \ {p} : Untouched(q), Tidy(p)
  PROVE  \A q \in Pids : Tidy(q)
  BY UntouchedTidy

LEMMA PatientIsPlain ==
  ASSUME Patient
  PROVE  Plain /\ \A cmd \in Commands : Started(cmd).at # "P3"
<1>1. ASSUME NEW cmd \in Commands
      PROVE  Started(cmd).at # "P3"
  <2>1. Started(cmd).at \in {"P3", "T2"} => cmd = <<Started(cmd).at>>
    BY StartedIs DEF Patient
  <2> DEFINE at == Started(cmd).at
  <2> HIDE DEF at
  <2>2. at \in {"P3", "T2"} => cmd = <<at>>
    BY <2>1 DEF at
  <2>3. at # "P3"
    BY <2>2 DEF Patient
  <2> QED BY <2>3 DEF at
<1> QED BY <1>1 DEF Patient

LEMMA CommandTidy ==
  ASSUME Patient, Plumbed, Orderly, NEW p \in Pids, Command(p)
  PROVE  Silent /\ \A q \in Pids : Tidy(q)
<1>1. PICK cmd \in Commands \ typed : /\ At(p, "prompt")
                                      /\ ForkTo(p, proc[p], Started(cmd))
  BY DEF Command, Started
<1> DEFINE s == Started(cmd)
<1>2. proc[p].at = "prompt" /\ proc[p].at \in Begin
  BY <1>1 DEF At, Begin
<1>3. p \in Live /\ proc \in [Pids -> Process] /\ io.fdt[p] = Console /\ proc[p] \in Process
  BY <1>2, BeginIs, ProcessIs
<1>4. s \in Process /\ s.at \in Quiet \cup {"P3", "T2", "pipeline"} /\ s.at # "P3"
  BY PatientIsPlain, StartedIs
<1> HIDE DEF s
<1>5. PICK c \in Pids : Forks(p, c, proc[p], s)
  <2>1. ForkTo(p, proc[p], s)
    BY <1>1 DEF s
  <2> QED BY <1>3, <1>4, <2>1, ForkToIs
<1>6. NoP3For(proc[p]) /\ NoP3For(s)
  BY <1>4 DEF Orderly, NoP3For, Arranging, Paired, Quiet
<1>7. ~ DueAt(s.at, Console)
  <2>1. s.at \notin Outside /\ s.at # "plumb"
    BY <1>4 DEF Quiet, Outside
  <2> QED BY <2>1, ConsoleIs, NothingDue
<1> QED BY <1>3, <1>5, <1>6, <1>7, ForkTidy

LEMMA PlumbForkTidy ==
  ASSUME Plumbed, Orderly, NEW p \in Pids, ForkPlumbing(p)
  PROVE  Silent /\ Spares /\ \A q \in Pids : Tidy(q)
<1> DEFINE s == proc[p]
           parent == [s EXCEPT !.at = "out_dup2"]
           child == [s EXCEPT !.at = "in_dup2"]
<1>1. s.at = "plumb" /\ s.at # "free" /\ ForkTo(p, parent, child)
  BY DEF ForkPlumbing, At
<1>2. p \in Live /\ s \in Process
  BY <1>1, PlumbedIs
<1>3. /\ parent \in Process /\ parent.at = "out_dup2" /\ parent.cmd = s.cmd
      /\ child \in Process /\ child.at = "in_dup2" /\ child.cmd = s.cmd
  <2>1. "out_dup2" \in Places /\ "in_dup2" \in Places
    BY DEF Places, Arranging, Paired
  <2> QED BY <1>2, <2>1, AtIs
<1> HIDE DEF parent, child
<1>4. PICK c \in Pids : Forks(p, c, parent, child)
  BY <1>1, <1>2, <1>3, ForkToIs
<1>5. NoP3For(parent) /\ NoP3For(child)
  BY <1>1, <1>3 DEF Orderly, NoP3For, Arranging, Paired
<1>6. DueAt(proc[p].at, io.fdt[p]) /\ ~ DueAt(child.at, io.fdt[p])
  BY <1>1, <1>3 DEF DueAt, Outside, Quiet
<1>7. Owes(parent.at) = 0 /\ Owes(child.at) = 0
  BY <1>3 DEF Owes
<1>8. Spares
  BY <1>4, <1>7, ForkSpares
<1> QED BY <1>4, <1>5, <1>6, <1>8, ForkTidy

LEMMA RingForkTidy ==
  ASSUME Plumbed, Orderly, NEW p \in Pids, NEW at, NEW kid, Splits(proc[p].at, at, kid),
         ForkTo(p, [proc[p] EXCEPT !.at = at], [proc[p] EXCEPT !.at = kid])
  PROVE  Silent /\ Spares /\ \A q \in Pids : Tidy(q)
<1> DEFINE s == proc[p]
           parent == [s EXCEPT !.at = at]
           child == [s EXCEPT !.at = kid]
<1>1. /\ s.at # "free" /\ at \in Ring /\ kid \in Ring /\ at \in Places /\ kid \in Places
      /\ ForkTo(p, parent, child)
  BY DEF Splits, Ring, First, Second, Third, Places
<1>2. p \in Live /\ s \in Process
  BY <1>1, PlumbedIs
<1>3. parent \in Process /\ parent.at = at /\ child \in Process /\ child.at = kid
  BY <1>1, <1>2, AtIs
<1> HIDE DEF parent, child
<1>4. PICK c \in Pids : Forks(p, c, parent, child)
  BY <1>1, <1>2, <1>3, ForkToIs
<1>5. \A w \in Ring : w \notin Arranging /\ w \notin {"P3", "P3_writer", "P3_reader"} /\ w \notin Outside \cup Quiet
  BY DEF Ring, First, Second, Third, Arranging, Paired, Outside, Quiet
<1>6. NoP3For(parent) /\ NoP3For(child)
  BY <1>1, <1>3, <1>5 DEF NoP3For
<1>7. ~ DueAt(parent.at, io.fdt[p]) /\ ~ DueAt(child.at, io.fdt[p])
  BY <1>1, <1>3, <1>5 DEF DueAt, Arranging, Paired
<1>8. Owes(parent.at) = 0 /\ Owes(child.at) = 0
  BY <1>1, <1>3 DEF Owes, Ring, First, Second, Third
<1>9. Spares
  BY <1>4, <1>8, ForkSpares
<1> QED BY <1>4, <1>6, <1>7, <1>9, ForkTidy

LEMMA OpensTidy ==
  ASSUME Plumbed, Orderly, NEW p \in Pids, Opens(p), NoP3For(proc'[p]),
         Links(p) = {} \/ ~ DueAt(proc'[p].at, io'.fdt[p]), io' \in Tables
  PROVE  Silent /\ \A q \in Pids : Tidy(q)
<1>1. Silent
  <2> SUFFICES ASSUME NEW k \in Pipes
               PROVE  /\ io'.pipe[k].bufferIndex = io.pipe[k].bufferIndex
                      /\ io.pipe[k].bufferIndex # 0 => io'.pipe[k].buffer = io.pipe[k].buffer
    BY DEF Silent
  <2>1. io'.pipe[k].bufferIndex = io.pipe[k].bufferIndex /\ (io.used[k] => SameBytes(k))
    BY DEF Opens
  <2>2. ~ io.used[k] => io.pipe[k].bufferIndex = 0
    BY DEF Plumbed, Counted
  <2> QED BY <2>1, <2>2 DEF SameBytes
<1>2. Links(p)' \subseteq Pipes
  <2>1. io'.fdt[p][2].pipe \in Pipes \cup {Null} /\ io'.fdt[p][4].pipe \in Pipes \cup {Null}
        /\ io'.fdt[p][6].pipe \in Pipes \cup {Null}
    BY DescriptorFields, SmallFds
  <2> QED BY <2>1 DEF Links, LinksOf
<1>3. Due(p)' => \A k \in Links(p)' : io.pipe[k].bufferIndex = 0
  <2>1. Due(p)' => Links(p) = {}
    BY DEF Due
  <2>2. \A k \in Links(p)' : k \in Links(p) \/ io.pipe[k].bufferIndex = 0
    BY <1>2 DEF Opens
  <2> QED BY <2>1, <2>2
<1>4. Tidy(p)
  BY <1>3 DEF Tidy
<1> QED BY <1>1, <1>4, LoneTidy DEF Opens

LEMMA OpenPlumbingTidy ==
  ASSUME Plumbed, Orderly, NEW p \in Pids, OpenPlumbing(p), typed' = typed
  PROVE  Silent /\ \A q \in Pids : Tidy(q)
<1>1. Plumbed' /\ Opens(p)
  BY OpenPlumbingKeeps
<1>2. proc[p].at = "pipeline" /\ OpenPipe(p, "plumb") /\ "plumb" \in Places /\ proc[p].at \in Begin
  <2>1. proc[p].at # "P3"
    BY DEF Orderly, NoP3For
  <2> QED BY <2>1 DEF OpenPlumbing, At, Places, Arranging, Paired, Begin
<1>3. /\ io \in Tables /\ proc \in [Pids -> Process] /\ io.fdt[p] = Console /\ TakenUpTo(Console, 2)
      /\ proc[p].cmd[1] \in Quiet /\ proc[p].cmd[2] \in Quiet
  BY <1>2, BeginIs
<1>4. Becomes(p, "plumb", Append(proc[p].ends, Pair(2)), proc[p].x, proc[p].i)
  BY <1>2, <1>3, OpenPipeIs
<1>5. NoP3For(proc'[p])
  BY <1>3, <1>4 DEF Becomes, NoP3For
<1>6. Links(p) = {}
  BY <1>3, ConsoleLinks DEF Links
<1>7. io' \in Tables
  BY <1>1 DEF Plumbed, Typed
<1> QED BY <1>1, <1>5, <1>6, <1>7, OpensTidy

LEMMA RingOpensTidy ==
  ASSUME Plumbed, Orderly, NEW p \in Pids, typed' = typed,
         \/ At(p, "T2") /\ OpenPipe(p, "T2_pipe_2")
         \/ At(p, "T2_pipe_2") /\ OpenPipe(p, "T2_pipe_3")
         \/ At(p, "T2_pipe_3") /\ OpenPipe(p, "T2_fork_1")
  PROVE  Silent /\ \A q \in Pids : Tidy(q)
<1>1. Plumbed' /\ Opens(p) /\ proc'[p].at \in Starting
  BY RingOpensKeeps
<1>2. NoP3For(proc'[p]) /\ ~ DueAt(proc'[p].at, io'.fdt[p])
  BY <1>1 DEF Starting, NoP3For, DueAt, Arranging, Paired, Outside, Quiet
<1>3. io' \in Tables
  BY <1>1 DEF Plumbed, Typed
<1> QED BY <1>1, <1>2, <1>3, OpensTidy

LEMMA ArrangedEnds ==
  ASSUME NEW k \in Pipes, NEW t \in {InHalf(k), InDone(k), OutHalf(k), OutDone(k)}, NEW fd \in Fds,
         t[fd].type = "PIPE", t[fd].active
  PROVE  t[fd].pipe # Null
<1> DEFINE Ends == {End("READ", k), End("WRITE", k), Closed("READ", k), Closed("WRITE", k)}
           Rest == {Console[0], Console[1], Unused}
<1>1. t[fd] \in Ends \cup Rest
  <2>1. fd \in {0, 1, 2, 3} \/ fd >= 4
    BY DEF Fds
  <2> HIDE DEF Ends, Rest
  <2>2. {End("READ", k), End("WRITE", k), Closed("READ", k), Closed("WRITE", k)} \subseteq Ends
        /\ {Console[0], Console[1], Unused} \subseteq Rest
    BY DEF Ends, Rest
  <2> QED BY <2>1, <2>2, TablesAre DEF Has
<1>2. \A e \in Ends : e.pipe = k
  BY EndIs
<1>3. \A e \in Rest : ~ (e.type = "PIPE" /\ e.active)
  BY ConsoleIs, UnusedIs
<1>4. k # Null
  BY DEF Pipes, Null
<1> QED BY <1>1, <1>2, <1>3, <1>4

LEMMA PlumbTidy ==
  ASSUME Plumbed, Orderly, NEW p \in Pids, Plumb(p), typed' = typed
  PROVE  Silent /\ Spares /\ \A q \in Pids : Tidy(q)
<1>1. Arranges(p)
  BY PlumbKeeps
<1>2. proc[p].at \in Arranging /\ proc[p].at \in Inside \cup Outside
  BY DEF Plumb, At, Arranging, Paired, Inside, Outside
<1>3. proc[p].cmd[1] \in Quiet /\ proc[p].cmd[2] \in Quiet
  BY <1>2 DEF Orderly, NoP3For
<1>4. proc \in [Pids -> Process] /\ proc[p] \in Process
  <2>1. proc[p].at # "free"
    BY <1>2 DEF Arranging, Paired
  <2> QED BY <2>1, PlumbedIs
<1>5. \/ proc[p].at \in Inside /\ proc'[p].at \in (Inside \ {"in_dup2"}) \cup Quiet
      \/ proc[p].at \in Outside /\ proc'[p].at \in (Outside \ {"out_dup2"}) \cup Quiet
  <2>1. \A at : Goto(p, at) => proc'[p].at = at
    BY <1>4 DEF Goto, Process
  <2> QED BY <1>3, <2>1 DEF Plumb, At, Inside, Outside
<1>6. NoP3For(proc'[p])
  BY <1>1, <1>3, <1>5 DEF Arranges, NoP3For, Inside, Outside, Quiet
<1>7. Due(p)' => Due(p)
  <2>1. CASE proc[p].at \in Outside
    BY <2>1 DEF Due, DueAt
  <2>2. CASE proc[p].at \in Inside
    <3>1. proc'[p].at \notin Outside /\ proc'[p].at # "plumb"
      BY <1>5, <2>2 DEF Inside, Outside, Quiet
    <3>2. io'.fdt[p][1].type = "STDO"
      BY <1>1, <2>2 DEF Arranges
    <3>3. ~ DueAt(proc'[p].at, io'.fdt[p])
      BY <3>1, <3>2, NothingDue
    <3> QED BY <3>3 DEF Due
  <2> QED BY <1>2, <2>1, <2>2
<1>8. Tidy(p)
  BY <1>1, <1>6, <1>7 DEF Tidy, Arranges
<1>9. Spares
  <2> DEFINE t == io.fdt[p]
             k == t[2].pipe
             next == io'.fdt[p]
  <2>1. /\ p \in Live /\ io \in Tables /\ k \in Pipes \cup {Null}
        /\ t \in {Both(k), InHalf(k), OutHalf(k), OutDone(k)}
    BY <1>2, ArrangingIs DEF Arranging, InClose
  <2>2. Owes(proc'[p].at) = 0
    BY <1>5 DEF Owes, Inside, Outside, Quiet
  <2>3. /\ \A q \in Pids \ {p} : Untouched(q)
        /\ io'.used = io.used /\ next \in {InHalf(k), InDone(k), OutHalf(k), OutDone(k)}
        /\ k # Null => io'.fault = io.fault
    BY <1>1 DEF Arranges
  <2> HIDE DEF k, t, next
  <2>4. Attached => k # Null
    <3>1. \E fd \in Fds, perm \in {"READ", "WRITE"} : t[fd] = End(perm, k)
      BY <2>1, TablesAre, SmallFds DEF Has
    <3>2. \E fd \in Fds : t[fd].type = "PIPE" /\ t[fd].active /\ t[fd].pipe = k
      BY <2>1, <3>1, EndIs
    <3> QED BY <2>1, <3>2 DEF Attached, IsPipeEnd, t
  <2>5. k # Null => \A fd \in Fds : next[fd].type = "PIPE" /\ next[fd].active => next[fd].pipe # Null
    BY <2>1, <2>3, ArrangedEnds
  <2>6. Attached => Attached'
    BY <2>1, <2>3, <2>4, <2>5 DEF Attached, IsPipeEnd, Live, Untouched, next
  <2> QED BY <2>2, <2>3, <2>4, <2>6 DEF Spares, Untouched
<1> QED BY <1>1, <1>8, <1>9, LoneTidy, BytesSilent DEF Arranges

LEMMA ExitTidy ==
  ASSUME Plumbed, Orderly, NEW p \in Pids, At(p, "T_exit"), Exits(p)
  PROVE  Silent /\ Spares /\ \A q \in Pids : Tidy(q)
<1>1. io \in Tables /\ proc \in [Pids -> Process]
  BY DEF Plumbed, Typed
<1>2. io'.fdt = [io.fdt EXCEPT ![p] = exitfdt] /\ io'.pipe = io.pipe
  BY <1>1, ExitIs DEF Exits
<1>3. proc'[p] = Free /\ \A q \in Pids \ {p} : Untouched(q)
  BY <1>1, <1>2, TablesFields DEF Untouched, Exits
<1>4. proc'[p].at = "free"
  BY <1>3 DEF Free, Shell
<1>5. Tidy(p)
  BY <1>4 DEF Tidy, NoP3For, Due, DueAt, Arranging, Paired, Outside, Quiet
<1>6. Spares
  <2>1. io'.used = io.used /\ io'.fault = io.fault
    BY <1>1, ExitIs DEF Exits
  <2>2. Attached => Attached'
    BY <1>3, <1>4 DEF Attached, IsPipeEnd, Live, Untouched
  <2> QED BY <1>3, <1>4, <2>1, <2>2 DEF Spares, Untouched, Owes
<1> QED BY <1>2, <1>3, <1>5, <1>6, LoneTidy DEF Silent

-----------------------------------------------------------------------------
(* Writes and reads, of pipes as queues.                                   *)
Alone(k) == \A j \in Pipes \ {k} : io'.pipe[j] = io.pipe[j]

(* What a pipe of bufferIndex n holds.                                     *)
Held(q) == [j \in 1 .. q.bufferIndex |-> IF j <= BufferSize THEN q.buffer[j - 1] ELSE 0]

LEMMA ContentsAre ==
  /\ Contents = [k \in Pipes |-> Held(io.pipe[k])]
  /\ Contents' = [k \in Pipes |-> Held(io'.pipe[k])]
  BY DEF Contents, Held

LEMMA HeldIs ==
  ASSUME NEW q
  PROVE  /\ q.bufferIndex = 0 => Held(q) = << >>
         /\ q.bufferIndex = 1 => Held(q) = <<q.buffer[0]>>
<1>1. ASSUME q.bufferIndex = 0
      PROVE  Held(q) = << >>
  <2>1. 1 .. q.bufferIndex = {}
    BY <1>1
  <2> QED BY <2>1 DEF Held
<1>2. ASSUME q.bufferIndex = 1
      PROVE  Held(q) = <<q.buffer[0]>>
  <2> DEFINE b == q.buffer[0]
  <2>1. 1 .. q.bufferIndex = {1} /\ 1 <= BufferSize /\ 1 - 1 = 0
    BY <1>2, DescriptorsAssumption
  <2>2. Held(q) = [j \in {1} |-> IF j <= BufferSize THEN q.buffer[j - 1] ELSE 0]
    BY <2>1 DEF Held
  <2>3. Held(q) = [j \in {1} |-> b]
    BY <2>1, <2>2
  <2> HIDE DEF b
  <2>4. <<b>> = [j \in {1} |-> b]
    OBVIOUS
  <2> QED BY <2>3, <2>4 DEF b
<1> QED BY <1>1, <1>2

LEMMA ContentsBecome ==
  ASSUME io \in Tables, NEW k \in Pipes, Alone(k), NEW held, Held(io'.pipe[k]) = held
  PROVE  Contents' = [Contents EXCEPT ![k] = held]
<1>1. ASSUME NEW j \in Pipes
      PROVE  Held(io'.pipe[j]) = IF j = k THEN held ELSE Held(io.pipe[j])
  BY DEF Alone
<1> QED BY <1>1, ContentsAre

LEMMA QueueWritten ==
  ASSUME io \in Tables, NEW p \in Pids, NEW fd \in Fds, NEW perm \in {"READ", "WRITE"},
         NEW k \in Pipes, io.fdt[p][fd] = End(perm, k), NEW x \in Bytes,
         io' = write(io, p, fd, <<x>>), io.pipe[k].bufferIndex = 0
  PROVE  Alone(k) /\ io'.pipe[k].bufferIndex = 1 /\ Fifo!Write(k)
<1>1. <<x>> \in Seq(Bytes) /\ k # Null /\ k \in Pipes \cup {Null}
  BY DEF Pipes, Null
<1>2. io'.pipe[k].bufferIndex = 1 /\ io'.pipe[k].buffer[0] = x
  <2>1. io'.pipe[k].bufferIndex = io.pipe[k].bufferIndex + 1 /\ io'.pipe[k].buffer[0] = x
    BY <1>1, EndWrites
  <2> QED BY <2>1
<1>3. Alone(k)
  <2>1. Moves(io, io', p, fd)
    BY <1>1, WriteMoves
  <2> QED BY <1>1, <2>1, EndIs DEF Moves, Alone
<1>4. Held(io'.pipe[k]) = <<x>> /\ Held(io.pipe[k]) = << >>
  BY <1>2, HeldIs
<1>5. Contents' = [Contents EXCEPT ![k] = <<x>>] /\ Contents[k] = << >>
  BY <1>3, <1>4, ContentsBecome, ContentsAre
<1>6. <<x>> = Append(<< >>, x)
  OBVIOUS
<1> QED BY <1>2, <1>3, <1>5, <1>6 DEF Fifo!Write

LEMMA QueueRead ==
  ASSUME io \in Tables, NEW p \in Pids, NEW fd \in Fds, NEW perm \in {"READ", "WRITE"},
         NEW k \in Pipes, io.fdt[p][fd] = End(perm, k),
         io' = read(io, p, fd, 1), io.pipe[k].bufferIndex <= 1
  PROVE  /\ Alone(k) /\ io'.pipe[k].bufferIndex = 0
         /\ Contents' = Contents \/ Fifo!Read(k)
<1>1. k # Null /\ k \in Pipes \cup {Null}
  BY DEF Pipes, Null
<1>2. io.pipe[k].bufferIndex \in {0, 1}
  BY PipeFields
<1>3. io'.pipe[k].bufferIndex = 0
  BY <1>1, <1>2, EndReads
<1>4. Alone(k)
  <2>1. Moves(io, io', p, fd)
    BY ReadMoves
  <2> QED BY <1>1, <2>1, EndIs DEF Moves, Alone
<1>5. Held(io'.pipe[k]) = << >>
  BY <1>3, HeldIs
<1>6. Contents' = [Contents EXCEPT ![k] = << >>]
  BY <1>4, <1>5, ContentsBecome
<1>7. CASE io.pipe[k].bufferIndex = 0
  <2>1. Contents[k] = << >>
    BY <1>7, HeldIs, ContentsAre
  <2>2. Contents' = Contents
    BY <1>6, <2>1, ContentsAre
  <2> QED BY <1>3, <1>4, <2>2
<1>8. CASE io.pipe[k].bufferIndex = 1
  <2> DEFINE b == io.pipe[k].buffer[0]
  <2>1. Contents[k] = <<b>>
    BY <1>8, HeldIs, ContentsAre
  <2> HIDE DEF b
  <2>2. Tail(<<b>>) = << >> /\ <<b>> # << >>
    OBVIOUS
  <2>3. Fifo!Read(k)
    BY <1>6, <2>1, <2>2 DEF Fifo!Read
  <2> QED BY <1>3, <1>4, <2>3
<1> QED BY <1>2, <1>7, <1>8

(* What a step does to the queues.                                         *)
Queued == Orderly' /\ (Contents' = Contents \/ \E k \in Pipes : Fifo!Write(k) \/ Fifo!Read(k))

(* The pipes of a process that writes are not those of another that has    *)
(* still to write.                                                         *)
LEMMA DueAside ==
  ASSUME Plumbed, NEW p \in Live, Writer(p) \/ InRing(p), NEW q \in Pids, q # p, Due(q),
         NEW k \in Links(p)
  PROVE  k \notin Links(q)
<1>1. proc[q].at # "free" /\ p \in Pids /\ proc[p].at # "free"
  BY DEF Due, DueAt, Outside, Quiet, Live
<1>2. /\ io \in Tables /\ Shaped(p) /\ proc[p].at \in Busy
      /\ Shaped(q) /\ proc[q].at \in Busy /\ q \in Live
  BY <1>1, PlumbedIs
<1>3. ~ Reader(q) /\ ~ InRing(q)
  <2>1. CASE proc[q].at \in Outside
    BY <1>2, <2>1, OneSide
  <2>2. CASE proc[q].at = "plumb"
    BY <1>2, <2>2, OneSide
  <2>3. CASE io.fdt[q][1].type = "PIPE"
    <3>1. Writer(q)
      BY <2>3 DEF Writer
    <3> QED BY <1>2, <3>1, OneSide
  <2> QED BY <2>1, <2>2, <2>3 DEF Due, DueAt
<1>4. ~ Reader(p)
  BY <1>1, <1>2, OneSide
<1>5. ~ Partners(p, q)
  BY <1>3, <1>4 DEF Partners
<1> QED BY <1>2, <1>5 DEF Plumbed, Apart

LEMMA IdleQueued ==
  ASSUME Plumbed, Orderly, NEW p \in Pids, io' \in Tables, io'.fdt = io.fdt,
         \A k \in Pipes : io'.pipe[k] = io.pipe[k],
         \A q \in Pids \ {p} : proc'[q] = proc[q], NoP3For(proc'[p]), Due(p)' => Due(p)
  PROVE  Queued
<1>1. \A q \in Pids \ {p} : Untouched(q)
  BY DEF Untouched
<1>2. Links(p)' = Links(p) /\ Silent
  BY DEF Links, Silent
<1>3. Tidy(p)
  BY <1>2 DEF Tidy
<1>4. io \in Tables
  BY DEF Plumbed, Typed
<1> QED BY <1>1, <1>2, <1>3, <1>4, LoneTidy, SilentKeeps DEF Queued

LEMMA WriteQueued ==
  ASSUME Plumbed, Orderly, NEW p \in Live, NEW fd \in Fds, NEW k \in Pipes \cup {Null},
         io.fdt[p][fd] = End("WRITE", k), NEW x \in Bytes, io' = write(io, p, fd, <<x>>),
         k # Null => k \in Links(p) /\ io.pipe[k].bufferIndex = 0, Writer(p) \/ InRing(p),
         \A q \in Pids \ {p} : proc'[q] = proc[q], NoP3For(proc'[p]), ~ DueAt(proc'[p].at, io.fdt[p]),
         Owes(proc'[p].at) = 0
  PROVE  Queued /\ Spares
<1>1. io \in Tables /\ p \in Pids
  BY DEF Plumbed, Typed, Live
<1>2. Moves(io, io', p, fd)
  <2>1. <<x>> \in Seq(Bytes)
    OBVIOUS
  <2> QED BY <1>1, <2>1, WriteMoves
<1>3. io' \in Tables /\ io'.fdt = io.fdt /\ ~ Due(p)'
  BY <1>2 DEF Moves, Due
<1>4. ASSUME k = Null
      PROVE  Queued
  <2>1. io.fdt[p][fd].pipe = Null /\ Null \notin Pipes
    BY <1>4, EndIs DEF Pipes, Null
  <2>2. \A j \in Pipes : io'.pipe[j] = io.pipe[j]
    BY <1>2, <2>1 DEF Moves
  <2> QED BY <1>1, <1>3, <2>2, IdleQueued
<1>5. ASSUME k \in Pipes
      PROVE  Queued
  <2>1. k \in Links(p) /\ io.pipe[k].bufferIndex = 0
    BY <1>5 DEF Pipes, Null
  <2>2. Alone(k) /\ io'.pipe[k].bufferIndex = 1 /\ Fifo!Write(k)
    BY <1>1, <1>5, <2>1, QueueWritten
  <2>3. \A q \in Pids : NoP3For(proc'[q])
    BY DEF Orderly
  <2>4. \A j \in Pipes : io'.pipe[j].bufferIndex <= 1
    BY <2>2 DEF Orderly, Alone
  <2>5. ASSUME NEW q \in Pids, Due(q)', NEW j \in Links(q)'
        PROVE  io'.pipe[j].bufferIndex = 0
    <3>1. q # p
      BY <1>3, <2>5
    <3>2. Due(q) /\ j \in Links(q)
      BY <1>3, <2>5, <3>1 DEF Due, Links
    <3>3. j # k /\ j \in Pipes
      BY <1>1, <2>1, <3>1, <3>2, DueAside, LinkedPipes
    <3> QED BY <2>2, <3>2, <3>3 DEF Orderly, Alone
  <2>6. Orderly'
    BY <2>3, <2>4, <2>5 DEF Orderly
  <2> QED BY <1>5, <2>2, <2>6 DEF Queued
<1>6. k # Null => io'.fault = io.fault
  BY <1>1, EndWrites
<1>7. Spares
  BY <1>1, <1>2, <1>6, MovesSpare
<1> QED BY <1>4, <1>5, <1>7

LEMMA ReadQueued ==
  ASSUME Plumbed, Orderly, NEW p \in Live, NEW fd \in Fds, NEW k \in Pipes \cup {Null},
         io.fdt[p][fd] = End("READ", k), io' = read(io, p, fd, 1),
         \A q \in Pids \ {p} : proc'[q] = proc[q], NoP3For(proc'[p]), ~ DueAt(proc'[p].at, io.fdt[p]),
         Owes(proc'[p].at) = 0
  PROVE  Queued /\ Spares
<1>1. io \in Tables /\ p \in Pids
  BY DEF Plumbed, Typed, Live
<1>2. Moves(io, io', p, fd)
  BY <1>1, ReadMoves
<1>3. io' \in Tables /\ io'.fdt = io.fdt /\ ~ Due(p)'
  BY <1>2 DEF Moves, Due
<1>4. ASSUME k = Null
      PROVE  Queued
  <2>1. io.fdt[p][fd].pipe = Null /\ Null \notin Pipes
    BY <1>4, EndIs DEF Pipes, Null
  <2>2. \A j \in Pipes : io'.pipe[j] = io.pipe[j]
    BY <1>2, <2>1 DEF Moves
  <2> QED BY <1>1, <1>3, <2>2, IdleQueued
<1>5. ASSUME k \in Pipes
      PROVE  Queued
  <2>1. /\ Alone(k) /\ io'.pipe[k].bufferIndex = 0
        /\ Contents' = Contents \/ Fifo!Read(k)
    <3>1. io.pipe[k].bufferIndex <= 1
      BY <1>5 DEF Orderly
    <3> QED BY <1>1, <1>5, <3>1, QueueRead
  <2>2. \A q \in Pids : NoP3For(proc'[q])
    BY DEF Orderly
  <2>3. \A j \in Pipes : io'.pipe[j].bufferIndex <= 1
    BY <2>1 DEF Orderly, Alone
  <2>4. ASSUME NEW q \in Pids, Due(q)', NEW j \in Links(q)'
        PROVE  io'.pipe[j].bufferIndex = 0
    <3>1. q # p
      BY <1>3, <2>4
    <3>2. Due(q) /\ j \in Links(q)
      BY <1>3, <2>4, <3>1 DEF Due, Links
    <3>3. j \in Pipes
      BY <1>1, <3>2, LinkedPipes
    <3> QED BY <2>1, <3>2, <3>3 DEF Orderly, Alone
  <2>5. Orderly'
    BY <2>2, <2>3, <2>4 DEF Orderly
  <2> QED BY <1>5, <2>1, <2>5 DEF Queued
<1>6. ASSUME k # Null
      PROVE  io'.fault = io.fault
  <2>1. io.pipe[k].bufferIndex \in {0, 1}
    <3>1. k \in Pipes
      BY <1>6
    <3>2. io.pipe[k].bufferIndex \in Nat /\ io.pipe[k].bufferIndex <= 1
      BY <1>1, <3>1, PipeFields DEF Orderly
    <3> QED BY <3>2
  <2> QED BY <1>1, <1>6, <2>1, EndReads
<1>7. Spares
  BY <1>1, <1>2, <1>6, MovesSpare
<1> QED BY <1>4, <1>5, <1>7

(* Where T0, T1 and T3 read from and write to.                             *)
LEMMA QuietIs ==
  ASSUME Plumbed, NEW p \in Pids, proc[p].at \in Quiet, NEW t, t = io.fdt[p], NEW k, k = t[2].pipe
  PROVE  /\ p \in Live /\ io \in Tables /\ proc \in [Pids -> Process]
         /\ k \in Pipes \cup {Null}
         /\ \/ t[0].type # "PIPE" \/ (t[0] = End("READ", k) /\ t[1].type = "STDO")
         /\ \/ t[1].type = "STDO" \/ (t[1] = End("WRITE", k) /\ Writer(p) /\ Links(p) = {k} \ {Null})
<1>1. proc[p].at # "free"
  BY DEF Quiet
<1>2. /\ p \in Live /\ io \in Tables /\ proc \in [Pids -> Process] /\ Shaped(p)
  BY <1>1, PlumbedIs
<1>3. k \in Pipes \cup {Null}
  BY <1>2, LinkedPipes
<1>4. t \in {Console, InDone(k), OutDone(k)}
  BY <1>2 DEF Shaped, Shape
<1>5. CASE t = Console
  BY <1>2, <1>3, <1>5, ConsoleIs
<1>6. CASE t = InDone(k)
  <2>1. t[0] = End("READ", k) /\ t[1] = Console[1]
    BY <1>3, <1>6, TablesAre DEF Has
  <2> QED BY <1>2, <1>3, <2>1, ConsoleIs
<1>7. CASE t = OutDone(k)
  <2>1. t[0] = Console[0] /\ t[1] = End("WRITE", k)
    BY <1>3, <1>7, TablesAre DEF Has
  <2>2. Links(p) = {k} \ {Null}
    BY <1>3, <1>7, PairTables DEF Links
  <2>3. Writer(p)
    BY <1>3, <2>1, EndIs DEF Writer
  <2> QED BY <1>2, <1>3, <2>1, <2>2, <2>3, ConsoleIs
<1> QED BY <1>4, <1>5, <1>6, <1>7

LEMMA QuietGoes ==
  ASSUME Plumbed, NEW p \in Pids, proc[p].at \in Quiet, NEW w \in {"T0", "T_exit"}, Goto(p, w)
  PROVE  /\ proc'[p].at = w /\ NoP3For(proc'[p]) /\ \A q \in Pids \ {p} : proc'[q] = proc[q]
<1>1. proc \in [Pids -> Process] /\ w \in Places
  BY QuietIs DEF Places, Quiet
<1>2. Becomes(p, w, proc[p].ends, proc[p].x, proc[p].i)
  BY <1>1, GotoIs
<1> QED BY <1>2 DEF Becomes, NoP3For, Arranging, Paired

LEMMA T0Queued ==
  ASSUME Patient, Plumbed, Orderly, NEW p \in Pids, T0(p), ~ At(p, "T_exit")
  PROVE  Queued /\ Spares
<1> DEFINE t == io.fdt[p]
           k == t[2].pipe
<1>1. proc[p].at = "T0" /\ io' = write(io, p, 1, <<1>>) /\ Goto(p, "T_exit") /\ proc[p].at \in Quiet
  BY DEF T0, At, Quiet
<1>2. /\ p \in Live /\ io \in Tables /\ k \in Pipes \cup {Null}
      /\ \/ t[1].type = "STDO" \/ (t[1] = End("WRITE", k) /\ Writer(p) /\ Links(p) = {k} \ {Null})
  BY <1>1, QuietIs
<1>3. /\ proc'[p].at = "T_exit" /\ NoP3For(proc'[p]) /\ \A q \in Pids \ {p} : proc'[q] = proc[q]
  BY <1>1, QuietGoes
<1>4. ~ DueAt(proc'[p].at, t) /\ ~ DueAt(proc'[p].at, io'.fdt[p])
  BY <1>3 DEF DueAt, Outside, Quiet
<1>0. Owes(proc'[p].at) = 0
  BY <1>3 DEF Owes
<1> HIDE DEF t, k
<1>5. CASE t[1].type = "STDO"
  <2>1. io' = io
    BY <1>1, <1>5 DEF write, IsPipeEnd, t
  <2>2. Queued
    BY <1>2, <1>3, <1>4, <2>1, IdleQueued DEF Due
  <2> QED BY <1>0, <1>2, <1>3, <2>1, <2>2, IdleSpares
<1>6. CASE t[1] = End("WRITE", k) /\ Writer(p) /\ Links(p) = {k} \ {Null}
  <2>1. ASSUME k # Null
        PROVE  k \in Links(p) /\ io.pipe[k].bufferIndex = 0
    <3>1. Due(p)
      BY <1>1, <1>2, <1>6, EndIs DEF Due, DueAt, t
    <3> QED BY <1>6, <2>1, <3>1 DEF Orderly
  <2>2. 1 \in Bytes /\ 1 \in Fds /\ io.fdt[p][1] = End("WRITE", k) /\ ~ DueAt(proc'[p].at, io.fdt[p])
    BY <1>4, <1>6, SmallFds DEF Patient, Plain, t
  <2> QED BY <1>0, <1>1, <1>2, <1>3, <1>6, <2>1, <2>2, WriteQueued
<1> QED BY <1>2, <1>5, <1>6

LEMMA T1Queued ==
  ASSUME Plumbed, Orderly, NEW p \in Pids, T1(p) \/ T3(p)
  PROVE  Queued /\ Spares
<1> DEFINE t == io.fdt[p]
           k == t[2].pipe
<1>1. /\ proc[p].at \in {"T1", "T3"} /\ io' = read(io, p, 0, 1) /\ Goto(p, "T0")
      /\ proc[p].at \in Quiet
  BY DEF T1, T3, At, Quiet
<1>2. /\ p \in Live /\ io \in Tables /\ k \in Pipes \cup {Null}
      /\ \/ t[0].type # "PIPE" \/ (t[0] = End("READ", k) /\ t[1].type = "STDO")
  BY <1>1, QuietIs
<1>3. /\ proc'[p].at = "T0" /\ NoP3For(proc'[p]) /\ \A q \in Pids \ {p} : proc'[q] = proc[q]
  BY <1>1, QuietGoes
<1>0. Owes(proc'[p].at) = 0
  BY <1>3 DEF Owes
<1> HIDE DEF t, k
<1>4. CASE t[0].type # "PIPE"
  <2>1. io' = io
    BY <1>1, <1>4 DEF read, IsPipeEnd, t
  <2>2. Due(p)' => Due(p)
    BY <1>1, <1>3, <2>1 DEF Due, DueAt, Outside, Quiet
  <2>3. Queued
    BY <1>2, <1>3, <2>1, <2>2, IdleQueued
  <2> QED BY <1>0, <1>2, <1>3, <2>1, <2>3, IdleSpares
<1>5. CASE t[0] = End("READ", k) /\ t[1].type = "STDO"
  <2>1. ~ DueAt(proc'[p].at, t)
    BY <1>3, <1>5, NothingDue DEF Outside
  <2>2. 0 \in Fds /\ io.fdt[p][0] = End("READ", k) /\ ~ DueAt(proc'[p].at, io.fdt[p])
    BY <1>5, <2>1, SmallFds DEF t
  <2> QED BY <1>0, <1>1, <1>2, <1>3, <2>2, ReadQueued
<1> QED BY <1>2, <1>4, <1>5

(* The ring: whoever writes finds its pipe empty.                          *)
LEMMA PassQueued ==
  ASSUME Patient, Plumbed, Token, Orderly, NEW p \in Pids, NEW n \in {1, 2, 3},
         proc[p].at = IF n = 1 THEN "P1_write" ELSE IF n = 2 THEN "P2_write" ELSE "P3_write",
         NEW next \in {"P1_read", "P2_read", "P3_read", "T_exit"}, Pass(p, n, next)
  PROVE  Queued /\ Spares
<1> DEFINE t == io.fdt[p]
           k == t[2 * n].pipe
           fd == Pairs[n].w
           x == proc[p].x
<1>1. proc[p].at \in Writing /\ proc[p].at \in Ring /\ next \in Places
  BY DEF Writing, Ring, First, Second, Third, Places
<1>2. /\ p \in Live /\ io \in Tables /\ InRing(p)
      /\ t[2] = End("READ", t[2].pipe) /\ t[3] = End("WRITE", t[2].pipe) /\ t[4] = End("READ", t[4].pipe)
      /\ t[5] = End("WRITE", t[4].pipe) /\ t[6] = End("READ", t[6].pipe) /\ t[7] = End("WRITE", t[6].pipe)
      /\ t[2].pipe \in Pipes \cup {Null} /\ t[4].pipe \in Pipes \cup {Null} /\ t[6].pipe \in Pipes \cup {Null}
      /\ Links(p) = {t[2].pipe, t[4].pipe, t[6].pipe} \ {Null}
  BY <1>1, RingIs DEF InRing
<1>3. x \in Bytes /\ proc[p].i + 1 <= Rounds
  BY <1>1, TokenIsByte DEF Patient
<1>4. /\ fd \in Fds /\ io' = write(io, p, fd, <<x>>)
      /\ Becomes(p, next, proc[p].ends, x, proc[p].i + 1)
  BY <1>1, <1>3, PassIs
<1>5. t[fd] = End("WRITE", k) /\ k \in Pipes \cup {Null} /\ (k # Null => k \in Links(p))
  <2> HIDE DEF t, k
  <2>1. CASE n = 1
    <3>1. fd = 3 /\ k = t[2].pipe
      BY <2>1, PairsAre DEF k
    <3> QED BY <1>2, <3>1
  <2>2. CASE n = 2
    <3>1. fd = 5 /\ k = t[4].pipe
      BY <2>2, PairsAre DEF k
    <3> QED BY <1>2, <3>1
  <2>3. CASE n = 3
    <3>1. fd = 7 /\ k = t[6].pipe
      BY <2>3, PairsAre DEF k
    <3> QED BY <1>2, <3>1
  <2> QED BY <2>1, <2>2, <2>3
<1>6. Drained(io.pipe, k)
  <2>1. PICK m \in 0 .. Rounds - 1, stage \in 1 .. 6 : TokenFor(p, m, stage)
    BY DEF Token
  <2>2. stage \in {1, 3, 5}
    <3>1. PlaceFor(proc[p], m, stage)
      BY <2>1 DEF TokenFor
    <3> QED BY <3>1 DEF PlaceFor, First, Second, Third
  <2>3. Filled(io.pipe, t, m, stage)
    BY <1>1, <2>1 DEF TokenFor
  <2>4. Drained(io.pipe, t[2].pipe) /\ Drained(io.pipe, t[4].pipe) /\ Drained(io.pipe, t[6].pipe)
    BY <2>2, <2>3 DEF Filled
  <2> QED BY <2>4
<1> HIDE DEF fd, k, x
<1>7. k # Null => k \in Links(p) /\ io.pipe[k].bufferIndex = 0
  BY <1>5, <1>6 DEF Drained
<1>8. /\ \A q \in Pids \ {p} : proc'[q] = proc[q]
      /\ NoP3For(proc'[p]) /\ ~ DueAt(proc'[p].at, io.fdt[p])
      /\ Owes(proc'[p].at) = 0
  BY <1>4 DEF Becomes, Owes, NoP3For, DueAt, Arranging, Paired, Outside, Quiet
<1> QED BY <1>2, <1>3, <1>4, <1>5, <1>7, <1>8, WriteQueued DEF t

LEMMA PollQueued ==
  ASSUME Plumbed, Orderly, NEW p \in Pids, proc[p].at \in Ring, NEW n \in {1, 2, 3},
         NEW next \in {"P1_write", "P2_write", "P3_write", "T_exit"}, Poll(p, n, next)
  PROVE  Queued /\ Spares
<1> DEFINE t == io.fdt[p]
           k == t[2 * n].pipe
           fd == Pairs[n].r
           got == BytesRead(io, p, fd, 1)
<1>1. next \in Places
  BY DEF Ring, First, Second, Third, Places
<1>2. /\ p \in Live /\ io \in Tables
      /\ t[2] = End("READ", t[2].pipe) /\ t[4] = End("READ", t[4].pipe) /\ t[6] = End("READ", t[6].pipe)
      /\ t[2].pipe \in Pipes \cup {Null} /\ t[4].pipe \in Pipes \cup {Null} /\ t[6].pipe \in Pipes \cup {Null}
  BY RingIs
<1>3. /\ fd \in Fds /\ io' = read(io, p, fd, 1)
      /\ got = << >> => Becomes(p, proc[p].at, proc[p].ends, proc[p].x, proc[p].i)
      /\ got # << >> => Becomes(p, next, proc[p].ends, got[1] + 1, proc[p].i)
  BY <1>1, PollIs
<1>4. t[fd] = End("READ", k) /\ k \in Pipes \cup {Null}
  BY <1>2, PairsAre
<1> HIDE DEF fd, k, got
<1>5. proc'[p].at \in Ring \cup {"T_exit"} /\ \A q \in Pids \ {p} : proc'[q] = proc[q]
  BY <1>3 DEF Becomes, Ring, First, Second, Third
<1>6. /\ NoP3For(proc'[p]) /\ ~ DueAt(proc'[p].at, io.fdt[p])
      /\ Owes(proc'[p].at) = 0
  BY <1>5 DEF Owes, NoP3For, DueAt, Ring, First, Second, Third, Arranging, Paired, Outside, Quiet
<1> QED BY <1>2, <1>3, <1>4, <1>5, <1>6, ReadQueued DEF t

(* A call of pipe().                                                       *)
Opening(p) == \/ OpenPlumbing(p)
              \/ At(p, "T2") /\ OpenPipe(p, "T2_pipe_2")
              \/ At(p, "T2_pipe_2") /\ OpenPipe(p, "T2_pipe_3")
              \/ At(p, "T2_pipe_3") /\ OpenPipe(p, "T2_fork_1")

Metered == \/ \E p \in Pids : Command(p)
           \/ typed' = typed /\ (Spares \/ \E p \in Pids : Opening(p))

(* Every step keeps the pipes orderly, and is a step of the queues.        *)
LEMMA StepQueued ==
  ASSUME Patient, Plumbed, Token, Orderly, [Next]_vars
  PROVE  Queued /\ Metered
<1>1. Plumbed' /\ io \in Tables /\ io' \in Tables
  <2>1. Plumbed'
    BY StepKeeps DEF Patient
  <2> QED BY <2>1 DEF Plumbed, Typed
<1>2. Silent /\ (\A q \in Pids : Tidy(q)) => Queued
  BY <1>1, SilentKeeps DEF Queued
<1>3. ASSUME NEW p \in Pids, Command(p)
      PROVE  Queued /\ Metered
  BY <1>2, <1>3, CommandTidy DEF Metered
<1>4. ASSUME NEW p \in Pids, Call(p)
      PROVE  Queued /\ Metered
  <2>1. typed' = typed
    BY <1>4 DEF Call
  <2>0. Opening(p) \/ Spares => Metered
    BY <2>1 DEF Metered
  <2>2. CASE OpenPlumbing(p)
    BY <1>2, <2>0, <2>1, <2>2, OpenPlumbingTidy DEF Opening
  <2>3. CASE ForkPlumbing(p)
    BY <1>2, <2>0, <2>3, PlumbForkTidy
  <2>4. CASE Plumb(p)
    BY <1>2, <2>0, <2>1, <2>4, PlumbTidy
  <2>5. CASE T0(p)
    <3>1. CASE At(p, "T_exit")
      <4>1. Exits(p)
        BY <2>5, <3>1 DEF T0, At
      <4> QED BY <1>2, <2>0, <3>1, <4>1, ExitTidy
    <3>2. CASE ~ At(p, "T_exit")
      BY <2>0, <2>5, <3>2, T0Queued
    <3> QED BY <3>1, <3>2
  <2>6. CASE T1(p) \/ T3(p)
    BY <2>0, <2>6, T1Queued
  <2>7. ~ P3(p)
    BY DEF Orderly, NoP3For, P3, At
  <2>8. CASE T2Start(p)
    <3>1. CASE \/ At(p, "T2") /\ OpenPipe(p, "T2_pipe_2")
               \/ At(p, "T2_pipe_2") /\ OpenPipe(p, "T2_pipe_3")
               \/ At(p, "T2_pipe_3") /\ OpenPipe(p, "T2_fork_1")
      BY <1>2, <2>0, <2>1, <3>1, RingOpensTidy DEF Opening
    <3>2. CASE At(p, "T2_fork_1") /\ ForkTo(p, [proc[p] EXCEPT !.at = "P1_write"],
                                               [proc[p] EXCEPT !.at = "T2_fork_2"])
      <4>1. Splits(proc[p].at, "P1_write", "T2_fork_2")
        BY <3>2 DEF Splits, At
      <4> QED BY <1>2, <2>0, <3>2, <4>1, RingForkTidy
    <3>3. CASE At(p, "T2_fork_2") /\ ForkTo(p, [proc[p] EXCEPT !.at = "P2_read"],
                                               [proc[p] EXCEPT !.at = "P3_read"])
      <4>1. Splits(proc[p].at, "P2_read", "P3_read")
        BY <3>3 DEF Splits, At
      <4> QED BY <1>2, <2>0, <3>3, <4>1, RingForkTidy
    <3> QED BY <2>8, <3>1, <3>2, <3>3 DEF T2Start
  <2>9. CASE T2Loop(p)
    <3>1. proc[p].at \in Ring
      BY <2>9 DEF T2Loop, At, Ring, First, Second, Third
    <3>2. CASE At(p, "P1_write") /\ Pass(p, 1, "P1_read")
      BY <2>0, <3>2, PassQueued DEF At
    <3>3. CASE At(p, "P1_read") /\ Poll(p, 3, IF proc[p].i < Rounds THEN "P1_write" ELSE "T_exit")
      BY <2>0, <3>1, <3>3, PollQueued
    <3>4. CASE At(p, "P2_read") /\ Poll(p, 1, "P2_write")
      BY <2>0, <3>1, <3>4, PollQueued
    <3>5. CASE At(p, "P2_write") /\ Pass(p, 2, Again(p, "P2_read"))
      BY <2>0, <3>5, PassQueued DEF At, Again
    <3>6. CASE At(p, "P3_read") /\ Poll(p, 2, "P3_write")
      BY <2>0, <3>1, <3>6, PollQueued
    <3>7. CASE At(p, "P3_write") /\ Pass(p, 3, Again(p, "P3_read"))
      BY <2>0, <3>7, PassQueued DEF At, Again
    <3> QED BY <2>9, <3>2, <3>3, <3>4, <3>5, <3>6, <3>7 DEF T2Loop
  <2> QED BY <1>4, <2>2, <2>3, <2>4, <2>5, <2>6, <2>7, <2>8, <2>9 DEF Call
<1>5. ASSUME UNCHANGED vars
      PROVE  Queued /\ Metered
  <2>1. io' = io /\ proc' = proc /\ typed' = typed
    BY <1>5 DEF vars
  <2>2. \A q \in Pids : Tidy(q)
    BY <2>1, UntouchedTidy DEF Untouched
  <2>3. Spares
    BY <2>1 DEF Spares, Attached, IsPipeEnd, Live
  <2> QED BY <1>2, <2>1, <2>2, <2>3 DEF Silent, Metered
<1> QED BY <1>3, <1>4, <1>5 DEF Next

LEMMA InitQueued ==
  ASSUME Init
  PROVE  Orderly /\ Fifo!Init
<1>1. /\ \A p \in Pids : io.fdt[p] = Console
      /\ \A k \in Pipes : io.pipe[k].bufferIndex = 0
  BY StartIs DEF Init
<1>2. \A p \in Pids : proc[p].at \in {"prompt", "free"}
  BY DEF Init, Free, Shell
<1>3. \A p \in Pids : NoP3For(proc[p]) /\ ~ Due(p)
  BY <1>2 DEF NoP3For, Due, DueAt, Arranging, Paired, Outside, Quiet
<1>4. Orderly
  BY <1>1, <1>3 DEF Orderly
<1>5. \A k \in Pipes : Held(io.pipe[k]) = << >>
  BY <1>1, HeldIs
<1>6. Contents = [k \in Pipes |-> << >>]
  BY <1>5, ContentsAre
<1> QED BY <1>4, <1>6 DEF Fifo!Init

-----------------------------------------------------------------------------
(* The pipes suffice.                                                      *)
LEMMA FinitelyMany ==
  ASSUME Plain
  PROVE  IsFiniteSet(Commands) /\ IsFiniteSet(Needed)
<1> DEFINE W == Quiet \cup {"P3", "T2"}
           f == [c \in W |-> <<c>>]
           S == {<<c>> : c \in W}
<1>1. IsFiniteSet(Quiet)
  <2>1. IsFiniteSet({"P0"}) /\ IsFiniteSet({"P1"}) /\ IsFiniteSet({"P2"})
        /\ IsFiniteSet({"T0"}) /\ IsFiniteSet({"T1"}) /\ IsFiniteSet({"T3"})
    BY FS_Singleton
  <2>2. IsFiniteSet({"P0"} \cup {"P1"})
    BY <2>1, FS_Union
  <2>3. IsFiniteSet({"P0"} \cup {"P1"} \cup {"P2"})
    BY <2>1, <2>2, FS_Union
  <2>4. IsFiniteSet({"P0"} \cup {"P1"} \cup {"P2"} \cup {"T0"})
    BY <2>1, <2>3, FS_Union
  <2>5. IsFiniteSet({"P0"} \cup {"P1"} \cup {"P2"} \cup {"T0"} \cup {"T1"})
    BY <2>1, <2>4, FS_Union
  <2>6. IsFiniteSet({"P0"} \cup {"P1"} \cup {"P2"} \cup {"T0"} \cup {"T1"} \cup {"T3"})
    BY <2>1, <2>5, FS_Union
  <2>7. {"P0"} \cup {"P1"} \cup {"P2"} \cup {"T0"} \cup {"T1"} \cup {"T3"} = Quiet
    BY DEF Quiet
  <2> QED BY <2>6, <2>7
<1>2. IsFiniteSet(W)
  <2>1. IsFiniteSet({"P3"}) /\ IsFiniteSet({"T2"})
    BY FS_Singleton
  <2>2. IsFiniteSet({"P3"} \cup {"T2"}) /\ {"P3"} \cup {"T2"} = {"P3", "T2"}
    BY <2>1, FS_Union
  <2> QED BY <1>1, <2>2, FS_Union
<1>3. IsFiniteSet(S)
  <2>1. f \in Surjection(W, S)
    BY DEF Surjection
  <2> HIDE DEF f, W, S
  <2> QED BY <1>2, <2>1, FS_Surjection
<1>4. IsFiniteSet(Quiet \X Quiet)
  BY <1>1, FS_Product
<1>5. IsFiniteSet(S \cup (Quiet \X Quiet))
  BY <1>3, <1>4, FS_Union
<1>6. Commands \subseteq S \cup (Quiet \X Quiet)
  BY DEF Plain
<1>7. IsFiniteSet(Commands)
  BY <1>5, <1>6, FS_Subset
<1>8. IsFiniteSet(Commands \X (1 .. 3))
  <2>1. 1 \in Int /\ 3 \in Int
    OBVIOUS
  <2>2. IsFiniteSet(1 .. 3)
    BY ONLY <2>1, FS_Interval
  <2> QED BY ONLY <1>7, <2>2, FS_Product
<1>9. Needed \subseteq Commands \X (1 .. 3)
  BY DEF Needed
<1> QED BY <1>7, <1>8, <1>9, FS_Subset

LEMMA OwedIs ==
  ASSUME Plain
  PROVE  /\ IsFiniteSet(Owed) /\ IsFiniteSet(FreePipes(io))
         /\ \A S \in SUBSET Owed : Cardinality(S) <= Cardinality(Owed) /\ IsFiniteSet(S)
<1>1. Owed \subseteq Needed /\ IsFiniteSet(Needed)
  BY FinitelyMany DEF Owed
<1>2. IsFiniteSet(Pipes) /\ FreePipes(io) \subseteq Pipes
  BY FS_Interval, DescriptorsAssumption DEF Pipes, FreePipes
<1>3. IsFiniteSet(Owed) /\ IsFiniteSet(FreePipes(io))
  BY <1>1, <1>2, FS_Subset
<1> QED BY <1>3, FS_Subset

LEMMA FewerOwed ==
  ASSUME Plain, Owed' \subseteq Owed, FreePipes(io)' = FreePipes(io),
         Cardinality(Owed) <= Cardinality(FreePipes(io))
  PROVE  Cardinality(Owed)' <= Cardinality(FreePipes(io))'
<1>1. Cardinality(Owed') <= Cardinality(Owed) /\ IsFiniteSet(Owed')
  BY OwedIs
<1>2. Cardinality(Owed') \in Nat /\ Cardinality(Owed) \in Nat /\ Cardinality(FreePipes(io)) \in Nat
  BY <1>1, OwedIs, FS_CardinalityType
<1> QED BY <1>1, <1>2

LEMMA OwesIs ==
  ASSUME NEW at
  PROVE  Owes(at) \in 0 .. 3
  BY DEF Owes

LEMMA SparesSupplied ==
  ASSUME Plain, Supplied, Spares, typed' = typed
  PROVE  Supplied'
<1>1. io'.fault = io.fault /\ Attached' /\ FreePipes(io)' = FreePipes(io)
  BY DEF Supplied, Spares, FreePipes
<1>2. Openers'
  BY DEF Supplied, Spares, Openers
<1>3. Owed' \subseteq Owed
  <2> SUFFICES ASSUME NEW e \in Owed'
               PROVE  e \in Owed
    OBVIOUS
  <2>1. e \in Needed /\ Owes(Started(e[1]).at) \in Nat
    BY DEF Owed, Owes
  <2>2. ASSUME e[1] \in typed
        PROVE  \E p \in Pids : proc[p].cmd = e[1] /\ e[2] <= Owes(proc[p].at)
    <3>1. PICK p \in Pids : proc'[p].cmd = e[1] /\ e[2] <= Owes(proc'[p].at)
      BY <2>2 DEF Owed
    <3>2. e[2] \in 1 .. 3
      BY <2>1 DEF Needed
    <3>3. Owes(proc'[p].at) # 0
      BY <3>1, <3>2
    <3>4. proc'[p] = proc[p]
      BY <3>3 DEF Spares
    <3> QED BY <3>1, <3>4
  <2> QED BY <2>1, <2>2 DEF Owed
<1> QED BY <1>1, <1>2, <1>3, FewerOwed DEF Supplied

LEMMA CommandSupplied ==
  ASSUME Plain, Plumbed, Supplied, NEW p \in Pids, Command(p)
  PROVE  Supplied'
<1>1. PICK cmd \in Commands \ typed : /\ At(p, "prompt") /\ typed' = typed \cup {cmd}
                                      /\ ForkTo(p, proc[p], Started(cmd))
  BY DEF Command, Started
<1> DEFINE s == Started(cmd)
<1>2. proc[p].at = "prompt" /\ proc[p].at \in Begin
  BY <1>1 DEF At, Begin
<1>3. p \in Live /\ proc[p] \in Process
  BY <1>2, BeginIs, ProcessIs
<1>4. s \in Process /\ s.cmd = cmd
  <2>1. s \in Process
    BY StartedIs
  <2>2. s.cmd = cmd
    BY DEF Started, Shell
  <2> QED BY <2>1, <2>2
<1> HIDE DEF s
<1>5. PICK c \in Pids : Forks(p, c, proc[p], s)
  <2>1. ForkTo(p, proc[p], s)
    BY <1>1 DEF s
  <2> QED BY <1>3, <1>4, <2>1, ForkToIs
<1>6. /\ p # c /\ proc'[p] = proc[p] /\ proc'[c] = s /\ io'.used = io.used /\ io'.fault = io.fault
      /\ \A q \in Pids \ {c} : proc'[q] = proc[q]
  BY <1>3, <1>5, ForksIs DEF Untouched
<1>7. Attached'
  BY <1>5, ForkAttached DEF Supplied
<1>8. Openers'
  <2> SUFFICES ASSUME NEW q \in Pids, Owes(proc'[q].at) # 0
               PROVE  /\ proc'[q].cmd \in typed'
                      /\ Owes(proc'[q].at) <= Owes(Started(proc'[q].cmd).at)
                      /\ \A r \in Pids \ {q} : Owes(proc'[r].at) # 0 => proc'[r].cmd # proc'[q].cmd
    BY DEF Openers
  <2>1. \A r \in Pids \ {c} : Owes(proc'[r].at) # 0 => proc'[r].cmd \in typed /\ proc'[r].cmd # cmd
    BY <1>6 DEF Supplied, Openers
  <2>2. CASE q = c
    <3>1. Owes(s.at) <= Owes(s.at)
      BY OwesIs
    <3> QED BY <1>1, <1>4, <1>6, <2>1, <2>2, <3>1 DEF s
  <2>3. CASE q # c
    BY <1>1, <1>4, <1>6, <2>1, <2>3 DEF Supplied, Openers
  <2> QED BY <2>2, <2>3
<1>9. Owed' \subseteq Owed
  <2> SUFFICES ASSUME NEW e \in Owed', e[1] \in typed
               PROVE  \E q \in Pids : proc[q].cmd = e[1] /\ e[2] <= Owes(proc[q].at)
    BY DEF Owed
  <2>1. PICK q \in Pids : proc'[q].cmd = e[1] /\ e[2] <= Owes(proc'[q].at)
    BY <1>1 DEF Owed
  <2>2. q # c
    BY <1>4, <1>6, <2>1
  <2> QED BY <1>6, <2>1, <2>2
<1> QED BY <1>6, <1>7, <1>8, <1>9, FewerOwed DEF Supplied, FreePipes

(* A process opens its next pipe.                                          *)
LEMMA OpeningIs ==
  ASSUME Plumbed, Orderly, NEW p \in Pids, Opening(p), typed' = typed
  PROVE  /\ Opens(p) /\ Owes(proc[p].at) \in 1 .. 3 /\ proc[p].at # "free"
         /\ proc'[p].cmd = proc[p].cmd /\ Owes(proc'[p].at) = Owes(proc[p].at) - 1
         /\ \A q \in Pids \ {p} : proc'[q] = proc[q]
<1>1. Opens(p)
  BY OpenPlumbingKeeps, RingOpensKeeps DEF Opening
<1>2. PICK next : OpenPipe(p, next) /\ <<proc[p].at, next>> \in
                    {<<"pipeline", "plumb">>, <<"T2", "T2_pipe_2">>,
                     <<"T2_pipe_2", "T2_pipe_3">>, <<"T2_pipe_3", "T2_fork_1">>}
  <2>1. proc[p].at # "P3"
    BY DEF Orderly, NoP3For
  <2> QED BY <2>1 DEF Opening, OpenPlumbing, At
<1>3. /\ Owes(proc[p].at) \in 1 .. 3 /\ proc[p].at # "free"
      /\ Owes(next) = Owes(proc[p].at) - 1
  BY <1>2 DEF Owes
<1>4. proc'[p].at = next /\ proc'[p].cmd = proc[p].cmd
  BY <1>2 DEF OpenPipe, Plumbed, Typed, Process
<1> QED BY <1>1, <1>3, <1>4 DEF Opens, Untouched

LEMMA OpeningSupplied ==
  ASSUME Plain, Plumbed, Orderly, Supplied, NEW p \in Pids, Opening(p), typed' = typed
  PROVE  Supplied'
<1> DEFINE n == Owes(proc[p].at)
           cmd == proc[p].cmd
           k == NewPipe(io)
<1>1. /\ Opens(p) /\ n \in 1 .. 3 /\ p \in Live
      /\ proc'[p].cmd = cmd /\ Owes(proc'[p].at) = n - 1
      /\ \A q \in Pids \ {p} : proc'[q] = proc[q]
  BY OpeningIs DEF Live
<1>2. /\ cmd \in typed /\ n <= Owes(Started(cmd).at)
      /\ \A q \in Pids \ {p} : Owes(proc[q].at) # 0 => proc[q].cmd # cmd
  BY <1>1 DEF Supplied, Openers
<1>3. io \in Tables /\ cmd \in Commands
  BY <1>2 DEF Plumbed, Typed
<1>4. <<cmd, n>> \in Owed
  BY <1>1, <1>2, <1>3 DEF Owed, Needed
<1>5. Owed' \subseteq Owed \ {<<cmd, n>>}
  <2> SUFFICES ASSUME NEW e \in Owed'
               PROVE  e \in Owed /\ (e[1] # cmd \/ e[2] # n)
    OBVIOUS
  <2>1. e \in Needed /\ e[2] \in 1 .. 3
    BY DEF Owed, Needed
  <2>2. CASE e[1] \notin typed
    BY <1>2, <2>1, <2>2 DEF Owed
  <2>3. CASE e[1] \in typed
    <3>1. PICK q \in Pids : proc'[q].cmd = e[1] /\ e[2] <= Owes(proc'[q].at)
      BY <2>3 DEF Owed
    <3>2. CASE q = p
      <4>1. proc[q].cmd = e[1] /\ e[2] <= n - 1
        BY <1>1, <3>1, <3>2
      <4>2. e[2] <= n /\ e[2] # n
        BY <1>1, <2>1, <4>1
      <4> QED BY <2>1, <3>2, <4>1, <4>2 DEF Owed
    <3>3. CASE q # p
      <4>1. proc[q].cmd = e[1] /\ e[2] <= Owes(proc[q].at)
        BY <1>1, <3>1, <3>3
      <4>2. Owes(proc[q].at) # 0
        BY <2>1, <4>1
      <4> QED BY <1>2, <2>1, <3>3, <4>1, <4>2 DEF Owed
    <3> QED BY <3>2, <3>3
  <2> QED BY <2>2, <2>3
<1> HIDE DEF n, cmd
<1>6. Cardinality(Owed') <= Cardinality(Owed) - 1 /\ Cardinality(Owed) >= 1
  <2> DEFINE S == Owed \ {<<cmd, n>>}
  <2>1. IsFiniteSet(S) /\ Cardinality(S) = Cardinality(Owed) - 1
    BY <1>4, OwedIs, FS_RemoveElement
  <2>2. Cardinality(Owed') <= Cardinality(S)
    BY <1>5, <2>1, FS_Subset
  <2>3. Cardinality(S) \in Nat /\ Cardinality(Owed) \in Nat
    BY <2>1, OwedIs, FS_CardinalityType
  <2> QED BY <2>1, <2>2, <2>3
<1>7. k \in FreePipes(io)
  <2>1. Cardinality(FreePipes(io)) # 0
    BY <1>6, OwedIs, FS_CardinalityType DEF Supplied
  <2>2. FreePipes(io) # {}
    BY <2>1, FS_EmptySet
  <2> QED BY <2>2, NewPipeIs DEF FreePipes
<1>8. k \in Pipes /\ k # Null
  BY <1>7 DEF FreePipes, Pipes, Null
<1> HIDE DEF k
<1>9. FreePipes(io)' = FreePipes(io) \ {k}
  <2>1. io.used \in [Pipes -> BOOLEAN] /\ io'.used = [io.used EXCEPT ![k] = TRUE]
    BY <1>1, <1>3, <1>8, TablesFields DEF Opens, Given, k
  <2> QED BY <1>8, <2>1 DEF FreePipes
<1>10. Cardinality(FreePipes(io))' = Cardinality(FreePipes(io)) - 1
  BY <1>7, <1>9, OwedIs, FS_RemoveElement
<1>11. Cardinality(Owed)' <= Cardinality(FreePipes(io))'
  <2>1. IsFiniteSet(Owed')
    BY <1>5, OwedIs
  <2>2. Cardinality(Owed) \in Nat /\ Cardinality(FreePipes(io)) \in Nat /\ Cardinality(Owed') \in Nat
    BY <2>1, OwedIs, FS_CardinalityType
  <2> QED BY <1>6, <1>10, <2>2 DEF Supplied
<1>12. Attached'
  <2> SUFFICES ASSUME NEW q \in Pids, proc'[q].at # "free", NEW fd \in Fds,
                      io'.fdt[q][fd].type = "PIPE", io'.fdt[q][fd].active
               PROVE  io'.fdt[q][fd].pipe # Null
    BY DEF Attached, IsPipeEnd, Live
  <2>1. CASE io'.fdt[q][fd] = io.fdt[q][fd] /\ q \in Live
    BY <2>1 DEF Supplied, Attached, IsPipeEnd
  <2>2. CASE q = p /\ io'.fdt[p][fd].pipe = k
    BY <1>8, <2>2
  <2> QED BY <1>1, <2>1, <2>2 DEF Opens, Untouched, Live, k
<1>13. Openers'
  <2> SUFFICES ASSUME NEW q \in Pids, Owes(proc'[q].at) # 0
               PROVE  /\ proc'[q].cmd \in typed
                      /\ Owes(proc'[q].at) <= Owes(Started(proc'[q].cmd).at)
                      /\ \A r \in Pids \ {q} : Owes(proc'[r].at) # 0 => proc'[r].cmd # proc'[q].cmd
    BY DEF Openers
  <2>1. \A r \in Pids : /\ proc'[r].cmd = proc[r].cmd
                        /\ Owes(proc'[r].at) # 0 => Owes(proc[r].at) # 0
    BY <1>1 DEF n, cmd
  <2>2. Owes(proc'[q].at) <= Owes(proc[q].at)
    <3>1. Owes(proc[q].at) \in 0 .. 3
      BY OwesIs
    <3> QED BY <1>1, <3>1 DEF n
  <2>3. Owes(proc[q].at) <= Owes(Started(proc[q].cmd).at)
    BY <2>1 DEF Supplied, Openers
  <2>4. Owes(proc'[q].at) <= Owes(Started(proc'[q].cmd).at)
    BY <2>1, <2>2, <2>3, OwesIs
  <2> QED BY <2>1, <2>4 DEF Supplied, Openers
<1> QED BY <1>1, <1>11, <1>12, <1>13 DEF Supplied, Opens

LEMMA StepSupplied ==
  ASSUME Plain, Plumbed, Orderly, Supplied, Metered
  PROVE  Supplied'
  BY CommandSupplied, OpeningSupplied, SparesSupplied DEF Metered

LEMMA InitSupplied ==
  ASSUME Plain, PipesSuffice, Init
  PROVE  Supplied
<1>1. /\ io.fdt = [p \in Pids |-> Console] /\ io.used = [k \in Pipes |-> FALSE] /\ ~ io.fault
  BY DEF Init, initialise_oft, Console
<1>2. \A p \in Pids : Owes(proc[p].at) = 0
  BY DEF Init, Free, Shell, Owes
<1>3. Attached
  BY <1>1, ConsoleIs, UnusedIs DEF Attached, IsPipeEnd, Live, Fds
<1>4. Openers
  BY <1>2 DEF Openers
<1>5. Cardinality(Owed) <= Cardinality(Needed) /\ Cardinality(Owed) \in Nat /\ Cardinality(Needed) \in Nat
  BY FinitelyMany, OwedIs, FS_Subset, FS_CardinalityType DEF Owed
<1>6. FreePipes(io) = 0 .. PipeNo - 1
  BY <1>1 DEF FreePipes, Pipes
<1>7. Cardinality(0 .. PipeNo - 1) = PipeNo
  BY FS_Interval, DescriptorsAssumption
<1> QED BY <1>1, <1>3, <1>4, <1>5, <1>6, <1>7, DescriptorsAssumption DEF Supplied, PipesSuffice

(* As long as P3 is not run, the pipes are first-in first-out queues: the  *)
(* kernel's write, which overwrites the front of a buffer, and its read,   *)
(* which leaves the rest of one where it is, implement PipeFifo, for no    *)
(* program finds more than one message in a pipe it reads, nor any in one  *)
(* it writes to (write and read of kernel.c, T0.c, T1.c, T2.c and T3.c).   *)
THEOREM PipesKeepOrder ==
  ASSUME Patient
  PROVE  Spec => PipesAreFifo
<1>1. Init => IInv /\ Orderly /\ Fifo!Init
  BY InitIs, InitQueued DEF IInv
<1>2. IInv /\ Orderly /\ [Next]_vars => Queued /\ IInv'
  BY StepQueued, StepKeeps DEF IInv, Patient
<1>3. Queued => Orderly' /\ [Fifo!Next]_Contents
  BY DEF Queued, Fifo!Next
<1> QED BY <1>1, <1>2, <1>3, PTL DEF Spec, PipesAreFifo, Fifo!Spec

(* As long as P3 is not run and there is a pipe for every call of pipe()   *)
(* the commands make, no program makes the kernel leave its tables: none   *)
(* runs into the null pipe of a pipe() that failed, which no program looks *)
(* for (pipe_kernel, dup2kernel, close_kernel, write and read of kernel.c, *)
(* and their callers in shell.c and T2.c).                                 *)
THEOREM NeverFaults ==
  ASSUME Patient, PipesSuffice
  PROVE  Spec => []NoFault
<1>1. Init => IInv /\ Orderly /\ Supplied
  BY InitIs, InitQueued, InitSupplied DEF IInv, Patient
<1>2. IInv /\ Orderly /\ Supplied /\ [Next]_vars => IInv' /\ Orderly' /\ Supplied'
  BY StepQueued, StepKeeps, StepSupplied DEF IInv, Patient, Queued
<1>3. Supplied => NoFault
  BY DEF Supplied, NoFault
<1> QED BY <1>1, <1>2, <1>3, PTL DEF Spec
=============================================================================
