------------------------------ MODULE Programs ------------------------------
(***************************************************************************)
(* The user programs that share pipes, on the kernel of Descriptors: the   *)
(* shell's "run p1 p2", P3, the ring of processes T2, and the programs     *)
(* T0, T1 and T3 that a pipeline is made of.  A step is one system call of *)
(* one process with the user instructions up to its next; any process may  *)
(* take the next step, as the timer may strike between any two.            *)
(*                                                                         *)
(* The 16 and 22 byte messages of these programs are one byte of the model *)
(* and pipeBufferSize is scaled with them.  Output to the console has no   *)
(* state and is left out where descriptor 1 is known to be the console.    *)
(***************************************************************************)
EXTENDS Descriptors

CONSTANTS
  Commands,  (* typed at the shell, <<prog>> or <<p1, p2>>; bound: each once *)
  Rounds     (* how many times the token of T2 goes round (6 in T2.c)       *)

ASSUME ProgramsAssumption == /\ Rounds \in Nat \ {0}
                             /\ FdNo >= 8   (* T2 needs two and three pairs *)
                             /\ 0 \in Pids

VARIABLES
  io,     (* the kernel's descriptors and pipes                             *)
  proc,   (* what each process is at, and its variables                     *)
  typed   (* the commands typed so far                                      *)

vars == <<io, proc, typed>>

Shell == [at |-> "prompt", cmd |-> << >>, ends |-> << >>, x |-> 0, i |-> 0]
Free == [Shell EXCEPT !.at = "free"]
Live == {p \in Pids : proc[p].at # "free"}
At(p, where) == ~ io.fault /\ proc[p].at = where

Goto(p, where) == proc' = [proc EXCEPT ![p].at = where]

Init == /\ io = initialise_oft
        /\ proc = [p \in Pids |-> IF p = 0 THEN Shell ELSE Free]
        /\ typed = {}

-----------------------------------------------------------------------------
(* fork(): the child goes on as a copy of its parent at another place.     *)
ForkTo(p, parent, child) ==
  \E c \in Pids : /\ c \notin Live /\ \A q \in Pids \ Live : c <= q
                  /\ io' = copy_parents_fd(io, p, c)
                  /\ proc' = [proc EXCEPT ![p] = parent, ![c] = child]

(* pipe(pipefd), the program not looking at whether it failed.             *)
OpenPipe(p, next) ==
  /\ io' = pipe_kernel(io, p)
  /\ proc' = [proc EXCEPT ![p].at = next,
                          ![p].ends = Append(@, [r |-> ReadEnd(io, p), w |-> WriteEnd(io, p)])]

(* exit().                                                                 *)
Exits(p) == io' = exit_fds(io, p) /\ proc' = [proc EXCEPT ![p] = Free]

(* shell(): a command of one word forks a child that execs it, one of two  *)
(* a child that builds a pipeline.                                         *)
Command(p) == \E cmd \in Commands \ typed :
  /\ At(p, "prompt")
  /\ typed' = typed \cup {cmd}
  /\ ForkTo(p, proc[p], [Shell EXCEPT !.at = IF Len(cmd) = 2 THEN "pipeline" ELSE cmd[1],
                                      !.cmd = cmd])

(* The child's pipe() and fork(): the child's own child becomes the reader,*)
(* p2, and the child the writer, p1.  P3 does the same, keeping the program*)
(* it runs.                                                                *)
OpenPlumbing(p) ==
  \/ At(p, "pipeline") /\ OpenPipe(p, "plumb")
  \/ /\ At(p, "P3")
     /\ io' = pipe_kernel(io, p)
     /\ proc' = [proc EXCEPT ![p] = [@ EXCEPT
                   !.at = "plumb", !.cmd = <<"P3_writer", "P3_reader">>,
                   !.ends = <<[r |-> ReadEnd(io, p), w |-> WriteEnd(io, p)]>>]]

ForkPlumbing(p) ==
  At(p, "plumb") /\ ForkTo(p, [proc[p] EXCEPT !.at = "out_dup2"],
                              [proc[p] EXCEPT !.at = "in_dup2"])

(* dup2(0, pipefd[0]) or dup2(1, pipefd[1]), then close() of both ends,    *)
(* then exec (the shell's children) or on to the loop (P3).                *)
Plumb(p) ==
  LET e == proc[p].ends[1]
  IN  \/ At(p, "in_dup2") /\ io' = dup2kernel(io, p, 0, e.r) /\ Goto(p, "in_close_0")
      \/ At(p, "in_close_0") /\ io' = close_kernel(io, p, e.r) /\ Goto(p, "in_close_1")
      \/ At(p, "in_close_1") /\ io' = close_kernel(io, p, e.w) /\ Goto(p, proc[p].cmd[2])
      \/ At(p, "out_dup2") /\ io' = dup2kernel(io, p, 1, e.w) /\ Goto(p, "out_close_0")
      \/ At(p, "out_close_0") /\ io' = close_kernel(io, p, e.r) /\ Goto(p, "out_close_1")
      \/ At(p, "out_close_1") /\ io' = close_kernel(io, p, e.w) /\ Goto(p, proc[p].cmd[1])

-----------------------------------------------------------------------------
(* T0: write(1, y, 22) and exit().                                         *)
T0(p) == \/ At(p, "T0") /\ io' = write(io, p, 1, <<1>>) /\ Goto(p, "T_exit")
         \/ At(p, "T_exit") /\ Exits(p)

(* T1 and T3: read(0, x, 22), once and whether or not there is anything to *)
(* read, then as T0.                                                       *)
T1(p) == At(p, "T1") /\ io' = read(io, p, 0, 1) /\ Goto(p, "T0")
T3(p) == At(p, "T3") /\ io' = read(io, p, 0, 1) /\ Goto(p, "T0")

(* P3: the parent writes to its pipe for ever, the child reads from it and *)
(* writes to the console.  Bound: the parent stops one message beyond a    *)
(* full buffer.                                                            *)
P3(p) ==
  \/ At(p, "P3_writer") /\ io.pipe[io.fdt[p][1].pipe].bufferIndex <= BufferSize
     /\ io' = write(io, p, 1, <<1>>) /\ UNCHANGED proc
  \/ At(p, "P3_reader") /\ io' = read(io, p, 0, 1) /\ UNCHANGED proc

(* T2: three pipes, then two forks make three processes.                   *)
T2Start(p) ==
  \/ At(p, "T2") /\ OpenPipe(p, "T2_pipe_2")
  \/ At(p, "T2_pipe_2") /\ OpenPipe(p, "T2_pipe_3")
  \/ At(p, "T2_pipe_3") /\ OpenPipe(p, "T2_fork_1")
  \/ At(p, "T2_fork_1") /\ ForkTo(p, [proc[p] EXCEPT !.at = "P1_write"],
                                     [proc[p] EXCEPT !.at = "T2_fork_2"])
  \/ At(p, "T2_fork_2") /\ ForkTo(p, [proc[p] EXCEPT !.at = "P2_read"],
                                     [proc[p] EXCEPT !.at = "P3_read"])

(* Poll without its loop: one read, whatever it returns.                   *)
Poll_Once(p, n, next) ==
  LET got == BytesRead(io, p, proc[p].ends[n].r, 1)
  IN  /\ io' = read(io, p, proc[p].ends[n].r, 1)
      /\ proc' = [proc EXCEPT ![p].at = next, ![p].x = IF got = << >> THEN @ ELSE got[1] + 1]

(* while (!read(fd, x, 1)): once read does not return 0, on to next with   *)
(* the byte that was read, plus one.                                       *)
Poll(p, n, next) ==
  LET fd == proc[p].ends[n].r
      got == BytesRead(io, p, fd, 1)
  IN  /\ io' = read(io, p, fd, 1)
      /\ proc' = IF got = << >> THEN proc
                 ELSE [proc EXCEPT ![p].at = next, ![p].x = got[1] + 1]

(* write(fd, x, 1) and the end of the round: on to next, or out of the     *)
(* loop.                                                                   *)
Pass(p, n, next) ==
  /\ io' = write(io, p, proc[p].ends[n].w, <<proc[p].x>>)
  /\ proc' = [proc EXCEPT ![p].at = next, ![p].i = @ + 1]

(* The end of a loop reached one round early.                              *)
Again_Early(p, next) == IF proc[p].i + 2 < Rounds THEN next ELSE "T_exit"

Again(p, next) == IF proc[p].i + 1 < Rounds THEN next ELSE "T_exit"

(* The loops of the three processes of T2.                                 *)
T2Loop(p) ==
  \/ At(p, "P1_write") /\ Pass(p, 1, "P1_read")
  \/ At(p, "P1_read") /\ Poll(p, 3, IF proc[p].i < Rounds THEN "P1_write" ELSE "T_exit")
  \/ At(p, "P2_read") /\ Poll(p, 1, "P2_write")
  \/ At(p, "P2_write") /\ Pass(p, 2, Again(p, "P2_read"))
  \/ At(p, "P3_read") /\ Poll(p, 2, "P3_write")
  \/ At(p, "P3_write") /\ Pass(p, 3, Again(p, "P3_read"))

-----------------------------------------------------------------------------
(* A call of a program, other than the shell's waiting for a command.      *)
Call(p) == /\ UNCHANGED typed
           /\ \/ OpenPlumbing(p) \/ ForkPlumbing(p) \/ Plumb(p)
              \/ T0(p) \/ T1(p) \/ T3(p) \/ P3(p) \/ T2Start(p) \/ T2Loop(p)

Next == \E p \in Pids : Command(p) \/ Call(p)

Spec == Init /\ [][Next]_vars

(* What RoundRobin grants: a process gets the processor again and again as *)
(* long as its slot is below the number of processes (WindowIsServed).     *)
RoundRobinSpec ==
  Spec /\ \A p \in Pids : WF_vars(p < Cardinality(Live) /\ Call(p))

(* What PriorityScheduler grants: every process does.                      *)
PriorityFairness == \A p \in Pids : WF_vars(Call(p))

-----------------------------------------------------------------------------
TypeOK ==
  /\ io.fdt \in [Pids -> [Fds -> Descriptor]]
  /\ io.used \in [Pipes -> BOOLEAN]
  /\ \A k \in Pipes : /\ io.pipe[k].fdCount \in 0 .. 4
                      /\ io.pipe[k].bufferIndex \in Nat
                      /\ io.pipe[k].buffer \in [0 .. BufferSize - 1 -> Bytes]
  /\ \A p \in Pids : proc[p].x \in Nat /\ proc[p].i \in 0 .. Rounds
  /\ typed \subseteq Commands

(* The ends through which processes can reach pipe k.                      *)
EndsOf(k) == {e \in Live \X Fds : IsPipeEnd(io, e[1], e[2]) /\ io.fdt[e[1]][e[2]].pipe = k}

(* A process that has still to arrange its descriptors.                    *)
Plumbing(p) == proc[p].at \in {"pipeline", "plumb", "in_dup2", "in_close_0", "in_close_1",
                               "out_dup2", "out_close_0", "out_close_1"}

(* In whatever order the two sides of a pipeline arrange their descriptors,*)
(* the pipe is not freed under them, although fork counts no descriptor.   *)
PipesOutliveTheirEnds == \A k \in Pipes : ~ io.used[k] => EndsOf(k) = {}

(* Once both have, the pipe leads from descriptor 1 of the first to        *)
(* descriptor 0 of the second, and nowhere else, and it is counted right.  *)
PlumbingIsExact == \A k \in Pipes, p, q \in Live :
  /\ <<p, 1>> \in EndsOf(k) /\ ~ Plumbing(p)
  /\ <<q, 0>> \in EndsOf(k) /\ ~ Plumbing(q)
  => EndsOf(k) = {<<p, 1>>, <<q, 0>>} /\ io.pipe[k].fdCount = 2

(* No program makes the kernel leave its tables.                           *)
NoFault == ~ io.fault

(* The token of T2 gains one at each of the three processes of the ring.   *)
TokenCountsHops == \A p \in Pids :
  LET s == proc[p]
  IN  /\ s.at = "P1_write" => s.x = 3 * s.i
      /\ s.at = "P2_write" => s.x = 3 * s.i + 1
      /\ s.at = "P3_write" => s.x = 3 * s.i + 2

(* Round-robin scheduling lets every round of T2 but the last complete: no *)
(* process of the ring leaves before, and none in a lower slot.            *)
TokenReturns == \A p \in Pids :
  proc[p].at = "P1_write" ~> (proc[p].at = "P1_write" /\ proc[p].i = Rounds - 1)

(* Where every process is served T2 ends, and its processes exit.  Round   *)
(* robin does not suffice: when the second process exits, the third may be *)
(* out of reach with the token on its way to it.                           *)
RingCompletes == PriorityFairness => \A p \in Pids :
  proc[p].at = "P1_write" ~> {q \in Live : proc[q].ends # << >>} = {}

(* What pipe k holds, as its readers would expect to find it.              *)
Contents == [k \in Pipes |-> [j \in 1 .. io.pipe[k].bufferIndex |->
               IF j <= BufferSize THEN io.pipe[k].buffer[j - 1] ELSE 0]]

Fifo == INSTANCE PipeFifo WITH queue <- Contents

(* As these programs use them, pipes are first-in first-out queues.        *)
PipesAreFifo == Fifo!Spec
=============================================================================
