--------------------------- MODULE DescriptorCalls ---------------------------
(***************************************************************************)
(* Processes that make any call on descriptors, in any order: the most     *)
(* general client of module Descriptors.  Which calls they make is a       *)
(* parameter, so that a run can show which of them a property survives.    *)
(***************************************************************************)
EXTENDS Descriptors

CONSTANTS
  Calls,      (* the calls made, of "fork", "exit", "pipe", "failing  *)
              (* pipe", "dup2", "close", "write", "read" and "open"         *)
  Arguments,  (* the descriptors passed to dup2, close, read and write      *)
  MaxCount    (* bound: no call is made once a count has left its range     *)

(* Process 0 is started at reset; 1 stands for any byte written.           *)
ASSUME CallsAssumption == 0 \in Pids /\ 1 \in Bytes /\ Arguments \subseteq Fds

VARIABLES io, live

vars == <<io, live>>

TypeOK ==
  /\ live \in SUBSET Pids
  /\ io.fdt \in [Pids -> [Fds -> Descriptor]]
  /\ io.used \in [Pipes -> BOOLEAN]
  /\ \A k \in Pipes : /\ io.pipe[k].fdCount \in Int
                      /\ io.pipe[k].bufferIndex \in Nat
                      /\ io.pipe[k].buffer \in [0 .. BufferSize - 1 -> Bytes]
  /\ io.file \in [Pipes -> Names \cup {Unnamed}]
  /\ io.disk \in [Names -> {NoFile, 0, 1, 2}]

Init == io = initialise_oft /\ live = {0}

Pipe(p) == "pipe" \in Calls /\ PipeSucceeds(io, p) /\ io' = pipe_kernel(io, p)

PipeFails(p) == "failing pipe" \in Calls /\ ~ PipeSucceeds(io, p) /\ io' = pipe_kernel(io, p)

Dup2(p) == \E oldfd, newfd \in Arguments :
  /\ "dup2" \in Calls
  /\ io' = dup2kernel(io, p, oldfd, newfd)

Close(p, fd) == "close" \in Calls /\ io' = close_kernel(io, p, fd)

Write(p, fd) == \E x \in {<<1>>, <<1, 1>>} :
  /\ "write" \in Calls
  /\ io' = write(io, p, fd, x)

Read(p, fd) == \E n \in 1 .. 2 : "read" \in Calls /\ io' = read(io, p, fd, n)

Open(p) == \E name \in Names, oflag \in {0, 2} :
  "open" \in Calls /\ io' = open(io, p, name, oflag)

Fork(p) == \E child \in Pids \ live :
  "fork" \in Calls /\ live' = live \cup {child} /\ io' = copy_parents_fd(io, p, child)

Exit(p) == "exit" \in Calls /\ p # 0 /\ live' = live \ {p} /\ io' = exit_fds(io, p)

Bounded == /\ io.fileCount \in -MaxCount .. PipeNo
           /\ \A k \in Pipes : /\ io.pipe[k].fdCount \in -MaxCount .. MaxCount
                               /\ io.pipe[k].bufferIndex <= BufferSize

Next == ~ io.fault /\ Bounded /\ \E p \in live :
  \/ Fork(p) \/ Exit(p)
  \/ UNCHANGED live /\ \/ Pipe(p) \/ PipeFails(p) \/ Dup2(p) \/ Open(p)
                       \/ \E fd \in Arguments : Close(p, fd) \/ Write(p, fd) \/ Read(p, fd)

Spec == Init /\ [][Next]_vars

-----------------------------------------------------------------------------
(* The ends through which processes can reach pipe k.                      *)
EndsOf(k) == {e \in live \X Fds : IsPipeEnd(io, e[1], e[2]) /\ io.fdt[e[1]][e[2]].pipe = k}

(* A pipe is freed, and can be given to others, only when no descriptor    *)
(* leads to it (libc.h and close_kernel: "if fd is the last file           *)
(* descriptor").                                                           *)
PipesOutliveTheirEnds == \A k \in Pipes : ~ io.used[k] => EndsOf(k) = {}

(* Whatever processes do, a pipe that is in use is counted: closing its    *)
(* ends can still free it, and its count does not wrap below zero.         *)
UsedPipesAreCounted == \A k \in Pipes : io.used[k] => io.pipe[k].fdCount >= 1

(* Nothing is left in a pipe for the processes it is given to next.        *)
FreePipesAreEmpty == \A k \in Pipes : ~ io.used[k] => io.pipe[k].bufferIndex = 0
=============================================================================
