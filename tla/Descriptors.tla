----------------------------- MODULE Descriptors -----------------------------
(***************************************************************************)
(* File descriptors, pipes and the open file table of kernel/kernel.c, as  *)
(* functions on io, the part of the kernel's state they touch:             *)
(*   fdt[p]     the descriptor table of process p                          *)
(*   pipe[k]    oft.pipe[k]: fdCount, bufferIndex and buffer               *)
(*   used[k]    oft.used_pipe[k]                                           *)
(*   file[i]    the name in oft.file[i], and fileCount                     *)
(*   disk[f]    the permissions of file f, NoFile before it is created     *)
(*   fault      the kernel has accessed memory outside these tables        *)
(* Every system call is one application of one of these functions.         *)
(*                                                                         *)
(* fdCount and fileCount are uint32_t: a number below 0 stands for the one *)
(* 2^32 above it.  pipe.active, pipeCount and used_file are written only,  *)
(* and left out, as are a descriptor's fp and file_addr (file data).       *)
(***************************************************************************)
EXTENDS Integers, Sequences, FiniteSetsExt

CONSTANTS
  Pids,        (* the slots of pcb                                          *)
  FdNo,        (* fdNo                                                      *)
  PipeNo,      (* pipeNo, and fileNo, which the code takes for equal        *)
  BufferSize,  (* pipeBufferSize                                            *)
  Bytes,       (* what a byte of a buffer can hold                          *)
  Names        (* names of files                                            *)

ASSUME DescriptorsAssumption ==
  /\ FdNo \in Nat /\ FdNo >= 2
  /\ PipeNo \in Nat \ {0} /\ BufferSize \in Nat \ {0}
  /\ 0 \in Bytes /\ Bytes \subseteq Nat

Fds == 0 .. FdNo - 1
Pipes == 0 .. PipeNo - 1
Null == -1
NoFile == -1
Unnamed == ""

(* A cleared descriptor: 0 is PIPE, READ and a null pointer.               *)
Unused == [type |-> "PIPE", perm |-> "READ", active |-> FALSE, pipe |-> Null, file |-> Null]

Descriptor == [type : {"PIPE", "FILE", "STDI", "STDO"}, perm : {"READ", "WRITE"},
               active : BOOLEAN, pipe : Pipes \cup {Null}, file : Pipes \cup {Null}]

NoBytes == [i \in 0 .. BufferSize - 1 |-> 0]

(* initialisefdt on a table of zeros.                                      *)
initialisefdt ==
  [i \in Fds |-> CASE i = 0 -> [Unused EXCEPT !.type = "STDI", !.active = TRUE]
                   [] i = 1 -> [Unused EXCEPT !.type = "STDO", !.perm = "WRITE", !.active = TRUE]
                   [] OTHER -> Unused]

(* exit_kernel clears the table and then marks every entry active (-1).    *)
exitfdt == [i \in Fds |-> [Unused EXCEPT !.active = TRUE]]

initialise_oft ==
  [fdt  |-> [p \in Pids |-> initialisefdt],
   pipe |-> [k \in Pipes |-> [fdCount |-> 0, bufferIndex |-> 0, buffer |-> NoBytes]],
   used |-> [k \in Pipes |-> FALSE],
   file |-> [i \in Pipes |-> Unnamed],
   fileCount |-> 0,
   disk |-> [f \in Names |-> NoFile],
   fault |-> FALSE]

Fault(io) == [io EXCEPT !.fault = TRUE]

(* The descriptors of process p, and the pipes, that are free.             *)
FreeFds(io, p) == {i \in Fds : ~ io.fdt[p][i].active}
FreePipes(io) == {k \in Pipes : ~ io.used[k]}

-----------------------------------------------------------------------------
(* One descriptor of pipe k fewer; the last one empties the buffer and     *)
(* frees the pipe.                                                         *)
Released(io, k, last) ==
  [io EXCEPT !.pipe[k] = [fdCount |-> @.fdCount - 1,
                          buffer |-> IF last THEN NoBytes ELSE @.buffer,
                          bufferIndex |-> IF last THEN 0 ELSE @.bufferIndex],
             !.used[k] = @ /\ ~ last]

(* close_kernel releasing the pipe while one more descriptor is counted.   *)
ReleaseEnd_Early(io, k) == Released(io, k, io.pipe[k].fdCount = 2)

(* close_kernel releasing the pipe one descriptor too late.                *)
ReleaseEnd_Late(io, k) == Released(io, k, io.pipe[k].fdCount = 0)

(* close_kernel freeing the pipe without emptying its buffer.              *)
ReleaseEnd_KeepsBytes(io, k) ==
  [io EXCEPT !.pipe[k].fdCount = @ - 1, !.used[k] = @ /\ io.pipe[k].fdCount # 1]

(* close_kernel's PIPE branch.                                             *)
ReleaseEnd(io, k) == Released(io, k, io.pipe[k].fdCount = 1)

(* close_kernel once the descriptor is found active.  The FILE branch      *)
(* clears used_pipe, at the index of the file.                             *)
Deactivate(io, p, fd) ==
  LET d == io.fdt[p][fd]
      closed == [io EXCEPT !.fdt[p][fd].active = FALSE]
  IN  CASE d.type = "PIPE" /\ d.pipe = Null -> Fault(closed)
        [] d.type = "PIPE" /\ d.pipe # Null -> ReleaseEnd(closed, d.pipe)
        [] d.type = "FILE" -> [closed EXCEPT !.used[d.file] = FALSE, !.fileCount = @ - 1]
        [] OTHER -> closed

(* close_kernel.  Its test admits fdNo, one past the table.                *)
close_kernel(io, p, fd) ==
  CASE fd = FdNo -> Fault(io)
    [] fd \in Fds /\ io.fdt[p][fd].active -> Deactivate(io, p, fd)
    [] OTHER -> io

(* The two ends pipe() gives out when two descriptors are free.            *)
ReadEnd(io, p) == Min(FreeFds(io, p))
WriteEnd(io, p) == Min(FreeFds(io, p) \ {ReadEnd(io, p)})

PipeSucceeds(io, p) == \E r, w \in FreeFds(io, p) : r # w /\ FreePipes(io) # {}

(* pipe_kernel that leaves the write end's pipep as it was.                *)
pipe_kernel_OneEnd(io, p) ==
  LET r == ReadEnd(io, p)
      w == WriteEnd(io, p)
      k == Min(FreePipes(io))
      End(d, perm) == [d EXCEPT !.active = TRUE, !.type = "PIPE", !.perm = perm]
  IN  IF ~ PipeSucceeds(io, p) THEN io
      ELSE [io EXCEPT !.used[k] = TRUE, !.pipe[k].fdCount = 2,
                      !.fdt[p][r] = [End(@, "READ") EXCEPT !.pipe = k],
                      !.fdt[p][w] = End(@, "WRITE")]

(* pipe_kernel.  Without a second descriptor the first is closed again, as *)
(* the end of whatever pipe it last belonged to; without a free pipe both  *)
(* stay active.                                                            *)
pipe_kernel(io, p) ==
  LET free == FreeFds(io, p)
      r == ReadEnd(io, p)
      w == WriteEnd(io, p)
      End(d, perm) == [d EXCEPT !.active = TRUE, !.type = "PIPE", !.perm = perm]
      reading == [io EXCEPT !.fdt[p][r] = End(@, "READ")]
      both == [reading EXCEPT !.fdt[p][w] = End(@, "WRITE")]
      k == Min(FreePipes(io))
  IN  CASE free = {} -> io
        [] free = {r} -> close_kernel(reading, p, r)
        [] free \ {r} # {} /\ FreePipes(io) = {} -> both
        [] OTHER -> [both EXCEPT !.fdt[p][r].pipe = k, !.fdt[p][w].pipe = k,
                                 !.used[k] = TRUE, !.pipe[k].fdCount = 2]

(* dup2kernel counting the new descriptor once.                            *)
dup2kernel_CountsOnce(io, p, oldfd, newfd) ==
  LET copied == [io EXCEPT !.fdt[p][oldfd] = io.fdt[p][newfd]]
      k == io.fdt[p][newfd].pipe
  IN  IF oldfd = newfd \/ ~ io.fdt[p][newfd].active THEN io
      ELSE close_kernel([copied EXCEPT !.pipe[k].fdCount = @ + 1], p, newfd)

(* dup2kernel: oldfd becomes what newfd is, and newfd is closed.  The pipe *)
(* newfd has, or last had, gains two descriptors.                          *)
dup2kernel(io, p, oldfd, newfd) ==
  LET copied == [io EXCEPT !.fdt[p][oldfd] = io.fdt[p][newfd]]
      k == io.fdt[p][newfd].pipe
  IN  IF oldfd = newfd \/ ~ {oldfd, newfd} \subseteq 0 .. FdNo THEN io
      ELSE IF FdNo \in {oldfd, newfd} THEN Fault(io)
      ELSE IF ~ io.fdt[p][newfd].active THEN io
      ELSE IF k = Null THEN close_kernel(Fault(copied), p, newfd)
      ELSE close_kernel([copied EXCEPT !.pipe[k].fdCount = @ + 2], p, newfd)

(* copy_parents_fd: the child's table is its parent's.  No count changes.  *)
copy_parents_fd(io, parent, child) == [io EXCEPT !.fdt[child] = io.fdt[parent]]

(* What exit() does to the descriptors.                                    *)
exit_fds(io, p) == [io EXCEPT !.fdt[p] = exitfdt]

-----------------------------------------------------------------------------
(* An active pipe end, the only kind of descriptor whose data stays here.  *)
IsPipeEnd(io, p, fd) == io.fdt[p][fd].type = "PIPE" /\ io.fdt[p][fd].active

(* Pipe q with the bytes x at the front of its buffer, whatever it holds.  *)
Stored(q, x) ==
  [q EXCEPT !.buffer = [i \in DOMAIN @ |-> IF i + 1 \in DOMAIN x THEN x[i + 1] ELSE @[i]],
            !.bufferIndex = @ + Len(x)]

(* svc 0x01, write(fd, x, n), x being the n bytes.  The console has no     *)
(* state.                                                                  *)
write(io, p, fd, x) ==
  LET k == io.fdt[p][fd].pipe
  IN  IF ~ IsPipeEnd(io, p, fd) THEN io
      ELSE IF k = Null \/ Len(x) > BufferSize THEN Fault(io)
      ELSE [io EXCEPT !.pipe[k] = Stored(@, x)]

(* The count read takes, without a look at how many there are.             *)
ReadCount_Unchecked(io, k, n) == n

(* How many bytes read(fd, x, n) takes from pipe k.                        *)
ReadCount(io, k, n) ==
  IF io.pipe[k].bufferIndex <= n THEN io.pipe[k].bufferIndex ELSE n

(* Pipe q without the count bytes read.  What is left is not moved to the  *)
(* front of the buffer: the bytes beyond it are moved over its end.        *)
Taken(q, count) ==
  LET last == q.bufferIndex
  IN  [q EXCEPT !.buffer = [i \in DOMAIN @ |-> IF last > count /\ i \in last - count .. last - 1
                                              THEN @[i + count] ELSE @[i]],
                !.bufferIndex = @ - count]

(* Taking count bytes from pipe q reaches beyond its buffer.               *)
TakesBeyond(q, count) ==
  count > BufferSize \/ (q.bufferIndex > count /\ q.bufferIndex + count > BufferSize)

(* svc 0x02, read(fd, x, n).                                               *)
read(io, p, fd, n) ==
  LET k == io.fdt[p][fd].pipe
      count == ReadCount(io, k, n)
  IN  IF ~ IsPipeEnd(io, p, fd) THEN io
      ELSE IF k = Null THEN Fault(io)
      ELSE IF TakesBeyond(io.pipe[k], count) THEN Fault(io)
      ELSE [io EXCEPT !.pipe[k] = Taken(@, count)]

(* The bytes read stores at x.                                             *)
BytesRead(io, p, fd, n) ==
  LET k == io.fdt[p][fd].pipe
  IN  IF IsPipeEnd(io, p, fd) /\ k # Null
      THEN [i \in 1 .. ReadCount(io, k, n) |-> io.pipe[k].buffer[i - 1]]
      ELSE << >>

-----------------------------------------------------------------------------
(* svc 0x12, open(name, oflag): 0 asks to read and write, 1 to read, 2 to  *)
(* write.  A file that does not exist is created with these permissions.   *)
(* oft.file is searched by name, also among files closed since.            *)
open(io, p, name, oflag) ==
  LET made == IF io.disk[name] = NoFile THEN [io EXCEPT !.disk[name] = oflag] ELSE io
      fd == Min(FreeFds(io, p))
      found == {i \in Pipes : io.file[i] = name}
      i == IF found = {} THEN io.fileCount ELSE Min(found)
      entered == IF found = {} THEN [made EXCEPT !.file[i] = name, !.fileCount = @ + 1] ELSE made
      held == [entered EXCEPT !.fdt[p][fd].active = TRUE, !.fdt[p][fd].file = i]
  IN  CASE FreeFds(io, p) = {} -> made
        [] FreeFds(io, p) # {} /\ found = {} /\ io.fileCount \notin Pipes -> Fault(made)
        [] FreeFds(io, p) # {} /\ i \in Pipes ->
             IF made.disk[name] \notin {0, oflag} THEN close_kernel(held, p, fd)
             ELSE [held EXCEPT !.fdt[p][fd].type = "FILE"]
=============================================================================
