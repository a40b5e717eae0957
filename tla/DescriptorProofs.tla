-------------------------- MODULE DescriptorProofs --------------------------
(***************************************************************************)
(* Proofs about DescriptorCalls, for any number of processes, descriptors  *)
(* and pipes: whatever calls are made, a pipe in use is always counted; if *)
(* no process forks, opens a file or runs out of descriptors for a pipe,   *)
(* a pipe is freed with its last end and no sooner.                        *)
(***************************************************************************)
EXTENDS DescriptorCalls, FiniteSetTheorems, WellFoundedInduction, TLAPS

PipeRecord == [fdCount : Int, bufferIndex : Nat, buffer : [0 .. BufferSize - 1 -> Bytes]]

(* What io is made of, for any calls.                                      *)
Tables == [fdt : [Pids -> [Fds -> Descriptor]],
           pipe : [Pipes -> PipeRecord],
           used : [Pipes -> BOOLEAN],
           file : [Pipes -> Names \cup {Unnamed}],
           fileCount : Int,
           disk : [Names -> {NoFile, 0, 1, 2}],
           fault : BOOLEAN]

(* The inductive invariant, as a predicate of any state s of the tables.   *)
Counted(s) == \A k \in Pipes : s.used[k] => s.pipe[k].fdCount >= 1
Sound(s) == s \in Tables /\ Counted(s)

LEMMA MinInSet ==
  ASSUME NEW S \in SUBSET Nat, S # {}
  PROVE  Min(S) \in S
<1>1. IsWellFoundedOn(OpToRel(<, Nat), Nat)
  BY NatLessThanWellFounded
<1>2. PICK x \in S : \A y \in S : ~ (<<y, x>> \in OpToRel(<, Nat))
  BY <1>1, WFMin
<1>3. ASSUME NEW y \in S, ~ (x <= y)
      PROVE  FALSE
  <2>1. y < x /\ <<y, x>> \in Nat \X Nat
    BY <1>3
  <2>2. <<y, x>>[1] = y /\ <<y, x>>[2] = x
    OBVIOUS
  <2>3. <<y, x>> \in OpToRel(<, Nat)
    BY <2>1, <2>2 DEF OpToRel
  <2>4. QED  BY <1>2, <2>3
<1>4. QED  BY <1>3 DEF Min

LEMMA ReleaseKeeps ==
  ASSUME NEW s, Sound(s), NEW k \in Pipes
  PROVE  Sound(ReleaseEnd(s, k))
<1> DEFINE c == s.pipe[k].fdCount
           r == [fdCount |-> c - 1,
                 buffer |-> IF c = 1 THEN NoBytes ELSE s.pipe[k].buffer,
                 bufferIndex |-> IF c = 1 THEN 0 ELSE s.pipe[k].bufferIndex]
           t == ReleaseEnd(s, k)
<1>1. s \in Tables /\ s.pipe[k] \in PipeRecord /\ c \in Int
  BY DEF Sound, Tables, PipeRecord
<1>2. NoBytes \in [0 .. BufferSize - 1 -> Bytes]
  BY DescriptorsAssumption DEF NoBytes
<1>3. r \in PipeRecord
  BY <1>1, <1>2 DEF PipeRecord
<1>4. t = [s EXCEPT !.pipe = [s.pipe EXCEPT ![k] = r],
                    !.used = [s.used EXCEPT ![k] = s.used[k] /\ ~ (c = 1)]]
  BY <1>1 DEF ReleaseEnd, Released, Tables
<1>5. [s.pipe EXCEPT ![k] = r] \in [Pipes -> PipeRecord]
  <2> HIDE DEF r
  <2> QED BY <1>1, <1>3 DEF Tables
<1>6. [s.used EXCEPT ![k] = s.used[k] /\ ~ (c = 1)] \in [Pipes -> BOOLEAN]
  BY <1>1 DEF Tables
<1>8. t \in Tables
  <2> HIDE DEF c, r, t
  <2> QED BY <1>1, <1>4, <1>5, <1>6 DEF Tables
<1>9. Counted(t)
  <2> SUFFICES ASSUME NEW j \in Pipes, t.used[j]
               PROVE  t.pipe[j].fdCount >= 1
    BY DEF Counted
  <2>1. t.used = [s.used EXCEPT ![k] = s.used[k] /\ ~ (c = 1)]
        /\ t.pipe = [s.pipe EXCEPT ![k] = r]
    BY <1>1, <1>4 DEF Tables
  <2>2. s.used \in [Pipes -> BOOLEAN] /\ s.pipe \in [Pipes -> PipeRecord]
    BY <1>1 DEF Tables
  <2>3. \A i \in Pipes : s.used[i] => s.pipe[i].fdCount >= 1
    BY DEF Sound, Counted
  <2>4. CASE j = k
    <3>1. s.used[k] /\ ~ (c = 1)
      BY <2>1, <2>2, <2>4
    <3>2. t.pipe[k].fdCount = c - 1
      BY <2>1, <2>2
    <3>3. QED  BY <1>1, <2>3, <2>4, <3>1, <3>2
  <2>5. CASE j # k
    BY <2>1, <2>2, <2>3, <2>5
  <2>6. QED  BY <2>4, <2>5
<1>10. QED  BY <1>8, <1>9 DEF Sound

LEMMA FaultKeeps ==
  ASSUME NEW s, Sound(s)
  PROVE  Sound(Fault(s))
<1>1. Fault(s) \in Tables
  BY DEF Sound, Tables, Fault
<1>2. Counted(Fault(s))
  BY DEF Sound, Counted, Tables, Fault
<1>3. QED  BY <1>1, <1>2 DEF Sound

(* Descriptors are no part of Counted: any table of a process will do.     *)
LEMMA TableKeeps ==
  ASSUME NEW s, Sound(s), NEW p \in Pids, NEW f \in [Fds -> Descriptor]
  PROVE  Sound([s EXCEPT !.fdt[p] = f])
<1> DEFINE t == [s EXCEPT !.fdt[p] = f]
<1>1. [s.fdt EXCEPT ![p] = f] \in [Pids -> [Fds -> Descriptor]]
  <2>1. s.fdt \in [Pids -> [Fds -> Descriptor]]
    BY DEF Sound, Tables
  <2>2. QED  BY <2>1
<1>2. t = [s EXCEPT !.fdt = [s.fdt EXCEPT ![p] = f]]
  BY DEF Sound, Tables
<1>3. t \in Tables
  BY <1>1, <1>2 DEF Sound, Tables
<1>4. t.used = s.used /\ t.pipe = s.pipe
  BY <1>2 DEF Sound, Tables
<1>5. QED  BY <1>3, <1>4 DEF Sound, Counted

(* A pipe whose count is positive, or that is not in use, may be changed.  *)
LEMMA PipeKeeps ==
  ASSUME NEW s, Sound(s), NEW k \in Pipes, NEW r \in PipeRecord, s.used[k] => r.fdCount >= 1
  PROVE  Sound([s EXCEPT !.pipe[k] = r])
<1> DEFINE t == [s EXCEPT !.pipe[k] = r]
<1>1. s.pipe \in [Pipes -> PipeRecord]
  BY DEF Sound, Tables
<1>2. [s.pipe EXCEPT ![k] = r] \in [Pipes -> PipeRecord]
  BY <1>1
<1>3. t = [s EXCEPT !.pipe = [s.pipe EXCEPT ![k] = r]]
  BY DEF Sound, Tables
<1>4. t \in Tables
  BY <1>2, <1>3 DEF Sound, Tables
<1>5. t.used = s.used /\ t.pipe = [s.pipe EXCEPT ![k] = r]
  BY <1>3 DEF Sound, Tables
<1>6. Counted(t)
  BY <1>1, <1>5 DEF Sound, Counted
<1>7. QED  BY <1>4, <1>6 DEF Sound

LEMMA DescriptorFields ==
  ASSUME NEW s, Sound(s), NEW p \in Pids, NEW fd \in Fds
  PROVE  /\ s.fdt[p] \in [Fds -> Descriptor]
         /\ s.fdt[p][fd] \in Descriptor
         /\ s.fdt[p][fd].type \in {"PIPE", "FILE", "STDI", "STDO"}
         /\ s.fdt[p][fd].pipe \in Pipes \cup {Null}
         /\ s.fdt[p][fd].file \in Pipes \cup {Null}
<1>1. s.fdt \in [Pids -> [Fds -> Descriptor]]
  BY DEF Sound, Tables
<1>2. s.fdt[p] \in [Fds -> Descriptor] /\ s.fdt[p][fd] \in Descriptor
  BY <1>1
<1>3. QED  BY <1>2 DEF Descriptor

LEMMA DescriptorKeeps ==
  ASSUME NEW s, Sound(s), NEW p \in Pids, NEW fd \in Fds, NEW e \in Descriptor
  PROVE  Sound([s EXCEPT !.fdt[p][fd] = e])
<1> DEFINE f == [s.fdt[p] EXCEPT ![fd] = e]
<1>1. f \in [Fds -> Descriptor]
  BY DescriptorFields
<1>2. Sound([s EXCEPT !.fdt[p] = f])
  <2> HIDE DEF f
  <2> QED BY <1>1, TableKeeps
<1>3. QED  BY <1>2

LEMMA FreedFileKeeps ==
  ASSUME NEW s, Sound(s), NEW i \in Pipes \cup {Null}
  PROVE  Sound([s EXCEPT !.used[i] = FALSE, !.fileCount = @ - 1])
<1> DEFINE u == [s.used EXCEPT ![i] = FALSE]
           t == [s EXCEPT !.used[i] = FALSE, !.fileCount = @ - 1]
<1>1. s.used \in [Pipes -> BOOLEAN] /\ s.fileCount - 1 \in Int
  BY DEF Sound, Tables
<1>2. u \in [Pipes -> BOOLEAN] /\ \A k \in Pipes : u[k] => s.used[k]
  BY <1>1
<1>3. t = [s EXCEPT !.used = u, !.fileCount = s.fileCount - 1]
  BY DEF Sound, Tables
<1>4. t \in Tables
  <2> HIDE DEF u, t
  <2> QED BY <1>1, <1>2, <1>3 DEF Sound, Tables
<1>5. t.used = u /\ t.pipe = s.pipe
  BY <1>3 DEF Sound, Tables
<1>6. Counted(t)
  <2> HIDE DEF u, t
  <2> QED BY <1>2, <1>5 DEF Sound, Counted
<1>7. QED  BY <1>4, <1>6 DEF Sound

LEMMA DeactivateKeeps ==
  ASSUME NEW s, Sound(s), NEW p \in Pids, NEW fd \in Fds
  PROVE  Sound(Deactivate(s, p, fd))
<1> DEFINE d == s.fdt[p][fd]
           closed == [s EXCEPT !.fdt[p][fd].active = FALSE]
           e == [d EXCEPT !.active = FALSE]
<1>1. e \in Descriptor
  <2>1. d \in Descriptor
    BY DescriptorFields
  <2> HIDE DEF d
  <2>2. QED  BY <2>1 DEF Descriptor
<1>2. Sound([s EXCEPT !.fdt[p][fd] = e])
  <2> HIDE DEF e
  <2> QED BY <1>1, DescriptorKeeps
<1>3. Sound(closed)
  BY <1>2
<1>4. d.type \in {"PIPE", "FILE", "STDI", "STDO"}
      /\ d.pipe \in Pipes \cup {Null} /\ d.file \in Pipes \cup {Null}
  BY DescriptorFields
<1> HIDE DEF closed, d
<1>5. CASE d.type = "PIPE" /\ d.pipe = Null
  <2>1. Deactivate(s, p, fd) = Fault(closed)
    BY <1>5 DEF Deactivate, closed, d
  <2>2. QED  BY <2>1, <1>3, FaultKeeps
<1>6. CASE d.type = "PIPE" /\ d.pipe # Null
  <2>1. Deactivate(s, p, fd) = ReleaseEnd(closed, d.pipe)
    BY <1>6 DEF Deactivate, closed, d
  <2>2. QED  BY <2>1, <1>3, <1>4, <1>6, ReleaseKeeps
<1>7. CASE d.type = "FILE"
  <2>1. Deactivate(s, p, fd) = [closed EXCEPT !.used[d.file] = FALSE, !.fileCount = @ - 1]
    BY <1>7 DEF Deactivate, closed, d
  <2>2. QED  BY <2>1, <1>3, <1>4, FreedFileKeeps
<1>8. CASE d.type \in {"STDI", "STDO"}
  <2>1. Deactivate(s, p, fd) = closed
    BY <1>8 DEF Deactivate, closed, d
  <2>2. QED  BY <2>1, <1>3
<1>9. QED  BY <1>4, <1>5, <1>6, <1>7, <1>8

LEMMA CloseKeeps ==
  ASSUME NEW s, Sound(s), NEW p \in Pids, NEW fd
  PROVE  Sound(close_kernel(s, p, fd))
<1>1. CASE fd = FdNo
  <2>1. FdNo \notin Fds
    BY DescriptorsAssumption DEF Fds
  <2>2. close_kernel(s, p, fd) = Fault(s)
    BY <1>1, <2>1 DEF close_kernel
  <2>3. QED  BY <2>2, FaultKeeps
<1>2. CASE fd # FdNo /\ fd \in Fds /\ s.fdt[p][fd].active
  <2>1. close_kernel(s, p, fd) = Deactivate(s, p, fd)
    BY <1>2 DEF close_kernel
  <2>2. QED  BY <1>2, <2>1, DeactivateKeeps
<1>3. CASE fd # FdNo /\ ~ (fd \in Fds /\ s.fdt[p][fd].active)
  BY <1>3 DEF close_kernel
<1>4. QED  BY <1>1, <1>2, <1>3

LEMMA FreeFdInTable ==
  ASSUME NEW s, Sound(s), NEW p \in Pids, NEW S \in SUBSET FreeFds(s, p), S # {}
  PROVE  Min(S) \in S /\ Min(S) \in Fds
<1>1. S \in SUBSET Nat /\ S \subseteq Fds
  BY DescriptorsAssumption DEF FreeFds, Fds
<1>2. QED  BY <1>1, MinInSet

(* The descriptor that pipe_kernel makes of a free one.                    *)
LEMMA EndKeeps ==
  ASSUME NEW s, Sound(s), NEW p \in Pids, NEW fd \in Fds, NEW perm \in {"READ", "WRITE"}
  PROVE  Sound([s EXCEPT !.fdt[p][fd] =
                  [@ EXCEPT !.active = TRUE, !.type = "PIPE", !.perm = perm]])
<1> DEFINE d == s.fdt[p][fd]
           e == [d EXCEPT !.active = TRUE, !.type = "PIPE", !.perm = perm]
<1>1. e \in Descriptor
  <2>1. d \in Descriptor
    BY DescriptorFields
  <2> HIDE DEF d
  <2>2. QED  BY <2>1 DEF Descriptor
<1> HIDE DEF e
<1>2. Sound([s EXCEPT !.fdt[p][fd] = e])
  BY <1>1, DescriptorKeeps
<1>3. QED  BY <1>2 DEF e

(* The pipe's number is stored in a descriptor.                            *)
LEMMA PipepKeeps ==
  ASSUME NEW s, Sound(s), NEW p \in Pids, NEW fd \in Fds, NEW k \in Pipes
  PROVE  Sound([s EXCEPT !.fdt[p][fd].pipe = k])
<1> DEFINE d == s.fdt[p][fd]
           e == [d EXCEPT !.pipe = k]
<1>1. e \in Descriptor
  <2>1. d \in Descriptor
    BY DescriptorFields
  <2> HIDE DEF d
  <2>2. QED  BY <2>1 DEF Descriptor
<1> HIDE DEF e
<1>2. Sound([s EXCEPT !.fdt[p][fd] = e])
  BY <1>1, DescriptorKeeps
<1>3. QED  BY <1>2 DEF e

(* A pipe that is given out starts with a count of two.                    *)
LEMMA GivenPipeKeeps ==
  ASSUME NEW s, Sound(s), NEW k \in Pipes
  PROVE  Sound([s EXCEPT !.used[k] = TRUE, !.pipe[k].fdCount = 2])
<1> DEFINE r == [s.pipe[k] EXCEPT !.fdCount = 2]
           u == [s.used EXCEPT ![k] = TRUE]
           b == [s.pipe EXCEPT ![k] = r]
           t == [s EXCEPT !.used[k] = TRUE, !.pipe[k].fdCount = 2]
<1>1. s.pipe \in [Pipes -> PipeRecord] /\ s.used \in [Pipes -> BOOLEAN]
  BY DEF Sound, Tables
<1>2. r \in PipeRecord /\ r.fdCount = 2
  <2>1. s.pipe[k] \in PipeRecord
    BY <1>1
  <2>2. QED  BY <2>1 DEF PipeRecord
<1> HIDE DEF r
<1>3. b \in [Pipes -> PipeRecord] /\ b[k] = r /\ \A j \in Pipes : j # k => b[j] = s.pipe[j]
  BY <1>1, <1>2
<1>4. u \in [Pipes -> BOOLEAN] /\ \A j \in Pipes : j # k => u[j] = s.used[j]
  BY <1>1
<1>5. t = [s EXCEPT !.used = u, !.pipe = b]
  BY DEF Sound, Tables, r
<1> HIDE DEF u, b, t
<1>6. t \in Tables /\ t.used = u /\ t.pipe = b
  BY <1>3, <1>4, <1>5 DEF Sound, Tables
<1>7. Counted(t)
  BY <1>2, <1>3, <1>4, <1>6 DEF Sound, Counted
<1>8. QED  BY <1>6, <1>7 DEF Sound, t

LEMMA FreePipeInTable ==
  ASSUME NEW s, FreePipes(s) # {}
  PROVE  Min(FreePipes(s)) \in Pipes
<1>1. FreePipes(s) \in SUBSET Nat /\ FreePipes(s) \subseteq Pipes
  BY DescriptorsAssumption DEF FreePipes, Pipes
<1>2. QED  BY <1>1, MinInSet

LEMMA PipeCallKeeps ==
  ASSUME NEW s, Sound(s), NEW p \in Pids
  PROVE  Sound(pipe_kernel(s, p))
<1> DEFINE free == FreeFds(s, p)
           r == ReadEnd(s, p)
           w == WriteEnd(s, p)
           k == Min(FreePipes(s))
           reading == [s EXCEPT !.fdt[p][r] =
                         [@ EXCEPT !.active = TRUE, !.type = "PIPE", !.perm = "READ"]]
           both == [reading EXCEPT !.fdt[p][w] =
                      [@ EXCEPT !.active = TRUE, !.type = "PIPE", !.perm = "WRITE"]]
           oneEnd == [both EXCEPT !.fdt[p][r].pipe = k]
           twoEnds == [oneEnd EXCEPT !.fdt[p][w].pipe = k]
           given == [twoEnds EXCEPT !.used[k] = TRUE, !.pipe[k].fdCount = 2]
<1>1. CASE free = {}
  <2>1. pipe_kernel(s, p) = s
    BY <1>1 DEF pipe_kernel
  <2>2. QED  BY <2>1
<1>2. ASSUME free # {}  PROVE  r \in Fds /\ Sound(reading)
  <2>1. r \in Fds
    BY <1>2, FreeFdInTable DEF ReadEnd
  <2>2. QED  BY <2>1, EndKeeps
<1>3. CASE free # {} /\ free = {r}
  <2>1. pipe_kernel(s, p) = close_kernel(reading, p, r)
    BY <1>3 DEF pipe_kernel
  <2>2. QED  BY <1>2, <1>3, <2>1, CloseKeeps
<1>4. ASSUME free # {}, free # {r}  PROVE  free \ {r} # {} /\ w \in Fds /\ Sound(both)
  <2>1. free \ {r} # {}
    BY <1>4
  <2>2. w \in Fds
    BY <2>1, FreeFdInTable DEF WriteEnd
  <2>3. Sound(both)
    <3> HIDE DEF w, reading
    <3> QED BY <1>2, <1>4, <2>2, EndKeeps
  <2>4. QED  BY <2>1, <2>2, <2>3
<1>5. CASE free # {} /\ free # {r} /\ FreePipes(s) = {}
  <2>1. pipe_kernel(s, p) = both
    BY <1>4, <1>5 DEF pipe_kernel
  <2>2. QED  BY <1>4, <1>5, <2>1
<1>6. CASE free # {} /\ free # {r} /\ FreePipes(s) # {}
  <2>1. pipe_kernel(s, p) = given
    BY <1>4, <1>6 DEF pipe_kernel
  <2>2. k \in Pipes
    BY <1>6, FreePipeInTable
  <2>3. Sound(oneEnd)
    <3> HIDE DEF both, r, k
    <3> QED BY <1>2, <1>4, <1>6, <2>2, PipepKeeps
  <2>4. Sound(twoEnds)
    <3> HIDE DEF oneEnd, w, k
    <3> QED BY <1>4, <1>6, <2>2, <2>3, PipepKeeps
  <2>5. Sound(given)
    <3> HIDE DEF twoEnds, k
    <3> QED BY <2>2, <2>4, GivenPipeKeeps
  <2>6. QED  BY <2>1, <2>5
<1>7. QED  BY <1>1, <1>3, <1>5, <1>6

LEMMA Dup2Keeps ==
  ASSUME NEW s, Sound(s), NEW p \in Pids, NEW oldfd, NEW newfd
  PROVE  Sound(dup2kernel(s, p, oldfd, newfd))
<1> DEFINE copied == [s EXCEPT !.fdt[p][oldfd] = s.fdt[p][newfd]]
           k == s.fdt[p][newfd].pipe
           more == [copied EXCEPT !.pipe[k].fdCount = @ + 2]
<1>1. CASE oldfd = newfd \/ ~ {oldfd, newfd} \subseteq 0 .. FdNo
  BY <1>1 DEF dup2kernel
<1>2. CASE oldfd # newfd /\ {oldfd, newfd} \subseteq 0 .. FdNo /\ FdNo \in {oldfd, newfd}
  <2>1. dup2kernel(s, p, oldfd, newfd) = Fault(s)
    BY <1>2 DEF dup2kernel
  <2>2. QED  BY <2>1, FaultKeeps
<1>3. CASE oldfd # newfd /\ {oldfd, newfd} \subseteq 0 .. FdNo /\ FdNo \notin {oldfd, newfd}
  <2>1. oldfd \in Fds /\ newfd \in Fds
    BY <1>3, DescriptorsAssumption DEF Fds
  <2>3. dup2kernel(s, p, oldfd, newfd) =
          IF ~ s.fdt[p][newfd].active THEN s
          ELSE IF k = Null THEN close_kernel(Fault(copied), p, newfd)
          ELSE close_kernel(more, p, newfd)
    BY <1>3 DEF dup2kernel
  <2>4. Sound(copied)
    <3> DEFINE f == [s.fdt[p] EXCEPT ![oldfd] = s.fdt[p][newfd]]
    <3>1. f \in [Fds -> Descriptor]
      BY <2>1, DescriptorFields
    <3>2. Sound([s EXCEPT !.fdt[p] = f])
      <4> HIDE DEF f
      <4> QED BY <3>1, TableKeeps
    <3>3. QED  BY <3>2
  <2>5. CASE k = Null
    <3>1. Sound(close_kernel(Fault(copied), p, newfd))
      <4> HIDE DEF copied
      <4> QED BY <2>4, FaultKeeps, CloseKeeps
    <3>2. QED  BY <2>3, <2>5, <3>1
  <2>6. CASE k # Null
    <3> DEFINE r == [copied.pipe[k] EXCEPT !.fdCount = @ + 2]
    <3>1. k \in Pipes
      BY <2>1, <2>6, DescriptorFields
    <3> HIDE DEF copied, k
    <3>2. copied.pipe[k] \in PipeRecord
      BY <2>4, <3>1 DEF Sound, Tables
    <3>3. r \in PipeRecord /\ r.fdCount = copied.pipe[k].fdCount + 2
      BY <3>2 DEF PipeRecord
    <3>4. copied.used[k] => copied.pipe[k].fdCount >= 1
      BY <2>4, <3>1 DEF Sound, Counted
    <3>5. copied.used[k] => r.fdCount >= 1
      <4>1. copied.pipe[k].fdCount \in Int
        BY <3>2 DEF PipeRecord
      <4>2. QED  BY <3>3, <3>4, <4>1
    <3>6. Sound([copied EXCEPT !.pipe[k] = r])
      <4> HIDE DEF r
      <4> QED BY <2>4, <3>1, <3>3, <3>5, PipeKeeps
    <3>7. Sound(more)
      BY <3>6
    <3>8. Sound(close_kernel(more, p, newfd))
      <4> HIDE DEF more
      <4> QED BY <3>7, CloseKeeps
    <3>9. QED  BY <2>3, <2>6, <3>8 DEF k
  <2>7. QED  BY <2>5, <2>6
<1>4. QED  BY <1>1, <1>2, <1>3

LEMMA StoredType ==
  ASSUME NEW q \in PipeRecord, NEW x \in Seq(Bytes)
  PROVE  Stored(q, x) \in PipeRecord /\ Stored(q, x).fdCount = q.fdCount
<1> DEFINE b == [i \in DOMAIN q.buffer |-> IF i + 1 \in DOMAIN x THEN x[i + 1] ELSE q.buffer[i]]
<1>1. b \in [0 .. BufferSize - 1 -> Bytes]
  <2>1. q.buffer \in [0 .. BufferSize - 1 -> Bytes]
    BY DEF PipeRecord
  <2>2. \A j \in DOMAIN x : x[j] \in Bytes
    OBVIOUS
  <2>3. QED  BY <2>1, <2>2
<1>2. Stored(q, x) = [q EXCEPT !.buffer = b, !.bufferIndex = q.bufferIndex + Len(x)]
  BY DEF Stored, PipeRecord
<1>3. q.bufferIndex + Len(x) \in Nat
  BY DEF PipeRecord
<1>4. QED
  <2> HIDE DEF b
  <2> QED BY <1>1, <1>2, <1>3 DEF PipeRecord

LEMMA WriteKeeps ==
  ASSUME NEW s, Sound(s), NEW p \in Pids, NEW fd \in Fds, NEW x \in Seq(Bytes)
  PROVE  Sound(write(s, p, fd, x))
<1> DEFINE k == s.fdt[p][fd].pipe
<1>1. CASE ~ IsPipeEnd(s, p, fd)
  BY <1>1 DEF write
<1>2. CASE IsPipeEnd(s, p, fd) /\ (k = Null \/ Len(x) > BufferSize)
  BY <1>2, FaultKeeps DEF write
<1>3. CASE IsPipeEnd(s, p, fd) /\ ~ (k = Null \/ Len(x) > BufferSize)
  <2>1. write(s, p, fd, x) = [s EXCEPT !.pipe[k] = Stored(@, x)]
    BY <1>3 DEF write
  <2>2. k \in Pipes
    BY <1>3, DescriptorFields
  <2> HIDE DEF k
  <2>3. s.pipe[k] \in PipeRecord /\ (s.used[k] => s.pipe[k].fdCount >= 1)
    BY <2>2 DEF Sound, Tables, Counted
  <2>4. QED  BY <2>1, <2>2, <2>3, StoredType, PipeKeeps
<1>4. QED  BY <1>1, <1>2, <1>3

(* read takes no more than there is, and moves bytes inside the buffer.    *)
LEMMA TakenType ==
  ASSUME NEW q \in PipeRecord, NEW count \in Nat, count <= q.bufferIndex, ~ TakesBeyond(q, count)
  PROVE  Taken(q, count) \in PipeRecord /\ Taken(q, count).fdCount = q.fdCount
<1> DEFINE last == q.bufferIndex
           b == [i \in DOMAIN q.buffer |-> IF last > count /\ i \in last - count .. last - 1
                                           THEN q.buffer[i + count] ELSE q.buffer[i]]
<1>1. last \in Nat /\ last - count \in Nat /\ q.buffer \in [0 .. BufferSize - 1 -> Bytes]
  BY DEF PipeRecord
<1>2. b \in [0 .. BufferSize - 1 -> Bytes]
  <2>1. ASSUME NEW i \in 0 .. BufferSize - 1, last > count, i \in last - count .. last - 1
        PROVE  i + count \in 0 .. BufferSize - 1
    BY <1>1, <2>1, DescriptorsAssumption DEF TakesBeyond
  <2>2. QED
    <3> HIDE DEF last
    <3> QED BY <1>1, <2>1
<1>3. Taken(q, count) = [q EXCEPT !.buffer = b, !.bufferIndex = last - count]
  BY DEF Taken, PipeRecord
<1>4. QED
  <2> HIDE DEF b, last
  <2> QED BY <1>1, <1>2, <1>3 DEF PipeRecord

LEMMA ReadKeeps ==
  ASSUME NEW s, Sound(s), NEW p \in Pids, NEW fd \in Fds, NEW n \in Nat
  PROVE  Sound(read(s, p, fd, n))
<1> DEFINE k == s.fdt[p][fd].pipe
           count == ReadCount(s, k, n)
<1>1. CASE ~ IsPipeEnd(s, p, fd)
  BY <1>1 DEF read
<1>2. CASE IsPipeEnd(s, p, fd) /\ (k = Null \/ TakesBeyond(s.pipe[k], count))
  <2>1. read(s, p, fd, n) = Fault(s)
    BY <1>2 DEF read
  <2>2. QED  BY <2>1, FaultKeeps
<1>3. CASE IsPipeEnd(s, p, fd) /\ k # Null /\ ~ TakesBeyond(s.pipe[k], count)
  <2>1. read(s, p, fd, n) = [s EXCEPT !.pipe[k] = Taken(@, count)]
    BY <1>3 DEF read
  <2>2. k \in Pipes
    BY <1>3, DescriptorFields
  <2> HIDE DEF k
  <2>3. s.pipe[k] \in PipeRecord /\ (s.used[k] => s.pipe[k].fdCount >= 1)
    BY <2>2 DEF Sound, Tables, Counted
  <2>4. count \in Nat /\ count <= s.pipe[k].bufferIndex
    BY <2>3 DEF ReadCount, PipeRecord
  <2> HIDE DEF count
  <2>5. QED  BY <1>3, <2>1, <2>2, <2>3, <2>4, TakenType, PipeKeeps
<1>4. QED  BY <1>1, <1>2, <1>3

LEMMA OpenKeeps ==
  ASSUME NEW s, Sound(s), NEW p \in Pids, NEW name \in Names, NEW oflag \in {0, 1, 2}
  PROVE  Sound(open(s, p, name, oflag))
<1> DEFINE made == IF s.disk[name] = NoFile THEN [s EXCEPT !.disk[name] = oflag] ELSE s
           fd == Min(FreeFds(s, p))
           found == {i \in Pipes : s.file[i] = name}
           i == IF found = {} THEN s.fileCount ELSE Min(found)
           entered == IF found = {} THEN [made EXCEPT !.file[i] = name, !.fileCount = @ + 1]
                      ELSE made
           held == [entered EXCEPT !.fdt[p][fd].active = TRUE, !.fdt[p][fd].file = i]
           opened == [held EXCEPT !.fdt[p][fd].type = "FILE"]
<1>1. Sound(made)
  <2> DEFINE disk == [s.disk EXCEPT ![name] = oflag]
  <2>1. disk \in [Names -> {NoFile, 0, 1, 2}]
    BY DEF Sound, Tables
  <2>2. made = IF s.disk[name] = NoFile THEN [s EXCEPT !.disk = disk] ELSE s
    OBVIOUS
  <2> HIDE DEF disk, made
  <2>3. made \in Tables /\ made.used = s.used /\ made.pipe = s.pipe
    BY <2>1, <2>2 DEF Sound, Tables
  <2>4. QED  BY <2>3 DEF Sound, Counted
<1>2. CASE FreeFds(s, p) = {}
  <2>1. open(s, p, name, oflag) = made
    BY <1>2 DEF open
  <2>2. QED  BY <1>1, <2>1
<1>3. CASE FreeFds(s, p) # {} /\ i \notin Pipes
  <2>1. found = {}
    <3>1. found \in SUBSET Nat
      BY DescriptorsAssumption DEF Pipes
    <3>2. found # {} => Min(found) \in found
      BY <3>1, MinInSet
    <3>3. QED  BY <1>3, <3>2
  <2>2. open(s, p, name, oflag) = Fault(made)
    BY <1>3, <2>1 DEF open
  <2>3. QED  BY <1>1, <2>2, FaultKeeps
<1>4. CASE FreeFds(s, p) # {} /\ i \in Pipes
  <2>1. open(s, p, name, oflag) =
          IF made.disk[name] \notin {0, oflag} THEN close_kernel(held, p, fd) ELSE opened
    <3>1. ~ (found = {} /\ s.fileCount \notin Pipes)
      BY <1>4
    <3>2. QED  BY <1>4, <3>1 DEF open
  <2>2. fd \in Fds
    BY <1>4, FreeFdInTable
  <2> HIDE DEF fd
  <2>3. i \in Pipes
    BY <1>4
  <2> HIDE DEF made, found, i
  <2>4. Sound(entered)
    <3> DEFINE file == [made.file EXCEPT ![i] = name]
               t == [made EXCEPT !.file = file, !.fileCount = made.fileCount + 1]
    <3>1. file \in [Pipes -> Names \cup {Unnamed}] /\ made.fileCount + 1 \in Int
      BY <1>1, <2>3 DEF Sound, Tables
    <3>2. entered = IF found = {} THEN t ELSE made
      BY <1>1 DEF Sound, Tables
    <3> HIDE DEF file
    <3>3. t \in Tables /\ t.used = made.used /\ t.pipe = made.pipe
      BY <1>1, <3>1 DEF Sound, Tables
    <3>4. Sound(t)
      <4> HIDE DEF t
      <4> QED BY <1>1, <3>3 DEF Sound, Counted
    <3>5. QED  BY <1>1, <3>2, <3>4
  <2> HIDE DEF entered
  <2>5. Sound(held)
    <3> DEFINE d == entered.fdt[p][fd]
               e == [d EXCEPT !.active = TRUE, !.file = i]
    <3>1. d \in Descriptor
      BY <2>2, <2>4, DescriptorFields
    <3>2. e \in Descriptor
      <4> HIDE DEF d
      <4> QED BY <2>3, <3>1 DEF Descriptor
    <3>3. Sound([entered EXCEPT !.fdt[p][fd] = e])
      <4> HIDE DEF e
      <4> QED BY <2>2, <2>4, <3>2, DescriptorKeeps
    <3>4. held = [entered EXCEPT !.fdt[p][fd] = e]
      BY <2>2, <2>4, DescriptorFields DEF Sound, Tables
    <3>5. QED  BY <3>3, <3>4
  <2> HIDE DEF held
  <2>6. Sound(opened)
    <3> DEFINE d == held.fdt[p][fd]
               e == [d EXCEPT !.type = "FILE"]
    <3>1. d \in Descriptor
      BY <2>2, <2>5, DescriptorFields
    <3>2. e \in Descriptor
      <4> HIDE DEF d
      <4> QED BY <3>1 DEF Descriptor
    <3>3. Sound([held EXCEPT !.fdt[p][fd] = e])
      <4> HIDE DEF e
      <4> QED BY <2>2, <2>5, <3>2, DescriptorKeeps
    <3>4. QED  BY <3>3
  <2>7. Sound(close_kernel(held, p, fd))
    BY <2>5, CloseKeeps
  <2>8. QED  BY <2>1, <2>6, <2>7
<1>5. QED  BY <1>2, <1>3, <1>4

LEMMA ForkKeeps ==
  ASSUME NEW s, Sound(s), NEW p \in Pids, NEW child \in Pids
  PROVE  Sound(copy_parents_fd(s, p, child))
<1>1. s.fdt[p] \in [Fds -> Descriptor]
  BY DEF Sound, Tables
<1>2. QED  BY <1>1, TableKeeps DEF copy_parents_fd

LEMMA ExitKeeps ==
  ASSUME NEW s, Sound(s), NEW p \in Pids
  PROVE  Sound(exit_fds(s, p))
<1>1. exitfdt \in [Fds -> Descriptor]
  BY DEF exitfdt, Unused, Descriptor
<1>2. QED  BY <1>1, TableKeeps DEF exit_fds

-----------------------------------------------------------------------------
IInv == Sound(io) /\ live \in SUBSET Pids

LEMMA InitSound == Init => IInv
<1> SUFFICES ASSUME Init  PROVE IInv
  OBVIOUS
<1>1. initialisefdt \in [Fds -> Descriptor]
  <2>1. Unused \in Descriptor
    BY DEF Unused, Descriptor
  <2>2. [Unused EXCEPT !.type = "STDI", !.active = TRUE] \in Descriptor
        /\ [Unused EXCEPT !.type = "STDO", !.perm = "WRITE", !.active = TRUE] \in Descriptor
    BY DEF Unused, Descriptor
  <2>3. QED  BY <2>1, <2>2 DEF initialisefdt
<1>2. [fdCount |-> 0, bufferIndex |-> 0, buffer |-> NoBytes] \in PipeRecord
  BY DescriptorsAssumption DEF NoBytes, PipeRecord
<1>3. initialise_oft \in Tables
  BY <1>1, <1>2 DEF initialise_oft, Tables, NoFile
<1>4. Counted(initialise_oft)
  BY DEF initialise_oft, Counted
<1>5. QED  BY <1>3, <1>4, CallsAssumption DEF Init, IInv, Sound

LEMMA NextSound == IInv /\ [Next]_vars => IInv'
<1> SUFFICES ASSUME IInv, [Next]_vars  PROVE IInv'
  OBVIOUS
<1>1. CASE UNCHANGED vars
  BY <1>1 DEF IInv, vars, Sound, Counted
<1>2. CASE Next
  <2>1. PICK p \in live : \/ Fork(p) \/ Exit(p)
                          \/ UNCHANGED live /\ \/ Pipe(p) \/ PipeFails(p) \/ Dup2(p) \/ Open(p)
                                               \/ \E fd \in Arguments :
                                                    Close(p, fd) \/ Write(p, fd) \/ Read(p, fd)
    BY <1>2 DEF Next
  <2>2. p \in Pids /\ Sound(io) /\ live \in SUBSET Pids
    BY <2>1 DEF IInv
  <2>3. SUFFICES Sound(io') /\ live' \in SUBSET Pids
    BY DEF IInv, Sound, Counted
  <2>4. CASE Fork(p)
    BY <2>2, <2>4, ForkKeeps DEF Fork
  <2>5. CASE Exit(p)
    BY <2>2, <2>5, ExitKeeps DEF Exit
  <2>6. CASE UNCHANGED live /\ Pipe(p)
    BY <2>2, <2>6, PipeCallKeeps DEF Pipe
  <2>7. CASE UNCHANGED live /\ PipeFails(p)
    BY <2>2, <2>7, PipeCallKeeps DEF PipeFails
  <2>8. CASE UNCHANGED live /\ Dup2(p)
    BY <2>2, <2>8, Dup2Keeps DEF Dup2
  <2>9. CASE UNCHANGED live /\ Open(p)
    BY <2>2, <2>9, OpenKeeps DEF Open
  <2>10. ASSUME UNCHANGED live, NEW fd \in Arguments, Close(p, fd)  PROVE Sound(io')
    BY <2>2, <2>10, CloseKeeps DEF Close
  <2>11. ASSUME UNCHANGED live, NEW fd \in Arguments, Write(p, fd)  PROVE Sound(io')
    <3>1. <<1>> \in Seq(Bytes) /\ <<1, 1>> \in Seq(Bytes) /\ fd \in Fds
      BY CallsAssumption
    <3>2. QED  BY <2>2, <2>11, <3>1, WriteKeeps DEF Write
  <2>12. ASSUME UNCHANGED live, NEW fd \in Arguments, Read(p, fd)  PROVE Sound(io')
    BY <2>2, <2>12, ReadKeeps, CallsAssumption DEF Read
  <2>13. QED  BY <2>1, <2>2, <2>4, <2>5, <2>6, <2>7, <2>8, <2>9, <2>10, <2>11, <2>12
<1>3. QED  BY <1>1, <1>2

LEMMA Invariance == Spec => []IInv
<1>1. QED  BY InitSound, NextSound, PTL DEF Spec

(* The tables keep their shape: in particular bufferIndex, which the       *)
(* kernel keeps as an unsigned number, never drops below zero.             *)
THEOREM TypeCorrect == Spec => []TypeOK
<1>1. IInv => TypeOK
  <2> SUFFICES ASSUME IInv  PROVE TypeOK
    OBVIOUS
  <2>1. /\ io.fdt \in [Pids -> [Fds -> Descriptor]] /\ io.used \in [Pipes -> BOOLEAN]
        /\ io.pipe \in [Pipes -> PipeRecord]
        /\ io.file \in [Pipes -> Names \cup {Unnamed}]
        /\ io.disk \in [Names -> {NoFile, 0, 1, 2}]
        /\ live \in SUBSET Pids
    BY DEF IInv, Sound, Tables
  <2>2. ASSUME NEW k \in Pipes
        PROVE  /\ io.pipe[k].fdCount \in Int /\ io.pipe[k].bufferIndex \in Nat
               /\ io.pipe[k].buffer \in [0 .. BufferSize - 1 -> Bytes]
    <3>1. io.pipe[k] \in PipeRecord
      BY <2>1
    <3>2. QED  BY <3>1 DEF PipeRecord
  <2>3. QED  BY <2>1, <2>2 DEF TypeOK
<1>2. QED  BY Invariance, <1>1, PTL

(* Whatever calls are made on whatever descriptors, by any number of       *)
(* processes, a pipe in use keeps a positive count: the test for the last  *)
(* descriptor in close_kernel can still succeed.                           *)
THEOREM PipesStayCounted == Spec => []UsedPipesAreCounted
<1>1. IInv => UsedPipesAreCounted
  BY DEF IInv, Sound, Counted, UsedPipesAreCounted
<1>2. QED  BY Invariance, <1>1, PTL

-----------------------------------------------------------------------------
(* One process with its descriptors f, the pipes in use u and their records*)
(* b.  Its ends of pipe k are what holds k.                                *)
Ends(f, k) == {fd \in Fds : f[fd].type = "PIPE" /\ f[fd].active /\ f[fd].pipe = k}

(* A pipe's count covers the ends that are left of it, a free one has none *)
(* and is empty.  (It is not the number of ends: an end that dup2          *)
(* overwrites stays counted.)                                              *)
Holding(f, u, b) == \A k \in Pipes :
  IF u[k] THEN Cardinality(Ends(f, k)) <= b[k].fdCount
          ELSE Ends(f, k) = {} /\ b[k].bufferIndex = 0

NoFiles(f) == \A fd \in Fds : f[fd].type # "FILE"

Held(s, p) == NoFiles(s.fdt[p]) /\ Holding(s.fdt[p], s.used, s.pipe)

LEMMA EndsFinite ==
  ASSUME NEW f, NEW k
  PROVE  /\ IsFiniteSet(Ends(f, k)) /\ Cardinality(Ends(f, k)) \in Nat
         /\ \A E \in SUBSET Ends(f, k) : IsFiniteSet(E) /\ Cardinality(E) \in Nat
                                         /\ Cardinality(E) <= Cardinality(Ends(f, k))
<1>1. IsFiniteSet(Fds)
  BY FS_Interval, DescriptorsAssumption DEF Fds
<1>2. Ends(f, k) \in SUBSET Fds
  BY DEF Ends
<1>3. IsFiniteSet(Ends(f, k))
  BY <1>1, <1>2, FS_Subset
<1> QED BY <1>3, FS_Subset, FS_CardinalityType

(* Ends may go while the counts stay.                                      *)
LEMMA FewerHold ==
  ASSUME NEW f, NEW u, NEW b, Holding(f, u, b), NEW g,
         b \in [Pipes -> PipeRecord],
         \A k \in Pipes : Ends(g, k) \subseteq Ends(f, k)
  PROVE  Holding(g, u, b)
<1> SUFFICES ASSUME NEW k \in Pipes
             PROVE  IF u[k] THEN Cardinality(Ends(g, k)) <= b[k].fdCount
                            ELSE Ends(g, k) = {} /\ b[k].bufferIndex = 0
  BY DEF Holding
<1>1. IF u[k] THEN Cardinality(Ends(f, k)) <= b[k].fdCount
              ELSE Ends(f, k) = {} /\ b[k].bufferIndex = 0
  BY DEF Holding
<1>2. Cardinality(Ends(g, k)) <= Cardinality(Ends(f, k)) /\ Cardinality(Ends(g, k)) \in Nat
      /\ Cardinality(Ends(f, k)) \in Nat
  BY EndsFinite
<1>3. b[k].fdCount \in Int
  BY DEF PipeRecord
<1>4. Ends(g, k) \subseteq Ends(f, k)
  OBVIOUS
<1> QED BY <1>1, <1>2, <1>3, <1>4

(* A descriptor that is closed is an end no longer.                        *)
LEMMA ClosedEnds ==
  ASSUME NEW f \in [Fds -> Descriptor], NEW fd \in Fds, NEW k
  PROVE  /\ [f EXCEPT ![fd].active = FALSE] \in [Fds -> Descriptor]
         /\ NoFiles(f) => NoFiles([f EXCEPT ![fd].active = FALSE])
         /\ Ends([f EXCEPT ![fd].active = FALSE], k) = Ends(f, k) \ {fd}
<1> DEFINE g == [f EXCEPT ![fd].active = FALSE]
           e == [f[fd] EXCEPT !.active = FALSE]
<1>1. f[fd] \in Descriptor
  OBVIOUS
<1>2. e \in Descriptor /\ e.type = f[fd].type /\ ~ e.active
  BY <1>1 DEF Descriptor
<1>3. g = [f EXCEPT ![fd] = e]
  OBVIOUS
<1> HIDE DEF g, e
<1>4. g \in [Fds -> Descriptor] /\ g[fd] = e /\ \A i \in Fds : i # fd => g[i] = f[i]
  BY <1>2, <1>3
<1>5. NoFiles(f) => NoFiles(g)
  BY <1>2, <1>4 DEF NoFiles
<1>6. Ends(g, k) = Ends(f, k) \ {fd}
  BY <1>2, <1>4 DEF Ends
<1> QED BY <1>4, <1>5, <1>6 DEF g

(* ReleaseEnd after its descriptor is closed: the last end, and only the   *)
(* last, takes the pipe with it.                                           *)
LEMMA ReleasedHold ==
  ASSUME NEW f \in [Fds -> Descriptor], NEW u \in [Pipes -> BOOLEAN], NEW b \in [Pipes -> PipeRecord],
         Holding(f, u, b), NEW fd \in Fds, NEW k \in Pipes, fd \in Ends(f, k),
         NEW r \in PipeRecord, NEW c, c = b[k].fdCount,
         r.fdCount = c - 1, r.bufferIndex = IF c = 1 THEN 0 ELSE b[k].bufferIndex
  PROVE  Holding([f EXCEPT ![fd].active = FALSE], [u EXCEPT ![k] = u[k] /\ ~ (c = 1)], [b EXCEPT ![k] = r])
<1> DEFINE g == [f EXCEPT ![fd].active = FALSE]
           v == [u EXCEPT ![k] = u[k] /\ ~ (c = 1)]
           d == [b EXCEPT ![k] = r]
<1>1. \A j \in Pipes : Ends(g, j) = Ends(f, j) \ {fd}
  BY ClosedEnds
<1>2. /\ v[k] = (u[k] /\ ~ (c = 1)) /\ d[k] = r
      /\ \A j \in Pipes : j # k => v[j] = u[j] /\ d[j] = b[j]
  OBVIOUS
<1>3. c \in Int /\ u[k] /\ Cardinality(Ends(f, k)) <= c
  BY DEF Holding, PipeRecord
<1> HIDE DEF g, v, d
<1> SUFFICES ASSUME NEW j \in Pipes
             PROVE  IF v[j] THEN Cardinality(Ends(g, j)) <= d[j].fdCount
                            ELSE Ends(g, j) = {} /\ d[j].bufferIndex = 0
  BY DEF Holding, g, v, d
<1>4. CASE j # k
  <2>1. Ends(g, j) = Ends(f, j)
    BY <1>1, <1>4 DEF Ends
  <2> QED BY <1>2, <1>4, <2>1 DEF Holding
<1>5. CASE j = k
  <2>1. /\ IsFiniteSet(Ends(f, k)) /\ Cardinality(Ends(f, k)) \in Nat
        /\ Cardinality(Ends(g, k)) = Cardinality(Ends(f, k)) - 1
        /\ IsFiniteSet(Ends(g, k))
    BY <1>1, EndsFinite, FS_RemoveElement
  <2>2. CASE c = 1
    <3>1. Cardinality(Ends(g, k)) = 0
      <4>1. Cardinality(Ends(g, k)) \in Nat
        BY EndsFinite
      <4> QED BY <1>3, <2>1, <2>2, <4>1
    <3>2. Ends(g, k) = {}
      BY <2>1, <3>1, FS_EmptySet
    <3> QED BY <1>2, <1>5, <2>2, <3>2
  <2>3. CASE c # 1
    BY <1>2, <1>3, <1>5, <2>1, <2>3
  <2> QED BY <2>2, <2>3
<1> QED BY <1>4, <1>5

(* What the operations on the tables leave, field by field.                *)
LEMMA Fields ==
  ASSUME NEW s, Sound(s), NEW p \in Pids
  PROVE  /\ s.fdt[p] \in [Fds -> Descriptor] /\ s.used \in [Pipes -> BOOLEAN]
         /\ s.pipe \in [Pipes -> PipeRecord]
         /\ Fault(s).fdt = s.fdt /\ Fault(s).used = s.used /\ Fault(s).pipe = s.pipe
  BY DEF Sound, Tables, Fault

LEMMA TableFields ==
  ASSUME NEW s, Sound(s), NEW p \in Pids, NEW f
  PROVE  /\ [s EXCEPT !.fdt[p] = f].fdt[p] = f
         /\ [s EXCEPT !.fdt[p] = f].used = s.used
         /\ [s EXCEPT !.fdt[p] = f].pipe = s.pipe
  BY DEF Sound, Tables

LEMMA PipeFields ==
  ASSUME NEW s, Sound(s), NEW k \in Pipes, NEW r
  PROVE  /\ [s EXCEPT !.pipe[k] = r].fdt = s.fdt
         /\ [s EXCEPT !.pipe[k] = r].used = s.used
         /\ [s EXCEPT !.pipe[k] = r].pipe = [s.pipe EXCEPT ![k] = r]
  BY DEF Sound, Tables

LEMMA DeactivateHolds ==
  ASSUME NEW s, Sound(s), NEW p \in Pids, Held(s, p), NEW fd \in Fds, s.fdt[p][fd].active
  PROVE  Held(Deactivate(s, p, fd), p)
<1> DEFINE d == s.fdt[p][fd]
           g == [s.fdt[p] EXCEPT ![fd].active = FALSE]
           closed == [s EXCEPT !.fdt[p][fd].active = FALSE]
<1>1. /\ s.fdt[p] \in [Fds -> Descriptor] /\ s.used \in [Pipes -> BOOLEAN]
      /\ s.pipe \in [Pipes -> PipeRecord]
  BY Fields
<1>2. closed.fdt[p] = g /\ closed.used = s.used /\ closed.pipe = s.pipe /\ closed \in Tables
  <2>1. closed = [s EXCEPT !.fdt[p] = g]
    OBVIOUS
  <2>2. g \in [Fds -> Descriptor]
    BY <1>1, ClosedEnds
  <2> HIDE DEF g, closed
  <2>3. Sound(closed)
    BY <2>1, <2>2, TableKeeps
  <2>4. /\ [s EXCEPT !.fdt[p] = g].fdt[p] = g
        /\ [s EXCEPT !.fdt[p] = g].used = s.used /\ [s EXCEPT !.fdt[p] = g].pipe = s.pipe
    BY TableFields
  <2> QED BY <2>1, <2>3, <2>4 DEF Sound
<1>3. NoFiles(g) /\ \A k \in Pipes : Ends(g, k) = Ends(s.fdt[p], k) \ {fd}
  BY <1>1, ClosedEnds DEF Held
<1>4. d.type \in {"PIPE", "STDI", "STDO"} /\ d.pipe \in Pipes \cup {Null}
  BY DescriptorFields DEF Held, NoFiles
<1>5. Holding(g, s.used, s.pipe)
  BY <1>1, <1>3, FewerHold DEF Held
<1>6. CASE d.type = "PIPE" /\ d.pipe = Null
  <2>1. Deactivate(s, p, fd) = Fault(closed)
    BY <1>6 DEF Deactivate
  <2> HIDE DEF closed, g
  <2>2. Fault(closed).fdt = closed.fdt /\ Fault(closed).used = closed.used /\ Fault(closed).pipe = closed.pipe
    BY <1>2 DEF Fault, Tables
  <2> QED BY <1>2, <1>3, <1>5, <2>1, <2>2 DEF Held
<1>7. CASE d.type = "PIPE" /\ d.pipe # Null
  <2> DEFINE k == d.pipe
             c == s.pipe[k].fdCount
             r == [fdCount |-> c - 1,
                   buffer |-> IF c = 1 THEN NoBytes ELSE s.pipe[k].buffer,
                   bufferIndex |-> IF c = 1 THEN 0 ELSE s.pipe[k].bufferIndex]
             v == [s.used EXCEPT ![k] = s.used[k] /\ ~ (c = 1)]
             b == [s.pipe EXCEPT ![k] = r]
  <2>1. k \in Pipes /\ fd \in Ends(s.fdt[p], k)
    BY <1>4, <1>7 DEF Ends
  <2>2. Deactivate(s, p, fd) = ReleaseEnd(closed, k)
    BY <1>7 DEF Deactivate
  <2>3. ReleaseEnd(closed, k).fdt = closed.fdt /\ ReleaseEnd(closed, k).used = v /\ ReleaseEnd(closed, k).pipe = b
    <3> HIDE DEF closed, d, g
    <3>1. ReleaseEnd(closed, k) = [closed EXCEPT !.pipe = b, !.used = v]
      BY <1>2 DEF ReleaseEnd, Released, Tables
    <3> QED BY <1>2, <3>1 DEF Tables
  <2>4. r \in PipeRecord /\ r.fdCount = c - 1 /\ r.bufferIndex = IF c = 1 THEN 0 ELSE s.pipe[k].bufferIndex
    <3>1. s.pipe[k] \in PipeRecord /\ c \in Int
      BY <1>1, <2>1 DEF PipeRecord
    <3>2. NoBytes \in [0 .. BufferSize - 1 -> Bytes]
      BY DescriptorsAssumption DEF NoBytes
    <3>3. s.pipe[k].buffer \in [0 .. BufferSize - 1 -> Bytes] /\ s.pipe[k].bufferIndex \in Nat
      BY <3>1 DEF PipeRecord
    <3>4. r \in PipeRecord
      <4> HIDE DEF k, c
      <4> QED BY <3>1, <3>2, <3>3 DEF PipeRecord
    <3> HIDE DEF c, k
    <3> QED BY <3>4
  <2>5. Holding(g, v, b)
    <3> HIDE DEF r, k, d
    <3> QED BY <1>1, <2>1, <2>4, ReleasedHold DEF Held
  <2> HIDE DEF v, b, g, closed, k
  <2> QED BY <1>2, <1>3, <2>2, <2>3, <2>5 DEF Held
<1>8. CASE d.type \in {"STDI", "STDO"}
  <2>1. Deactivate(s, p, fd) = closed
    BY <1>8 DEF Deactivate
  <2> HIDE DEF closed, g
  <2> QED BY <1>2, <1>3, <1>5, <2>1 DEF Held
<1> QED BY <1>4, <1>6, <1>7, <1>8

LEMMA CloseHolds ==
  ASSUME NEW s, Sound(s), NEW p \in Pids, Held(s, p), NEW fd
  PROVE  Held(close_kernel(s, p, fd), p)
<1>1. CASE fd = FdNo
  <2>1. FdNo \notin Fds
    BY DescriptorsAssumption DEF Fds
  <2>2. close_kernel(s, p, fd) = Fault(s)
    BY <1>1, <2>1 DEF close_kernel
  <2>3. Fault(s).fdt = s.fdt /\ Fault(s).used = s.used /\ Fault(s).pipe = s.pipe
    BY Fields
  <2> QED BY <2>2, <2>3 DEF Held
<1>2. CASE fd # FdNo /\ fd \in Fds /\ s.fdt[p][fd].active
  <2>1. close_kernel(s, p, fd) = Deactivate(s, p, fd)
    BY <1>2 DEF close_kernel
  <2> QED BY <1>2, <2>1, DeactivateHolds
<1>3. CASE fd # FdNo /\ ~ (fd \in Fds /\ s.fdt[p][fd].active)
  BY <1>3 DEF close_kernel
<1> QED BY <1>1, <1>2, <1>3

(* A copy of an active descriptor: one more end of the pipe it leads to,   *)
(* when it leads to one, and of no other.                                  *)
LEMMA CopiedEnds ==
  ASSUME NEW f \in [Fds -> Descriptor], NEW old \in Fds, NEW new \in Fds, f[new].active,
         NEW k \in Pipes
  PROVE  /\ [f EXCEPT ![old] = f[new]] \in [Fds -> Descriptor]
         /\ NoFiles(f) => NoFiles([f EXCEPT ![old] = f[new]])
         /\ Ends([f EXCEPT ![old] = f[new]], k) \subseteq Ends(f, k) \cup {old}
         /\ k # f[new].pipe \/ Ends(f, k) = {}
              => Ends([f EXCEPT ![old] = f[new]], k) \subseteq Ends(f, k)
<1> DEFINE g == [f EXCEPT ![old] = f[new]]
<1>1. g \in [Fds -> Descriptor] /\ g[old] = f[new] /\ \A i \in Fds : i # old => g[i] = f[i]
  OBVIOUS
<1> HIDE DEF g
<1>2. NoFiles(f) => NoFiles(g)
  BY <1>1 DEF NoFiles
<1>3. Ends(g, k) \subseteq Ends(f, k) \cup {old}
  BY <1>1 DEF Ends
<1>4. old \in Ends(g, k) => new \in Ends(f, k) /\ k = f[new].pipe
  BY <1>1 DEF Ends
<1>5. k # f[new].pipe \/ Ends(f, k) = {} => Ends(g, k) \subseteq Ends(f, k)
  BY <1>3, <1>4
<1> QED BY <1>1, <1>2, <1>3, <1>5 DEF g

LEMMA CopiedHold ==
  ASSUME NEW f \in [Fds -> Descriptor], NEW u \in [Pipes -> BOOLEAN], NEW b \in [Pipes -> PipeRecord],
         Holding(f, u, b), NEW old \in Fds, NEW new \in Fds, f[new].active,
         NEW k \in Pipes, f[new].pipe = k,
         NEW r \in PipeRecord, r.fdCount = b[k].fdCount + 2, r.bufferIndex = b[k].bufferIndex
  PROVE  Holding([f EXCEPT ![old] = f[new]], u, [b EXCEPT ![k] = r])
<1> DEFINE g == [f EXCEPT ![old] = f[new]]
           d == [b EXCEPT ![k] = r]
<1>1. \A j \in Pipes : /\ Ends(g, j) \subseteq Ends(f, j) \cup {old}
                       /\ j # k \/ Ends(f, j) = {} => Ends(g, j) \subseteq Ends(f, j)
  BY CopiedEnds
<1>2. d[k] = r /\ \A j \in Pipes : j # k => d[j] = b[j]
  OBVIOUS
<1>3. \A j \in Pipes : b[j].fdCount \in Int
  BY DEF PipeRecord
<1> HIDE DEF g, d
<1> SUFFICES ASSUME NEW j \in Pipes
             PROVE  IF u[j] THEN Cardinality(Ends(g, j)) <= d[j].fdCount
                            ELSE Ends(g, j) = {} /\ d[j].bufferIndex = 0
  BY DEF Holding, g, d
<1>4. IF u[j] THEN Cardinality(Ends(f, j)) <= b[j].fdCount
              ELSE Ends(f, j) = {} /\ b[j].bufferIndex = 0
  BY DEF Holding
<1>5. /\ IsFiniteSet(Ends(f, j)) /\ Cardinality(Ends(f, j)) \in Nat
      /\ Cardinality(Ends(g, j)) \in Nat
  BY EndsFinite
<1>6. Cardinality(Ends(g, j)) <= Cardinality(Ends(f, j)) + 1
  <2> DEFINE E == Ends(f, j) \cup {old}
  <2>1. IsFiniteSet(E) /\ Cardinality(E) <= Cardinality(Ends(f, j)) + 1 /\ Cardinality(E) \in Nat
    <3>1. /\ IsFiniteSet(E)
          /\ Cardinality(E) = IF old \in Ends(f, j) THEN Cardinality(Ends(f, j))
                                                    ELSE Cardinality(Ends(f, j)) + 1
      BY <1>5, FS_AddElement
    <3> QED BY <1>5, <3>1
  <2>2. Cardinality(Ends(g, j)) <= Cardinality(E)
    BY <1>1, <2>1, FS_Subset
  <2> HIDE DEF E
  <2> QED BY <1>5, <2>1, <2>2
<1>7. CASE j = k
  BY <1>1, <1>2, <1>3, <1>4, <1>5, <1>6, <1>7
<1>8. CASE j # k
  <2>1. Ends(g, j) \subseteq Ends(f, j)
    BY <1>1, <1>8
  <2>2. Cardinality(Ends(g, j)) <= Cardinality(Ends(f, j))
    BY <2>1, EndsFinite
  <2>3. d[j] = b[j]
    BY <1>2, <1>8
  <2> QED BY <1>3, <1>4, <1>5, <2>1, <2>2, <2>3
<1> QED BY <1>7, <1>8

LEMMA Dup2Holds ==
  ASSUME NEW s, Sound(s), NEW p \in Pids, Held(s, p), NEW oldfd, NEW newfd
  PROVE  Held(dup2kernel(s, p, oldfd, newfd), p)
<1> DEFINE f == s.fdt[p]
           g == [f EXCEPT ![oldfd] = f[newfd]]
           copied == [s EXCEPT !.fdt[p][oldfd] = s.fdt[p][newfd]]
           k == s.fdt[p][newfd].pipe
           more == [copied EXCEPT !.pipe[k].fdCount = @ + 2]
<1>1. CASE oldfd = newfd \/ ~ {oldfd, newfd} \subseteq 0 .. FdNo
  BY <1>1 DEF dup2kernel
<1>2. CASE oldfd # newfd /\ {oldfd, newfd} \subseteq 0 .. FdNo /\ FdNo \in {oldfd, newfd}
  <2>1. dup2kernel(s, p, oldfd, newfd) = Fault(s)
    BY <1>2 DEF dup2kernel
  <2>2. Fault(s).fdt = s.fdt /\ Fault(s).used = s.used /\ Fault(s).pipe = s.pipe
    BY Fields
  <2> QED BY <2>1, <2>2 DEF Held
<1>3. CASE oldfd # newfd /\ {oldfd, newfd} \subseteq 0 .. FdNo /\ FdNo \notin {oldfd, newfd}
           /\ ~ s.fdt[p][newfd].active
  <2>1. dup2kernel(s, p, oldfd, newfd) = s
    BY <1>3 DEF dup2kernel
  <2> QED BY <2>1
<1>4. CASE oldfd # newfd /\ {oldfd, newfd} \subseteq 0 .. FdNo /\ FdNo \notin {oldfd, newfd}
           /\ s.fdt[p][newfd].active
  <2>1. oldfd \in Fds /\ newfd \in Fds /\ f[newfd].active
    BY <1>4, DescriptorsAssumption DEF Fds
  <2>2. dup2kernel(s, p, oldfd, newfd) =
          IF k = Null THEN close_kernel(Fault(copied), p, newfd)
          ELSE close_kernel(more, p, newfd)
    BY <1>4 DEF dup2kernel
  <2>3. f \in [Fds -> Descriptor] /\ s.used \in [Pipes -> BOOLEAN] /\ s.pipe \in [Pipes -> PipeRecord]
    BY Fields
  <2>4. k \in Pipes \cup {Null}
    BY <2>1, DescriptorFields
  <2>5. NoFiles(f) /\ Holding(f, s.used, s.pipe)
    BY DEF Held
  <2> HIDE DEF f
  <2>6. g \in [Fds -> Descriptor] /\ NoFiles(g)
    <3>1. 0 \in Pipes
      BY DescriptorsAssumption DEF Pipes
    <3>2. /\ [f EXCEPT ![oldfd] = f[newfd]] \in [Fds -> Descriptor]
          /\ NoFiles(f) => NoFiles([f EXCEPT ![oldfd] = f[newfd]])
      BY <2>1, <2>3, <3>1, CopiedEnds
    <3> QED BY <2>5, <3>2
  <2>7. Sound(copied) /\ copied.fdt[p] = g /\ copied.used = s.used /\ copied.pipe = s.pipe
    <3>1. copied = [s EXCEPT !.fdt[p] = g]
      BY DEF f
    <3> HIDE DEF copied, g
    <3>2. Sound([s EXCEPT !.fdt[p] = g])
      BY <2>6, TableKeeps
    <3>3. /\ [s EXCEPT !.fdt[p] = g].fdt[p] = g
          /\ [s EXCEPT !.fdt[p] = g].used = s.used /\ [s EXCEPT !.fdt[p] = g].pipe = s.pipe
      BY TableFields
    <3> QED BY <3>1, <3>2, <3>3
  <2> HIDE DEF copied
  <2>8. CASE k = Null
    <3>1. \A j \in Pipes : Ends(g, j) \subseteq Ends(f, j)
      <4> SUFFICES ASSUME NEW j \in Pipes  PROVE Ends(g, j) \subseteq Ends(f, j)
        OBVIOUS
      <4>1. j # f[newfd].pipe
        BY <2>8, DescriptorsAssumption DEF Pipes, Null, f
      <4> QED BY <2>1, <2>3, <4>1, CopiedEnds
    <3>2. Holding(g, s.used, s.pipe)
      BY <2>3, <2>5, <3>1, FewerHold
    <3> HIDE DEF g
    <3>3. Fault(copied).fdt = copied.fdt /\ Fault(copied).used = copied.used
          /\ Fault(copied).pipe = copied.pipe
      BY <2>7, Fields
    <3>4. Held(Fault(copied), p)
      BY <2>6, <2>7, <3>2, <3>3 DEF Held
    <3>5. Sound(Fault(copied))
      BY <2>7, FaultKeeps
    <3>6. Held(close_kernel(Fault(copied), p, newfd), p)
      BY <3>4, <3>5, CloseHolds
    <3> QED BY <2>2, <2>8, <3>6
  <2>9. CASE k # Null
    <3> DEFINE r == [s.pipe[k] EXCEPT !.fdCount = @ + 2]
    <3>1. k \in Pipes /\ f[newfd].pipe = k
      BY <2>4, <2>9 DEF f
    <3> HIDE DEF k, g
    <3>2. s.pipe[k] \in PipeRecord
      BY <2>3, <3>1
    <3>3. /\ r \in PipeRecord /\ r.fdCount = s.pipe[k].fdCount + 2
          /\ r.bufferIndex = s.pipe[k].bufferIndex
      BY <3>2 DEF PipeRecord
    <3>4. s.used[k] => r.fdCount >= 1
      <4>1. s.pipe[k].fdCount \in Int /\ (s.used[k] => s.pipe[k].fdCount >= 1)
        BY <3>1, <3>2 DEF PipeRecord, Sound, Counted
      <4> QED BY <3>3, <4>1
    <3>5. more = [copied EXCEPT !.pipe[k] = r]
      BY <2>7
    <3> HIDE DEF r, more
    <3>6. Sound(more)
      <4>1. Sound([copied EXCEPT !.pipe[k] = r])
        BY <2>7, <3>1, <3>3, <3>4, PipeKeeps
      <4> QED BY <3>5, <4>1
    <3>7. more.fdt = copied.fdt /\ more.used = s.used /\ more.pipe = [s.pipe EXCEPT ![k] = r]
      <4>1. /\ [copied EXCEPT !.pipe[k] = r].fdt = copied.fdt
            /\ [copied EXCEPT !.pipe[k] = r].used = copied.used
            /\ [copied EXCEPT !.pipe[k] = r].pipe = [copied.pipe EXCEPT ![k] = r]
        BY <2>7, <3>1, PipeFields
      <4> QED BY <2>7, <3>5, <4>1
    <3>8. Holding([f EXCEPT ![oldfd] = f[newfd]], s.used, [s.pipe EXCEPT ![k] = r])
      BY <2>1, <2>3, <2>5, <3>1, <3>3, CopiedHold
    <3>9. Held(more, p)
      <4>1. g = [f EXCEPT ![oldfd] = f[newfd]]
        BY DEF g
      <4> QED BY <2>6, <2>7, <3>7, <3>8, <4>1 DEF Held
    <3>10. Held(close_kernel(more, p, newfd), p)
      BY <3>6, <3>9, CloseHolds
    <3> QED BY <2>2, <2>9, <3>10 DEF k, more
  <2> QED BY <2>8, <2>9
<1> QED BY <1>1, <1>2, <1>3, <1>4

(* pipe() gives a free pipe two ends and the count of two.                 *)
LEMMA GivenHold ==
  ASSUME NEW f \in [Fds -> Descriptor], NEW u \in [Pipes -> BOOLEAN], NEW b \in [Pipes -> PipeRecord],
         Holding(f, u, b), NEW r \in Fds, NEW w \in Fds, ~ f[r].active, ~ f[w].active,
         NEW k \in Pipes, ~ u[k], NEW g, g[r].pipe = k, g[w].pipe = k,
         \A i \in Fds \ {r, w} : g[i] = f[i],
         NEW q \in PipeRecord, q.fdCount = 2
  PROVE  Holding(g, [u EXCEPT ![k] = TRUE], [b EXCEPT ![k] = q])
<1> DEFINE v == [u EXCEPT ![k] = TRUE]
           d == [b EXCEPT ![k] = q]
<1>1. v[k] /\ d[k] = q /\ \A j \in Pipes : j # k => v[j] = u[j] /\ d[j] = b[j]
  OBVIOUS
<1> HIDE DEF v, d
<1> SUFFICES ASSUME NEW j \in Pipes
             PROVE  IF v[j] THEN Cardinality(Ends(g, j)) <= d[j].fdCount
                            ELSE Ends(g, j) = {} /\ d[j].bufferIndex = 0
  BY DEF Holding, v, d
<1>2. IF u[j] THEN Cardinality(Ends(f, j)) <= b[j].fdCount
              ELSE Ends(f, j) = {} /\ b[j].bufferIndex = 0
  BY DEF Holding
<1>3. CASE j = k
  <2>1. Ends(f, k) = {}
    BY <1>2, <1>3
  <2>2. Ends(g, k) \subseteq {r, w}
    BY <2>1 DEF Ends
  <2>3. /\ IsFiniteSet({r}) /\ Cardinality({r}) = 1
    BY FS_Singleton
  <2>4. /\ IsFiniteSet({r} \cup {w})
        /\ Cardinality({r} \cup {w}) = IF w \in {r} THEN Cardinality({r}) ELSE Cardinality({r}) + 1
    BY <2>3, FS_AddElement
  <2>5. Cardinality({r, w}) <= 2 /\ IsFiniteSet({r, w}) /\ Cardinality({r, w}) \in Nat
    <3>1. {r, w} = {r} \cup {w}
      OBVIOUS
    <3> QED BY <2>3, <2>4, <3>1
  <2>6. Cardinality(Ends(g, k)) <= Cardinality({r, w}) /\ Cardinality(Ends(g, k)) \in Nat
    BY <2>2, <2>5, FS_Subset, EndsFinite
  <2> QED BY <1>1, <1>3, <2>5, <2>6
<1>4. CASE j # k
  <2>1. Ends(g, j) = Ends(f, j)
    BY <1>4 DEF Ends
  <2> QED BY <1>1, <1>2, <1>4, <2>1
<1> QED BY <1>3, <1>4

(* The three kinds of assignment pipe_kernel makes.                        *)
Taking(s, p, fd, perm) ==
  [s EXCEPT !.fdt[p][fd] = [@ EXCEPT !.active = TRUE, !.type = "PIPE", !.perm = perm]]
Leading(s, p, fd, k) == [s EXCEPT !.fdt[p][fd].pipe = k]
Opening(s, k) == [s EXCEPT !.used[k] = TRUE, !.pipe[k].fdCount = 2]

LEMMA TakingFields ==
  ASSUME NEW s, Sound(s), NEW p \in Pids, NEW fd \in Fds, NEW perm \in {"READ", "WRITE"}
  PROVE  /\ Sound(Taking(s, p, fd, perm))
         /\ Taking(s, p, fd, perm).used = s.used /\ Taking(s, p, fd, perm).pipe = s.pipe
         /\ Taking(s, p, fd, perm).fdt[p][fd].type = "PIPE"
         /\ \A i \in Fds \ {fd} : Taking(s, p, fd, perm).fdt[p][i] = s.fdt[p][i]
<1> DEFINE t == Taking(s, p, fd, perm)
           d == s.fdt[p][fd]
           e == [d EXCEPT !.active = TRUE, !.type = "PIPE", !.perm = perm]
           g == [s.fdt[p] EXCEPT ![fd] = e]
<1>1. e.type = "PIPE" /\ e.active
  <2>1. d \in Descriptor
    BY DescriptorFields
  <2> HIDE DEF d
  <2> QED BY <2>1 DEF Descriptor
<1>2. Sound(t)
  BY EndKeeps DEF Taking
<1>3. t = [s EXCEPT !.fdt[p] = g]
  BY DEF Taking
<1>4. s.fdt[p] \in [Fds -> Descriptor]
  BY Fields
<1> HIDE DEF e
<1>5. g[fd] = e /\ \A i \in Fds \ {fd} : g[i] = s.fdt[p][i]
  BY <1>4
<1> HIDE DEF g, t
<1>6. /\ [s EXCEPT !.fdt[p] = g].fdt[p] = g
      /\ [s EXCEPT !.fdt[p] = g].used = s.used /\ [s EXCEPT !.fdt[p] = g].pipe = s.pipe
  BY TableFields
<1>7. t.fdt[p] = g /\ t.used = s.used /\ t.pipe = s.pipe
  BY <1>3, <1>6
<1> QED BY <1>1, <1>2, <1>5, <1>7 DEF t

LEMMA LeadingFields ==
  ASSUME NEW s, Sound(s), NEW p \in Pids, NEW fd \in Fds, NEW k \in Pipes
  PROVE  /\ Sound(Leading(s, p, fd, k))
         /\ Leading(s, p, fd, k).used = s.used /\ Leading(s, p, fd, k).pipe = s.pipe
         /\ Leading(s, p, fd, k).fdt[p][fd].pipe = k
         /\ Leading(s, p, fd, k).fdt[p][fd].type = s.fdt[p][fd].type
         /\ \A i \in Fds \ {fd} : Leading(s, p, fd, k).fdt[p][i] = s.fdt[p][i]
<1> DEFINE t == Leading(s, p, fd, k)
           d == s.fdt[p][fd]
           e == [d EXCEPT !.pipe = k]
           g == [s.fdt[p] EXCEPT ![fd] = e]
<1>1. e.pipe = k /\ e.type = s.fdt[p][fd].type
  <2>1. d \in Descriptor
    BY DescriptorFields
  <2>2. e.pipe = k /\ e.type = d.type
    <3> HIDE DEF d
    <3> QED BY <2>1 DEF Descriptor
  <2> QED BY <2>2
<1>2. Sound(t)
  BY PipepKeeps DEF Leading
<1>3. t = [s EXCEPT !.fdt[p] = g]
  BY DEF Leading
<1>4. s.fdt[p] \in [Fds -> Descriptor]
  BY Fields
<1> HIDE DEF e
<1>5. g[fd] = e /\ \A i \in Fds \ {fd} : g[i] = s.fdt[p][i]
  BY <1>4
<1> HIDE DEF g, t
<1>6. /\ [s EXCEPT !.fdt[p] = g].fdt[p] = g
      /\ [s EXCEPT !.fdt[p] = g].used = s.used /\ [s EXCEPT !.fdt[p] = g].pipe = s.pipe
  BY TableFields
<1>7. t.fdt[p] = g /\ t.used = s.used /\ t.pipe = s.pipe
  BY <1>3, <1>6
<1> QED BY <1>1, <1>2, <1>5, <1>7 DEF t

LEMMA OpeningFields ==
  ASSUME NEW s, Sound(s), NEW k \in Pipes
  PROVE  /\ Opening(s, k).fdt = s.fdt /\ Opening(s, k).used = [s.used EXCEPT ![k] = TRUE]
         /\ \E q \in PipeRecord :
              q.fdCount = 2 /\ Opening(s, k).pipe = [s.pipe EXCEPT ![k] = q]
<1> DEFINE q == [s.pipe[k] EXCEPT !.fdCount = 2]
<1>1. /\ Opening(s, k).fdt = s.fdt /\ Opening(s, k).used = [s.used EXCEPT ![k] = TRUE]
      /\ Opening(s, k).pipe = [s.pipe EXCEPT ![k] = q]
  BY DEF Sound, Tables, Opening
<1>2. s.pipe[k] \in PipeRecord
  BY DEF Sound, Tables
<1>3. q \in PipeRecord /\ q.fdCount = 2
  BY <1>2 DEF PipeRecord
<1> HIDE DEF q
<1> QED BY <1>1, <1>3

LEMMA PipeHolds ==
  ASSUME NEW s, Sound(s), NEW p \in Pids, Held(s, p), PipeSucceeds(s, p)
  PROVE  Held(pipe_kernel(s, p), p)
<1> DEFINE free == FreeFds(s, p)
           r == ReadEnd(s, p)
           w == WriteEnd(s, p)
           k == Min(FreePipes(s))
           reading == Taking(s, p, r, "READ")
           both == Taking(reading, p, w, "WRITE")
           oneEnd == Leading(both, p, r, k)
           twoEnds == Leading(oneEnd, p, w, k)
           given == Opening(twoEnds, k)
<1>1. free \ {r} # {} /\ free # {} /\ free # {r} /\ FreePipes(s) # {}
  BY DEF PipeSucceeds
<1>2. pipe_kernel(s, p) = given
  BY <1>1 DEF pipe_kernel, Taking, Leading, Opening
<1>3. r \in free /\ r \in Fds
  BY <1>1, FreeFdInTable DEF ReadEnd
<1>4. w \in free /\ w \in Fds /\ w # r
  <2>1. free \ {r} \in SUBSET FreeFds(s, p)
    OBVIOUS
  <2>2. Min(free \ {r}) \in free \ {r} /\ Min(free \ {r}) \in Fds
    BY <1>1, <2>1, FreeFdInTable
  <2>3. w = Min(free \ {r})
    BY DEF WriteEnd
  <2> QED BY <2>2, <2>3
<1>5. k \in Pipes /\ ~ s.used[k]
  <2>1. FreePipes(s) \in SUBSET Nat
    BY DescriptorsAssumption DEF FreePipes, Pipes
  <2>2. k \in FreePipes(s)
    BY <1>1, <2>1, MinInSet
  <2> QED BY <2>2 DEF FreePipes
<1>6. ~ s.fdt[p][r].active /\ ~ s.fdt[p][w].active
  BY <1>3, <1>4 DEF FreeFds
<1> HIDE DEF given, r, w, k, free
<1>7. /\ Sound(reading) /\ reading.used = s.used /\ reading.pipe = s.pipe
      /\ reading.fdt[p][r].type = "PIPE"
      /\ \A i \in Fds \ {r} : reading.fdt[p][i] = s.fdt[p][i]
  BY <1>3, TakingFields
<1> HIDE DEF reading
<1>8. /\ Sound(both) /\ both.used = s.used /\ both.pipe = s.pipe
      /\ both.fdt[p][r].type = "PIPE" /\ both.fdt[p][w].type = "PIPE"
      /\ \A i \in Fds \ {r, w} : both.fdt[p][i] = s.fdt[p][i]
  <2>1. /\ Sound(both) /\ both.used = reading.used /\ both.pipe = reading.pipe
        /\ both.fdt[p][w].type = "PIPE"
        /\ \A i \in Fds \ {w} : both.fdt[p][i] = reading.fdt[p][i]
    BY <1>4, <1>7, TakingFields
  <2> HIDE DEF both
  <2> QED BY <1>3, <1>4, <1>7, <2>1
<1> HIDE DEF both
<1>9. /\ Sound(oneEnd) /\ oneEnd.used = s.used /\ oneEnd.pipe = s.pipe
      /\ oneEnd.fdt[p][r].type = "PIPE" /\ oneEnd.fdt[p][w].type = "PIPE"
      /\ oneEnd.fdt[p][r].pipe = k
      /\ \A i \in Fds \ {r, w} : oneEnd.fdt[p][i] = s.fdt[p][i]
  <2>1. /\ Sound(oneEnd) /\ oneEnd.used = both.used /\ oneEnd.pipe = both.pipe
        /\ oneEnd.fdt[p][r].pipe = k /\ oneEnd.fdt[p][r].type = both.fdt[p][r].type
        /\ \A i \in Fds \ {r} : oneEnd.fdt[p][i] = both.fdt[p][i]
    BY <1>3, <1>5, <1>8, LeadingFields
  <2> HIDE DEF oneEnd
  <2> QED BY <1>3, <1>4, <1>8, <2>1
<1> HIDE DEF oneEnd
<1>10. /\ Sound(twoEnds) /\ twoEnds.used = s.used /\ twoEnds.pipe = s.pipe
       /\ twoEnds.fdt[p][r].type = "PIPE" /\ twoEnds.fdt[p][w].type = "PIPE"
       /\ twoEnds.fdt[p][r].pipe = k /\ twoEnds.fdt[p][w].pipe = k
       /\ \A i \in Fds \ {r, w} : twoEnds.fdt[p][i] = s.fdt[p][i]
  <2>1. /\ Sound(twoEnds) /\ twoEnds.used = oneEnd.used /\ twoEnds.pipe = oneEnd.pipe
        /\ twoEnds.fdt[p][w].pipe = k /\ twoEnds.fdt[p][w].type = oneEnd.fdt[p][w].type
        /\ \A i \in Fds \ {w} : twoEnds.fdt[p][i] = oneEnd.fdt[p][i]
    BY <1>4, <1>5, <1>9, LeadingFields
  <2> HIDE DEF twoEnds
  <2> QED BY <1>3, <1>4, <1>9, <2>1
<1> HIDE DEF twoEnds
<1>11. given.fdt = twoEnds.fdt /\ given.used = [twoEnds.used EXCEPT ![k] = TRUE]
       /\ \E q \in PipeRecord : q.fdCount = 2 /\ given.pipe = [twoEnds.pipe EXCEPT ![k] = q]
  BY <1>5, <1>10, OpeningFields DEF given
<1>12. PICK q \in PipeRecord : q.fdCount = 2 /\ given.pipe = [twoEnds.pipe EXCEPT ![k] = q]
  BY <1>11
<1> DEFINE g == twoEnds.fdt[p]
<1>13. g[r].pipe = k /\ g[w].pipe = k /\ \A i \in Fds \ {r, w} : g[i] = s.fdt[p][i]
  BY <1>10
<1>14. NoFiles(g)
  <2>1. \A i \in Fds : g[i].type # "FILE"
    BY <1>10 DEF Held, NoFiles
  <2> QED BY <2>1 DEF NoFiles
<1> HIDE DEF g
<1>15. s.fdt[p] \in [Fds -> Descriptor] /\ s.used \in [Pipes -> BOOLEAN]
       /\ s.pipe \in [Pipes -> PipeRecord] /\ Holding(s.fdt[p], s.used, s.pipe)
  BY Fields DEF Held
<1>16. Holding(g, [s.used EXCEPT ![k] = TRUE], [s.pipe EXCEPT ![k] = q])
  BY <1>3, <1>4, <1>5, <1>6, <1>12, <1>13, <1>15, GivenHold
<1>17. given.fdt[p] = g /\ given.used = [s.used EXCEPT ![k] = TRUE]
       /\ given.pipe = [s.pipe EXCEPT ![k] = q]
  BY <1>10, <1>11, <1>12 DEF g
<1>18. Held(given, p)
  BY <1>14, <1>16, <1>17 DEF Held
<1> QED BY <1>2, <1>18 DEF given, k, r, w

(* A pipe that an active end leads to is in use: its bytes may change.     *)
LEMMA FilledHolds ==
  ASSUME NEW s, Sound(s), NEW p \in Pids, Held(s, p), NEW fd \in Fds, IsPipeEnd(s, p, fd),
         NEW k \in Pipes, s.fdt[p][fd].pipe = k,
         NEW r \in PipeRecord, r.fdCount = s.pipe[k].fdCount
  PROVE  Held([s EXCEPT !.pipe[k] = r], p)
<1>1. Holding(s.fdt[p], s.used, s.pipe) /\ s.pipe \in [Pipes -> PipeRecord]
  BY Fields DEF Held
<1>2. fd \in Ends(s.fdt[p], k)
  BY DEF IsPipeEnd, Ends
<1>3. s.used[k]
  BY <1>1, <1>2 DEF Holding
<1>4. Holding(s.fdt[p], s.used, [s.pipe EXCEPT ![k] = r])
  BY <1>1, <1>3 DEF Holding
<1>5. /\ [s EXCEPT !.pipe[k] = r].fdt = s.fdt /\ [s EXCEPT !.pipe[k] = r].used = s.used
      /\ [s EXCEPT !.pipe[k] = r].pipe = [s.pipe EXCEPT ![k] = r]
  BY PipeFields
<1> QED BY <1>4, <1>5 DEF Held

LEMMA FaultHolds ==
  ASSUME NEW s, Sound(s), NEW p \in Pids, Held(s, p)
  PROVE  Held(Fault(s), p)
<1>1. Fault(s).fdt = s.fdt /\ Fault(s).used = s.used /\ Fault(s).pipe = s.pipe
  BY Fields
<1> QED BY <1>1 DEF Held

LEMMA WriteHolds ==
  ASSUME NEW s, Sound(s), NEW p \in Pids, Held(s, p), NEW fd \in Fds, NEW x \in Seq(Bytes)
  PROVE  Held(write(s, p, fd, x), p)
<1> DEFINE k == s.fdt[p][fd].pipe
<1>1. CASE ~ IsPipeEnd(s, p, fd)
  BY <1>1 DEF write
<1>2. CASE IsPipeEnd(s, p, fd) /\ (k = Null \/ Len(x) > BufferSize)
  BY <1>2, FaultHolds DEF write
<1>3. CASE IsPipeEnd(s, p, fd) /\ ~ (k = Null \/ Len(x) > BufferSize)
  <2>1. write(s, p, fd, x) = [s EXCEPT !.pipe[k] = Stored(@, x)]
    BY <1>3 DEF write
  <2>2. k \in Pipes
    BY <1>3, DescriptorFields
  <2>3. s.pipe[k] \in PipeRecord
    BY <2>2, Fields
  <2>4. Stored(s.pipe[k], x) \in PipeRecord /\ Stored(s.pipe[k], x).fdCount = s.pipe[k].fdCount
    BY <2>3, StoredType
  <2>5. Held([s EXCEPT !.pipe[k] = Stored(s.pipe[k], x)], p)
    BY <1>3, <2>2, <2>4, FilledHolds
  <2> QED BY <2>1, <2>5
<1> QED BY <1>1, <1>2, <1>3

LEMMA ReadHolds ==
  ASSUME NEW s, Sound(s), NEW p \in Pids, Held(s, p), NEW fd \in Fds, NEW n \in Nat
  PROVE  Held(read(s, p, fd, n), p)
<1> DEFINE k == s.fdt[p][fd].pipe
           count == ReadCount(s, k, n)
<1>1. CASE ~ IsPipeEnd(s, p, fd)
  BY <1>1 DEF read
<1>2. CASE IsPipeEnd(s, p, fd) /\ (k = Null \/ TakesBeyond(s.pipe[k], count))
  <2>1. read(s, p, fd, n) = Fault(s)
    BY <1>2 DEF read
  <2> QED BY <2>1, FaultHolds
<1>3. CASE IsPipeEnd(s, p, fd) /\ k # Null /\ ~ TakesBeyond(s.pipe[k], count)
  <2>1. read(s, p, fd, n) = [s EXCEPT !.pipe[k] = Taken(@, count)]
    BY <1>3 DEF read
  <2>2. k \in Pipes
    BY <1>3, DescriptorFields
  <2>3. s.pipe[k] \in PipeRecord
    BY <2>2, Fields
  <2>4. count \in Nat /\ count <= s.pipe[k].bufferIndex
    <3>1. s.pipe[k].bufferIndex \in Nat
      BY <2>3 DEF PipeRecord
    <3> HIDE DEF k
    <3> QED BY <3>1 DEF ReadCount
  <2> HIDE DEF count
  <2>5. /\ Taken(s.pipe[k], count) \in PipeRecord
        /\ Taken(s.pipe[k], count).fdCount = s.pipe[k].fdCount
    BY <1>3, <2>3, <2>4, TakenType
  <2>6. Held([s EXCEPT !.pipe[k] = Taken(s.pipe[k], count)], p)
    BY <1>3, <2>2, <2>5, FilledHolds
  <2> QED BY <2>1, <2>6
<1> QED BY <1>1, <1>2, <1>3

-----------------------------------------------------------------------------
(* One process that never forks, opens no file and calls pipe() only when  *)
(* it can succeed.                                                         *)
HInv == IInv /\ live = {0} /\ Held(io, 0)

LEMMA InitHolds == Init => HInv
<1> SUFFICES ASSUME Init  PROVE HInv
  OBVIOUS
<1>1. IInv /\ live = {0}
  BY InitSound DEF Init
<1>2. io.fdt[0] = initialisefdt /\ io.used = [k \in Pipes |-> FALSE]
      /\ \A k \in Pipes : io.pipe[k].bufferIndex = 0
  BY CallsAssumption DEF Init, initialise_oft
<1>3. \A i \in Fds : initialisefdt[i].type # "FILE"
                     /\ (initialisefdt[i].type = "PIPE" => ~ initialisefdt[i].active)
  <2> SUFFICES ASSUME NEW i \in Fds
               PROVE  initialisefdt[i].type # "FILE"
                      /\ (initialisefdt[i].type = "PIPE" => ~ initialisefdt[i].active)
    OBVIOUS
  <2>1. CASE i = 0
    <3>1. initialisefdt[i] = [Unused EXCEPT !.type = "STDI", !.active = TRUE]
      BY <2>1 DEF initialisefdt
    <3> QED BY <3>1 DEF Unused
  <2>2. CASE i = 1
    <3>1. initialisefdt[i] = [Unused EXCEPT !.type = "STDO", !.perm = "WRITE", !.active = TRUE]
      BY <2>2 DEF initialisefdt
    <3> QED BY <3>1 DEF Unused
  <2>3. CASE i # 0 /\ i # 1
    <3>1. initialisefdt[i] = Unused
      BY <2>3 DEF initialisefdt
    <3> QED BY <3>1 DEF Unused
  <2> QED BY <2>1, <2>2, <2>3
<1>4. \A k \in Pipes : Ends(initialisefdt, k) = {}
  BY <1>3 DEF Ends
<1>5. Held(io, 0)
  BY <1>2, <1>3, <1>4 DEF Held, NoFiles, Holding
<1> QED BY <1>1, <1>5 DEF HInv

LEMMA CallArguments ==
  /\ <<1>> \in Seq(Bytes) /\ <<1, 1>> \in Seq(Bytes)
  /\ \A fd \in Arguments : fd \in Fds
  /\ \A n \in 1 .. 2 : n \in Nat
  BY CallsAssumption

LEMMA NextHolds ==
  ASSUME Calls \cap {"fork", "failing pipe", "open"} = {}
  PROVE  HInv /\ [Next]_vars => HInv'
<1> SUFFICES ASSUME HInv, [Next]_vars  PROVE HInv'
  OBVIOUS
<1>1. IInv'
  BY NextSound DEF HInv
<1>2. Sound(io) /\ live = {0} /\ Held(io, 0) /\ 0 \in Pids
  BY CallsAssumption DEF HInv, IInv
<1> SUFFICES live' = {0} /\ Held(io', 0)
  BY <1>1 DEF HInv, Held
<1>3. CASE UNCHANGED vars
  BY <1>2, <1>3 DEF vars
<1>4. CASE Next
  <2>1. \/ Fork(0) \/ Exit(0)
        \/ UNCHANGED live /\ \/ Pipe(0) \/ PipeFails(0) \/ Dup2(0) \/ Open(0)
                             \/ \E fd \in Arguments : Close(0, fd) \/ Write(0, fd) \/ Read(0, fd)
    BY <1>2, <1>4 DEF Next
  <2>2. ~ Fork(0) /\ ~ Exit(0) /\ ~ PipeFails(0) /\ ~ Open(0)
    BY DEF Fork, Exit, PipeFails, Open
  <2>3. ASSUME Pipe(0)  PROVE Held(io', 0)
    BY <1>2, <2>3, PipeHolds DEF Pipe
  <2>4. ASSUME Dup2(0)  PROVE Held(io', 0)
    BY <1>2, <2>4, Dup2Holds DEF Dup2
  <2>5. ASSUME NEW fd \in Arguments, Close(0, fd)  PROVE Held(io', 0)
    BY <1>2, <2>5, CloseHolds DEF Close
  <2>6. ASSUME NEW fd \in Arguments, Write(0, fd)  PROVE Held(io', 0)
    <3>1. PICK x \in {<<1>>, <<1, 1>>} : io' = write(io, 0, fd, x)
      BY <2>6 DEF Write
    <3>2. fd \in Fds /\ x \in Seq(Bytes)
      BY <3>1, CallArguments
    <3>3. Held(write(io, 0, fd, x), 0)
      BY <1>2, <3>2, WriteHolds
    <3> QED BY <3>1, <3>3
  <2>7. ASSUME NEW fd \in Arguments, Read(0, fd)  PROVE Held(io', 0)
    <3>1. PICK n \in 1 .. 2 : io' = read(io, 0, fd, n)
      BY <2>7 DEF Read
    <3>2. fd \in Fds /\ n \in Nat
      BY <3>1, CallArguments
    <3>3. Held(read(io, 0, fd, n), 0)
      BY <1>2, <3>2, ReadHolds
    <3> QED BY <3>1, <3>3
  <2> QED BY <1>2, <2>1, <2>2, <2>3, <2>4, <2>5, <2>6, <2>7
<1> QED BY <1>3, <1>4

LEMMA HeldAlways ==
  ASSUME Calls \cap {"fork", "failing pipe", "open"} = {}
  PROVE  Spec => []HInv
<1>1. HInv /\ [Next]_vars => HInv'
  BY NextHolds
<1> QED BY <1>1, InitHolds, PTL DEF Spec

(* A process on its own, in whatever order it makes, copies and closes its *)
(* ends: no pipe is freed, and given out again, while an end leads to it.  *)
THEOREM AlonePipesOutliveTheirEnds ==
  ASSUME Calls \cap {"fork", "failing pipe", "open"} = {}
  PROVE  Spec => []PipesOutliveTheirEnds
<1>1. HInv => PipesOutliveTheirEnds
  <2> SUFFICES ASSUME HInv, NEW k \in Pipes, ~ io.used[k]  PROVE EndsOf(k) = {}
    BY DEF PipesOutliveTheirEnds
  <2>1. live = {0} /\ Ends(io.fdt[0], k) = {}
    BY DEF HInv, Held, Holding
  <2>2. ASSUME NEW e \in EndsOf(k)  PROVE FALSE
    <3>1. e[1] = 0 /\ e[2] \in Fds /\ IsPipeEnd(io, e[1], e[2]) /\ io.fdt[e[1]][e[2]].pipe = k
      BY <2>1 DEF EndsOf
    <3>2. e[2] \in Ends(io.fdt[0], k)
      BY <3>1 DEF Ends, IsPipeEnd
    <3> QED BY <2>1, <3>2
  <2> QED BY <2>2
<1>2. Spec => []HInv
  BY HeldAlways
<1> QED BY <1>1, <1>2, PTL

(* And a pipe that is given out has nothing in it from its time before.    *)
THEOREM AloneFreePipesAreEmpty ==
  ASSUME Calls \cap {"fork", "failing pipe", "open"} = {}
  PROVE  Spec => []FreePipesAreEmpty
<1>1. HInv => FreePipesAreEmpty
  BY DEF HInv, Held, Holding, FreePipesAreEmpty
<1>2. Spec => []HInv
  BY HeldAlways
<1> QED BY <1>1, <1>2, PTL
=============================================================================
