# A formal model of the A8 kernel

This directory holds TLA+ specifications of the small ARM kernel in this
repository (`kernel/`, `device/`, `user/`), the TLC configurations that
model-check them, and TLAPS proofs about them.  Every definition that models
code is traced to its lines in `PROJECT.json` (`map`), every hazard of the code
we know of is listed there at its line (`hazards`), and every property is paired
with a plausible bug in the code that breaks it (`mutants`; the mutated
definitions stand in the modules, before the ones they replace).

Paths below are relative to the repository's source root.

## 1. The system

One address space, one processor, no protection between user and kernel.  The
kernel is entered by exceptions only.  SVC and IRQ handlers are entered with
interrupts masked and never unmask them (`kernel/interrupt.s:25-56`), so each
handler is one atomic step, and concurrency is the interleaving of handlers -
system calls of the running process, the timer, the UART - with user
instructions.

| Component | State | Operations | Interacts with |
|---|---|---|---|
| Process table (`kernel.c`, `kernel.h`) | `pcb[100]`, `current`, `noProcesses`, the trap frame | `fork`, `exit_kernel`, `execpn`, save and load of a context | schedulers, descriptors |
| Round-robin scheduler | `activeStack`, which it only fills | `schedulerRR`, from `yield`, the timer and `exit` | process table; `fork` calls `insert` in this build too |
| Priority scheduler | `activeStack[101]`, `activeBos`, `pcb[].priority`, `status` | `insert`, `decreasePriority`, `pop_min`, `newPriority`, `scheduler2` | process table, `fork` |
| Descriptors and pipes | `pcb[].fdt[10]`, `oft.pipe[10]`, `used_pipe`, `fdCount`, `bufferIndex` | `pipe`, `dup2`, `close`, `read`, `write`, the copy at `fork`, the clearing at `exit` | process table, the programs on pipes |
| Open files | `oft.file[10]`, `fileCount`, `used_pipe` (by mistake) | `open`, `lseek`, `read`, `write`, `close` | descriptors, file system |
| File system (`device/file.c`) | disk blocks: two usage maps, metadata, distributors, file parts | create, write, read, delete, path search, listing | disk driver |
| Disk driver and server (`device/disk.c`, `device/disk.py`) | a byte stream over UART1, the image file | read or write a block, ask for the geometry, three tries | file system |
| Console input (`kernel.c:918-937`, `601-620`) | `buffer[100]`, `bufferIndex` | UART0 receive interrupt, `read` of STDIN | every process that reads STDIN |
| Boot and exception entry (`interrupt.s`, `kernel_handler_rst`) | banked registers, vector table | reset, SVC and IRQ wrappers | all |
| User programs | their own loops | shell, P0-P3, T0-T3, libc wrappers | system calls |

What is hard in each, and what makes it correct:

* **Process table and context switch.**  A handler saves the trap frame to the
  outgoing PCB, loads it from the incoming one and moves `current`; `exit` runs
  the scheduler after the PCB has been cleared.  Correct when no process ever
  resumes with the registers of another (`TimeSharingIsTransparent`), and when
  the table the scheduler searches is what it takes it for (`TableConsistent`,
  `SlotsHoldContexts`).
* **Round robin.**  Slots and the *number* of processes are taken for the same
  thing, and the entries that `fork` puts into the other scheduler's heap are never
  taken out.  Correct when the shell always comes back and every process is served;
  the second does not hold, and the first up to the forks that fail.
* **Priority scheduler.**  A heap edited in place, with unsigned numbers, bounds
  tested after the access, and process 0 both running and queued after reset.
  Correct when heap and table agree, the most urgent process runs, and waiting
  helps.
* **Descriptors and pipes.**  Reference counts that `fork` and `exit` do not
  maintain and `dup2` raises by two; two processes arrange them in an order the
  timer chooses.  Correct when a pipe lives as long as somebody can reach it and
  no longer.
* **Programs on pipes.**  Busy-waiting on a buffer that overwrites.  Correct when
  the token of T2 is neither lost nor doubled and the ring ends.
* **File system.**  Usage maps, metadata, distributors and parts are changed by
  several `disk_wr` in a row, and the machine can stop after each; positions are
  turned into blocks in three places; most loops have no bound.  Correct when
  every block that is linked is marked and linked once (`LinkedIsMarked`,
  `OneLinkEach`), a file reads back what was written (`ReadsBack`), the whole is
  a tree of files (`StoresFiles`), blocks are not lost (`BlocksAreGivenBack`)
  and the kernel fails only where it is known to (`FailsOnlyThen`).
* **Disk.**  A request and its answer are lines of text without sequence numbers
  or check sums.  Correct when a write takes effect between its call and its
  return (`ServesBlocks`), nothing is left behind for the next request
  (`LinesAreDrained`), tries make good what they can (`TriesMaskDamage`), and
  every request returns (`RequestsEnd`).
* **Console.**  One buffer, filled by an interrupt, for all readers.  Correct when
  what is typed is read once and in order (`ReadsWhatWasTyped`), and lost only
  in the ways we know (`InputIsRead`).
* **Boot.**  Interrupts are enabled before the first process is entered.

## 2. Modules, and the code they stand for

| Module | Stands for | Kind |
|---|---|---|
| `ProcessTable` | `pcb`, `current`, `noProcesses`, the trap frame; fork, exit, exec, context switch | shared part of both schedulers |
| `VirtualCPU` | one processor per process | abstract specification |
| `RoundRobin` | the kernel built with `scheduler_type` 0 | state machine, extends `ProcessTable` |
| `ProcessTableProofs` | - | lemmas on `ProcessTable` and on `insert`, for either scheduler |
| `RoundRobinProofs` | - | theorems on `RoundRobin` |
| `ActiveStack` | the heap `activeStack` | functions on queues, extended by `ProcessTable` |
| `PriorityScheduler` | the kernel built with `scheduler_type` 2 | state machine, extends `ProcessTable` |
| `PrioritySchedulerProofs` | - | lemmas on the order of the heap; theorems on `PriorityScheduler` |
| `Descriptors` | descriptor tables, pipes, open file table | functions on a record `io`, one per system call |
| `DescriptorCalls` | processes making any calls in any order | state machine on `Descriptors` |
| `DescriptorProofs` | - | theorems on `DescriptorCalls` |
| `PipeFifo` | a queue per pipe | abstract specification |
| `Programs` | shell `run` commands, P3, T0-T3 | state machine on `Descriptors` |
| `ProgramsProofs` | - | theorems on `Programs` |
| `FileSystem` | `device/file.c` | functions on a disk, one per function of the code |
| `FileCalls` | the shell's commands on files, and the system calls behind them | state machine on `FileSystem` |
| `FileStore` | a tree of directories and files | abstract specification |
| `FileSystemProofs` | - | theorems on `FileSystem` and `FileCalls` |
| `Disk` | driver, serial line and server | state machine |
| `BlockStore` | blocks read and written one request at a time | abstract specification |
| `DiskProofs` | - | theorems on `Disk` |
| `Console` | UART0's receiver, its interrupt handler, `buffer`, readers | state machine |
| `Keyboard` | characters read once, in order | abstract specification |
| `ConsoleProofs` | - | theorems on `Console` |
| `MCRoundRobin`, `MCPriorityScheduler`, `MCPrograms`, `MCFileCalls` | - | constants for TLC |

The components meet where the code's do.  Both schedulers share one process
table; `Programs` takes its fairness from what the scheduler runs establish, and
so does `Console`; `FileCalls` writes the disk one `disk_wr` at a time, which is
the unit that `Disk` shows to happen between call and return or not at all;
`Descriptors` and `FileCalls` both have `open`, `read` and `write`, the first for
descriptors and the open file table, the second for what files hold.

**Process table.**  `live` is the set of slots whose `pid` is not -1; a pid and
its slot are the same number.  `ctx` is the trap frame, `saved[i]` is
`pcb[i].ctx`; of a context we keep the program (pc) and r0, in which system
calls take and leave values.  `fault` becomes TRUE when the kernel accesses
memory outside its own tables or enters a loop that does not end, with interrupts
masked (`Fails`); the machine then stops, as nothing can be said of what follows.  `SwitchTo` is the end of both schedulers, `AbandonFor` the same
for a process that has just exited: the code then saves to `pcb[-1]`, and
loads from the chosen PCB.  `ForkInto` is `fork` with a slot; `ForkRefused` and
`ForkPastTable` are `fork` on a full table, whose search runs into memory whose
content the build decides (a nondeterministic choice).

**RoundRobin.**  One action per way into the kernel: `Tick`, `Yield`, `Fork`,
`ForkTableFull`, `Exit`, `Exec`, and `Run` for user instructions.  `schedulerRR`
is a relation between the outgoing pid (-1 after exit) and the next slot.  `fork`
calls `insert` here too (`Joins`), so the model keeps the heap with its entries,
`status` and `priority`.  `exit` takes nothing out: an entry stays when its process
has gone, and a slot that is used again has two of one pid.  `decreasePriority`
finds its place through `pcb[].stackLocation`, which both entries share.  When the
new entry is below the old one, and every entry between has a larger number, the
loop doubles the location it has just halved and never ends (`NeverSettles`).  `run
T2` by a shell of priority 5 and two forks of the shell into the slot of T2's second
process, whose priority was 6, get there.

**PriorityScheduler.**  `active` is the array with `activeBos`; the array keeps
what is beyond the last entry, because `pop_min` reads it.  `Diff` is the
unsigned subtraction converted to `int`, `ReadsBeyond` says when the loop test
leaves the array.  Priorities are numbers modulo `PrioMod`, 2^32 scaled down.
The two loops are recursive functions, `SiftUp` and `SiftDown`, of an index and
then of the array, which is the form that can be proved about.
`pcb[].stackLocation` is no variable: the only one ever read is that of the process
being inserted, and it is where that entry is, except in the case of
`NeverSettles`, which is a failure here as under round robin (`RequeueFails`): an
entry whose number has wrapped can be lost below the last one in use and turn up
again after its process has been put back.

**Descriptors.**  Each system call is one function on `io`, so that any client
can be put on top.  `fault` again marks an access outside the tables: a null
`pipep`, a descriptor equal to `fdNo`, more bytes than a buffer holds.  Files
take part as far as descriptors and the open file table go; what they hold is
the matter of `FileCalls`.

**Programs.**  A process is at a label, has its `pipefd` pairs, a byte and a loop
counter.  A step is one system call with the user instructions up to the next.
16- and 22-byte messages are one byte of the model, with `pipeBufferSize` scaled
accordingly.  `pcb` slots are taken lowest first, as `fork` does.

**FileSystem.**  The functions of `file.c` with their names, on a record `s`:
the disk, the disk after each `disk_wr` so far (`s.log`), and how the call has
failed (`s.fault`).  A block is metadata, a distributor, a part of a file, or
blank; the two usage maps are the set of their non-zero bytes, with the code's
two regions and its arithmetic between a block and its byte (`ByteOf`,
`AddressOf`).  What a freed block still holds is forgotten.  Loops over links are
operators on `Chain`, the sequence of distributors; a loop of the code that would
not end is the fault `"hangs"`, blocks taken for what they are not `"corrupts"`.
Of a name only its length counts: one that does not fit `file_t.name` is `"corrupts"`,
and so is an address of metadata that is the first block of the files, which the
code takes for good (`Overrun`).

**FileCalls.**  A step is one command of the shell with the system call behind
it: `CdUp`, `Cd`, `Mkdir`, `Open`, `Unlink`, `Write`, `Read`, `Lseek`.  Several shells can
be running, since a child whose program is unknown goes on as one.  `Restart`
stops the machine between calls or after any `disk_wr` of one (`UnderWay`), and
boots from that disk (`Boot`), with a `create_root` that may find no metadata left:
the code then writes the new root over the first block of the files, and the model
stops with a fault.  A path that does not fit `max_path_length` (`Fits`) and a name
that `oft.file` has no entry left for (`Enrolled`) are faults too.  `oft` keeps the permissions that
`oft.file` has for a name: they survive the file, so a new file of that name is
opened with those of the old one, unlike what `user/libc.h:82` says of `open`.
`tree` is a function of `disk`, kept in a variable so that it is computed once.

**Disk.**  Driver and server write and read token by token over a line that holds
`Fifo` tokens a way.  The line may damage the first token of a request and of the
answer to a write.  The line is external; the server is in `device/disk.py`.

**Console.**  `Receive` and `Clear` are the two halves of the handler, between
which a character can arrive: the receiver's FIFO is never enabled, it holds one
character, and the write to ICR clears the interrupt of whichever arrived.  The
receiver is external.  Characters are numbered in the order they are typed, so
that a doubled or overtaken one shows.  `unread` of `Keyboard` is `buffer`
followed by the register.

## 3. What is checked

| Run | Shows |
|---|---|
| `round_robin` | table of 4 slots, any interleaving of ticks, yields, forks, execs, exits: consistent table, complete contexts, transparent time sharing; unless a fork fails, in one of three known ways, the shell always returns, and a process whose slot stays below `noProcesses` is served |
| `round_robin_starves` (violated) | a process whose slot is not below `noProcesses` is never served again |
| `priority` | up to 4 processes on a heap of 8 places: the queue matches the table, the heap is ordered, the most urgent process runs, waiting only helps, time sharing is transparent |
| `priority_live` | aging serves every one of 3 processes, with priorities above, below and beyond `lowestPriority` |
| `priority_crowded` | up to a full table of 6: the scheduler reads past the array, but not before the table is half full, so never with the shell and one child only - while no number has aged below zero: a wrapped one lets it stray earlier |
| `calls_any` | two processes, any calls, failing ones and files included: a pipe in use is counted, so it can still be freed |
| `calls_alone` | a process without fork and files: pipes outlive their ends, a freed pipe is empty, types |
| `plumbing` | a pipeline, P3 and a single program in any order and interleaving: the pipe is never freed under the two sides, and ends with exactly one writer, one reader and a count of two |
| `ring` | T2 with its 6 rounds: no fault, the token gains one per hop, pipes refine `PipeFifo`, all rounds but the last complete under what round robin grants, all of them and every exit under what the priority scheduler grants |
| `files` | two shells in two levels of directories on a disk of 16 blocks that fills up, the machine stopped after any `disk_wr` and started again: the tree of files of `FileStore`, no block shared or lost, what is written is read back, and failures, of calls and of starts, only where they are known |
| `disk` | every request on a disk of two blocks, with up to three damaged tokens per request: the blocks of `BlockStore`, clean lines between requests, useful tries, an end |
| `console` | seven characters, two shells and programs that read, a buffer of three: the characters of `Keyboard`, each read in the end or lost in a known way |

**What the violated run means.**  `round_robin_starves`: `schedulerRR` looks
upwards only while `pid < noProcesses`.  Three processes in slots 0, 1, 2, the
one in slot 1 exits: `noProcesses` is 2 and slot 2 is out of reach until another
fork fills the hole.  This is not an artefact of odd programs: T2 runs into it
(`Programs`, `RoundRobinSpec`).  Its second process exits after passing the
token for the last time, the third is then out of reach with the token on its
way to it, and the first polls for ever.

**Defects that no run is spent on**, because a property would only repeat the
line, or because a property of a passing run names the exception:

* Schedulers.  `newPriority` decrements an unsigned number without a bound
  (`kernel.c:151`): at 0 the most urgent process becomes the least urgent, sinks
  below unused entries and is lost from the heap, which is why the bounds of the
  passing runs keep priorities above zero.  `fork` takes an entry of
  `activeStack` in the round-robin build that nothing returns (`kernel.c:687`): after
  `maxProcs` forks the array is full, and long before that a fork into a slot used
  before can hang the machine (`kernel.c:62`).  `ForkFailed` is what we know of
  these, and `ShellAlwaysReturns` and `WindowIsServed` are stated up to it.  The
  search of `fork` has no bound, and takes index `maxProcesses` for a slot
  (`kernel.c:665`).
* Pipes.  `fork` copies descriptors without counting them (`kernel.c:537`), so a
  pipe can be freed while another process has its ends; the `+= 2` of `dup2`
  makes up for it in exactly the order of calls the shell and P3 use, which is
  what `plumbing` shows.  `exit` clears descriptors without closing them
  (`kernel.c:424`): ten pipelines use up all ten pipes.  `close` and `dup2` accept
  `fdNo`; closing a file clears `used_pipe`; `write` ignores `perm` of a pipe and
  `pipeBufferSize`.
* File system.  Deleting a file with more than one distributor never ends
  (`file.c:306`), nor does removing a name that is not there from inside a
  directory (`kernel.c:746`).  Removing a directory that is not empty loses the
  blocks of its files, although `file.h` says everything in it is deleted.
  `create_root` makes a new root at each start, although `file.h` says it does if
  there is none; the old one goes on to be used and the new block is lost.  A
  write of more than a block spills into its neighbours (`file.c:219`).  The
  search for metadata admits the first block of the files (`file.c:82`).  A
  refused permission closes a pipe through a null pointer (`kernel.c:814`).  A
  write that finds no room makes -1 the position (`kernel.c:585`).  The shell
  reads, writes and seeks also without a file, and changes into plain files.
  Each start takes a block of metadata; the one that finds none left writes over
  the first block of the files (`file.c:317`, `82`).  Names, paths and the entries
  of `oft.file` are not counted (`file.c:76`, `kernel.c:771`, `808`).
  `FailsOnlyThen` lists those that end the kernel, and shows that within the model
  and its bounds there are no others.
* Console.  `buffer` is filled without a bound (`kernel.c:926`); a character that
  arrives inside the handler has its interrupt cleared, and input stops for good
  (`kernel.c:928`).  `InputIsRead` names both.
* Disk.  The driver returns silently after its last try (`disk.c:72`): a read
  then brings nothing, and the caller goes on with what its block held before.

**Bounds.**  `MaxProcs` 4 to 8 for 100 slots.  Under round robin four slots are
enough for a hole below a live process, a full table, slot reuse and two entries of
one pid, one above the other, before the array is full; `exec` asks there for 4 and
`LowestPriority` is 7, so that a fork can be by a process with a smaller number than
the slot's last one had.  In `priority` eight places for four processes keep the heap
from being more than half full, where the loop of `pop_min` leaves the array; the
four numbers of the processes stay large enough not to age below zero.
`priority_crowded` has six slots, so that less than half full is the shell and a
child, in any order of fork, exec, exit and ticks, and three and more processes are
where `pop_min` may stray.  `PrioMod` 16 or 32 for 2^32, `LowestPriority` 6 or 7 for
101: what matters is that `2 * LowestPriority < PrioMod`, so that `Diff` has the
sign of the difference.  `MaxLive` bounds fork, `RegValues` the values user code leaves in
r0.  Pipes: `BufferSize` 1 or 2 messages, 1 to 3 pipes, 3 to 8 descriptors (T2
needs eight); `MaxCount` stops a behaviour whose counts have left a small range (the calls
that leave it are still checked),
`Commands` are typed once each, `Rounds` is 6 as in `T2.c`.  In `plumbing` P3's
writer stops one message beyond a full buffer.  Files: `BlockLen` 4 for 16,
`InfoBlocks` 2 for 2048 and `FileParts` 1 for 7, so that a disk has four blocks
of metadata and eight of the files, a second part needs a second distributor, a
position lies inside, at the end of and beyond a block, and both regions run
full; `MaxDepth` 2.  Names are `d` for a directory, `f` for a file and one of eight
characters, too long for `NameSize` 8; `PathSize` 10 for 100 is too short for that
one inside `d`; `FileNo` 1 for 10, so that the second name is one too many; `FpMod` 32
for 2^16.  `MaxCalls` is five calls after the first start and two after the second,
which is enough to create, fill, remove and create again, to interleave two
shells in that, and to build on whatever a crash has left; with four blocks of
metadata, of which each start takes one, the second start can find none left.  Disk: two blocks of
two bytes, writes of up to a block and a half, `RETRY` 3 as in the code,
`MaxDamage` 3, so that every try can fail.  Console: `BufferLen` 3 for 100,
`MaxTyped` 7, more than twice a full buffer, with two ends of lines among them.
The shells of `files` are symmetric: they run the same program and nothing
compares their numbers.

**Fairness.**  `RoundRobin` and `PriorityScheduler` assume WF of `Tick` only:
TIMER0 is set up as periodic in `kernel_handler_rst`, and its interrupt is not
masked in user mode.  Nothing is assumed of what processes do.  `Programs`
assumes of processes what these two runs establish: `RoundRobinSpec` serves a
process while its slot is below the number of processes (`WindowIsServed`),
`PriorityFairness` serves all (`EveryProcessIsServed` of `priority_live`).
`Disk` assumes that the driver, which polls, and the server, which loops, go on
while they can (WF of each), nothing of callers or of damage.  `Console` assumes
that a raised interrupt is taken, and that some shell goes on to be run, which
is what `ShellAlwaysReturns` and `EveryProcessIsServed` show of the schedulers;
nothing of programs that read.
Liveness properties of the schedulers hold up to a fault, after which nothing is
promised.  For round robin `ForkFailed` says more of it: the table was full, the
array was, or a slot was reused by a parent with a smaller number than its last
process had; a fault for any other reason would violate them.

**Deadlock** is not checked in runs whose system can really stop: after a fault,
when every program has exited and nothing more is typed, or at a bound.  It is
checked in `disk`: a deadlock of driver and server would be found there.

## 4. What is proved

`RoundRobinProofs` proves, for every number of slots, every boot set `0 .. n-1`
(so for stage 0 and stage 1), every set of programs and every choice of
`RegValues`:

* `TypeCorrect`: `Spec => []TypeOK`
* `Consistency`: `Spec => []TableConsistent`
* `ContextsAreComplete`: `Spec => []SlotsHoldContexts`
* `TimeSharing`: `Spec => TimeSharingIsTransparent`, the refinement of
  `VirtualCPU` under the mapping `View` (the trap frame for the process that
  runs, the PCB for the others).

The argument: none of the three invariants is inductive alone.  That `exit`
finds a process to run needs `0 \in live`, that the count stays right needs
`current \in live` (exit removes an occupied slot) and that fork takes a free
one, that the chosen process has a context needs `SlotsHoldContexts`.  Their
conjunction is `IInv`; `InitIInv` and `StepSound` show it inductive, action by
action, and that every step is a step of one virtual processor or a stutter
(`ResetSound` of `ProcessTableProofs` for the first state).  That the heap stays an
array of entries is the part of `TypeOK` that needs an argument of its own
(`JoinsTyped`): `insert` exchanges entries along a path that `SiftUpType` follows,
and an insert that does not end or leaves the array is a fault.  Assumptions: those named
in `ProcessTable` (`MaxProcsAssumption`, `BootAssumption`, ...), nothing about
fairness.

`DescriptorProofs` proves, for any number of processes, descriptors and pipes,
any buffer size and any choice of calls and arguments, failing calls and files
included:

* `TypeCorrect`: `Spec => []TypeOK`; that `bufferIndex` stays a natural number
  is the part that needs `read` never to take more than there is
* `PipesStayCounted`: `Spec => []UsedPipesAreCounted`

and, for calls without fork, without files and without a `pipe()` that fails,
which are those of the run `calls_alone`:

* `AlonePipesOutliveTheirEnds`: `Spec => []PipesOutliveTheirEnds`
* `AloneFreePipesAreEmpty`: `Spec => []FreePipesAreEmpty`

Both are false with fork, which counts nothing; their hypothesis says just that.
They rest on `Held`: the count of a pipe in use is at least the number of its
ends the process still has, a pipe not in use has no end left and is empty.  `dup2`
puts an end in the place of another and adds two, `close` takes one: it can reach
zero only with the last end.

The invariant of the first two is inductive together with the shape of the tables,
`Tables`, which also bounds what a descriptor's `pipe` can be.  As `fork` counts nothing, it
cannot rest on how many descriptors lead to a pipe: it holds because every
decrement, also one through a stale descriptor, goes through the test for 1 in
`close_kernel` that takes the pipe out of use.  There is one lemma per function of
`Descriptors`, about any record of that shape, and `NextSound` puts them together.

`PrioritySchedulerProofs` proves the same for the priority scheduler, for any
table size, heap and priorities:

* `TypeCorrect`: `Spec => [](TypeOK /\ HeapSized)`
* `ContextsAreComplete`: `Spec => []SlotsHoldContexts`
* `Consistency`: `Spec => [](TableConsistent /\ OnlyLiveWait)`
* `TimeSharing`: `Spec => TimeSharingIsTransparent`

The point of these is that the heap plays no part: what `scheduler2` resumes has
status ACTIVE or is the process that runs, only processes that exist are waiting
(`OnlyLiveWait`), and those have a context.  So even a heap that has lost a
process, or reads beyond its array, never mixes up two processes.  What both
schedulers do to the table (fork, exit, exec, the switch) is in
`ProcessTableProofs`, once for both: `TableSound` is the common part of their
invariants, and there is a lemma for each way of changing the table.  `TypeCorrect`
says also that `activeBos` counts the processes that wait (`HeapSized`), wrapped
numbers or not: so `insert` never writes a new entry past the array, and `pop_min`
finds somebody.  What it does not say is that `insert` ends: with a wrapped number
an old entry of the process can be in its way, and that is a fault of the model.

What does depend on the heap is proved under `Roomy`, for any size of the table:

* `QueueIsTheTable`: `Spec => []QueueMatchesTable`
* `HeapStaysOrdered`: `Spec => []HeapOrdered`
* `StaysInsideTheHeap`: `Spec => []StraysOnlyWhenHalfFull`
* `MostUrgentRuns`: `Spec => DispatchesMostUrgent`
* `WaitingHelps`: `Spec => WaitingGainsUrgency`

`Roomy` says that there are never more processes at once than the shell's
priority, 5, nor more than one above a priority that `exec` asks for (the 6 of
`def_priority`).  The kernel does not see to that, its table has 100 slots: it is
the condition under which no number ages below zero (`kernel.c:151`).  One process
more and the proof fails, and with two more than the shell's priority TLC finds
each of the five violated.  The three priority runs are inside `Roomy`; beyond it
only the theorems that do not assume it hold.

The argument: between two calls of the scheduler at most `t` of the waiting
processes have a number of `t` or less (`Calm`).  So no number is 0 and aging
lowers each by one; then at most `t + 1` are at `t`, the process put back in line
does not change that because its own number is large (this is `Roomy`), and the one
`pop_min` takes away is the least, which restores `t`.  Before the first switch,
when process 0 is in the heap although it runs, all numbers are the shell's
(`AtBoot`), and `pop_min` takes a root that may be out of order.  Since nobody who is
put in is in the heap already (`LineInserts`), `insert` always ends (`RequeueSettles`,
`ForkSettles`).

The first half of the module, and part of `ProcessTableProofs`, are about the heap
alone.  That `SiftUp` and `SiftDown` exist as functions is proved from tables up to a bound, and what they do by the least
number principle (`Descent`): among the places where a claim fails there would be a
lowest (for `SiftUp`) or a highest one.  `SiftUpOrders` and `SiftDownOrders` say
that an entry that is out of order with its parent, or with its children, comes to
a place where it is not, that the entries in use are only permuted, and that
`SiftDown` looks beyond the array only from a heap of at least half its places.
For the last, unused entries must have the lowest priority, which is what `pop_min`
resets them for.  `InsertGood`, `AgePoppable` and `PopGood` then say of the three
operations what they do to a heap in order.

`DiskProofs` proves of driver, line and server, for every geometry, line length,
number of tries and amount of damage:

* `TypeCorrect`: `Spec => []TypeOK`
* `Drains`: `Spec => []LinesAreDrained`
* `Refines`: `Spec => ServesBlocks`, the refinement of `BlockStore`
* `Masks`: `Spec => TriesMaskDamage`

The invariant says of each stage of a try which tokens are where: those of the
request that have not been taken yet on one line, what the server has taken so far
in its hands, those of the answer on the other line or with the driver.  It is long
because nothing less is inductive: that nothing is left on the line at the end
follows only from having accounted for every token on the way.  A write that
took effect and whose answer was damaged takes effect again in the next try; each
time is a `Store` of `BlockStore`, which stores the same bytes.

`FileSystemProofs` proves of `FileSystem`, for every layout and whatever the
maps hold:

* `AllocatesFreshBlock`, `CreatesFreshMetadata`: a block that is handed out was
  not marked, is marked now, no other mark has changed, and neither has what any
  other block holds
* `FreesOneBlock`: freeing a block clears its mark and no other

They rest on `OneByteEach` - the code's two formulas for the byte of a block never
meet, although they are chosen by a comparison of addresses - and on the search
finding the lowest free byte, whose existence takes a well-founded order.

Of `FileCalls` it proves, for every layout, any shells, names, texts and offsets,
any depth of directories and any number of calls and starts:

* `FilesAreHealthy`: `Spec => []FilesInv`
* `LinksAreMarked`: `Spec => []LinkedIsMarked`
* `LinkedOnce`: `Spec => []OneLinkEach`
* `ReadsWhatIsThere`: `Spec => []ReadsBack`

What `LinkedIsMarked` and `OneLinkEach` say of the tree is not inductive: what hangs on a block that
is about to be linked, or has just been cut off, matters too, and so does what kind
of block a link leads to.  `Sane` says it of all marked blocks, whether the tree
leads to them or not: their links lead to marked blocks of the right kind
(`LinksLead`), no two to the same one (`LinksDiffer`); no byte of the maps is set
that stands for no block, and the block that stands for failure is no metadata.
Two things the code relies on are not written on the disk, so they are part of
`Sane` as `dirs`, the distributors that belong to directories (whose slots lead to
metadata and not to parts), and `rank`, a number for each distributor that grows
along `next`, without which following the links might not end.

`Good` says that what a call has done so far is sane, and was so after each
`disk_wr`: this is what a stop of the machine needs.  There is a lemma for every
function of `device/file.c` that writes.  An allocation stores the block before it
marks it, and a block that is not marked may hold anything (`Scribbled`); it is
linked last, when it leads nowhere and nothing leads to it (`EnterGood`,
`NextDistributorGood`, `FirstDistributorGood`).  A removal cuts the link first, and
since there was only one, nothing leads to what it then frees (`UnlinksGood`,
`DeletesGood`).  `TreeIsMetadata` takes the result from the disk to the tree, by
induction along paths and along the links of a distributor.  `Restart` is the case
of a disk from the log of a call under way; `create_root` allocates on it like
anything else.  The proofs use of the constants that a read is not of a negative
length, offsets are integers, and texts hold bytes other than 0
(`FileCallsAssumption`).

`ReadsBack` needs more of the invariant than links: that each byte of a file has a
part (`Whole`).  `write_to_file` promises it by its order alone.  It finds or makes
the distributor and the part of each block it touches, and only when all of that
has succeeded does it store the size, so that a stop of the machine or a full disk
leaves parts beyond the end of a file, never a size beyond its parts.  A part is
known by the trail that leads to it from the metadata (`Trail`, `Has`).  `Grows`
says that whatever a call adds keeps the trails of all files, its own and others
(`TrailGrows`), and `WholeFreed` that a block nothing leads to takes no trail with it.
`Writes` carries through the loops of a write which distributors it has reached, at
which place, and which parts are there (`ReachPartWrites`, `WriteBlocksWrites`).
`WritesInside` puts it together: a position beyond the end is refused, so every part
that begins between the old end of the file and the new one is among those the write
touches (`TouchesRest`), and the others were there before.  Last, `TrailInChain` and `SlotAt` say that the
loops of `read_from_file` find the same distributor and the same slot that the
trail has.

`OneLinkEach` speaks of the places that hold a link (`Links`: `dist` of metadata,
`next` and the slots of a distributor): two of them never hold the same block, and
none holds that of the root.

`ConsoleProofs` proves, for any buffer, shells, programs and lengths:

* `TypeCorrect`, for receiver, buffer and lines
* `TypedIsRead`: `Spec => ReadsWhatWasTyped`, the refinement of `Keyboard`

The mapping appends the register to the buffer, so that the handler's transfer is
a stutter; each read is then a prefix taken off.  The type invariant is needed to
know that the register holds at most one character, and that buffer and register
are sequences, so that the laws of concatenation and of parts apply.

`ProgramsProofs` proves of the programs that share pipes, for tables of any size,
any number of processes and any number of rounds of T2:

* `ProgramsTyped`: `Spec => []TypeOK`
* `EndsOutlive`: `Spec => []PipesOutliveTheirEnds`
* `PlumbingExact`: `Spec => []PlumbingIsExact`
* `TokenCounts`: `Spec => []TokenCountsHops`

Their hypothesis is `Plain`: the commands are programs of the repository on their
own, or pipelines of two that make neither a pipe nor a child themselves (P3 and T2
in a pipeline would look for free descriptors in a table with gaps), and a byte can
hold the token of T2.  Both instances that TLC checks are `Plain`.  That pipes
suffice is not assumed: a `pipe()` that fails leaves two ends of no pipe, and the
invariant has those too.

The invariant is `Plumbed /\ Token`.  `Plumbed` gives for each
place of a program the whole descriptor table a process has there (`Shaped`, eight
tables), says that processes that can reach one pipe are the two sides of one
pipeline or members of the ring (`Apart`), and what the pipe then counts: two, and
one more while a side has copied its end and not closed the original (`Counted`).
That is what makes up for fork counting nothing: the count says how many ends a
pipeline should have, not how many there are, and the closes of either side only
ever give back what its own `dup2` added.  `OneRing` says that T2 runs once (bound:
each command is typed once) with one process at each kind of place.  `Token` says
where the token is: there is a round and one of six stages, a process about to
write it or a pipe that carries it, that fits the place, the counter and the pipes
of all three processes at once.  It is needed for `Plumbed` also, to know that what
is written is a byte.

The proof follows the code: what each kernel call does to a table of descriptors,
then for each kind of step that it keeps `Plumbed` (`QuietKeeps`, `PlumbKeeps`,
`OpenKeeps`, `ForkKeeps`, `LoopKeeps`, `ExitKeeps`) and what of the ring it leaves
alone, from which `Token` follows once for all steps outside the ring
(`TokenAside`); then the turns of the ring themselves (`WriteToken`, `ReadToken`).

On top of this invariant, for commands without P3 (`Patient`):

* `PipesKeepOrder`: `Spec => PipesAreFifo`, the refinement of `PipeFifo`
* `NeverFaults`: `Spec => []NoFault`, when there is a pipe for each call of `pipe()`
  that the commands make (`PipesSuffice`: one for a pipeline, three for T2)

`write` stores at the front of the buffer whatever is there, so a pipe is a queue
only as long as nobody writes to one that holds something.  `Orderly` says who may
find what: no pipe holds more than one message, and as long as the writer of a
pipeline has still to write (`Due`) its pipe is empty; for the ring this is part of
`Token`.  A writer's pipe is nobody else's who has still to write (`DueAside`),
which is `Apart` again.  P3 must be left out: its parent writes in a loop without
waiting for the child, and the second message takes the place of the first; once
the buffer is full, the next `read` reaches beyond it.

Pipes are never given back, as `exit` closes nothing (`kernel.c:424`), so it takes
an account over the whole run to show that none of these programs gets a null pipe:
`Owed` has an element for each pipe that a process, or a command not yet typed, has
still to open, and there are never more of these than free pipes (`Supplied`).
`Openers` says that no two processes open pipes for the same command; the rest is
that every active end leads to a pipe (`Attached`).  With fewer pipes the property
is false: the programs do not look at what `pipe()` returns, and `dup2` follows the
null pointer.

Only model-checked: all liveness (TLAPS does not reach it), and of `FileCalls` the
three action properties `StoresFiles`, `BlocksAreGivenBack` and `FailsOnlyThen`.
`StoresFiles` compares the bytes of each file before and after each call on another,
along chains that grow meanwhile, which is an induction of its own for each pair of
the two; the others compare what is reachable, and what has room, before and after.

Not proof but assumption, in all modules: handlers are atomic; process 0 never
exits (its program is the shell's or P0's endless loop); memory in front of
`pcb`, which `exit` writes through `pcb[-1]`, holds no kernel state, and does
not read as SCHEDULED or ACTIVE.

## 5. What is not modelled, and the plan

Left out for good: device register access (PL011, GIC, SP804), formatting and
console output, the arithmetic of P0-P2, user stacks' contents, the shell's
parsing of a line, `ls` and `pwd` (they only show), `find_meta` (never called).

Boot is modelled as far as the state it leaves (the `Init` of every module).  Its
one race is not: interrupts are enabled before the first process is entered
(`kernel.c:511`), so a tick that has become pending during the start is taken
inside `irq_enable`, in SVC mode.  With one process at boot (stage 1) control
comes back to where it was.  In stage 0 another process runs meanwhile, and its
system calls overwrite `lr` of SVC mode, which no context holds; process 0 then
returns through it.  Our contexts are those of user mode and have no banked
registers, so `RoundRobin` with three processes at boot starts where process 0
has been entered.
