-------------------------------- MODULE Console --------------------------------
(***************************************************************************)
(* Console input: the receiver of UART0, its interrupt handler             *)
(* (kernel/kernel.c, kernel_handler_irq), the buffer they fill, and the    *)
(* processes that read STDIN: shells, a character at a time until the end  *)
(* of the line (user/libc.c, read_write_line), and programs that read some *)
(* characters once (T1 and T3, run without a pipe).                        *)
(*                                                                         *)
(* The handler is one step for every process, but not for the receiver: a  *)
(* character can arrive between its read of the data register and its      *)
(* write to ICR.  Characters are told apart by when they were typed.       *)
(***************************************************************************)
EXTENDS Integers, SequencesExt

CONSTANTS
  Shells,       (* the processes that run shell()                           *)
  BufferLen,    (* the characters buffer holds: 100                         *)
  Lengths,      (* what programs ask read for                               *)
  MaxTyped,     (* bound: how many characters are typed                     *)
  Returns       (* which of them are '\r'                                   *)

ASSUME ConsoleAssumption ==
  /\ {BufferLen, MaxTyped} \subseteq Nat \ {0}
  /\ Lengths \subseteq Nat \ {0} /\ Returns \subseteq 1 .. MaxTyped

VARIABLES
  typed,    (* how many characters have been typed                          *)
  held,     (* the receiver's data register: << >> or a character           *)
  raised,   (* its interrupt                                                *)
  handling, (* the handler has read the character, and not yet written ICR  *)
  buffer,   (* buffer[0 .. bufferIndex - 1]                                 *)
  line,     (* what each shell has read since its last line                 *)
  fault     (* the handler has stored behind the buffer                     *)

vars == <<typed, held, raised, handling, buffer, line, fault>>

Init ==
  /\ typed = 0 /\ held = << >> /\ raised = FALSE /\ handling = FALSE
  /\ buffer = << >> /\ line = [p \in Shells |-> << >>] /\ fault = FALSE

-----------------------------------------------------------------------------
(* The receiver.  Its FIFO is not enabled, and the sender waits while the  *)
(* register is full.                                                       *)
Arrive ==
  /\ typed < MaxTyped /\ held = << >>
  /\ typed' = typed + 1 /\ held' = <<typed + 1>> /\ raised' = TRUE
  /\ UNCHANGED <<handling, buffer, line, fault>>

(* Its part of a read of the data register, and of a write to ICR.         *)
Drained == held' = << >> /\ raised' = FALSE

-----------------------------------------------------------------------------
(* The handler with the character in front of the others.                  *)
Stored_First(c) == c \o buffer

Stored(c) == buffer \o c

(* buffer[bufferIndex] has no bound.                                       *)
Receive ==
  /\ raised /\ ~ handling
  /\ IF Len(buffer) = BufferLen THEN fault' = TRUE /\ UNCHANGED <<held, raised, handling, buffer>>
     ELSE Drained /\ handling' = TRUE /\ buffer' = Stored(held) /\ UNCHANGED fault
  /\ UNCHANGED <<typed, line>>

Clear ==
  /\ handling /\ handling' = FALSE /\ raised' = FALSE
  /\ UNCHANGED <<typed, held, buffer, line, fault>>

Handler == Receive \/ Clear

-----------------------------------------------------------------------------
(* read(STDIN, x, n) with the test against bufferIndex - 1 for emptiness.  *)
Count_Last(n) == IF Len(buffer) - 1 < n THEN Len(buffer) - 1 ELSE n

(* How many characters read(STDIN, x, n) stores at x.                      *)
Count(n) == IF Len(buffer) - 1 < n THEN Len(buffer) ELSE n

(* What it leaves, moved to the beginning.                                 *)
Rest(n) == SubSeq(buffer, Count(n) + 1, Len(buffer))

Ended(p) == line[p] # << >> /\ Last(line[p]) \in Returns

(* One round of read_write_line.  Nothing happens while nothing is there.  *)
ReadCharacter(p) ==
  /\ ~ handling /\ ~ Ended(p) /\ Count(1) > 0
  /\ buffer' = Rest(1)
  /\ line' = [line EXCEPT ![p] = @ \o SubSeq(buffer, 1, Count(1))]
  /\ UNCHANGED <<typed, held, raised, handling, fault>>

(* The shell's command, and its next prompt.                               *)
Obey(p) ==
  /\ ~ handling /\ Ended(p)
  /\ line' = [line EXCEPT ![p] = << >>]
  /\ UNCHANGED <<typed, held, raised, handling, buffer, fault>>

Shell(p) == ReadCharacter(p) \/ Obey(p)

Program == \E n \in Lengths :
  /\ ~ handling /\ Count(n) > 0
  /\ buffer' = Rest(n)
  /\ UNCHANGED <<typed, held, raised, handling, line, fault>>

Next == ~ fault /\ (Arrive \/ Handler \/ Program \/ \E p \in Shells : Shell(p))

(* The processor takes an interrupt that is raised; of all the shells, one *)
(* always gets to run on: the one in slot 0 does (RoundRobin,              *)
(* ShellAlwaysReturns; PriorityScheduler, EveryProcessIsServed).           *)
Spec == /\ Init /\ [][Next]_vars
        /\ WF_vars(~ fault /\ Handler)
        /\ WF_vars(~ fault /\ \E p \in Shells : Shell(p))

-----------------------------------------------------------------------------
(* The characters that are on their way are read once and in the order in  *)
(* which they were typed, however arrivals, interrupts and several readers *)
(* interleave (kernel.c: the buffer filled behind bufferIndex and shifted  *)
(* by the read).                                                           *)
Typing == INSTANCE Keyboard WITH Characters <- 1 .. MaxTyped, unread <- buffer \o held
ReadsWhatWasTyped == Typing!Spec

(* Nobody will come for the character in the register: its interrupt has   *)
(* been cleared together with that of the one before it.                   *)
Stuck == held # << >> /\ ~ raised /\ ~ handling

(* A character typed is read in the end, unless the receiver gets stuck or *)
(* the buffer overflows first; so these are the only ways to lose input.   *)
InputIsRead == \A c \in 1 .. MaxTyped :
  c <= typed ~> (c \notin ToSet(buffer \o held) \/ (Stuck /\ held = <<c>>) \/ fault)
=============================================================================
