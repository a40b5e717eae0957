--------------------------------- MODULE Disk ---------------------------------
(***************************************************************************)
(* The disk driver (device/disk.c), the disk server (device/disk.py) and   *)
(* the serial line between them.  Both sides write and read lines, token   *)
(* by token: a token is a byte, an address or a number in hexadecimal, a   *)
(* separator or the end of the line.  The line can damage the first token  *)
(* of a request and of the answer to a write, which is what the driver's   *)
(* tries are good for.  Damage elsewhere passes unnoticed: there is no     *)
(* check sum, and a damaged answer to a read leaves its data on the line.  *)
(***************************************************************************)
EXTENDS Integers, Sequences

CONSTANTS
  BlockNum, BlockLen,   (* the server's arguments --block-num, --block-len  *)
  Bytes,                (* the bytes written                                *)
  MaxLen,               (* bound: the longest write, in bytes               *)
  RETRY,                (* the tries of a request                           *)
  Fifo,                 (* what the line holds in each direction            *)
  MaxDamage,            (* bound: damaged tokens per request                *)
  Idle

ASSUME DiskAssumption ==
  /\ {BlockNum, BlockLen, RETRY, Fifo, MaxLen} \subseteq Nat \ {0}
  /\ MaxDamage \in Nat /\ Bytes \subseteq Nat /\ 0 \in Bytes

CONF == 0
WR == 1
RD == 2
OKAY == 0
FAIL == 1
GARBLED == 3   (* neither a command nor OKAY *)
SP == -1
EOL == -2

(* Addresses run one past the disk: callers do not check them.             *)
Requests ==
  [kind : {"rd"}, a : 0 .. BlockNum, x : {<< >>}] \cup
  [kind : {"wr"}, a : 0 .. BlockNum, x : UNION {[1 .. n -> Bytes] : n \in 1 .. MaxLen}] \cup
  {[kind |-> "conf", a |-> 0, x |-> << >>]}

ASSUME IdleAssumption == Idle \notin Requests

VARIABLES
  call,     (* the request the driver works on, or Idle                     *)
  buffer,   (* the caller's x: << >> until disk_rd stores into it           *)
  tries,    (* i of the driver's loop, counted from 1                       *)
  phase,    (* "put", "command", "answer" or "skip": what it does next      *)
  out,      (* the tokens it has still to put                               *)
  got,      (* the tokens it has read after an OKAY                         *)
  to, from, (* what is on the line to and from the server                   *)
  req,      (* what the server has read of a line                           *)
  ack,      (* what it has still to write of an answer                      *)
  image,    (* the bytes of the disk image                                  *)
  damaged   (* how many tokens have been damaged since the call             *)

driver == <<call, buffer, tries, phase, out, got>>
server == <<req, ack, image>>
vars == <<driver, server, to, from, damaged>>

TypeOK ==
  /\ call \in Requests \cup {Idle}
  /\ tries \in 1 .. RETRY /\ phase \in {"put", "command", "answer", "skip"}
  /\ Len(to) <= Fifo /\ Len(from) <= Fifo
  /\ image \in [0 .. BlockNum * BlockLen - 1 -> Bytes]
  /\ damaged \in 0 .. MaxDamage

Init ==
  /\ call = Idle /\ buffer = << >> /\ tries = 1 /\ phase = "put"
  /\ out = << >> /\ got = << >> /\ to = << >> /\ from = << >> /\ req = << >> /\ ack = << >>
  /\ image = [b \in 0 .. BlockNum * BlockLen - 1 |-> 0]
  /\ damaged = 0

-----------------------------------------------------------------------------
(* disk_wr, disk_rd, and disk_get_block_num and _len, which ask the same.  *)
Line(r) == CASE r.kind = "conf" -> <<CONF, EOL>>
             [] r.kind = "rd" -> <<RD, SP, r.a, EOL>>
             [] r.kind = "wr" -> <<WR, SP, r.a, SP>> \o r.x \o <<EOL>>

(* What follows the OKAY: separator, data and EOL, or EOL alone.           *)
AnswerLen(r) == CASE r.kind = "conf" -> 4
                  [] r.kind = "rd" -> BlockLen + 2
                  [] r.kind = "wr" -> 1

(* The answer's data read without the separator in front of it.            *)
Data_NoSeparator(answer) == SubSeq(answer, 1, Len(answer) - 2)

Data(answer) == SubSeq(answer, 2, Len(answer) - 1)

Start == phase' = "put" /\ out' = Line(call') /\ got' = << >>

Call ==
  /\ call = Idle
  /\ call' \in Requests
  /\ Start /\ tries' = 1 /\ buffer' = << >> /\ damaged' = 0
  /\ UNCHANGED <<server, to, from>>

(* A token goes on the line, damaged if it is one that may be and there    *)
(* has not been too much damage.                                           *)
OnLine(line, token, exposed) ==
  \/ line' = Append(line, token) /\ UNCHANGED damaged
  \/ exposed /\ damaged < MaxDamage
     /\ line' = Append(line, GARBLED) /\ damaged' = damaged + 1

(* PL011_putc waits for room.                                              *)
Put ==
  /\ call # Idle /\ phase = "put" /\ Len(to) < Fifo
  /\ OnLine(to, Head(out), out = Line(call))
  /\ out' = Tail(out)
  /\ phase' = IF Len(out) = 1 THEN "command" ELSE "put"
  /\ UNCHANGED <<call, buffer, tries, got, server, from>>

(* PL011_getc waits for a character.                                       *)
Get(line) == line # << >> /\ line' = Tail(line)

GetCommand ==
  /\ phase = "command" /\ Get(from)
  /\ phase' = IF Head(from) = OKAY THEN "answer" ELSE "skip"
  /\ UNCHANGED <<call, buffer, tries, out, got, server, to, damaged>>

GetAnswer ==
  /\ phase = "answer" /\ Get(from)
  /\ LET answer == Append(got, Head(from))
     IN  IF Len(answer) < AnswerLen(call)
         THEN got' = answer /\ UNCHANGED <<call, buffer, phase>>
         ELSE /\ call' = Idle /\ phase' = "put" /\ got' = << >>
              /\ buffer' = IF call.kind = "wr" THEN buffer ELSE Data(answer)
  /\ UNCHANGED <<tries, out, server, to, damaged>>

(* One try too few, and one too many.                                      *)
Again_Early == tries < RETRY - 1
Again_Late == tries <= RETRY

(* The test of the loop over the tries.                                    *)
Again == tries < RETRY

(* The next try not counted.                                               *)
NextTry_Uncounted == tries

NextTry == tries + 1

(* The driver trying again at once, with the EOL still on the line.        *)
SkipEOL_Not == from # << >> /\ UNCHANGED from

SkipEOL == Get(from)

(* The answer was not OKAY: its EOL is read, and the next try begins or    *)
(* the driver returns, without a word to its caller.                       *)
GetFailure ==
  /\ phase = "skip" /\ SkipEOL
  /\ \/ Again /\ tries' = NextTry /\ call' = call /\ Start
     \/ ~ Again /\ call' = Idle /\ phase' = "put" /\ UNCHANGED <<tries, out, got>>
  /\ UNCHANGED <<buffer, server, to, damaged>>

-----------------------------------------------------------------------------
(* The server: req[ 1 ] and req[ 2 ] of a line split at its separators.    *)
Address(line) == line[3]
Payload(line) == SubSeq(line, 5, Len(line))

Granted(line) == line[1] = CONF \/ (line[1] \in {RD, WR} /\ Address(line) < BlockNum)

(* What conf, rd and wr return when they do not fail.                      *)
Okay(line) ==
  CASE line[1] = CONF -> <<OKAY, SP, BlockNum, BlockLen, EOL>>
    [] line[1] = RD -> <<OKAY, SP>>
         \o [i \in 1 .. BlockLen |-> image[Address(line) * BlockLen + i - 1]] \o <<EOL>>
    [] line[1] = WR -> <<OKAY, EOL>>

Answer(line) == IF Granted(line) THEN Okay(line) ELSE <<FAIL, EOL>>

(* wr stores all the bytes it was sent, however many blocks they reach     *)
(* into.  (What would lie beyond the last block cannot be read back.)      *)
Image(line) ==
  LET start == Address(line) * BlockLen
  IN  IF line[1] # WR \/ ~ Granted(line) THEN image
      ELSE [b \in DOMAIN image |-> IF b - start + 1 \in DOMAIN Payload(line)
                                   THEN Payload(line)[b - start + 1] ELSE image[b]]

ReadToken ==
  /\ ack = << >> /\ Get(to) /\ Head(to) # EOL
  /\ req' = Append(req, Head(to))
  /\ UNCHANGED <<driver, ack, image, from, damaged>>

Serve ==
  /\ ack = << >> /\ Get(to) /\ Head(to) = EOL
  /\ req' = << >> /\ ack' = Answer(req) /\ image' = Image(req)
  /\ UNCHANGED <<driver, from, damaged>>

WriteToken ==
  /\ ack # << >> /\ Len(from) < Fifo
  /\ OnLine(from, Head(ack), call.kind = "wr" /\ Len(ack) = 2)
  /\ ack' = Tail(ack)
  /\ UNCHANGED <<driver, req, image, to>>

Driver == Put \/ GetCommand \/ GetAnswer \/ GetFailure
Server == ReadToken \/ Serve \/ WriteToken

Next == Call \/ Driver \/ Server

(* The driver polls, the server loops: neither stops while it can go on.   *)
(* Nothing is assumed of callers or of damage.                             *)
Spec == Init /\ [][Next]_vars /\ WF_vars(Driver) /\ WF_vars(Server)

-----------------------------------------------------------------------------
(* Between requests nothing is left on the line or in the server: the next *)
(* answer read is the answer to the next request (disk.c:88 to 94, the EOL *)
(* read also after a failure).                                             *)
LinesAreDrained == call = Idle => <<to, from, req, ack>> = << << >>, << >>, << >>, << >> >>

Return == call # Idle /\ call' = Idle

(* A write takes effect between its call and its return, never later, also *)
(* when it is tried again; a read brings the block as it is or nothing.    *)
Blocks == INSTANCE BlockStore
ServesBlocks == Blocks!Spec

(* The tries are worth their while: unless every one of them was damaged,  *)
(* a request for a block of the disk has been carried out when it returns. *)
TriesMaskDamage ==
  [][Return /\ damaged < RETRY /\ call.a < BlockNum =>
       /\ call.kind = "rd" => buffer' # << >>
       /\ call.kind = "wr" => image = Blocks!Written(call.a, call.x)]_vars

(* Every request returns, whatever its address and the damage to it.       *)
RequestsEnd == call # Idle ~> call = Idle
=============================================================================
