----------------------------- MODULE ConsoleProofs -----------------------------
(***************************************************************************)
(* Proofs about Console for every number of shells, every buffer length    *)
(* and any mix of readers: the characters on their way, in the receiver    *)
(* and in the buffer, are those typed last and not yet read, in the order  *)
(* in which they were typed, and they are read once and in that order.     *)
(***************************************************************************)
EXTENDS Console, SequenceTheorems, TLAPS

Typeable == 1 .. MaxTyped

(* What the receiver and the buffer hold.                                  *)
Unread == buffer \o held

TypeOK ==
  /\ typed \in 0 .. MaxTyped
  /\ held \in Seq(Typeable) /\ Len(held) <= 1
  /\ buffer \in Seq(Typeable)
  /\ line \in [Shells -> Seq(Typeable)]
  /\ raised \in BOOLEAN /\ handling \in BOOLEAN /\ fault \in BOOLEAN

-----------------------------------------------------------------------------
(* What is left of a sequence is a part of it, and so is what is left when *)
(* something stands behind it.                                             *)
LEMMA RestOfConcat ==
  ASSUME NEW S, NEW b \in Seq(S), NEW h \in Seq(S), NEW k \in 0 .. Len(b)
  PROVE  /\ SubSeq(b, k + 1, Len(b)) \in Seq(S)
         /\ SubSeq(b, k + 1, Len(b)) \o h = SubSeq(b \o h, k + 1, Len(b \o h))
<1> DEFINE r == SubSeq(b, k + 1, Len(b))
           all == SubSeq(b \o h, k + 1, Len(b \o h))
<1>1. Len(b) \in Nat /\ Len(h) \in Nat
  BY LenProperties
<1>2. \A i \in k + 1 .. Len(b) : b[i] \in S
  BY <1>1, ElementOfSeq
<1>3. /\ r \in Seq(S) /\ Len(r) = Len(b) - k
      /\ \A i \in 1 .. Len(b) - k : r[i] = b[k + i]
  <2>1. /\ r \in Seq(S)
        /\ Len(r) = IF k + 1 <= Len(b) THEN Len(b) - (k + 1) + 1 ELSE 0
        /\ \A i \in 1 .. Len(b) - (k + 1) + 1 : r[i] = b[k + 1 + i - 1]
    BY <1>1, <1>2, SubSeqProperties
  <2> HIDE DEF r
  <2>2. QED  BY <2>1, <1>1
<1>4. /\ b \o h \in Seq(S) /\ Len(b \o h) = Len(b) + Len(h)
      /\ \A i \in 1 .. Len(b) + Len(h) :
           (b \o h)[i] = IF i <= Len(b) THEN b[i] ELSE h[i - Len(b)]
  BY ConcatProperties
<1>5. /\ all \in Seq(S) /\ Len(all) = Len(b) + Len(h) - k
      /\ \A i \in 1 .. Len(b) + Len(h) - k : all[i] = (b \o h)[k + i]
  <2>0. \A i \in k + 1 .. Len(b \o h) : (b \o h)[i] \in S
    BY <1>1, <1>4, ElementOfSeq
  <2>1. /\ all \in Seq(S)
        /\ Len(all) = IF k + 1 <= Len(b \o h) THEN Len(b \o h) - (k + 1) + 1 ELSE 0
        /\ \A i \in 1 .. Len(b \o h) - (k + 1) + 1 : all[i] = (b \o h)[k + 1 + i - 1]
    BY <1>1, <1>4, <2>0, SubSeqProperties
  <2> HIDE DEF all
  <2>2. Len(all) = Len(b) + Len(h) - k
    BY <2>1, <1>1, <1>4
  <2>3. ASSUME NEW i \in 1 .. Len(b) + Len(h) - k PROVE all[i] = (b \o h)[k + i]
    <3>1. i \in 1 .. Len(b \o h) - (k + 1) + 1 /\ k + 1 + i - 1 = k + i
      BY <1>1, <1>4
    <3>2. QED  BY <2>1, <3>1
  <2>4. QED  BY <2>1, <2>2, <2>3
<1> HIDE DEF r, all
<1>6. /\ r \o h \in Seq(S) /\ Len(r \o h) = Len(r) + Len(h)
      /\ \A i \in 1 .. Len(r) + Len(h) :
           (r \o h)[i] = IF i <= Len(r) THEN r[i] ELSE h[i - Len(r)]
  BY <1>3, ConcatProperties
<1>7. Len(r \o h) = Len(all)
  BY <1>1, <1>3, <1>5, <1>6
<1>8. ASSUME NEW i \in 1 .. Len(r \o h) PROVE (r \o h)[i] = all[i]
  <2>1. CASE i <= Len(r)
    <3>1. /\ i \in 1 .. Len(b) - k /\ i \in 1 .. Len(r) + Len(h)
          /\ i \in 1 .. Len(b) + Len(h) - k
          /\ k + i \in 1 .. Len(b) + Len(h) /\ k + i <= Len(b)
      BY <2>1, <1>1, <1>3, <1>6
    <3>2. all[i] = (b \o h)[k + i] /\ (b \o h)[k + i] = b[k + i]
      BY <3>1, <1>4, <1>5
    <3>3. (r \o h)[i] = r[i] /\ r[i] = b[k + i]
      BY <2>1, <3>1, <1>3, <1>6
    <3>4. QED  BY <3>2, <3>3
  <2>2. CASE i > Len(r)
    <3>1. /\ i \in 1 .. Len(r) + Len(h) /\ i \in 1 .. Len(b) + Len(h) - k
          /\ k + i \in 1 .. Len(b) + Len(h) /\ ~ (k + i <= Len(b)) /\ ~ (i <= Len(r))
          /\ k + i - Len(b) = i - Len(r)
      BY <2>2, <1>1, <1>3, <1>6
    <3>2. all[i] = (b \o h)[k + i] /\ (b \o h)[k + i] = h[k + i - Len(b)]
      BY <3>1, <1>4, <1>5
    <3>3. (r \o h)[i] = h[i - Len(r)]
      BY <3>1, <1>6
    <3>4. QED  BY <3>1, <3>2, <3>3
  <2>3. QED  BY <2>1, <2>2, <1>1, <1>3, <1>6
<1>9. r \o h = all
  BY <1>5, <1>6, <1>7, <1>8, SeqEqual
<1>10. QED  BY <1>3, <1>9 DEF r, all

(* A read takes no more than there is, and at least what is asked for when *)
(* it takes anything.                                                      *)
LEMMA CountIsThere ==
  ASSUME TypeOK, NEW n \in Nat \ {0}
  PROVE  Count(n) \in 0 .. Len(buffer) /\ (Count(n) > 0 <=> buffer # << >>)
<1>1. Len(buffer) \in Nat /\ (buffer # << >> => Len(buffer) > 0)
  BY LenProperties, EmptySeq DEF TypeOK
<1>2. buffer = << >> => Len(buffer) = 0
  OBVIOUS
<1>3. QED  BY <1>1, <1>2 DEF Count

-----------------------------------------------------------------------------
LEMMA InitTypes == Init => TypeOK
<1> SUFFICES ASSUME Init PROVE TypeOK
  OBVIOUS
<1>1. << >> \in Seq(Typeable) /\ Len(<< >>) = 0
  BY EmptySeq
<1>2. MaxTyped \in Nat
  BY ConsoleAssumption
<1>3. typed \in 0 .. MaxTyped
  BY <1>2 DEF Init
<1>4. line \in [Shells -> Seq(Typeable)]
  BY <1>1 DEF Init
<1>5. held \in Seq(Typeable) /\ Len(held) <= 1 /\ buffer \in Seq(Typeable)
  BY <1>1 DEF Init
<1>6. raised \in BOOLEAN /\ handling \in BOOLEAN /\ fault \in BOOLEAN
  BY DEF Init
<1>7. QED  BY <1>3, <1>4, <1>5, <1>6 DEF TypeOK

(* A character that arrives.                                               *)
LEMMA NewCharacter ==
  ASSUME TypeOK, Arrive
  PROVE  /\ typed + 1 \in Typeable /\ typed' \in 0 .. MaxTyped
         /\ held' \in Seq(Typeable) /\ Len(held') <= 1
         /\ Unread' = Append(Unread, typed + 1)
<1>1. MaxTyped \in Nat
  BY ConsoleAssumption
<1>2. typed + 1 \in Typeable /\ typed' \in 0 .. MaxTyped /\ held' = <<typed + 1>>
  BY <1>1 DEF TypeOK, Arrive, Typeable
<1>3. held' \in Seq(Typeable) /\ Len(held') <= 1
  BY <1>2
<1>4. held = << >> /\ buffer' = buffer /\ buffer \in Seq(Typeable)
  BY DEF TypeOK, Arrive
<1>5. Unread = buffer
  BY <1>4, ConcatEmptySeq DEF Unread
<1>6. Append(buffer, typed + 1) = buffer \o <<typed + 1>>
  BY <1>2, <1>4, AppendIsConcat
<1>7. QED  BY <1>2, <1>3, <1>4, <1>5, <1>6 DEF Unread

(* The handler moves a character from the receiver to the buffer.          *)
LEMMA HandlerMoves ==
  ASSUME TypeOK, Handler
  PROVE  TypeOK' /\ Unread' = Unread /\ line' = line
<1>1. CASE Receive
  <2>1. CASE Len(buffer) = BufferLen
    BY <1>1, <2>1 DEF TypeOK, Receive, Unread
  <2>2. CASE Len(buffer) # BufferLen
    <3>1. /\ held' = << >> /\ buffer' = buffer \o held /\ handling' = TRUE /\ raised' = FALSE
          /\ fault' = fault /\ typed' = typed /\ line' = line
      BY <1>1, <2>2 DEF Receive, Drained, Stored
    <3>2. buffer' \in Seq(Typeable)
      BY <3>1, ConcatProperties DEF TypeOK
    <3>3. Unread' = Unread
      BY <3>1, <3>2, ConcatEmptySeq DEF Unread
    <3>4. held' \in Seq(Typeable) /\ Len(held') = 0
      BY <3>1, EmptySeq
    <3>5. raised' \in BOOLEAN /\ handling' \in BOOLEAN /\ fault' \in BOOLEAN
      BY <3>1 DEF TypeOK
    <3>6. typed' \in 0 .. MaxTyped /\ line' \in [Shells -> Seq(Typeable)]
      BY <3>1 DEF TypeOK
    <3>7. Len(held') <= 1
      BY <3>4
    <3>8. TypeOK'
      BY <3>2, <3>4, <3>5, <3>6, <3>7 DEF TypeOK
    <3>9. QED  BY <3>1, <3>3, <3>8
  <2>3. QED  BY <2>1, <2>2
<1>2. CASE Clear
  BY <1>2 DEF TypeOK, Clear, Unread
<1>3. QED  BY <1>1, <1>2 DEF Handler

(* A read of one character takes the oldest.                               *)
LEMMA ReadsOldest ==
  ASSUME TypeOK, NEW p \in Shells, ReadCharacter(p)
  PROVE  /\ TypeOK' /\ Unread # << >> /\ Unread' = Tail(Unread)
         /\ line' = [line EXCEPT ![p] = Append(@, Head(Unread))]
<1>1. Len(buffer) \in Nat /\ buffer \in Seq(Typeable) /\ held \in Seq(Typeable)
  BY LenProperties DEF TypeOK
<1>2. Count(1) \in 0 .. Len(buffer) /\ Count(1) > 0
  BY CountIsThere DEF ReadCharacter
<1>3. Count(1) = 1 /\ Len(buffer) > 0
  <2>1. Count(1) = IF Len(buffer) - 1 < 1 THEN Len(buffer) ELSE 1
    BY DEF Count
  <2>2. QED  BY <1>1, <1>2, <2>1
<1>4. Unread \in Seq(Typeable) /\ Len(Unread) = Len(buffer) + Len(held) /\ Unread[1] = buffer[1]
  <2>1. /\ Unread \in Seq(Typeable) /\ Len(Unread) = Len(buffer) + Len(held)
        /\ \A i \in 1 .. Len(buffer) + Len(held) :
             Unread[i] = IF i <= Len(buffer) THEN buffer[i] ELSE held[i - Len(buffer)]
    BY <1>1, ConcatProperties DEF Unread
  <2>2. Len(held) \in Nat
    BY <1>1, LenProperties
  <2>3. QED  BY <2>1, <2>2, <1>1, <1>3
<1>5. Unread # << >>
  <2>1. Len(held) \in Nat
    BY <1>1, LenProperties
  <2>2. Len(Unread) # 0
    BY <2>1, <1>1, <1>3, <1>4
  <2>3. QED  BY <2>2, EmptySeq
<1>6. buffer' \in Seq(Typeable) /\ Unread' = Tail(Unread)
  <2>1. buffer' = SubSeq(buffer, 1 + 1, Len(buffer)) /\ held' = held /\ 1 \in 0 .. Len(buffer)
    BY <1>1, <1>3 DEF ReadCharacter, Rest
  <2>2. /\ buffer' \in Seq(Typeable)
        /\ buffer' \o held = SubSeq(Unread, 1 + 1, Len(Unread))
    BY <1>1, <2>1, RestOfConcat DEF Unread
  <2>3. Tail(Unread) = SubSeq(Unread, 2, Len(Unread))
    BY <1>4, <1>5, TailIsSubSeq
  <2>4. QED  BY <2>1, <2>2, <2>3 DEF Unread
<1>7. /\ line' = [line EXCEPT ![p] = Append(@, Head(Unread))]
      /\ line' \in [Shells -> Seq(Typeable)]
  <2>1. line' = [line EXCEPT ![p] = @ \o SubSeq(buffer, 1, 1)]
    BY <1>3 DEF ReadCharacter
  <2>2. SubSeq(buffer, 1, 1) = <<buffer[1]>>
    <3>1. 1 \in 1 .. Len(buffer) /\ 1 \in 1 .. 1
      BY <1>1, <1>3
    <3>2. SubSeq(buffer, 1, 1) = <<buffer[1]>> \o SubSeq(buffer, 2, 1)
      BY <1>1, <3>1, SubSeqRecursiveFirst
    <3>3. SubSeq(buffer, 2, 1) = << >> /\ <<buffer[1]>> \in Seq({buffer[1]})
      BY SubSeqEmpty
    <3>4. QED  BY <3>2, <3>3, ConcatEmptySeq
  <2>3. Head(Unread) = buffer[1] /\ buffer[1] \in Typeable
    BY <1>1, <1>3, <1>4, <1>5, ElementOfSeq
  <2>4. line[p] \in Seq(Typeable)
    BY DEF TypeOK
  <2>5. Append(line[p], buffer[1]) = line[p] \o <<buffer[1]>> /\ Append(line[p], buffer[1]) \in Seq(Typeable)
    BY <2>3, <2>4, AppendIsConcat, AppendProperties
  <2>6. QED  BY <2>1, <2>2, <2>3, <2>5 DEF TypeOK
<1>8. QED  BY <1>5, <1>6, <1>7 DEF ReadCharacter, TypeOK

(* A program takes some of the characters that are there, oldest first.    *)
LEMMA ProgramTakes ==
  ASSUME TypeOK, Program
  PROVE  /\ TypeOK' /\ line' = line
         /\ \E k \in 1 .. Len(Unread) : Unread' = SubSeq(Unread, k + 1, Len(Unread))
<1>1. PICK n \in Lengths : /\ Count(n) > 0 /\ buffer' = Rest(n)
                           /\ UNCHANGED <<typed, held, raised, handling, line, fault>>
  BY DEF Program
<1>2. n \in Nat \ {0}
  BY ConsoleAssumption
<1>3. /\ Len(buffer) \in Nat /\ buffer \in Seq(Typeable)
      /\ Len(held) \in Nat /\ held \in Seq(Typeable)
  BY LenProperties DEF TypeOK
<1>4. Count(n) \in 0 .. Len(buffer)
  BY <1>2, CountIsThere
<1>5. /\ buffer' \in Seq(Typeable)
      /\ Unread' = SubSeq(Unread, Count(n) + 1, Len(Unread))
  BY <1>1, <1>3, <1>4, RestOfConcat DEF Rest, Unread
<1>6. Len(Unread) = Len(buffer) + Len(held)
  BY <1>3, ConcatProperties DEF Unread
<1>7. Count(n) \in 1 .. Len(Unread)
  BY <1>1, <1>3, <1>4, <1>6
<1>8. QED  BY <1>1, <1>5, <1>7 DEF TypeOK

(* A shell is done with its line.                                          *)
LEMMA ObeyEmpties ==
  ASSUME TypeOK, NEW p \in Shells, Obey(p)
  PROVE  TypeOK' /\ Unread' = Unread
<1>1. << >> \in Seq(Typeable)
  BY EmptySeq
<1>2. line' \in [Shells -> Seq(Typeable)]
  BY <1>1 DEF Obey, TypeOK
<1>3. QED  BY <1>2 DEF Obey, TypeOK, Unread

-----------------------------------------------------------------------------
LEMMA StepTypes == TypeOK /\ [Next]_vars => TypeOK'
<1> SUFFICES ASSUME TypeOK, [Next]_vars PROVE TypeOK'
  OBVIOUS
<1>1. CASE Arrive
  BY <1>1, NewCharacter DEF Arrive, TypeOK
<1>2. CASE Handler
  BY <1>2, HandlerMoves
<1>3. CASE Program
  BY <1>3, ProgramTakes
<1>4. ASSUME NEW p \in Shells, Shell(p) PROVE TypeOK'
  BY <1>4, ReadsOldest, ObeyEmpties DEF Shell
<1>5. CASE UNCHANGED vars
  BY <1>5 DEF vars, TypeOK
<1>6. QED  BY <1>1, <1>2, <1>3, <1>4, <1>5 DEF Next

(* Every step types a character, reads the oldest, or moves one.           *)
LEMMA StepTyping == TypeOK /\ [Next]_vars => [Typing!Next]_<<Unread, line>>
<1> SUFFICES ASSUME TypeOK, [Next]_vars PROVE Typing!Next \/ UNCHANGED <<Unread, line>>
  OBVIOUS
<1>1. CASE Arrive
  <2>1. Typing!Type
    BY <1>1, NewCharacter DEF Typing!Type, Arrive, Unread, Typeable
  <2>2. QED  BY <2>1 DEF Typing!Next
<1>2. CASE Handler
  BY <1>2, HandlerMoves
<1>3. CASE Program
  <2>1. Typing!Take
    BY <1>3, ProgramTakes DEF Typing!Take, Unread
  <2>2. QED  BY <2>1 DEF Typing!Next
<1>4. ASSUME NEW p \in Shells, Shell(p) PROVE Typing!Next
  <2>1. CASE ReadCharacter(p)
    <3>1. Typing!Read(p)
      BY <2>1, ReadsOldest DEF Typing!Read, Unread
    <3>2. QED  BY <3>1 DEF Typing!Next
  <2>2. CASE Obey(p)
    <3>1. Typing!Obey(p)
      BY <2>2, ObeyEmpties DEF Typing!Obey, Obey, Unread
    <3>2. QED  BY <3>1 DEF Typing!Next
  <2>3. QED  BY <1>4, <2>1, <2>2 DEF Shell
<1>5. CASE UNCHANGED vars
  BY <1>5 DEF vars, Unread
<1>6. QED  BY <1>1, <1>2, <1>3, <1>4, <1>5 DEF Next

LEMMA InitTyping == Init => Typing!Init
<1> SUFFICES ASSUME Init PROVE Typing!Init
  OBVIOUS
<1>1. << >> \in Seq(Typeable)
  BY EmptySeq
<1>2. buffer \o held = << >>
  BY <1>1, ConcatEmptySeq DEF Init
<1>3. QED  BY <1>2 DEF Init, Typing!Init

(* Receiver, buffer and lines hold what they may hold.                     *)
THEOREM TypeCorrect == Spec => []TypeOK
BY InitTypes, StepTypes, PTL DEF Spec

(* The characters typed are read once and in the order in which they were  *)
(* typed, whoever reads them and however arrivals, interrupts and readers  *)
(* interleave (kernel.c, the buffer filled behind bufferIndex and shifted  *)
(* by read).                                                               *)
THEOREM TypedIsRead == Spec => ReadsWhatWasTyped
<1>1. Spec => []TypeOK
  BY TypeCorrect
<1>2. Init => Typing!Init
  BY InitTyping
<1>3. TypeOK /\ [Next]_vars => [Typing!Next]_<<Unread, line>>
  BY StepTyping
<1>4. Init /\ [][Next]_vars /\ []TypeOK => Typing!Init /\ [][Typing!Next]_<<Unread, line>>
  BY <1>2, <1>3, PTL
<1>5. Spec => Typing!Init /\ [][Typing!Next]_<<Unread, line>>
  BY <1>1, <1>4, PTL DEF Spec
<1>6. QED  BY <1>5 DEF ReadsWhatWasTyped, Typing!Spec, Unread
=============================================================================
