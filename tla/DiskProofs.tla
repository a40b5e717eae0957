------------------------------ MODULE DiskProofs ------------------------------
(***************************************************************************)
(* The serial line between driver and server keeps in step whatever the    *)
(* line damages: proofs, for every size of disk, line, write and number of *)
(* tries, of the properties of Disk.tla.  The inductive invariant names    *)
(* the stages a try goes through and says, in each, which tokens are left  *)
(* where: a token that moves from one end to the other leaves the whole,   *)
(* read from the reader's end to the writer's, as it is.                   *)
(***************************************************************************)
EXTENDS Disk, SequenceTheorems, TLAPS

Tokens == Seq(Int)

Drained == <<to, from, req, ack>> = << << >>, << >>, << >>, << >> >>

(* A request as it may reach the server.                                   *)
Garbled(line) == [line EXCEPT ![1] = GARBLED]
Lines(r) == {Line(r), Garbled(Line(r))}

(* What follows OKAY in the answer to r.                                   *)
Rest(r) == CASE r.kind = "conf" -> <<SP, BlockNum, BlockLen, EOL>>
             [] r.kind = "rd" -> <<SP>> \o Blocks!Content(r.a) \o <<EOL>>
             [] r.kind = "wr" -> <<EOL>>

Failures == {<<FAIL, EOL>>, <<GARBLED, EOL>>}

(* The request has been served, or the try cost a damaged token.           *)
Served == call.a < BlockNum /\ (call.kind = "wr" => image = Blocks!Written(call.a, call.x))
Damaged == call.a < BlockNum => damaged >= tries

(* The stages of a try.                                                    *)
Resting == call = Idle /\ Drained /\ phase = "put" /\ out = << >> /\ got = << >>

Asking ==
  /\ call # Idle /\ from = << >> /\ ack = << >> /\ got = << >>
  /\ phase = IF out = << >> THEN "command" ELSE "put"
  /\ Len(req) < Len(Line(call))
  /\ \/ req \o (to \o out) = Line(call)
     \/ req \o (to \o out) = Garbled(Line(call)) /\ Damaged

Answering ==
  /\ call # Idle /\ to = << >> /\ req = << >> /\ out = << >>
  /\ \/ phase = "command" /\ got = << >> /\ Served /\ from \o ack = <<OKAY>> \o Rest(call)
     \/ phase = "command" /\ got = << >> /\ from \o ack \in Failures /\ Damaged
     \/ phase = "answer" /\ Served /\ got \o (from \o ack) = Rest(call) /\ Len(got) < AnswerLen(call)
     \/ phase = "skip" /\ got = << >> /\ from \o ack = <<EOL>> /\ Damaged

Typed ==
  /\ TypeOK
  /\ {to, from, req, ack, out, got} \subseteq Tokens

IInv ==
  /\ Typed
  /\ call # Idle /\ call.a < BlockNum => damaged >= tries - 1
  /\ Resting \/ Asking \/ Answering

-----------------------------------------------------------------------------
(* Sequences of tokens.                                                    *)

(* What the empty sequence and a last token add to a sequence.             *)
LEMMA Joined ==
  ASSUME NEW s \in Tokens, NEW t \in Tokens
  PROVE  /\ << >> \in Tokens /\ Len(<< >>) = 0
         /\ Len(s) \in Nat /\ (Len(s) = 0 <=> s = << >>)
         /\ << >> \o s = s /\ s \o << >> = s
         /\ s \o t \in Tokens /\ Len(s \o t) = Len(s) + Len(t)
         /\ \A i \in 1 .. Len(s) + Len(t) :
              (s \o t)[i] = IF i <= Len(s) THEN s[i] ELSE t[i - Len(s)]
<1>1. << >> \in Tokens /\ Len(<< >>) = 0
  BY EmptySeq DEF Tokens
<1>2. Len(s) \in Nat /\ (Len(s) = 0 <=> s = << >>)
  BY LenProperties, EmptySeq DEF Tokens
<1>3. << >> \o s = s /\ s \o << >> = s
  BY ConcatEmptySeq DEF Tokens
<1> QED BY <1>1, <1>2, <1>3, ConcatProperties DEF Tokens

(* A token moved from the head of t to the end of s: together s and t hold *)
(* what they held.                                                         *)
LEMMA Moved ==
  ASSUME NEW s \in Tokens, NEW t \in Tokens, t # << >>
  PROVE  /\ Head(t) \in Int /\ Tail(t) \in Tokens /\ Len(Tail(t)) = Len(t) - 1
         /\ Append(s, Head(t)) \in Tokens /\ Len(Append(s, Head(t))) = Len(s) + 1
         /\ Append(s, Head(t)) \o Tail(t) = s \o t
<1> DEFINE h == Append(s, Head(t))
<1>1. /\ Head(t) \in Int /\ Tail(t) \in Tokens /\ Len(Tail(t)) = Len(t) - 1
      /\ \A i \in 1 .. Len(Tail(t)) : Tail(t)[i] = t[i + 1]
  BY HeadTailProperties DEF Tokens
<1>2. /\ h \in Tokens /\ Len(h) = Len(s) + 1
      /\ \A i \in 1 .. Len(s) : h[i] = s[i]
      /\ h[Len(s) + 1] = Head(t)
  BY <1>1, AppendProperties DEF Tokens
<1>3. Len(s) \in Nat /\ Len(t) \in Nat \ {0}
  BY LenProperties, EmptySeq DEF Tokens
<1>4. Head(t) = t[1]
  BY DEF Tokens
<1> HIDE DEF h
<1>5. /\ h \o Tail(t) \in Tokens /\ Len(h \o Tail(t)) = Len(h) + Len(Tail(t))
      /\ \A i \in 1 .. Len(h) + Len(Tail(t)) :
           (h \o Tail(t))[i] = IF i <= Len(h) THEN h[i] ELSE Tail(t)[i - Len(h)]
  BY <1>1, <1>2, Joined
<1>6. /\ s \o t \in Tokens /\ Len(s \o t) = Len(s) + Len(t)
      /\ \A i \in 1 .. Len(s) + Len(t) :
           (s \o t)[i] = IF i <= Len(s) THEN s[i] ELSE t[i - Len(s)]
  BY Joined
<1>7. \A i \in 1 .. Len(s) + Len(t) : (h \o Tail(t))[i] = (s \o t)[i]
  BY <1>1, <1>2, <1>3, <1>4, <1>5, <1>6
<1>8. Len(h \o Tail(t)) = Len(s) + Len(t)
  BY <1>1, <1>2, <1>3, <1>5
<1>9. h \o Tail(t) = s \o t
  <2> DEFINE u == h \o Tail(t)
             v == s \o t
  <2>1. u \in Tokens /\ v \in Tokens /\ Len(u) = Len(v)
    BY <1>5, <1>6, <1>8
  <2>2. \A i \in 1 .. Len(u) : u[i] = v[i]
    BY <1>7, <1>8
  <2> HIDE DEF u, v
  <2>3. u = v
    BY <2>1, <2>2, SeqEqual DEF Tokens
  <2> QED BY <2>3 DEF u, v
<1> QED BY <1>1, <1>2, <1>9 DEF h

LEMMA Grouped ==
  ASSUME NEW s \in Tokens, NEW t \in Tokens, NEW u \in Tokens
  PROVE  (s \o t) \o u = s \o (t \o u)
  BY ConcatAssociative DEF Tokens

(* A text x between a head h and a last token e.                           *)
LEMMA Framed ==
  ASSUME NEW h \in Tokens, NEW x \in Tokens, NEW e \in Int
  PROVE  /\ (h \o x) \o <<e>> \in Tokens /\ Len((h \o x) \o <<e>>) = Len(h) + Len(x) + 1
         /\ \A i \in 1 .. Len(h) : ((h \o x) \o <<e>>)[i] = h[i]
         /\ \A i \in 1 .. Len(x) : ((h \o x) \o <<e>>)[Len(h) + i] = x[i]
         /\ ((h \o x) \o <<e>>)[Len(h) + Len(x) + 1] = e
<1> DEFINE u == h \o x
           v == <<e>>
           m == u \o v
<1>1. Len(h) \in Nat /\ Len(x) \in Nat
  BY Joined
<1>2. /\ u \in Tokens /\ Len(u) = Len(h) + Len(x)
      /\ \A i \in 1 .. Len(h) + Len(x) : u[i] = IF i <= Len(h) THEN h[i] ELSE x[i - Len(h)]
  BY Joined
<1>3. v \in Tokens /\ Len(v) = 1 /\ v[1] = e
  BY DEF Tokens
<1> HIDE DEF u, v
<1>5. /\ m \in Tokens /\ Len(m) = Len(u) + Len(v)
      /\ \A i \in 1 .. Len(u) + Len(v) : m[i] = IF i <= Len(u) THEN u[i] ELSE v[i - Len(u)]
  <2>1. u \in Tokens /\ v \in Tokens
    BY <1>2, <1>3
  <2>2. /\ u \o v \in Tokens /\ Len(u \o v) = Len(u) + Len(v)
        /\ \A i \in 1 .. Len(u) + Len(v) : (u \o v)[i] = IF i <= Len(u) THEN u[i] ELSE v[i - Len(u)]
    BY <2>1, Joined
  <2> QED BY <2>2
<1>6. Len(m) = Len(h) + Len(x) + 1
  BY <1>1, <1>2, <1>3, <1>5
<1> HIDE DEF m
<1>7. \A i \in 1 .. Len(h) + Len(x) : m[i] = u[i]
  BY <1>1, <1>2, <1>3, <1>5
<1>8. \A i \in 1 .. Len(h) : m[i] = h[i]
  BY <1>1, <1>2, <1>7
<1>9. ASSUME NEW i \in 1 .. Len(x) PROVE m[Len(h) + i] = x[i]
  <2>1. Len(h) + i \in 1 .. Len(h) + Len(x) /\ ~ (Len(h) + i <= Len(h)) /\ Len(h) + i - Len(h) = i
    BY <1>1
  <2>2. m[Len(h) + i] = u[Len(h) + i] /\ u[Len(h) + i] = x[Len(h) + i - Len(h)]
    BY <1>2, <1>7, <2>1
  <2> QED BY <2>1, <2>2
<1>10. m[Len(h) + Len(x) + 1] = e
  <2>1. LET j == Len(h) + Len(x) + 1
        IN  j \in 1 .. Len(u) + Len(v) /\ ~ (j <= Len(u)) /\ j - Len(u) = 1
    BY <1>1, <1>2, <1>3
  <2> QED BY <1>3, <1>5, <2>1
<1> QED BY <1>5, <1>6, <1>8, <1>9, <1>10 DEF m, u, v

LEMMA Same ==
  ASSUME NEW s \in Tokens, NEW t \in Tokens, Len(s) = Len(t), \A i \in 1 .. Len(s) : s[i] = t[i]
  PROVE  s = t
  BY SeqEqual DEF Tokens

(* A token before a sequence, and one after it.                            *)
LEMMA First ==
  ASSUME NEW e \in Int, NEW t \in Tokens
  PROVE  /\ <<e>> \o t \in Tokens /\ <<e>> \o t # << >> /\ Len(<<e>> \o t) = Len(t) + 1
         /\ (<<e>> \o t)[1] = e /\ \A i \in 1 .. Len(t) : (<<e>> \o t)[i + 1] = t[i]
         /\ Head(<<e>> \o t) = e /\ Tail(<<e>> \o t) = t
<1> DEFINE v == <<e>>
           u == v \o t
<1>1. v \in Tokens /\ Len(v) = 1 /\ v[1] = e /\ Len(t) \in Nat
  BY Joined DEF Tokens
<1> HIDE DEF v
<1>2. /\ u \in Tokens /\ Len(u) = Len(v) + Len(t)
      /\ \A i \in 1 .. Len(v) + Len(t) : u[i] = IF i <= Len(v) THEN v[i] ELSE t[i - Len(v)]
  BY <1>1, Joined
<1> HIDE DEF u
<1>3. Len(u) = Len(t) + 1 /\ u[1] = e
  BY <1>1, <1>2
<1>4. \A i \in 1 .. Len(t) : u[i + 1] = t[i]
  BY <1>1, <1>2
<1>5. u # << >> /\ Head(u) = e
  BY <1>1, <1>2, <1>3, Joined DEF Tokens
<1>6. /\ Tail(u) \in Tokens /\ Len(Tail(u)) = Len(u) - 1
      /\ \A i \in 1 .. Len(Tail(u)) : Tail(u)[i] = u[i + 1]
  BY <1>2, <1>5, HeadTailProperties DEF Tokens
<1>7. Len(Tail(u)) = Len(t) /\ \A i \in 1 .. Len(Tail(u)) : Tail(u)[i] = t[i]
  BY <1>1, <1>3, <1>4, <1>6
<1>8. Tail(u) = t
  BY <1>6, <1>7, Same
<1> QED BY <1>2, <1>3, <1>4, <1>5, <1>8 DEF u, v

LEMMA Last ==
  ASSUME NEW s \in Tokens, NEW e \in Int
  PROVE  /\ s \o <<e>> \in Tokens /\ Len(s \o <<e>>) = Len(s) + 1
         /\ \A i \in 1 .. Len(s) : (s \o <<e>>)[i] = s[i]
         /\ (s \o <<e>>)[Len(s) + 1] = e
         /\ Append(s, e) = s \o <<e>>
<1>1. /\ Append(s, e) \in Tokens /\ Len(Append(s, e)) = Len(s) + 1
      /\ \A i \in 1 .. Len(s) : Append(s, e)[i] = s[i]
      /\ Append(s, e)[Len(s) + 1] = e
  BY AppendProperties DEF Tokens
<1>2. Append(s, e) = s \o <<e>>
  BY AppendIsConcat DEF Tokens
<1> QED BY <1>1, <1>2

(* The answers' few tokens.                                                *)
LEMMA Few ==
  ASSUME NEW a \in Int, NEW b \in Int
  PROVE  <<a>> \in Tokens /\ <<a>> \o <<b>> = <<a, b>>
<1>1. <<a>> \in Tokens /\ <<b>> \in Tokens /\ <<a, b>> \in Tokens
  BY DEF Tokens
<1>2. <<a>> \o <<b>> = <<a, b>>
  <2> DEFINE t == <<b>>
             u == <<a>> \o t
             w == <<a, b>>
  <2>1. t \in Tokens /\ Len(t) = 1 /\ t[1] = b
    BY DEF Tokens
  <2>2. w \in Tokens /\ Len(w) = 2 /\ w[1] = a /\ w[2] = b
    BY DEF Tokens
  <2> HIDE DEF t, w
  <2>3. u \in Tokens /\ Len(u) = Len(t) + 1 /\ u[1] = a /\ \A i \in 1 .. Len(t) : u[i + 1] = t[i]
    BY <2>1, First
  <2> HIDE DEF u
  <2>4. Len(u) = Len(w) /\ u[2] = b /\ \A i \in 1 .. Len(u) : u[i] = w[i]
    BY <2>1, <2>2, <2>3
  <2>5. u = w
    BY <2>2, <2>3, <2>4, Same
  <2> QED BY <2>5 DEF t, u, w
<1> QED BY <1>1, <1>2

LEMMA Five ==
  ASSUME NEW a \in Int, NEW b \in Int, NEW c \in Int, NEW d \in Int, NEW e \in Int
  PROVE  <<a>> \o <<b, c, d, e>> = <<a, b, c, d, e>>
<1> DEFINE t == <<b, c, d, e>>
           u == <<a>> \o t
           w == <<a, b, c, d, e>>
<1>1. t \in Tokens /\ Len(t) = 4 /\ t[1] = b /\ t[2] = c /\ t[3] = d /\ t[4] = e
  BY DEF Tokens
<1>2. w \in Tokens /\ Len(w) = 5 /\ w[1] = a /\ w[2] = b /\ w[3] = c /\ w[4] = d /\ w[5] = e
  BY DEF Tokens
<1> HIDE DEF t, w
<1>3. u \in Tokens /\ Len(u) = Len(t) + 1 /\ u[1] = a /\ \A i \in 1 .. Len(t) : u[i + 1] = t[i]
  BY <1>1, First
<1> HIDE DEF u
<1>4. u[2] = b /\ u[3] = c /\ u[4] = d /\ u[5] = e
  BY <1>1, <1>3
<1>5. Len(u) = Len(w) /\ \A i \in 1 .. Len(u) : u[i] = w[i]
  BY <1>1, <1>2, <1>3, <1>4
<1>6. u = w
  BY <1>2, <1>3, <1>5, Same
<1> QED BY <1>6 DEF t, u, w

(* The head of a sequence is taken from its first part.                    *)
LEMMA Taken ==
  ASSUME NEW s \in Tokens, NEW t \in Tokens, s # << >>
  PROVE  /\ s \o t \in Tokens /\ s \o t # << >>
         /\ Head(s) \in Int /\ Tail(s) \in Tokens
         /\ Head(s \o t) = Head(s) /\ Tail(s \o t) = Tail(s) \o t
<1> DEFINE e == Head(s)
           r == Tail(s)
<1>1. e \in Int /\ r \in Tokens
  BY HeadTailProperties DEF Tokens
<1>2. s = <<e>> \o r
  <2>1. << >> \in Tokens /\ Append(<< >>, e) = <<e>>
    BY <1>1, Last, Joined
  <2>2. Append(<< >>, e) \o r = << >> \o s
    BY <2>1, Moved
  <2>3. << >> \o s = s
    BY Joined
  <2> QED BY <2>1, <2>2, <2>3
<1> HIDE DEF e, r
<1>3. s \o t = <<e>> \o (r \o t) /\ r \o t \in Tokens
  <2>1. <<e>> \in Tokens
    BY <1>1 DEF Tokens
  <2>2. (<<e>> \o r) \o t = <<e>> \o (r \o t)
    BY <1>1, <2>1, Grouped
  <2> QED BY <1>1, <1>2, <2>2, Joined
<1>4. /\ <<e>> \o (r \o t) \in Tokens /\ <<e>> \o (r \o t) # << >>
      /\ Head(<<e>> \o (r \o t)) = e /\ Tail(<<e>> \o (r \o t)) = r \o t
  BY <1>1, <1>3, First
<1> QED BY <1>1, <1>3, <1>4 DEF e, r

(* Nothing is left of two parts when nothing is left of the whole.         *)
LEMMA BothEmpty ==
  ASSUME NEW s \in Tokens, NEW t \in Tokens, Len(s \o t) = 0
  PROVE  s = << >> /\ t = << >>
<1>1. Len(s) \in Nat /\ Len(t) \in Nat /\ Len(s) + Len(t) = 0
  BY Joined
<1>2. Len(s) = 0 /\ Len(t) = 0
  BY <1>1
<1> QED BY <1>2, Joined

-----------------------------------------------------------------------------
(* Requests and their lines.                                               *)

LEMMA RequestType ==
  ASSUME NEW r \in Requests
  PROVE  /\ r.kind \in {"conf", "rd", "wr"} /\ r.a \in 0 .. BlockNum
         /\ r.kind = "conf" => r.a = 0
         /\ r.kind = "wr" => r.x \in Tokens /\ \A i \in 1 .. Len(r.x) : r.x[i] \in Bytes
<1>1. BlockNum \in Nat /\ Bytes \subseteq Int
  BY DiskAssumption
<1>2. CASE r \in [kind : {"rd"}, a : 0 .. BlockNum, x : {<< >>}]
  BY <1>1, <1>2
<1>3. CASE r \in [kind : {"wr"}, a : 0 .. BlockNum, x : UNION {[1 .. n -> Bytes] : n \in 1 .. MaxLen}]
  <2>1. r.kind = "wr" /\ r.a \in 0 .. BlockNum
    BY <1>3
  <2>2. PICK n \in 1 .. MaxLen : r.x \in [1 .. n -> Bytes]
    BY <1>3
  <2>3. MaxLen \in Nat
    BY DiskAssumption
  <2>4. n \in Nat /\ r.x \in Seq(Bytes) /\ Len(r.x) = n
    BY <2>2, <2>3
  <2>5. r.x \in Tokens
    BY <2>4, <1>1, SeqMonotonic DEF Tokens
  <2> QED BY <2>1, <2>2, <2>4, <2>5
<1>4. CASE r = [kind |-> "conf", a |-> 0, x |-> << >>]
  BY <1>1, <1>4
<1> QED BY <1>2, <1>3, <1>4 DEF Requests

(* A write's line, token by token.                                         *)
LEMMA WriteLine ==
  ASSUME NEW r \in Requests, r.kind = "wr"
  PROVE  /\ Line(r) \in Tokens /\ Len(Line(r)) = Len(r.x) + 5 /\ Len(r.x) \in Nat
         /\ Line(r)[1] = WR /\ Line(r)[2] = SP /\ Line(r)[3] = r.a /\ Line(r)[4] = SP
         /\ \A i \in 1 .. Len(r.x) : Line(r)[i + 4] = r.x[i]
         /\ Line(r)[Len(r.x) + 5] = EOL
<1> DEFINE h == <<WR, SP, r.a, SP>>
           l == Line(r)
<1>1. r.x \in Tokens /\ Len(r.x) \in Nat /\ r.a \in Int
  BY RequestType, Joined, DiskAssumption
<1>2. h \in Tokens /\ Len(h) = 4 /\ h[1] = WR /\ h[2] = SP /\ h[3] = r.a /\ h[4] = SP
  BY <1>1 DEF Tokens, WR, SP
<1>3. EOL \in Int
  BY DEF EOL
<1>4. l = (h \o r.x) \o <<EOL>>
  BY Zenon DEF Line
<1> HIDE DEF h, l
<1>5. /\ l \in Tokens /\ Len(l) = Len(h) + Len(r.x) + 1
      /\ \A i \in 1 .. Len(h) : l[i] = h[i]
      /\ \A i \in 1 .. Len(r.x) : l[Len(h) + i] = r.x[i]
      /\ l[Len(h) + Len(r.x) + 1] = EOL
  <2>1. h \in Tokens /\ r.x \in Tokens
    BY <1>1, <1>2
  <2>2. ASSUME NEW x, r.x = x, NEW e, EOL = e
        PROVE  /\ l \in Tokens /\ Len(l) = Len(h) + Len(x) + 1
               /\ \A i \in 1 .. Len(h) : l[i] = h[i]
               /\ \A i \in 1 .. Len(x) : l[Len(h) + i] = x[i]
               /\ l[Len(h) + Len(x) + 1] = e
    <3>1. x \in Tokens /\ e \in Int /\ l = (h \o x) \o <<e>>
      BY <2>1, <2>2, <1>3, <1>4
    <3>2. /\ (h \o x) \o <<e>> \in Tokens /\ Len((h \o x) \o <<e>>) = Len(h) + Len(x) + 1
          /\ \A i \in 1 .. Len(h) : ((h \o x) \o <<e>>)[i] = h[i]
          /\ \A i \in 1 .. Len(x) : ((h \o x) \o <<e>>)[Len(h) + i] = x[i]
          /\ ((h \o x) \o <<e>>)[Len(h) + Len(x) + 1] = e
      BY <2>1, <3>1, Framed
    <3> QED BY <3>1, <3>2
  <2> QED BY <2>2
<1>6. Len(l) = Len(r.x) + 5 /\ Len(h) + Len(r.x) + 1 = Len(r.x) + 5
  BY <1>1, <1>2, <1>5
<1>7. \A i \in 1 .. Len(r.x) : l[i + 4] = r.x[i]
  BY <1>1, <1>2, <1>5
<1>8. l[1] = WR /\ l[2] = SP /\ l[3] = r.a /\ l[4] = SP
  BY <1>2, <1>5
<1> QED BY <1>1, <1>5, <1>6, <1>7, <1>8 DEF l

(* A line ends with its only EOL.                                          *)
LEMMA LineEnds ==
  ASSUME NEW r \in Requests
  PROVE  /\ Line(r) \in Tokens /\ Len(Line(r)) \in Nat /\ Len(Line(r)) >= 2
         /\ Line(r)[1] \in {CONF, WR, RD}
         /\ \A i \in 1 .. Len(Line(r)) : Line(r)[i] = EOL <=> i = Len(Line(r))
<1>1. r.kind \in {"conf", "rd", "wr"} /\ r.a \in Nat
  BY RequestType, DiskAssumption
<1>2. CASE r.kind = "conf"
  BY <1>2 DEF Line, Tokens, CONF, EOL
<1>3. CASE r.kind = "rd"
  BY <1>1, <1>3 DEF Line, Tokens, RD, SP, EOL
<1>4. CASE r.kind = "wr"
  <2> DEFINE l == Line(r)
  <2>1. /\ l \in Tokens /\ Len(l) = Len(r.x) + 5 /\ Len(r.x) \in Nat
        /\ l[1] = WR /\ l[2] = SP /\ l[3] = r.a /\ l[4] = SP
        /\ \A i \in 1 .. Len(r.x) : l[i + 4] = r.x[i]
        /\ l[Len(r.x) + 5] = EOL
    BY <1>4, WriteLine
  <2>2. \A i \in 1 .. Len(r.x) : r.x[i] \in Nat
    BY <1>4, RequestType, DiskAssumption
  <2> HIDE DEF l
  <2>3. ASSUME NEW i \in 5 .. Len(r.x) + 4 PROVE l[i] # EOL
    <3>1. i - 4 \in 1 .. Len(r.x) /\ (i - 4) + 4 = i
      BY <2>1
    <3>2. l[i] = r.x[i - 4]
      BY <2>1, <3>1
    <3> QED BY <2>2, <3>1, <3>2 DEF EOL
  <2>4. ASSUME NEW i \in 1 .. 4 PROVE l[i] # EOL
    BY <1>1, <2>1 DEF WR, SP, EOL
  <2>5. \A i \in 1 .. Len(l) : l[i] = EOL <=> i = Len(l)
    BY <2>1, <2>3, <2>4
  <2>6. Len(l) >= 2
    BY <2>1
  <2> QED BY <2>1, <2>5, <2>6 DEF l
<1> QED BY <1>1, <1>2, <1>3, <1>4

LEMMA GarbledLine ==
  ASSUME NEW r \in Requests
  PROVE  /\ Garbled(Line(r)) \in Tokens /\ Len(Garbled(Line(r))) = Len(Line(r))
         /\ Garbled(Line(r))[1] = GARBLED
         /\ \A i \in 2 .. Len(Line(r)) : Garbled(Line(r))[i] = Line(r)[i]
  BY LineEnds, ExceptSeq DEF Garbled, GARBLED, Tokens

-----------------------------------------------------------------------------
(* The server's answers.                                                   *)

Stored == image \in [0 .. BlockNum * BlockLen - 1 -> Bytes]

LEMMA SizeTypes ==
  /\ BlockNum \in Nat \ {0} /\ BlockLen \in Nat \ {0} /\ RETRY \in Nat \ {0} /\ Fifo \in Nat \ {0}
  /\ MaxDamage \in Nat /\ Bytes \subseteq Int
  BY DiskAssumption

LEMMA ContentType ==
  ASSUME Stored, NEW a \in Nat, a < BlockNum
  PROVE  /\ Blocks!Content(a) \in Tokens /\ Len(Blocks!Content(a)) = BlockLen
         /\ \A i \in 1 .. BlockLen : Blocks!Content(a)[i] = image[a * BlockLen + i - 1]
<1>1. BlockNum \in Nat /\ BlockLen \in Nat /\ Bytes \subseteq Int
  BY SizeTypes
<1>2. a * BlockLen \in Nat /\ a * BlockLen + BlockLen <= BlockNum * BlockLen
  BY <1>1
<1>3. ASSUME NEW i \in 1 .. BlockLen PROVE a * BlockLen + i - 1 \in 0 .. BlockNum * BlockLen - 1
  BY <1>1, <1>2
<1>4. \A i \in 1 .. BlockLen : image[a * BlockLen + i - 1] \in Int
  BY <1>1, <1>3 DEF Stored
<1>5. Blocks!Content(a) = [i \in 1 .. BlockLen |-> image[a * BlockLen + i - 1]]
  BY DEF Blocks!Content
<1> QED BY <1>1, <1>4, <1>5 DEF Tokens

LEMMA RestType ==
  ASSUME Stored, NEW r \in Requests, r.a < BlockNum
  PROVE  Rest(r) \in Tokens /\ Len(Rest(r)) = AnswerLen(r) /\ Len(Rest(r)) >= 1
<1>1. r.kind \in {"conf", "rd", "wr"} /\ r.a \in Nat /\ BlockNum \in Int /\ BlockLen \in Nat \ {0}
  BY RequestType, SizeTypes
<1>2. CASE r.kind = "conf"
  <2>1. Rest(r) = <<SP, BlockNum, BlockLen, EOL>> /\ AnswerLen(r) = 4
    BY <1>2 DEF Rest, AnswerLen
  <2> QED BY <1>1, <2>1 DEF Tokens, SP, EOL
<1>3. CASE r.kind = "wr"
  <2>1. Rest(r) = <<EOL>> /\ AnswerLen(r) = 1
    BY <1>3 DEF Rest, AnswerLen
  <2> QED BY <2>1 DEF Tokens, EOL
<1>4. CASE r.kind = "rd"
  <2> DEFINE h == <<SP>>
             x == Blocks!Content(r.a)
  <2>1. Rest(r) = (h \o x) \o <<EOL>> /\ AnswerLen(r) = BlockLen + 2
    BY <1>4, Zenon DEF Rest, AnswerLen
  <2>2. x \in Tokens /\ Len(x) = BlockLen
    BY <1>1, ContentType
  <2>3. h \in Tokens /\ Len(h) = 1 /\ EOL \in Int
    BY DEF Tokens, SP, EOL
  <2> HIDE DEF h, x
  <2>4. (h \o x) \o <<EOL>> \in Tokens /\ Len((h \o x) \o <<EOL>>) = Len(h) + Len(x) + 1
    BY <2>2, <2>3, Framed
  <2> QED BY <1>1, <2>1, <2>2, <2>3, <2>4
<1> QED BY <1>1, <1>2, <1>3, <1>4

LEMMA OkayOf ==
  ASSUME NEW q
  PROVE  /\ q[1] = CONF => Okay(q) = <<OKAY, SP, BlockNum, BlockLen, EOL>>
         /\ q[1] = RD => Okay(q) = <<OKAY, SP>> \o Blocks!Content(Address(q)) \o <<EOL>>
         /\ q[1] = WR => Okay(q) = <<OKAY, EOL>>
<1>1. CONF # RD /\ CONF # WR /\ RD # WR
  BY DEF CONF, RD, WR
<1>2. q[1] = CONF => Okay(q) = <<OKAY, SP, BlockNum, BlockLen, EOL>>
  BY <1>1, Zenon DEF Okay
<1>3. q[1] = WR => Okay(q) = <<OKAY, EOL>>
  BY <1>1, Zenon DEF Okay
<1>4. q[1] = RD => Okay(q) = <<OKAY, SP>> \o Blocks!Content(Address(q)) \o <<EOL>>
  BY <1>1, Zenon DEF Okay, Blocks!Content
<1> QED BY <1>2, <1>3, <1>4

(* A whole line is answered; the address decides how.                      *)
LEMMA ServesLine ==
  ASSUME Stored, NEW r \in Requests, NEW q \in Tokens, q \o <<EOL>> = Line(r)
  PROVE  /\ r.a < BlockNum => Answer(q) = <<OKAY>> \o Rest(r)
         /\ ~ (r.a < BlockNum) => Answer(q) = <<FAIL, EOL>>
         /\ Image(q) = IF r.kind = "wr" /\ r.a < BlockNum THEN Blocks!Written(r.a, r.x) ELSE image
<1>1. r.kind \in {"conf", "rd", "wr"} /\ r.a \in Nat /\ BlockNum \in Nat \ {0} /\ BlockLen \in Nat \ {0}
  BY RequestType, SizeTypes
<1>2. /\ Len(q) \in Nat /\ Len(Line(r)) = Len(q) + 1
      /\ \A i \in 1 .. Len(q) : q[i] = Line(r)[i]
  <2>1. EOL \in Int
    BY DEF EOL
  <2>2. /\ Len(q \o <<EOL>>) = Len(q) + 1
        /\ \A i \in 1 .. Len(q) : (q \o <<EOL>>)[i] = q[i]
    BY <2>1, Last
  <2> QED BY <2>2, Joined
<1>3. CASE r.kind = "conf"
  <2>1. Line(r) = <<CONF, EOL>> /\ Rest(r) = <<SP, BlockNum, BlockLen, EOL>> /\ r.a = 0
    BY <1>3, RequestType DEF Line, Rest
  <2>2. q[1] = CONF
    BY <1>2, <2>1
  <2>3. Granted(q) /\ Image(q) = image /\ Okay(q) = <<OKAY, SP, BlockNum, BlockLen, EOL>>
    <3>1. Granted(q) /\ q[1] # WR
      BY <2>2 DEF Granted, CONF, WR
    <3>2. Okay(q) = <<OKAY, SP, BlockNum, BlockLen, EOL>>
      BY <2>2, OkayOf
    <3>3. Image(q) = image
      BY <3>1, Zenon DEF Image
    <3> QED BY <3>1, <3>2, <3>3
  <2>4. <<OKAY>> \o Rest(r) = <<OKAY, SP, BlockNum, BlockLen, EOL>>
    <3>1. OKAY \in Int /\ SP \in Int /\ EOL \in Int
      BY DEF OKAY, SP, EOL
    <3>2. <<OKAY>> \o <<SP, BlockNum, BlockLen, EOL>> = <<OKAY, SP, BlockNum, BlockLen, EOL>>
      BY <1>1, <3>1, Five
    <3> QED BY <2>1, <3>2
  <2> QED BY <1>1, <1>3, <2>1, <2>3, <2>4 DEF Answer
<1>4. CASE r.kind = "rd"
  <2>1. Line(r) = <<RD, SP, r.a, EOL>> /\ Rest(r) = <<SP>> \o Blocks!Content(r.a) \o <<EOL>>
    BY <1>4 DEF Line, Rest
  <2>2. q[1] = RD /\ q[3] = r.a
    BY <1>2, <2>1
  <2>3. (Granted(q) <=> r.a < BlockNum) /\ Image(q) = image
    BY <2>2 DEF Granted, Image, Address, CONF, WR, RD
  <2>4. Okay(q) = <<OKAY, SP>> \o Blocks!Content(r.a) \o <<EOL>>
    <3>1. Okay(q) = <<OKAY, SP>> \o Blocks!Content(Address(q)) \o <<EOL>>
      BY <2>2, OkayOf
    <3> QED BY <2>2, <3>1 DEF Address
  <2>5. ASSUME r.a < BlockNum PROVE Okay(q) = <<OKAY>> \o Rest(r)
    <3> DEFINE x == Blocks!Content(r.a)
    <3>1. x \in Tokens /\ <<OKAY>> \in Tokens /\ <<SP>> \in Tokens /\ <<EOL>> \in Tokens
      BY <1>1, <2>5, ContentType, Few DEF OKAY, SP, EOL
    <3>2. <<OKAY, SP>> = <<OKAY>> \o <<SP>>
      BY Few DEF OKAY, SP
    <3> HIDE DEF x
    <3>3. (<<OKAY>> \o <<SP>>) \o x = <<OKAY>> \o (<<SP>> \o x)
      BY <3>1, Grouped
    <3>5. <<SP>> \o x \in Tokens
      BY <3>1, Joined
    <3>4. (<<OKAY>> \o (<<SP>> \o x)) \o <<EOL>> = <<OKAY>> \o ((<<SP>> \o x) \o <<EOL>>)
      BY <3>1, <3>5, Grouped
    <3> QED BY <2>1, <2>4, <3>2, <3>3, <3>4 DEF x
  <2> QED BY <1>4, <2>3, <2>5 DEF Answer
<1>5. CASE r.kind = "wr"
  <2>1. /\ Len(Line(r)) = Len(r.x) + 5 /\ Len(r.x) \in Nat
        /\ Line(r)[1] = WR /\ Line(r)[3] = r.a
        /\ \A i \in 1 .. Len(r.x) : Line(r)[i + 4] = r.x[i]
    BY <1>5, WriteLine
  <2>2. Len(q) = Len(r.x) + 4 /\ q[1] = WR /\ q[3] = r.a /\ r.x \in Tokens
    BY <1>2, <1>5, <2>1, RequestType
  <2>3. \A i \in 1 .. Len(r.x) : q[i + 4] = r.x[i]
    BY <1>2, <2>1, <2>2
  <2>4. Payload(q) = r.x
    <3>1. \A i \in 5 .. Len(q) : q[i] \in Int
      BY <2>2, LenProperties DEF Tokens
    <3>2. /\ Payload(q) \in Tokens
          /\ Len(Payload(q)) = IF 5 <= Len(q) THEN Len(q) - 5 + 1 ELSE 0
          /\ \A i \in 1 .. Len(q) - 5 + 1 : Payload(q)[i] = q[5 + i - 1]
      BY <1>2, <3>1, SubSeqProperties DEF Payload, Tokens
    <3>3. Len(Payload(q)) = Len(r.x)
      BY <2>1, <2>2, <3>2
    <3>4. \A i \in 1 .. Len(r.x) : Payload(q)[i] = r.x[i]
      BY <2>1, <2>2, <2>3, <3>2
    <3> QED BY <2>2, <3>2, <3>3, <3>4, Same
  <2>5. Granted(q) <=> r.a < BlockNum
    BY <2>2 DEF Granted, Address, CONF, WR, RD
  <2>6. Okay(q) = <<OKAY, EOL>> /\ Rest(r) = <<EOL>>
    BY <1>5, <2>2, OkayOf DEF Rest
  <2>7. <<OKAY>> \o Rest(r) = <<OKAY, EOL>>
    BY <2>6, Few DEF OKAY, EOL
  <2>8. Image(q) = IF r.a < BlockNum THEN Blocks!Written(r.a, r.x) ELSE image
    BY <2>2, <2>4, <2>5 DEF Image, Blocks!Written, Address
  <2> QED BY <1>5, <2>5, <2>6, <2>7, <2>8 DEF Answer
<1> QED BY <1>1, <1>3, <1>4, <1>5

(* A garbled one is refused.                                               *)
LEMMA RefusesGarbled ==
  ASSUME NEW r \in Requests, NEW q \in Tokens, q \o <<EOL>> = Garbled(Line(r))
  PROVE  Answer(q) = <<FAIL, EOL>> /\ Image(q) = image
<1>1. EOL \in Int
  BY DEF EOL
<1>2. /\ Len(q \o <<EOL>>) = Len(q) + 1
      /\ \A i \in 1 .. Len(q) : (q \o <<EOL>>)[i] = q[i]
  BY <1>1, Last
<1>3. Len(q) \in Nat /\ Len(Line(r)) >= 2 /\ Len(Garbled(Line(r))) = Len(Line(r)) /\ Garbled(Line(r))[1] = GARBLED
  BY Joined, LineEnds, GarbledLine
<1>4. q[1] = GARBLED
  BY <1>2, <1>3
<1>5. ~ Granted(q) /\ q[1] # WR
  BY <1>4 DEF Granted, GARBLED, CONF, RD, WR
<1>6. Answer(q) = <<FAIL, EOL>>
  BY <1>5 DEF Answer
<1>7. Image(q) = image
  BY <1>5, Zenon DEF Image
<1> QED BY <1>6, <1>7

(* The EOL the server meets is the end of the line, and the whole line has *)
(* been read before it.                                                    *)
LEMMA MeetsEnd ==
  ASSUME NEW r \in Requests, NEW q \in Tokens, NEW t \in Tokens, NEW o \in Tokens,
         t # << >>,
         q \o (t \o o) = Line(r) \/ q \o (t \o o) = Garbled(Line(r))
  PROVE  /\ Head(t) = EOL => Tail(t) = << >> /\ o = << >> /\ q \o <<EOL>> = q \o (t \o o)
         /\ Head(t) # EOL => Len(q) + 1 < Len(Line(r))
<1> DEFINE u == t \o o
           m == q \o u
<1>1. /\ Len(q) \in Nat /\ u \in Tokens /\ Len(u) = Len(t) + Len(o) /\ Len(t) \in Nat \ {0} /\ Len(o) \in Nat
  BY Joined, EmptySeq DEF Tokens
<1>2. Head(u) = Head(t) /\ Tail(u) = Tail(t) \o o /\ u # << >> /\ Head(t) \in Int /\ Tail(t) \in Tokens
  BY Taken
<1>3. Head(u) = u[1]
  BY <1>1, <1>2 DEF Tokens
<1>4. m = Line(r) \/ m = Garbled(Line(r))
  OBVIOUS
<1> HIDE DEF u
<1>5. /\ m \in Tokens /\ Len(m) = Len(q) + Len(u)
      /\ \A i \in 1 .. Len(q) + Len(u) : m[i] = IF i <= Len(q) THEN q[i] ELSE u[i - Len(q)]
  BY <1>1, Joined
<1> HIDE DEF m
<1>6. m[Len(q) + 1] = Head(t)
  BY <1>1, <1>2, <1>3, <1>5
<1>7. /\ Len(m) = Len(Line(r)) /\ Len(m) >= 2
      /\ \A i \in 1 .. Len(m) : m[i] = EOL <=> i = Len(m)
  <2>1. CASE m = Line(r)
    BY <2>1, LineEnds
  <2>2. CASE m = Garbled(Line(r))
    <3>1. /\ Len(Line(r)) \in Nat /\ Len(Line(r)) >= 2
          /\ \A i \in 1 .. Len(Line(r)) : Line(r)[i] = EOL <=> i = Len(Line(r))
      BY LineEnds
    <3>2. Len(m) = Len(Line(r)) /\ m[1] # EOL /\ \A i \in 2 .. Len(Line(r)) : m[i] = Line(r)[i]
      BY <2>2, GarbledLine DEF GARBLED, EOL
    <3> QED BY <3>1, <3>2
  <2> QED BY <1>4, <2>1, <2>2
<1>8. Head(t) # EOL => Len(q) + 1 < Len(Line(r))
  BY <1>1, <1>5, <1>6, <1>7
<1>9. ASSUME Head(t) = EOL PROVE Tail(t) = << >> /\ o = << >> /\ u = <<EOL>>
  <2>1. Len(u) = 1
    BY <1>1, <1>5, <1>6, <1>7, <1>9
  <2>2. Len(Tail(u)) = Len(u) - 1
    BY <1>1, <1>2, HeadTailProperties DEF Tokens
  <2>3. Len(Tail(u)) = 0
    BY <2>1, <2>2
  <2>4. Len(Tail(t) \o o) = 0
    BY <1>2, <2>3
  <2>5. Tail(t) = << >> /\ o = << >>
    BY <1>2, <2>4, BothEmpty
  <2>6. \A v \in Tokens : Len(v) = 1 /\ v[1] = EOL => u = v
    <3>1. SUFFICES ASSUME NEW v \in Tokens, Len(v) = 1, v[1] = EOL PROVE u = v
      OBVIOUS
    <3>2. Len(u) = Len(v) /\ \A i \in 1 .. Len(u) : u[i] = v[i]
      BY <1>2, <1>3, <1>9, <2>1, <3>1
    <3> QED BY <1>1, <3>2, Same
  <2>7. <<EOL>> \in Tokens /\ Len(<<EOL>>) = 1 /\ <<EOL>>[1] = EOL
    BY DEF Tokens, EOL
  <2>8. u = <<EOL>>
    BY <2>6, <2>7
  <2> QED BY <2>5, <2>8
<1> QED BY <1>8, <1>9 DEF u, m

-----------------------------------------------------------------------------
(* The driver's steps.                                                     *)

LEMMA InitHolds == Init => IInv
<1> SUFFICES ASSUME Init PROVE IInv
  OBVIOUS
<1>1. TypeOK
  BY DiskAssumption DEF Init, TypeOK
<1>2. {to, from, req, ack, out, got} \subseteq Tokens
  BY DEF Init, Tokens
<1>3. Resting
  BY DEF Init, Resting, Drained
<1>4. call = Idle
  BY DEF Init
<1> QED BY <1>1, <1>2, <1>3, <1>4 DEF IInv, Typed

LEMMA CallKeeps == IInv /\ Call => IInv'
<1> SUFFICES ASSUME IInv, Call PROVE IInv'
  OBVIOUS
<1>1. Typed /\ Resting
  BY DEF IInv, Call, Asking, Answering
<1>2. /\ call' \in Requests /\ tries' = 1 /\ damaged' = 0
      /\ phase' = "put" /\ out' = Line(call') /\ got' = << >>
      /\ to' = << >> /\ from' = << >> /\ req' = << >> /\ ack' = << >> /\ image' = image
  BY <1>1 DEF Call, Start, Resting, Drained, server
<1>3. /\ Line(call') \in Tokens /\ Len(Line(call')) \in Nat /\ Len(Line(call')) >= 2
      /\ << >> \in Tokens /\ << >> \o (<< >> \o Line(call')) = Line(call') /\ Len(<< >>) = 0
  BY <1>2, LineEnds, Joined
<1>4. Typed'
  BY <1>1, <1>2, <1>3, SizeTypes DEF Typed, TypeOK
<1>5. Asking'
  BY <1>2, <1>3, IdleAssumption DEF Asking
<1>6. damaged' >= tries' - 1
  BY <1>2
<1> QED BY <1>4, <1>5, <1>6 DEF IInv

LEMMA PutKeeps == IInv /\ Put => IInv'
<1> SUFFICES ASSUME IInv, Put PROVE IInv'
  OBVIOUS
<1>1. Typed /\ Asking /\ call \in Requests /\ out # << >>
  <2>1. Typed /\ Asking /\ phase = "put"
    BY DEF IInv, Put, Resting, Answering
  <2> QED BY <2>1 DEF Asking, Typed, TypeOK
<1>2. /\ Len(to) < Fifo /\ out' = Tail(out)
      /\ phase' = IF Len(out) = 1 THEN "command" ELSE "put"
      /\ call' = call /\ tries' = tries /\ got' = got /\ from' = from
      /\ req' = req /\ ack' = ack /\ image' = image
  BY DEF Put, server
<1>3. \/ to' = Append(to, Head(out)) /\ damaged' = damaged
      \/ out = Line(call) /\ damaged < MaxDamage /\ to' = Append(to, GARBLED) /\ damaged' = damaged + 1
  BY DEF Put, OnLine
<1>4. {to, from, req, ack, out, got} \subseteq Tokens /\ Len(to) \in Nat /\ GARBLED \in Int
  BY <1>1, Joined DEF Typed, GARBLED
<1>5. /\ Head(out) \in Int /\ Tail(out) \in Tokens /\ Len(Tail(out)) = Len(out) - 1 /\ Len(out) \in Nat
      /\ Append(to, Head(out)) \in Tokens /\ Len(Append(to, Head(out))) = Len(to) + 1
      /\ Append(to, Head(out)) \o Tail(out) = to \o out
  BY <1>1, <1>4, Moved, Joined
<1>6. Append(to, GARBLED) \in Tokens /\ Len(Append(to, GARBLED)) = Len(to) + 1
  BY <1>4, Last
<1>7. damaged' \in 0 .. MaxDamage /\ damaged' >= damaged
  BY <1>1, <1>3, SizeTypes DEF Typed, TypeOK
<1>8. Typed'
  <2>1. to' \in Tokens /\ Len(to') <= Fifo
    <3>1. to' \in Tokens /\ Len(to') = Len(to) + 1
      BY <1>3, <1>5, <1>6
    <3> QED BY <1>2, <1>4, <3>1, SizeTypes
  <2>2. phase' \in {"put", "command", "answer", "skip"}
    BY <1>2
  <2> QED BY <1>1, <1>2, <1>4, <1>5, <1>7, <2>1, <2>2 DEF Typed, TypeOK
<1>9. phase' = IF out' = << >> THEN "command" ELSE "put"
  <2>1. Len(out) = 1 <=> Len(Tail(out)) = 0
    BY <1>5
  <2>2. Len(Tail(out)) = 0 <=> Tail(out) = << >>
    BY <1>5, Joined
  <2> QED BY <1>2, <2>1, <2>2
<1>10. \/ req' \o (to' \o out') = Line(call')
       \/ req' \o (to' \o out') = Garbled(Line(call')) /\ Damaged'
  <2>1. CASE to' = Append(to, Head(out)) /\ damaged' = damaged
    <3>1. req' \o (to' \o out') = req \o (to \o out)
      BY <1>2, <1>5, <2>1
    <3>2. Damaged => Damaged'
      BY <1>2, <2>1 DEF Damaged
    <3> QED BY <1>1, <1>2, <3>1, <3>2 DEF Asking
  <2>2. CASE out = Line(call) /\ damaged < MaxDamage /\ to' = Append(to, GARBLED) /\ damaged' = damaged + 1
    <3> DEFINE l == Line(call)
    <3>1. l \in Tokens /\ Len(l) \in Nat /\ Len(l) >= 2 /\ l # << >>
      BY <1>1, <2>2, LineEnds
    <3>2. req = << >> /\ to = << >>
      <4>1. to \o out \in Tokens /\ Len(to \o out) = Len(to) + Len(out)
        BY <1>4, Joined
      <4>2. Len(req \o (to \o out)) = Len(req) + Len(to \o out) /\ Len(req) \in Nat /\ Len(to) \in Nat
        BY <1>4, <4>1, Joined
      <4>3. Len(req \o (to \o out)) = Len(l)
        BY <1>1, GarbledLine DEF Asking
      <4>4. Len(req) = 0 /\ Len(to) = 0
        BY <2>2, <3>1, <4>1, <4>2, <4>3
      <4> QED BY <1>4, <4>4, Joined
    <3>3. Append(to, GARBLED) = <<GARBLED>>
      BY <3>2
    <3>4. req' \o (to' \o out') = <<GARBLED>> \o Tail(l)
      <4>1. Tail(l) \in Tokens /\ <<GARBLED>> \in Tokens
        BY <1>4, <1>5, <2>2 DEF Tokens
      <4>2. << >> \o (<<GARBLED>> \o Tail(l)) = <<GARBLED>> \o Tail(l)
        BY <4>1, Joined
      <4> QED BY <1>2, <2>2, <3>2, <3>3, <4>2
    <3>5. <<GARBLED>> \o Tail(l) = Garbled(l)
      <4> DEFINE u == <<GARBLED>> \o Tail(l)
                 v == Garbled(l)
      <4>1. /\ Tail(l) \in Tokens /\ Len(Tail(l)) = Len(l) - 1
            /\ \A i \in 1 .. Len(Tail(l)) : Tail(l)[i] = l[i + 1]
        BY <3>1, HeadTailProperties DEF Tokens
      <4>2. /\ u \in Tokens /\ Len(u) = Len(Tail(l)) + 1
            /\ u[1] = GARBLED /\ \A i \in 1 .. Len(Tail(l)) : u[i + 1] = Tail(l)[i]
        BY <1>4, <4>1, First
      <4>3. /\ v \in Tokens /\ Len(v) = Len(l) /\ v[1] = GARBLED
            /\ \A i \in 2 .. Len(l) : v[i] = l[i]
        BY <1>1, GarbledLine
      <4> HIDE DEF l, u, v
      <4>4. ASSUME NEW i \in 2 .. Len(l) PROVE u[i] = l[i]
        <5>1. i - 1 \in 1 .. Len(Tail(l)) /\ (i - 1) + 1 = i
          BY <3>1, <4>1
        <5> QED BY <4>1, <4>2, <5>1
      <4>5. Len(u) = Len(v) /\ \A i \in 1 .. Len(u) : u[i] = v[i]
        BY <3>1, <4>1, <4>2, <4>3, <4>4
      <4>6. u = v
        BY <4>2, <4>3, <4>5, Same
      <4> QED BY <4>6 DEF u, v
    <3>6. Damaged'
      BY <1>1, <1>2, <2>2, SizeTypes DEF IInv, Damaged, Typed, TypeOK, Asking
    <3> QED BY <1>2, <3>4, <3>5, <3>6
  <2> QED BY <1>3, <2>1, <2>2
<1>11. Asking'
  BY <1>1, <1>2, <1>9, <1>10 DEF Asking
<1>12. call' # Idle /\ call'.a < BlockNum => damaged' >= tries' - 1
  BY <1>1, <1>2, <1>7, SizeTypes DEF IInv, Typed, TypeOK
<1> QED BY <1>8, <1>11, <1>12 DEF IInv

(* A token is left to read of an answer only while it is one of the stages *)
(* of Answering.                                                           *)
LEMMA ReadsAnswer ==
  ASSUME IInv, from # << >>
  PROVE  /\ Typed /\ Answering /\ call \in Requests
         /\ from \o ack \in Tokens /\ Head(from) \in Int /\ Tail(from) \in Tokens /\ ack \in Tokens
         /\ Head(from \o ack) = Head(from) /\ Tail(from \o ack) = Tail(from) \o ack
         /\ Len(Tail(from)) <= Fifo
<1>1. Typed /\ Answering
  BY DEF IInv, Resting, Drained, Asking
<1>2. call \in Requests /\ from \in Tokens /\ ack \in Tokens
  BY <1>1 DEF Typed, TypeOK, Answering
<1>3. /\ from \o ack \in Tokens /\ Head(from) \in Int /\ Tail(from) \in Tokens
      /\ Head(from \o ack) = Head(from) /\ Tail(from \o ack) = Tail(from) \o ack
  BY <1>2, Taken
<1>4. Len(from) \in Nat /\ Len(from) <= Fifo /\ Len(Tail(from)) = Len(from) - 1
  BY <1>1, <1>2, HeadTailProperties, Joined DEF Typed, TypeOK, Tokens
<1>5. Len(Tail(from)) <= Fifo
  BY <1>4, SizeTypes
<1> QED BY <1>1, <1>2, <1>3, <1>5

LEMMA GetCommandKeeps == IInv /\ GetCommand => IInv'
<1> SUFFICES ASSUME IInv, GetCommand PROVE IInv'
  OBVIOUS
<1>1. /\ Typed /\ Answering /\ call \in Requests
      /\ from \o ack \in Tokens /\ Tail(from) \in Tokens /\ ack \in Tokens
      /\ Head(from \o ack) = Head(from) /\ Tail(from \o ack) = Tail(from) \o ack
      /\ Len(Tail(from)) <= Fifo
  BY ReadsAnswer DEF GetCommand, Get
<1>2. /\ phase = "command" /\ from' = Tail(from)
      /\ phase' = IF Head(from) = OKAY THEN "answer" ELSE "skip"
      /\ call' = call /\ tries' = tries /\ out' = out /\ got' = got /\ to' = to
      /\ req' = req /\ ack' = ack /\ image' = image /\ damaged' = damaged
  BY DEF GetCommand, Get, server
<1>3. Typed'
  BY <1>1, <1>2 DEF Typed, TypeOK
<1>4. (Served => Served') /\ (Damaged => Damaged')
  BY <1>2 DEF Served, Damaged, Blocks!Written
<1>5. Answering'
  <2>1. CASE from \o ack = <<OKAY>> \o Rest(call) /\ Served /\ got = << >>
    <3>1. /\ Rest(call) \in Tokens /\ Len(Rest(call)) = AnswerLen(call) /\ Len(Rest(call)) >= 1
          /\ << >> \o Rest(call) = Rest(call) /\ Len(<< >>) = 0
      BY <1>1, <2>1, RestType, Joined DEF Served, Stored, Typed, TypeOK
    <3>2. Head(from) = OKAY /\ Tail(from) \o ack = Rest(call)
      <4>1. OKAY \in Int
        BY DEF OKAY
      <4>2. Head(<<OKAY>> \o Rest(call)) = OKAY /\ Tail(<<OKAY>> \o Rest(call)) = Rest(call)
        BY <3>1, <4>1, First
      <4> QED BY <1>1, <2>1, <4>2
    <3>3. got' \o (from' \o ack') = Rest(call) /\ Rest(call)' = Rest(call) /\ Len(got') < AnswerLen(call')
      <4>1. Rest(call)' = Rest(call)
        BY <1>2 DEF Rest, Blocks!Content
      <4> QED BY <1>2, <2>1, <3>1, <3>2, <4>1
    <3>4. phase' = "answer"
      BY <1>2, <3>2
    <3> QED BY <1>1, <1>2, <1>4, <2>1, <3>3, <3>4 DEF Answering
  <2>2. CASE from \o ack \in Failures /\ Damaged /\ got = << >>
    <3>1. PICK e \in {FAIL, GARBLED} : from \o ack = <<e, EOL>>
      BY <2>2 DEF Failures
    <3>2. <<e, EOL>> = <<e>> \o <<EOL>> /\ <<EOL>> \in Tokens /\ e \in Int
      BY Few DEF FAIL, GARBLED, EOL
    <3>3. Head(from) = e /\ Tail(from) \o ack = <<EOL>>
      BY <1>1, <3>1, <3>2, First
    <3>4. phase' = "skip"
      BY <1>2, <3>3 DEF FAIL, GARBLED, OKAY
    <3> QED BY <1>1, <1>2, <1>4, <2>2, <3>3, <3>4 DEF Answering
  <2> QED BY <1>1, <1>2, <2>1, <2>2 DEF Answering
<1> QED BY <1>1, <1>2, <1>3, <1>5 DEF IInv

(* The driver's reading of the answer ends with the answer.                *)
LEMMA AnswerRead ==
  ASSUME IInv, GetAnswer
  PROVE  /\ Typed /\ call \in Requests /\ Served /\ out = << >> /\ to = << >> /\ req = << >>
         /\ Append(got, Head(from)) \in Tokens /\ Tail(from) \in Tokens /\ Len(Tail(from)) <= Fifo
         /\ Append(got, Head(from)) \o (Tail(from) \o ack) = Rest(call)
         /\ Len(Append(got, Head(from))) >= AnswerLen(call) =>
              Append(got, Head(from)) = Rest(call) /\ Tail(from) = << >> /\ ack = << >>
<1> DEFINE answer == Append(got, Head(from))
           left == Tail(from) \o ack
<1>1. from # << >> /\ phase = "answer"
  BY DEF GetAnswer, Get
<1>2. /\ Typed /\ Answering /\ call \in Requests
      /\ from \o ack \in Tokens /\ from \o ack # << >> /\ Tail(from) \in Tokens /\ ack \in Tokens
      /\ Head(from \o ack) = Head(from) /\ Tail(from \o ack) = left
      /\ Len(Tail(from)) <= Fifo
  <2>1. from \in Tokens /\ ack \in Tokens
    BY <1>1, ReadsAnswer DEF Typed
  <2>2. from \o ack # << >>
    BY <1>1, <2>1, Taken
  <2> QED BY <1>1, <2>2, ReadsAnswer
<1>3. /\ got \o (from \o ack) = Rest(call) /\ Served /\ got \in Tokens
      /\ out = << >> /\ to = << >> /\ req = << >>
  BY <1>1, <1>2 DEF Answering, Typed
<1>4. Len(Rest(call)) = AnswerLen(call)
  BY <1>2, <1>3, RestType DEF Served, Stored, Typed, TypeOK
<1>5. answer \in Tokens /\ answer \o left = Rest(call)
  <2>1. /\ Append(got, Head(from \o ack)) \in Tokens
        /\ Append(got, Head(from \o ack)) \o Tail(from \o ack) = got \o (from \o ack)
    BY <1>2, <1>3, Moved
  <2> QED BY <1>2, <1>3, <2>1
<1>6. left \in Tokens
  BY <1>2, Joined
<1> HIDE DEF answer
<1>7. ASSUME Len(answer) >= AnswerLen(call) PROVE answer = Rest(call) /\ Tail(from) = << >> /\ ack = << >>
  <2>1. Len(left) \in Nat /\ Len(answer) \in Nat /\ Len(answer \o left) = Len(answer) + Len(left)
    BY <1>5, <1>6, Joined
  <2>2. Len(left) = 0
    BY <1>4, <1>5, <1>7, <2>1
  <2>3. Tail(from) = << >> /\ ack = << >>
    BY <1>2, <2>2, BothEmpty
  <2>4. left = << >> /\ answer \o << >> = answer
    BY <1>5, <1>6, <2>2, Joined
  <2> QED BY <1>5, <2>3, <2>4
<1> QED BY <1>2, <1>3, <1>5, <1>7 DEF answer

LEMMA GetAnswerKeeps == IInv /\ GetAnswer => IInv'
<1> SUFFICES ASSUME IInv, GetAnswer PROVE IInv'
  OBVIOUS
<1> DEFINE answer == Append(got, Head(from))
<1>1. /\ Typed /\ call \in Requests /\ Served /\ out = << >> /\ to = << >> /\ req = << >>
      /\ answer \in Tokens /\ Tail(from) \in Tokens /\ Len(Tail(from)) <= Fifo
      /\ answer \o (Tail(from) \o ack) = Rest(call)
      /\ Len(answer) >= AnswerLen(call) => Tail(from) = << >> /\ ack = << >>
  BY AnswerRead
<1>2. /\ phase = "answer" /\ from' = Tail(from)
      /\ tries' = tries /\ out' = out /\ to' = to /\ req' = req /\ ack' = ack
      /\ image' = image /\ damaged' = damaged
      /\ \/ Len(answer) < AnswerLen(call) /\ got' = answer /\ call' = call /\ phase' = phase
         \/ ~ (Len(answer) < AnswerLen(call)) /\ call' = Idle /\ phase' = "put" /\ got' = << >>
  BY DEF GetAnswer, Get, server
<1>3. << >> \in Tokens /\ Len(answer) \in Nat /\ AnswerLen(call) \in Nat
  <2>1. Len(Rest(call)) = AnswerLen(call) /\ Rest(call) \in Tokens
    BY <1>1, RestType DEF Served, Stored, Typed, TypeOK
  <2> QED BY <1>1, <2>1, Joined
<1> HIDE DEF answer
<1>4. Typed'
  BY <1>1, <1>2, <1>3 DEF Typed, TypeOK
<1>5. CASE Len(answer) < AnswerLen(call)
  <2>1. call' = call /\ got' = answer /\ phase' = "answer"
    BY <1>2, <1>5
  <2>2. Served' /\ Rest(call)' = Rest(call) /\ AnswerLen(call') = AnswerLen(call)
    <3>1. Rest(call)' = Rest(call)
      BY <1>2, <2>1 DEF Rest, Blocks!Content
    <3> QED BY <1>1, <1>2, <2>1, <3>1 DEF Served, Blocks!Written
  <2>3. Answering'
    BY <1>1, <1>2, <1>5, <2>1, <2>2, IdleAssumption DEF Answering
  <2> QED BY <1>2, <1>4, <2>1, <2>3 DEF IInv
<1>6. CASE ~ (Len(answer) < AnswerLen(call))
  <2>1. Resting'
    BY <1>1, <1>2, <1>3, <1>6 DEF Resting, Drained
  <2> QED BY <1>2, <1>4, <1>6, <2>1 DEF IInv
<1> QED BY <1>5, <1>6

(* A failure is read to its end, with nothing left behind it.              *)
LEMMA FailureRead ==
  ASSUME IInv, GetFailure
  PROVE  /\ Typed /\ call \in Requests /\ Damaged /\ out = << >> /\ got = << >>
         /\ to = << >> /\ req = << >> /\ from' = << >> /\ ack = << >>
<1>1. from # << >> /\ phase = "skip" /\ from' = Tail(from)
  BY DEF GetFailure, SkipEOL, Get
<1>2. /\ Typed /\ Answering /\ call \in Requests
      /\ from \o ack \in Tokens /\ Tail(from) \in Tokens /\ ack \in Tokens
      /\ Tail(from \o ack) = Tail(from) \o ack
  BY <1>1, ReadsAnswer
<1>3. /\ from \o ack = <<EOL>> /\ Damaged /\ got = << >>
      /\ out = << >> /\ to = << >> /\ req = << >>
  BY <1>1, <1>2 DEF Answering
<1>4. Len(Tail(from) \o ack) = 0
  <2>1. /\ << >> \in Tokens /\ Len(<< >>) = 0 /\ EOL \in Int
        /\ <<EOL>> \o << >> = <<EOL>> /\ Tail(<<EOL>> \o << >>) = << >>
    <3>1. << >> \in Tokens /\ Len(<< >>) = 0 /\ EOL \in Int /\ <<EOL>> \in Tokens
      BY Few, Joined DEF EOL
    <3> QED BY <3>1, First, Joined
  <2> QED BY <1>2, <1>3, <2>1
<1>5. Tail(from) = << >> /\ ack = << >>
  BY <1>2, <1>4, BothEmpty
<1> QED BY <1>1, <1>2, <1>3, <1>5

LEMMA GetFailureKeeps == IInv /\ GetFailure => IInv'
<1> SUFFICES ASSUME IInv, GetFailure PROVE IInv'
  OBVIOUS
<1>1. /\ Typed /\ call \in Requests /\ Damaged /\ out = << >> /\ got = << >>
      /\ to = << >> /\ req = << >> /\ from' = << >> /\ ack = << >>
  BY FailureRead
<1>2. to' = to /\ req' = req /\ ack' = ack /\ image' = image /\ damaged' = damaged
  BY DEF GetFailure, server
<1>3. << >> \in Tokens /\ Len(<< >>) = 0 /\ Line(call) \in Tokens /\ Len(Line(call)) \in Nat /\ Len(Line(call)) >= 2
  BY <1>1, LineEnds, Joined
<1>4. CASE Again /\ tries' = NextTry /\ call' = call /\ Start
  <2>1. /\ tries < RETRY /\ tries' = tries + 1 /\ call' = call
        /\ phase' = "put" /\ out' = Line(call) /\ got' = << >>
    BY <1>4 DEF Again, NextTry, Start
  <2>2. Typed'
    BY <1>1, <1>2, <1>3, <2>1, SizeTypes DEF Typed, TypeOK
  <2>3. call.a < BlockNum => damaged' >= tries' - 1
    BY <1>1, <1>2, <2>1, SizeTypes DEF Damaged, Typed, TypeOK
  <2>4. req' \o (to' \o out') = Line(call')
    BY <1>1, <1>2, <1>3, <2>1, Joined
  <2>5. Asking'
    BY <1>1, <1>2, <1>3, <2>1, <2>4, IdleAssumption DEF Asking
  <2> QED BY <2>1, <2>2, <2>3, <2>5 DEF IInv
<1>5. CASE ~ Again /\ call' = Idle /\ phase' = "put" /\ UNCHANGED <<tries, out, got>>
  <2>1. Typed'
    BY <1>1, <1>2, <1>3, <1>5 DEF Typed, TypeOK
  <2>2. Resting'
    BY <1>1, <1>2, <1>5 DEF Resting, Drained
  <2> QED BY <1>5, <2>1, <2>2 DEF IInv
<1> QED BY <1>4, <1>5 DEF GetFailure

-----------------------------------------------------------------------------
(* The server's steps.                                                     *)

(* A token is left to read of a request only while one is put.             *)
LEMMA ReadsRequest ==
  ASSUME IInv, to # << >>
  PROVE  /\ Typed /\ Asking /\ call \in Requests
         /\ to \in Tokens /\ req \in Tokens /\ out \in Tokens /\ Head(to) \in Int /\ Tail(to) \in Tokens
         /\ Len(Tail(to)) <= Fifo
<1>1. Typed /\ Asking
  BY DEF IInv, Resting, Drained, Answering
<1>2. call \in Requests /\ to \in Tokens /\ req \in Tokens /\ out \in Tokens
  BY <1>1 DEF Typed, TypeOK, Asking
<1>3. Head(to) \in Int /\ Tail(to) \in Tokens /\ Len(Tail(to)) = Len(to) - 1
  BY <1>2, HeadTailProperties DEF Tokens
<1>4. Len(to) \in Nat /\ Len(to) <= Fifo
  BY <1>1, <1>2, Joined DEF Typed, TypeOK
<1>5. Len(Tail(to)) <= Fifo
  BY <1>3, <1>4, SizeTypes
<1> QED BY <1>1, <1>2, <1>3, <1>5

LEMMA ReadTokenKeeps == IInv /\ ReadToken => IInv'
<1> SUFFICES ASSUME IInv, ReadToken PROVE IInv'
  OBVIOUS
<1>1. /\ to # << >> /\ to' = Tail(to) /\ Head(to) # EOL /\ req' = Append(req, Head(to))
      /\ call' = call /\ tries' = tries /\ phase' = phase /\ out' = out /\ got' = got
      /\ from' = from /\ ack' = ack /\ image' = image /\ damaged' = damaged
  BY DEF ReadToken, Get, driver
<1>2. /\ Typed /\ Asking /\ call \in Requests
      /\ to \in Tokens /\ req \in Tokens /\ out \in Tokens /\ Head(to) \in Int /\ Tail(to) \in Tokens
      /\ Len(Tail(to)) <= Fifo
  BY <1>1, ReadsRequest
<1>3. /\ to \o out \in Tokens /\ to \o out # << >>
      /\ Head(to \o out) = Head(to) /\ Tail(to \o out) = Tail(to) \o out
  BY <1>1, <1>2, Taken
<1>4. /\ req' \in Tokens /\ Len(req') = Len(req) + 1
      /\ req' \o (to' \o out') = req \o (to \o out)
  <2>1. /\ Append(req, Head(to \o out)) \in Tokens /\ Len(Append(req, Head(to \o out))) = Len(req) + 1
        /\ Append(req, Head(to \o out)) \o Tail(to \o out) = req \o (to \o out)
    BY <1>2, <1>3, Moved
  <2> QED BY <1>1, <1>3, <2>1
<1>5. Len(req') < Len(Line(call))
  <2>1. req \o (to \o out) = Line(call) \/ req \o (to \o out) = Garbled(Line(call))
    BY <1>2 DEF Asking
  <2>2. Len(req) + 1 < Len(Line(call))
    BY <1>1, <1>2, <2>1, MeetsEnd
  <2> QED BY <1>4, <2>2
<1>6. Typed'
  BY <1>1, <1>2, <1>4 DEF Typed, TypeOK
<1>7. Damaged => Damaged'
  BY <1>1 DEF Damaged
<1>8. Asking'
  BY <1>1, <1>2, <1>4, <1>5, <1>7 DEF Asking
<1> QED BY <1>1, <1>6, <1>8 DEF IInv

(* What the server makes of the line it has read: a request that arrived   *)
(* whole is carried out if its address is one of the disk's, and any other *)
(* is refused and changes nothing.                                         *)
LEMMA Serves ==
  ASSUME IInv, Serve
  PROVE  /\ Typed /\ Asking /\ call \in Requests /\ out = << >> /\ to' = << >>
         /\ \/ /\ call.a < BlockNum /\ ack' = <<OKAY>> \o Rest(call)
               /\ image' = IF call.kind = "wr" THEN Blocks!Written(call.a, call.x) ELSE image
            \/ ack' = <<FAIL, EOL>> /\ image' = image /\ Damaged
<1>1. to # << >> /\ to' = Tail(to) /\ Head(to) = EOL /\ ack' = Answer(req) /\ image' = Image(req)
  BY DEF Serve, Get
<1>2. /\ Typed /\ Asking /\ call \in Requests
      /\ to \in Tokens /\ req \in Tokens /\ out \in Tokens
  BY <1>1, ReadsRequest
<1>3. req \o (to \o out) = Line(call) \/ (req \o (to \o out) = Garbled(Line(call)) /\ Damaged)
  BY <1>2 DEF Asking
<1>4. Tail(to) = << >> /\ out = << >> /\ req \o <<EOL>> = req \o (to \o out)
  BY <1>1, <1>2, <1>3, MeetsEnd
<1>5. Stored
  BY <1>2 DEF Stored, Typed, TypeOK
<1>6. CASE req \o (to \o out) = Line(call)
  <2>1. req \o <<EOL>> = Line(call)
    BY <1>4, <1>6
  <2>2. /\ call.a < BlockNum => Answer(req) = <<OKAY>> \o Rest(call)
        /\ ~ (call.a < BlockNum) => Answer(req) = <<FAIL, EOL>>
        /\ Image(req) = IF call.kind = "wr" /\ call.a < BlockNum THEN Blocks!Written(call.a, call.x) ELSE image
    BY <1>2, <1>5, <2>1, ServesLine
  <2>3. CASE call.a < BlockNum
    BY <1>1, <1>2, <1>4, <2>2, <2>3
  <2>4. CASE ~ (call.a < BlockNum)
    BY <1>1, <1>2, <1>4, <2>2, <2>4 DEF Damaged
  <2> QED BY <2>3, <2>4
<1>7. CASE req \o (to \o out) = Garbled(Line(call)) /\ Damaged
  <2>1. req \o <<EOL>> = Garbled(Line(call))
    BY <1>4, <1>7
  <2>2. Answer(req) = <<FAIL, EOL>> /\ Image(req) = image
    BY <1>2, <2>1, RefusesGarbled
  <2> QED BY <1>1, <1>2, <1>4, <1>7, <2>2
<1> QED BY <1>3, <1>6, <1>7

LEMMA WrittenType ==
  ASSUME Stored, NEW r \in Requests, r.kind = "wr"
  PROVE  /\ Blocks!Written(r.a, r.x) \in [0 .. BlockNum * BlockLen - 1 -> Bytes]
         /\ \A i \in [0 .. BlockNum * BlockLen - 1 -> Bytes] :
              i = Blocks!Written(r.a, r.x) =>
                i = [b \in DOMAIN i |-> IF b - r.a * BlockLen + 1 \in DOMAIN r.x
                                        THEN r.x[b - r.a * BlockLen + 1] ELSE i[b]]
<1>1. DOMAIN r.x = 1 .. Len(r.x) /\ \A i \in 1 .. Len(r.x) : r.x[i] \in Bytes
  BY RequestType, LenProperties DEF Tokens
<1>2. DOMAIN image = 0 .. BlockNum * BlockLen - 1
  BY DEF Stored
<1>3. Blocks!Written(r.a, r.x) = [b \in DOMAIN image |->
        IF b - r.a * BlockLen + 1 \in DOMAIN r.x THEN r.x[b - r.a * BlockLen + 1] ELSE image[b]]
  BY DEF Blocks!Written
<1>4. Blocks!Written(r.a, r.x) \in [0 .. BlockNum * BlockLen - 1 -> Bytes]
  BY <1>1, <1>2, <1>3 DEF Stored
<1> QED BY <1>2, <1>3, <1>4

LEMMA ServeKeeps == IInv /\ Serve => IInv'
<1> SUFFICES ASSUME IInv, Serve PROVE IInv'
  OBVIOUS
<1>1. /\ Typed /\ Asking /\ call \in Requests /\ out = << >> /\ to' = << >>
      /\ \/ /\ call.a < BlockNum /\ ack' = <<OKAY>> \o Rest(call)
            /\ image' = IF call.kind = "wr" THEN Blocks!Written(call.a, call.x) ELSE image
         \/ ack' = <<FAIL, EOL>> /\ image' = image /\ Damaged
  BY Serves
<1>2. /\ req' = << >> /\ call' = call /\ tries' = tries /\ phase' = phase /\ out' = out
      /\ got' = got /\ from' = from /\ damaged' = damaged
  BY DEF Serve, driver
<1>3. Stored
  BY <1>1 DEF Stored, Typed, TypeOK
<1>4. << >> \in Tokens /\ Len(<< >>) = 0
  BY Joined DEF Tokens
<1>5. CASE /\ call.a < BlockNum /\ ack' = <<OKAY>> \o Rest(call)
           /\ image' = IF call.kind = "wr" THEN Blocks!Written(call.a, call.x) ELSE image
  <2>1. image' \in [0 .. BlockNum * BlockLen - 1 -> Bytes]
    BY <1>1, <1>3, <1>5, WrittenType DEF Stored
  <2>2. ack' \in Tokens /\ from' \o ack' = ack'
    <3>1. <<OKAY>> \o Rest(call) \in Tokens
      BY <1>1, <1>3, <1>5, RestType, First DEF OKAY
    <3> QED BY <1>1, <1>2, <1>5, <3>1, Joined DEF Asking
  <2>3. Typed'
    BY <1>1, <1>2, <1>4, <2>1, <2>2, SizeTypes DEF Typed, TypeOK
  <2>4. call.kind = "wr" => image' = Blocks!Written(call.a, call.x)'
    <3> SUFFICES ASSUME call.kind = "wr" PROVE image' = Blocks!Written(call.a, call.x)'
      OBVIOUS
    <3>1. image' = Blocks!Written(call.a, call.x)
      BY <1>5
    <3>2. image' = [b \in DOMAIN image' |-> IF b - call.a * BlockLen + 1 \in DOMAIN call.x
                                            THEN call.x[b - call.a * BlockLen + 1] ELSE image'[b]]
      BY <1>1, <1>3, <2>1, <3>1, WrittenType
    <3> QED BY <1>2, <3>2 DEF Blocks!Written
  <2>5. Rest(call)' = Rest(call)
    <3>1. CASE call.kind = "wr"
      BY <1>2, <3>1 DEF Rest
    <3>2. CASE call.kind # "wr"
      <4>1. image' = image
        BY <1>5, <3>2
      <4> QED BY <1>2, <4>1 DEF Rest, Blocks!Content
    <3> QED BY <3>1, <3>2
  <2>6. Answering'
    BY <1>1, <1>2, <1>5, <2>2, <2>4, <2>5, IdleAssumption DEF Answering, Asking, Served
  <2>7. call' # Idle /\ call'.a < BlockNum => damaged' >= tries' - 1
    BY <1>2 DEF IInv
  <2> QED BY <2>3, <2>6, <2>7 DEF IInv
<1>6. CASE ack' = <<FAIL, EOL>> /\ image' = image /\ Damaged
  <2>1. ack' \in Tokens /\ from' \o ack' = ack'
    <3>1. <<FAIL, EOL>> \in Tokens
      BY DEF Tokens, FAIL, EOL
    <3> QED BY <1>1, <1>2, <1>6, <3>1, Joined DEF Asking
  <2>2. Typed'
    BY <1>1, <1>2, <1>4, <1>6, <2>1, SizeTypes DEF Typed, TypeOK
  <2>3. Answering'
    BY <1>1, <1>2, <1>6, <2>1, IdleAssumption DEF Answering, Asking, Damaged, Failures
  <2> QED BY <1>2, <2>2, <2>3 DEF IInv
<1> QED BY <1>1, <1>5, <1>6

LEMMA WriteTokenKeeps == IInv /\ WriteToken => IInv'
<1> SUFFICES ASSUME IInv, WriteToken PROVE IInv'
  OBVIOUS
<1>1. /\ ack # << >> /\ Len(from) < Fifo /\ ack' = Tail(ack)
      /\ call' = call /\ tries' = tries /\ phase' = phase /\ out' = out /\ got' = got
      /\ req' = req /\ image' = image /\ to' = to
  BY DEF WriteToken, driver
<1>2. \/ from' = Append(from, Head(ack)) /\ damaged' = damaged
      \/ /\ call.kind = "wr" /\ Len(ack) = 2 /\ damaged < MaxDamage
         /\ from' = Append(from, GARBLED) /\ damaged' = damaged + 1
  BY DEF WriteToken, OnLine
<1>3. Typed /\ Answering /\ call \in Requests /\ from \in Tokens /\ ack \in Tokens /\ Len(from) \in Nat
  <2>1. Typed /\ Answering
    BY <1>1 DEF IInv, Resting, Drained, Asking
  <2> QED BY <2>1, Joined DEF Answering, Typed, TypeOK
<1>4. /\ Head(ack) \in Int /\ Tail(ack) \in Tokens /\ Len(Tail(ack)) = Len(ack) - 1
      /\ Append(from, Head(ack)) \in Tokens /\ Len(Append(from, Head(ack))) = Len(from) + 1
      /\ Append(from, Head(ack)) \o Tail(ack) = from \o ack
  BY <1>1, <1>3, Moved
<1>5. Append(from, GARBLED) \in Tokens /\ Len(Append(from, GARBLED)) = Len(from) + 1
  <2>1. GARBLED \in Int
    BY DEF GARBLED
  <2> QED BY <1>3, <2>1, Last
<1>6. damaged' \in 0 .. MaxDamage /\ damaged' >= damaged
  BY <1>2, <1>3, SizeTypes DEF Typed, TypeOK
<1>7. Typed'
  <2>1. from' \in Tokens /\ Len(from') = Len(from) + 1
    BY <1>2, <1>4, <1>5
  <2>2. Len(from') <= Fifo
    BY <1>1, <1>3, <2>1, SizeTypes
  <2> QED BY <1>1, <1>3, <1>4, <1>6, <2>1, <2>2 DEF Typed, TypeOK
<1>8. call' # Idle /\ call'.a < BlockNum => damaged' >= tries' - 1
  BY <1>1, <1>3, <1>6, SizeTypes DEF IInv, Typed, TypeOK
<1>9. CASE from' = Append(from, Head(ack)) /\ damaged' = damaged
  <2>1. from' \o ack' = from \o ack
    BY <1>1, <1>4, <1>9
  <2>2. (Served => Served') /\ (Damaged => Damaged') /\ Rest(call)' = Rest(call)
    <3>1. Rest(call)' = Rest(call)
      BY <1>1 DEF Rest, Blocks!Content
    <3> QED BY <1>1, <1>9, <3>1 DEF Served, Damaged, Blocks!Written
  <2>3. Answering'
    BY <1>1, <1>3, <2>1, <2>2 DEF Answering
  <2> QED BY <1>7, <1>8, <2>3 DEF IInv
<1>10. CASE /\ call.kind = "wr" /\ Len(ack) = 2 /\ damaged < MaxDamage
            /\ from' = Append(from, GARBLED) /\ damaged' = damaged + 1
  <2>1. EOL \in Int /\ OKAY \in Int /\ <<EOL>> \in Tokens /\ Len(<<EOL>>) = 1
    BY Few DEF EOL, OKAY
  <2>2. Len(from \o ack) = Len(from) + 2
    <3>1. Len(from \o ack) = Len(from) + Len(ack)
      BY <1>3, Joined
    <3> QED BY <1>10, <3>1
  <2>3. ~ (from \o ack = <<EOL>>)
    <3>1. Len(from \o ack) # Len(<<EOL>>)
      BY <1>3, <2>1, <2>2
    <3> QED BY <3>1
  <2>4. Rest(call) = <<EOL>> /\ <<OKAY>> \o <<EOL>> = <<OKAY, EOL>>
    BY <1>10, <2>1, Few DEF Rest
  <2>5. ~ (got \o (from \o ack) = Rest(call))
    <3>1. from \o ack \in Tokens /\ got \in Tokens
      BY <1>3, Joined DEF Typed
    <3>2. Len(got \o (from \o ack)) = Len(got) + Len(from \o ack) /\ Len(got) \in Nat
      BY <3>1, Joined
    <3>3. Len(got \o (from \o ack)) >= 2
      BY <1>3, <2>2, <3>2
    <3> QED BY <2>1, <2>4, <3>3
  <2>6. /\ phase = "command" /\ got = << >>
        /\ \E e \in {OKAY, FAIL, GARBLED} : from \o ack = <<e, EOL>>
    BY <1>3, <2>3, <2>4, <2>5 DEF Answering, Failures
  <2>7. PICK e \in {OKAY, FAIL, GARBLED} : from \o ack = <<e, EOL>>
    BY <2>6
  <2>8. from = << >>
    <3>1. Len(from \o ack) = 2
      BY <2>7
    <3>2. Len(from) = 0
      BY <1>3, <2>2, <3>1
    <3> QED BY <1>3, <3>2, Joined
  <2>9. ack = <<e, EOL>> /\ Tail(ack) = <<EOL>>
    <3>1. ack = <<e, EOL>> /\ e \in Int
      BY <1>3, <2>7, <2>8, Joined DEF OKAY, FAIL, GARBLED
    <3>2. <<e, EOL>> = <<e>> \o <<EOL>> /\ Tail(<<e>> \o <<EOL>>) = <<EOL>>
      BY <2>1, <3>1, Few, First
    <3> QED BY <3>1, <3>2
  <2>10. from' \o ack' = <<GARBLED, EOL>>
    <3>1. from' = <<GARBLED>> /\ ack' = <<EOL>>
      BY <1>1, <1>10, <2>8, <2>9
    <3> QED BY <2>1, <3>1, Few DEF GARBLED
  <2>11. Damaged'
    BY <1>1, <1>3, <1>10, SizeTypes DEF IInv, Damaged, Typed, TypeOK, Answering
  <2>12. Answering'
    BY <1>1, <1>3, <2>6, <2>10, <2>11 DEF Answering, Failures
  <2> QED BY <1>7, <1>8, <2>12 DEF IInv
<1> QED BY <1>2, <1>9, <1>10

LEMMA StutterKeeps == IInv /\ UNCHANGED vars => IInv'
<1> SUFFICES ASSUME IInv, UNCHANGED vars PROVE IInv'
  OBVIOUS
<1>1. /\ call' = call /\ tries' = tries /\ phase' = phase /\ out' = out /\ got' = got
      /\ to' = to /\ from' = from /\ req' = req /\ ack' = ack /\ image' = image /\ damaged' = damaged
  BY DEF vars, driver, server
<1>2. Typed'
  BY <1>1 DEF IInv, Typed, TypeOK
<1>3. (Served => Served') /\ (Damaged => Damaged') /\ Rest(call)' = Rest(call)
  <2>1. Rest(call)' = Rest(call)
    BY <1>1 DEF Rest, Blocks!Content
  <2> QED BY <1>1, <2>1 DEF Served, Damaged, Blocks!Written
<1>4. (Resting => Resting') /\ (Asking => Asking') /\ (Answering => Answering')
  <2>1. Resting => Resting'
    BY <1>1 DEF Resting, Drained
  <2>2. Asking => Asking'
    BY <1>1, <1>3 DEF Asking
  <2>3. Answering => Answering'
    BY <1>1, <1>3 DEF Answering
  <2> QED BY <2>1, <2>2, <2>3
<1> QED BY <1>1, <1>2, <1>4 DEF IInv

-----------------------------------------------------------------------------
(* Between a call and its return the tokens of a try are where its stage   *)
(* has them, whatever the line damages (device/disk.c, device/disk.py).    *)
THEOREM Invariance == Spec => []IInv
<1>1. Init => IInv
  BY InitHolds
<1>2. IInv /\ [Next]_vars => IInv'
  BY CallKeeps, PutKeeps, GetCommandKeeps, GetAnswerKeeps, GetFailureKeeps, ReadTokenKeeps,
     ServeKeeps, WriteTokenKeeps, StutterKeeps DEF Next, Driver, Server
<1> QED BY <1>1, <1>2, PTL DEF Spec

(* The type invariant: tries, damage and what the line holds stay within   *)
(* their bounds, and the disk image keeps its size whatever is written     *)
(* (device/disk.py: wr).                                                   *)
THEOREM TypeCorrect == Spec => []TypeOK
<1>1. IInv => TypeOK
  BY DEF IInv, Typed
<1> QED BY <1>1, Invariance, PTL

(* Nothing is left on the line or in the server between requests: the next *)
(* answer read is the answer to the next request (disk.c:88 to 94).        *)
THEOREM Drains == Spec => []LinesAreDrained
<1>1. IInv => LinesAreDrained
  BY DEF IInv, LinesAreDrained, Resting, Drained, Asking, Answering
<1> QED BY <1>1, Invariance, PTL

-----------------------------------------------------------------------------
(* What a step does for the caller.                                        *)

LEMMA DataOf ==
  ASSUME Stored, NEW r \in Requests, r.a < BlockNum
  PROVE  /\ r.kind = "rd" => Data(Rest(r)) = Blocks!Content(r.a)
         /\ r.kind = "conf" => Data(Rest(r)) = <<BlockNum, BlockLen>>
<1>1. BlockNum \in Int /\ BlockLen \in Nat /\ r.a \in Nat /\ SP \in Int /\ EOL \in Int
  BY RequestType, SizeTypes DEF SP, EOL
<1>2. ASSUME r.kind = "rd" PROVE Data(Rest(r)) = Blocks!Content(r.a)
  <2> DEFINE h == <<SP>>
             x == Blocks!Content(r.a)
             l == (h \o x) \o <<EOL>>
  <2>1. x \in Tokens /\ Len(x) = BlockLen /\ h \in Tokens /\ Len(h) = 1
    BY <1>1, ContentType DEF Tokens
  <2>2. Rest(r) = l
    BY <1>2, Zenon DEF Rest
  <2> HIDE DEF h, x
  <2>3. /\ l \in Tokens /\ Len(l) = Len(h) + Len(x) + 1
        /\ \A i \in 1 .. Len(x) : l[Len(h) + i] = x[i]
    BY <1>1, <2>1, Framed
  <2> HIDE DEF l
  <2>4. Len(l) = BlockLen + 2 /\ \A i \in 1 .. BlockLen : l[i + 1] = x[i] /\ l[i + 1] \in Int
    <3>1. \A i \in 1 .. BlockLen : x[i] \in Int
      BY <2>1, LenProperties DEF Tokens
    <3>2. Len(l) = BlockLen + 2
      BY <1>1, <2>1, <2>3
    <3>3. \A i \in 1 .. BlockLen : l[Len(h) + i] = x[i] /\ Len(h) + i = i + 1
      BY <1>1, <2>1, <2>3
    <3> QED BY <3>1, <3>2, <3>3
  <2>5. /\ SubSeq(l, 2, BlockLen + 1) \in Tokens
        /\ Len(SubSeq(l, 2, BlockLen + 1)) = IF 2 <= BlockLen + 1 THEN BlockLen + 1 - 2 + 1 ELSE 0
        /\ \A i \in 1 .. BlockLen + 1 - 2 + 1 : SubSeq(l, 2, BlockLen + 1)[i] = l[2 + i - 1]
    <3>1. \A i \in 2 .. BlockLen + 1 : l[i] \in Int
      <4>1. SUFFICES ASSUME NEW i \in 2 .. BlockLen + 1 PROVE l[i] \in Int
        OBVIOUS
      <4>2. i - 1 \in 1 .. BlockLen /\ (i - 1) + 1 = i
        BY <1>1
      <4> QED BY <2>4, <4>2
    <3> QED BY <1>1, <3>1, SubSeqProperties DEF Tokens
  <2>6. Len(l) - 1 = BlockLen + 1
    BY <1>1, <2>4
  <2> DEFINE d == SubSeq(l, 2, BlockLen + 1)
  <2> HIDE DEF d
  <2>7. d \in Tokens /\ Len(d) = Len(x) /\ \A i \in 1 .. Len(d) : d[i] = x[i]
    BY <1>1, <2>1, <2>4, <2>5 DEF d
  <2>8. d = x
    BY <2>1, <2>7, Same
  <2> QED BY <2>2, <2>6, <2>8 DEF Data, d, x
<1>3. ASSUME r.kind = "conf" PROVE Data(Rest(r)) = <<BlockNum, BlockLen>>
  <2> DEFINE l == <<SP, BlockNum, BlockLen, EOL>>
             d == SubSeq(l, 2, 3)
             p == <<BlockNum, BlockLen>>
  <2>1. Rest(r) = l /\ Len(l) - 1 = 3
    BY <1>3 DEF Rest
  <2>2. l[2] = BlockNum /\ l[3] = BlockLen
    OBVIOUS
  <2>3. p \in Tokens /\ Len(p) = 2 /\ p[1] = BlockNum /\ p[2] = BlockLen
    BY <1>1 DEF Tokens
  <2> HIDE DEF l, p
  <2>4. \A i \in 2 .. 3 : l[i] \in Int
    BY <1>1, <2>2
  <2>5. /\ d \in Tokens /\ Len(d) = IF 2 <= 3 THEN 3 - 2 + 1 ELSE 0
        /\ \A i \in 1 .. 3 - 2 + 1 : d[i] = l[2 + i - 1]
    BY <2>4, SubSeqProperties DEF Tokens
  <2> HIDE DEF d
  <2>6. Len(d) = 2 /\ d[1] = BlockNum /\ d[2] = BlockLen
    BY <2>2, <2>5
  <2>7. d = p
    BY <2>3, <2>5, <2>6, Same
  <2> QED BY <2>1, <2>7 DEF Data, d, p
<1> QED BY <1>2, <1>3

(* A step of the driver and the server is a step of the block store, or    *)
(* none.                                                                   *)
LEMMA StepOfBlocks == IInv /\ [Next]_vars => [Blocks!Ask \/ Blocks!Store \/ Blocks!Return]_(Blocks!vars)
<1> SUFFICES ASSUME IInv, [Next]_vars
             PROVE  Blocks!Ask \/ Blocks!Store \/ Blocks!Return \/ UNCHANGED Blocks!vars
  OBVIOUS
<1>1. CASE Call
  BY <1>1 DEF Call, server, Blocks!Ask
<1>2. CASE Put \/ GetCommand \/ ReadToken \/ WriteToken \/ UNCHANGED vars
  BY <1>2 DEF Put, GetCommand, ReadToken, WriteToken, driver, server, vars, Blocks!vars
<1>3. CASE GetAnswer
  <2> DEFINE answer == Append(got, Head(from))
  <2>1. /\ Typed /\ call \in Requests /\ call.a < BlockNum
        /\ Len(answer) >= AnswerLen(call) => answer = Rest(call)
    BY <1>3, AnswerRead DEF Served
  <2>2. image' = image
    BY <1>3 DEF GetAnswer, server
  <2>3. \/ call' = call /\ buffer' = buffer
        \/ /\ ~ (Len(answer) < AnswerLen(call)) /\ call' = Idle
           /\ buffer' = IF call.kind = "wr" THEN buffer ELSE Data(answer)
    BY <1>3 DEF GetAnswer
  <2>4. Len(answer) < AnswerLen(call) \/ Len(answer) >= AnswerLen(call)
    <3>1. Append(got, Head(from)) \in Tokens
      BY <1>3, AnswerRead
    <3>2. Len(answer) \in Nat /\ AnswerLen(call) \in Nat
      BY <2>1, <3>1, RequestType, SizeTypes, Joined DEF AnswerLen
    <3> QED BY <3>2
  <2> HIDE DEF answer
  <2>5. CASE call' = call /\ buffer' = buffer
    BY <2>2, <2>5 DEF Blocks!vars
  <2>6. CASE /\ ~ (Len(answer) < AnswerLen(call)) /\ call' = Idle
             /\ buffer' = IF call.kind = "wr" THEN buffer ELSE Data(answer)
    <3>1. answer = Rest(call)
      BY <2>1, <2>4, <2>6
    <3>2. Stored /\ call # Idle
      BY <2>1, IdleAssumption DEF Stored, Typed, TypeOK
    <3>3. /\ call.kind \in {"conf", "rd", "wr"}
          /\ call.kind = "rd" => Data(answer) = Blocks!Content(call.a)
          /\ call.kind = "conf" => Data(answer) = <<BlockNum, BlockLen>>
      BY <2>1, <3>1, <3>2, RequestType, DataOf
    <3>4. Blocks!Return
      BY <2>1, <2>2, <2>6, <3>2, <3>3 DEF Blocks!Return
    <3> QED BY <3>4
  <2> QED BY <2>3, <2>5, <2>6
<1>4. CASE GetFailure
  <2>1. image' = image /\ buffer' = buffer /\ (call' = call \/ call' = Idle)
    BY <1>4 DEF GetFailure, server
  <2>2. call # Idle
    BY <1>4, FailureRead, IdleAssumption
  <2> QED BY <2>1, <2>2 DEF Blocks!Return, Blocks!vars
<1>5. CASE Serve
  <2>1. /\ call \in Requests
        /\ \/ /\ call.a < BlockNum
              /\ image' = IF call.kind = "wr" THEN Blocks!Written(call.a, call.x) ELSE image
           \/ image' = image
    BY <1>5, Serves
  <2>2. call' = call /\ buffer' = buffer /\ call # Idle
    BY <1>5, <2>1, IdleAssumption DEF Serve, driver
  <2> QED BY <2>1, <2>2 DEF Blocks!Store, Blocks!vars
<1> QED BY <1>1, <1>2, <1>3, <1>4, <1>5 DEF Next, Driver, Server

(* What the tries are worth: a request for a block of the disk that        *)
(* returns was served, or cost a damaged token a try.                      *)
LEMMA StepMasksDamage ==
  IInv /\ [Next]_vars =>
    [Return /\ damaged < RETRY /\ call.a < BlockNum =>
       /\ call.kind = "rd" => buffer' # << >>
       /\ call.kind = "wr" => image = Blocks!Written(call.a, call.x)]_vars
<1> SUFFICES ASSUME IInv, Next, Return, damaged < RETRY, call.a < BlockNum
             PROVE  /\ call.kind = "rd" => buffer' # << >>
                    /\ call.kind = "wr" => image = Blocks!Written(call.a, call.x)
  OBVIOUS
<1>1. call # Idle /\ call' = Idle
  BY DEF Return
<1>2. CASE Call \/ Put \/ GetCommand \/ ReadToken \/ WriteToken \/ Serve
  BY <1>1, <1>2 DEF Call, Put, GetCommand, ReadToken, WriteToken, Serve, driver
<1>3. CASE GetAnswer
  <2> DEFINE answer == Append(got, Head(from))
  <2>1. /\ Typed /\ call \in Requests /\ Served /\ answer \in Tokens
        /\ Len(answer) >= AnswerLen(call) => answer = Rest(call)
    BY <1>3, AnswerRead
  <2>2. Len(answer) >= AnswerLen(call) /\ (call.kind = "rd" => buffer' = Data(answer))
    <3>1. Len(answer) \in Nat /\ AnswerLen(call) \in Nat
      BY <2>1, RequestType, SizeTypes, Joined DEF AnswerLen
    <3> QED BY <1>1, <1>3, <3>1 DEF GetAnswer
  <2> HIDE DEF answer
  <2>3. ASSUME call.kind = "rd" PROVE buffer' # << >>
    <3>1. Stored /\ call.a \in Nat
      BY <2>1, RequestType, SizeTypes DEF Stored, Typed, TypeOK
    <3>2. buffer' = Blocks!Content(call.a)
      BY <2>1, <2>2, <2>3, <3>1, DataOf
    <3>3. Len(Blocks!Content(call.a)) = BlockLen /\ Len(<< >>) = 0
      BY <3>1, ContentType, EmptySeq
    <3> QED BY <3>2, <3>3, SizeTypes
  <2> QED BY <2>1, <2>3 DEF Served
<1>4. CASE GetFailure
  <2>1. Typed /\ call \in Requests /\ Damaged
    BY <1>4, FailureRead
  <2>2. ~ Again
    BY <1>1, <1>4 DEF GetFailure
  <2>3. damaged >= tries /\ tries >= RETRY /\ tries \in Int /\ damaged \in Int
    BY <2>1, <2>2, SizeTypes DEF Again, Damaged, Typed, TypeOK
  <2> QED BY <2>3, SizeTypes
<1> QED BY <1>2, <1>3, <1>4 DEF Next, Driver, Server

(* The driver and the server implement the block store that disk.h         *)
(* promises: a write takes effect between its call and its return, a read  *)
(* brings the block as it is or nothing.                                   *)
THEOREM Refines == Spec => ServesBlocks
<1>1. Init => Blocks!Init
  BY DEF Init, Blocks!Init
<1>2. IInv /\ [Next]_vars => [Blocks!Ask \/ Blocks!Store \/ Blocks!Return]_(Blocks!vars)
  BY StepOfBlocks
<1> QED BY <1>1, <1>2, Invariance, PTL DEF Spec, ServesBlocks, Blocks!Spec

(* Unless every try of it was damaged, a request for a block of the disk   *)
(* has been carried out when it returns (disk.c: the loop over RETRY).     *)
THEOREM Masks == Spec => TriesMaskDamage
<1>1. IInv /\ [Next]_vars =>
        [Return /\ damaged < RETRY /\ call.a < BlockNum =>
           /\ call.kind = "rd" => buffer' # << >>
           /\ call.kind = "wr" => image = Blocks!Written(call.a, call.x)]_vars
  BY StepMasksDamage
<1> QED BY <1>1, Invariance, PTL DEF Spec, TriesMaskDamage
=============================================================================
