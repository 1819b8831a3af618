--------------------------- MODULE CommandWire_proofs ---------------------------
(***************************************************************************)
(* Theorems about CommandWire, for every length of the buffer and of the   *)
(* place the delimiter is searched in, and whatever a client sends.        *)
(***************************************************************************)
EXTENDS CommandWire, SequenceTheorems, FiniteSetTheorems, WellFoundedInduction, TLAPS

(* A set of numbers has a least one, and CHOOSE finds it. *)
LEMMA LeastNumber ==
  ASSUME NEW S \in SUBSET Nat, S # {}
  PROVE  \E x \in S : \A y \in S : x <= y
<1> DEFINE R == OpToRel(<, Nat)
<1>1. IsWellFoundedOn(R, Nat)
  BY NatLessThanWellFounded
<1>2. \A a, b \in Nat : <<a, b>> \in R <=> a < b
  BY DEF OpToRel
<1> HIDE DEF R
<1>3. PICK x \in S : \A y \in S : ~(<<y, x>> \in R)
  BY <1>1, WFMin
<1>4. \A y \in S : ~(y < x) /\ y \in Nat /\ x \in Nat
  BY <1>2, <1>3, Zenon
<1> QED
  BY <1>4

LEMMA FirstDelimiter ==
  ASSUME Delimiters # {}
  PROVE  OpIndex \in Delimiters /\ \A i \in Delimiters : OpIndex <= i
<1>1. Delimiters \in SUBSET Nat
  BY MaxOpLenAssumption DEF Delimiters
<1>2. \E i \in Delimiters : \A j \in Delimiters : i <= j
  BY <1>1, LeastNumber
<1> QED
  BY <1>2, Zenon DEF OpIndex

-----------------------------------------------------------------------------
(* Words and commands. *)

LEMMA WordTyped ==
  ASSUME NEW w \in Words, NEW k \in Nat \ {0}
  PROVE  Word(w, k) \in Seq(Token) /\ Len(Word(w, k)) = k /\ Word(w, k)[1].word = w
<1>1. \A i \in 1 .. k : [word |-> w, part |-> i, of |-> k] \in Token
  BY DEF Token
<1>2. Word(w, k) \in [1 .. k -> Token]
  BY <1>1 DEF Word
<1>3. 1 \in 1 .. k
  OBVIOUS
<1> QED
  BY <1>2, <1>3 DEF Word

LEMMA SpecialWords == "" \in Words /\ "|" \in Words /\ 1 \in Nat \ {0}
<1>1. "" \in Words
  BY PartsAssumption
<1>2. "|" \in Words
  BY PartsAssumption
<1>3. 1 \in Nat \ {0}
  OBVIOUS
<1> QED
  BY <1>1, <1>2, <1>3, Zenon

LEMMA DelimiterTyped == Delimiter \in Seq(Token) /\ Len(Delimiter) = 1
  BY WordTyped, SpecialWords DEF Delimiter

LEMMA ZeroTyped == Zero \in Token
<1>1. Word("", 1) \in Seq(Token) /\ Len(Word("", 1)) = 1
  BY WordTyped, SpecialWords
<1>2. \A s \in Seq(Token) : Len(s) = 1 => s[1] \in Token
  OBVIOUS
<1> QED
  BY <1>1, <1>2 DEF Zero

LEMMA Joined ==
  ASSUME NEW s \in Seq(Token), NEW t \in Seq(Token)
  PROVE  /\ s \o t \in Seq(Token) /\ Len(s) \in Nat /\ Len(t) \in Nat
         /\ Len(s \o t) = Len(s) + Len(t)
         /\ \A i \in 1 .. Len(s) : (s \o t)[i] = s[i]
         /\ \A i \in 1 .. Len(t) : (s \o t)[Len(s) + i] = t[i]
<1>1. /\ s \o t \in Seq(Token) /\ Len(s) \in Nat /\ Len(t) \in Nat
      /\ Len(s \o t) = Len(s) + Len(t)
  OBVIOUS
<1>2. \A i \in 1 .. Len(s) : (s \o t)[i] = s[i]
  OBVIOUS
<1>3. \A i \in 1 .. Len(t) : (s \o t)[Len(s) + i] = t[i]
  OBVIOUS
<1> QED
  BY <1>1, <1>2, <1>3

(* What a page can say: an operation and an argument. *)
Sayable == [op : DOMAIN OpParts, arg : DOMAIN ArgBytes]

LEMMA CommandsSayable == Commands \subseteq Sayable
  BY CommandsAssumption DEF Sayable

LEMMA ArgTyped ==
  ASSUME NEW arg \in DOMAIN ArgBytes
  PROVE  ArgBytes[arg] \in Seq(Token) /\ Len(ArgBytes[arg]) \in Nat \ {0}
<1>1. ArgBytes[arg] \in Seq(Token) /\ ArgBytes[arg] # << >>
  BY ArgsAssumption
<1>2. \A t \in Seq(Token) : t # << >> => Len(t) \in Nat \ {0}
  OBVIOUS
<1> QED
  BY <1>1, <1>2

(* No two arguments have the same JSON. *)
LEMMA ArgsApart ==
  ASSUME NEW arg \in DOMAIN ArgBytes, NEW other \in DOMAIN ArgBytes,
         ArgBytes[arg] = ArgBytes[other]
  PROVE  arg = other
BY ArgsAssumption

(* What is encoded where. *)
LEMMA EncodedParts ==
  ASSUME NEW c \in Sayable, NEW a, NEW b, a = OpParts[c.op], b = Len(ArgBytes[c.arg])
  PROVE  /\ a \in Nat \ {0} /\ b \in Nat \ {0}
         /\ Encode(c) \in Seq(Token) /\ Len(Encode(c)) = a + 1 + b
         /\ \A i \in 1 .. a : Encode(c)[i] = [word |-> c.op, part |-> i, of |-> a]
         /\ Encode(c)[a + 1] = Delimiter[1]
         /\ \A i \in 1 .. b : Encode(c)[a + 1 + i] = ArgBytes[c.arg][i]
<1> DEFINE op == Word(c.op, a)
           arg == ArgBytes[c.arg]
           e == Encode(c)
<1>1. /\ a \in Nat \ {0} /\ b \in Nat \ {0}
      /\ c.op \in Words /\ arg \in Seq(Token) /\ Len(arg) = b
  BY PartsAssumption, ArgTyped DEF Sayable
<1>2. /\ op \in Seq(Token) /\ Len(op) = a /\ arg \in Seq(Token) /\ Len(arg) = b
  BY <1>1, WordTyped
<1>3. /\ \A i \in 1 .. a : op[i] = [word |-> c.op, part |-> i, of |-> a]
      /\ \A i \in 1 .. b : arg[i] = ArgBytes[c.arg][i]
  BY <1>1 DEF Word
<1>4. e = op \o Delimiter \o arg
  BY DEF Encode
<1> HIDE DEF op, arg
<1> DEFINE od == op \o Delimiter
<1>5. /\ od \in Seq(Token) /\ Len(od) = a + 1
      /\ \A i \in 1 .. a : od[i] = op[i]
      /\ \A i \in 1 .. 1 : od[a + i] = Delimiter[i]
  <2>1. Delimiter \in Seq(Token) /\ Len(Delimiter) = 1
    BY DelimiterTyped
  <2>2. /\ od \in Seq(Token) /\ Len(od) = Len(op) + Len(Delimiter)
        /\ \A i \in 1 .. Len(op) : od[i] = op[i]
        /\ \A i \in 1 .. Len(Delimiter) : od[Len(op) + i] = Delimiter[i]
    BY <1>2, <2>1, Joined, Zenon
  <2>3. Len(op) = a /\ Len(Delimiter) = 1
    BY <1>2, <2>1
  <2> HIDE DEF od
  <2>4. /\ od \in Seq(Token) /\ Len(od) = a + 1
        /\ \A i \in 1 .. a : od[i] = op[i]
    BY <2>2, <2>3
  <2>5. \A i \in 1 .. 1 : od[a + i] = Delimiter[i]
    BY <2>2, <2>3
  <2> QED
    BY <2>4, <2>5, Zenon
<1>6. od[a + 1] = Delimiter[1]
  <2>1. 1 \in 1 .. 1
    OBVIOUS
  <2> QED
    BY <1>5, <2>1, Zenon
<1>7. e = od \o arg
  BY <1>4
<1> HIDE DEF od, e
<1>8. /\ e \in Seq(Token) /\ Len(e) = Len(od) + Len(arg)
      /\ \A i \in 1 .. Len(od) : e[i] = od[i]
      /\ \A i \in 1 .. Len(arg) : e[Len(od) + i] = arg[i]
  BY <1>2, <1>5, <1>7, Joined, Zenon
<1>9. /\ e \in Seq(Token) /\ Len(e) = a + 1 + b
      /\ \A i \in 1 .. a + 1 : e[i] = od[i]
      /\ \A i \in 1 .. b : e[a + 1 + i] = arg[i]
  BY <1>2, <1>5, <1>8
<1>11. \A i \in 1 .. a : i \in 1 .. a + 1
  BY <1>1
<1>12. a + 1 \in 1 .. a + 1
  BY <1>1
<1>13. /\ \A i \in 1 .. a : e[i] = [word |-> c.op, part |-> i, of |-> a]
       /\ e[a + 1] = Delimiter[1]
       /\ \A i \in 1 .. b : e[a + 1 + i] = ArgBytes[c.arg][i]
  BY <1>3, <1>5, <1>6, <1>9, <1>11, <1>12, Zenon
<1> QED
  BY <1>1, <1>9, <1>13, Zenon DEF e

(* A message that begins like another and goes on at least as far as into  *)
(* its argument is the same: no cut of a command is a command, and two     *)
(* commands are not encoded alike.                                         *)
LEMMA EncodedApart ==
  ASSUME NEW c \in Sayable, NEW d \in Sayable,
         \A i \in 1 .. Len(Encode(d)) : i \in 1 .. Len(Encode(c)) /\ Encode(c)[i] = Encode(d)[i]
  PROVE  c = d
<1> DEFINE a == OpParts[c.op]
           b == Len(ArgBytes[c.arg])
           f == OpParts[d.op]
           g == Len(ArgBytes[d.arg])
<1>1. /\ a \in Nat \ {0} /\ b \in Nat \ {0} /\ Len(Encode(c)) = a + 1 + b
      /\ \A i \in 1 .. a : Encode(c)[i] = [word |-> c.op, part |-> i, of |-> a]
      /\ \A i \in 1 .. b : Encode(c)[a + 1 + i] = ArgBytes[c.arg][i]
  <2> HIDE DEF a, b
  <2>1. a = OpParts[c.op] /\ b = Len(ArgBytes[c.arg])
    BY DEF a, b
  <2>2. a \in Nat \ {0} /\ b \in Nat \ {0} /\ Len(Encode(c)) = a + 1 + b
    BY <2>1, EncodedParts
  <2>3. \A i \in 1 .. a : Encode(c)[i] = [word |-> c.op, part |-> i, of |-> a]
    BY <2>1, EncodedParts
  <2>4. \A i \in 1 .. b : Encode(c)[a + 1 + i] = ArgBytes[c.arg][i]
    BY <2>1, EncodedParts
  <2> QED
    BY <2>2, <2>3, <2>4
<1>2. /\ f \in Nat \ {0} /\ g \in Nat \ {0} /\ Len(Encode(d)) = f + 1 + g
      /\ \A i \in 1 .. f : Encode(d)[i] = [word |-> d.op, part |-> i, of |-> f]
      /\ \A i \in 1 .. g : Encode(d)[f + 1 + i] = ArgBytes[d.arg][i]
  <2> HIDE DEF f, g
  <2>1. f = OpParts[d.op] /\ g = Len(ArgBytes[d.arg])
    BY DEF f, g
  <2>2. f \in Nat \ {0} /\ g \in Nat \ {0} /\ Len(Encode(d)) = f + 1 + g
    BY <2>1, EncodedParts
  <2>3. \A i \in 1 .. f : Encode(d)[i] = [word |-> d.op, part |-> i, of |-> f]
    BY <2>1, EncodedParts
  <2>4. \A i \in 1 .. g : Encode(d)[f + 1 + i] = ArgBytes[d.arg][i]
    BY <2>1, EncodedParts
  <2> QED
    BY <2>2, <2>3, <2>4
<1>3. c.arg \in DOMAIN ArgBytes /\ d.arg \in DOMAIN ArgBytes
  BY DEF Sayable
<1> HIDE DEF a, b, f, g
<1>4. c.op = d.op
  <2>1. 1 \in 1 .. Len(Encode(d)) /\ 1 \in 1 .. a /\ 1 \in 1 .. f
    BY <1>1, <1>2
  <2>2. Encode(c)[1] = Encode(d)[1]
    BY <2>1
  <2>3. /\ Encode(c)[1] = [word |-> c.op, part |-> 1, of |-> a]
        /\ Encode(d)[1] = [word |-> d.op, part |-> 1, of |-> f]
    BY <1>1, <1>2, <2>1
  <2>4. Encode(c)[1].word = c.op /\ Encode(d)[1].word = d.op
    BY <2>3
  <2> QED
    BY <2>2, <2>4
<1>5. a = f
  BY <1>4 DEF a, f
<1>6. c.arg = d.arg
  <2>1. ASSUME NEW i \in 1 .. g PROVE i \in 1 .. b /\ ArgBytes[c.arg][i] = ArgBytes[d.arg][i]
    <3>1. f + 1 + i \in 1 .. Len(Encode(d))
      BY <1>2
    <3>2. a + 1 + i \in 1 .. Len(Encode(c)) /\ Encode(c)[a + 1 + i] = Encode(d)[f + 1 + i]
      BY <1>5, <3>1
    <3>3. i \in 1 .. b
      BY <1>1, <1>2, <3>2
    <3> QED
      BY <1>1, <1>2, <3>2, <3>3
  <2> QED
    BY <1>3, <2>1, ArgsAssumption DEF b, g
<1> QED
  BY <1>4, <1>6 DEF Sayable

LEMMA MeaningOfEncoded ==
  ASSUME NEW c \in Commands
  PROVE  Meaning(Encode(c)) = c /\ WellFormed(Encode(c))
<1>1. \A d \in Commands : Encode(d) = Encode(c) => d = c
  BY CommandsSayable, EncodedApart
<1> QED
  BY <1>1 DEF Meaning, WellFormed

(* Every command contains the delimiter. *)
LEMMA EncodedHasDelimiter ==
  ASSUME NEW p, WellFormed(p)
  PROVE  \E i \in 1 .. Len(p) : p[i] = Delimiter[1]
<1>1. PICK c \in Commands : p = Encode(c)
  BY DEF WellFormed
<1> DEFINE a == OpParts[c.op]
           b == Len(ArgBytes[c.arg])
<1>2. a = OpParts[c.op] /\ b = Len(ArgBytes[c.arg]) /\ c \in Sayable
  BY CommandsSayable
<1> HIDE DEF a, b
<1>3. /\ a \in Nat /\ b \in Nat /\ Len(p) = a + 1 + b
      /\ p[a + 1] = Delimiter[1]
  BY <1>1, <1>2, EncodedParts
<1>4. a + 1 \in 1 .. Len(p)
  BY <1>3
<1> QED
  BY <1>3, <1>4

-----------------------------------------------------------------------------
(* The buffer while a command is handled: its first n bytes are what was   *)
(* read last.                                                              *)
InHand ==
  pc = "handle" =>
    /\ n \in 1 .. Size
    /\ Len(chunk) = n
    /\ \A i \in 1 .. n : cmd[i] = chunk[i]
    /\ clean => WellFormed(chunk)

WireInv ==
  /\ WireTypeOK
  /\ cmd \in Seq(Token)
  /\ pending \in Seq(Seq(Token))
  /\ chunk \in Seq(Token)
  /\ InHand
  /\ PanicNeedsNoise

LEMMA InitWire == WireInit => WireInv
<1> SUFFICES ASSUME WireInit PROVE WireInv
  OBVIOUS
<1>1. cmd \in Seq(Token) /\ Len(cmd) = Size
  <2>1. cmd \in [1 .. Size -> Token] /\ Size \in Nat
    BY ZeroTyped, SizeAssumption DEF WireInit
  <2> QED
    BY <2>1
<1>2. pending \in Seq(Seq(Token)) /\ chunk \in Seq(Token) /\ sent \in Seq(Payloads)
      /\ astray = FALSE /\ Len(sent) = 0
  <2>1. Len(<< >>) = 0
    OBVIOUS
  <2>2. pending = << >> /\ chunk = << >> /\ sent = << >> /\ astray = FALSE
    BY DEF WireInit, StreamInit
  <2> QED
    BY <2>1, <2>2
<1>3. WireTypeOK
  <2>1. Len(sent) <= MaxPayloads /\ 0 \in 0 .. Size
    BY <1>2, SizeAssumption, MaxPayloadsAssumption
  <2> QED
    BY <1>1, <1>2, <2>1 DEF WireTypeOK, WireInit
<1> QED
  BY <1>1, <1>2, <1>3 DEF WireInit, WireInv, InHand, PanicNeedsNoise

LEMMA ReadKeeps ==
  ASSUME WireInv, NEW k \in 1 .. Size, ReadCommand(k)
  PROVE  WireInv'
<1> DEFINE first == Head(pending)
           rest == SubSeq(cmd, k + 1, Size)
<1>1. /\ cmd \in Seq(Token) /\ Len(cmd) = Size /\ pending \in Seq(Seq(Token))
      /\ pending # << >> /\ k \in 1 .. Len(first) /\ Size \in Nat
  BY SizeAssumption DEF WireInv, WireTypeOK, ReadCommand, Return
<1>2. first \in Seq(Token)
  BY <1>1
<1>3. chunk' = SubSeq(first, 1, k) /\ cmd' = chunk' \o rest
  BY DEF ReadCommand, Return
<1> HIDE DEF first
<1>4. chunk' \in Seq(Token) /\ Len(chunk') = k
  BY <1>1, <1>2, <1>3
<1>5. rest \in Seq(Token) /\ Len(rest) = Size - k
  BY <1>1
<1> HIDE DEF rest
<1>6. cmd' \in Seq(Token) /\ Len(cmd') = Size /\ \A i \in 1 .. k : cmd'[i] = chunk'[i]
  BY <1>1, <1>3, <1>4, <1>5
<1>7. pending' \in Seq(Seq(Token))
  <2>1. CASE pending' = Tail(pending)
    BY <1>1, <2>1
  <2>2. CASE pending' = [pending EXCEPT ![1] = SubSeq(@, k + 1, Len(@))]
    <3>1. 1 \in 1 .. Len(pending) /\ pending[1] = first
      BY <1>1 DEF first
    <3>2. SubSeq(first, k + 1, Len(first)) \in Seq(Token)
      BY <1>1, <1>2
    <3> QED
      BY <1>1, <2>2, <3>1, <3>2
  <2> QED
    BY <2>1, <2>2 DEF ReadCommand, Return
<1>8. n' = k /\ k \in 1 .. Size /\ pc' = "handle" /\ (clean' => WellFormed(chunk'))
  BY DEF ReadCommand
<1>9. InHand'
  <2>1. n' \in 1 .. Size /\ Len(chunk') = n' /\ \A i \in 1 .. n' : cmd'[i] = chunk'[i]
    BY <1>4, <1>6, <1>8
  <2>2. clean' => WellFormed(chunk)'
    BY <1>8 DEF WellFormed
  <2> QED
    BY <2>1, <2>2 DEF InHand
<1>10. WireTypeOK'
  <2>1. UNCHANGED <<login, astray, sent>> /\ n' \in 0 .. Size
    BY <1>1, <1>8 DEF ReadCommand, Return
  <2> QED
    BY <1>6, <1>8, <2>1 DEF WireInv, WireTypeOK
<1>11. PanicNeedsNoise'
  BY DEF ReadCommand, PanicNeedsNoise
<1> QED
  BY <1>4, <1>6, <1>7, <1>9, <1>10, <1>11 DEF WireInv

(* What is handled was delimited within the n bytes, if it was a command:  *)
(* the first delimiter of the buffer is not behind that of the command.    *)
LEMMA CommandsAreSliced ==
  ASSUME WireInv, pc = "handle", clean, Delimiters # {}
  PROVE  OpIndex <= n
<1>1. PICK i \in 1 .. Len(chunk) : chunk[i] = Delimiter[1]
  BY EncodedHasDelimiter DEF WireInv, InHand
<1>2. i \in 1 .. n /\ n \in Nat /\ cmd[i] = Delimiter[1]
  BY <1>1 DEF WireInv, InHand
<1>3. /\ OpIndex \in 1 .. MaxOpLen /\ MaxOpLen \in Nat
      /\ i \in 1 .. MaxOpLen => OpIndex <= i
  BY <1>2, FirstDelimiter, MaxOpLenAssumption, SizeAssumption DEF Delimiters
<1> QED
  BY <1>2, <1>3

LEMMA DecodedTyped ==
  ASSUME NEW S, NEW target \in S \cup DOMAIN ArgBytes
  PROVE  Decoded(target) \in S \cup DOMAIN ArgBytes
<1>1. CASE \E arg \in DOMAIN ArgBytes : Data = ArgBytes[arg]
  BY <1>1 DEF Decoded
<1>2. CASE ~\E arg \in DOMAIN ArgBytes : Data = ArgBytes[arg]
  BY <1>2 DEF Decoded
<1> QED
  BY <1>1, <1>2

LEMMA HandleKeeps ==
  ASSUME WireInv, \/ Malformed \/ SlicePanic \/ HandleLogin \/ HandleRequest \/ HandleAccept
                  \/ UnknownOp
  PROVE  WireInv'
<1>1. /\ UNCHANGED <<streamVars, cmd, n, up, sent, clean>>
      /\ pc = "handle" /\ (pc' = "read" \/ (SlicePanic /\ pc' = "panicked"))
      /\ login' = login \/ login' = Decoded(login)
  BY DEF Malformed, SlicePanic, HandleLogin, HandleRequest, HandleAccept, UnknownOp, CarryOut
<1>2. login' \in {""} \cup DOMAIN ArgBytes
  BY <1>1, DecodedTyped DEF WireInv, WireTypeOK
<1>3. PanicNeedsNoise'
  <2>1. ASSUME SlicePanic PROVE ~clean
    <3>1. n \in Nat /\ pc = "handle" /\ Delimiters # {} /\ OpIndex > n
      BY <2>1 DEF SlicePanic, WireInv, InHand
    <3>2. OpIndex \in Nat
      BY <3>1, FirstDelimiter, MaxOpLenAssumption DEF Delimiters
    <3> QED
      BY <3>1, <3>2, CommandsAreSliced
  <2> QED
    BY <1>1, <2>1 DEF PanicNeedsNoise
<1> QED
  BY <1>1, <1>2, <1>3 DEF WireInv, WireTypeOK, InHand, streamVars, WellFormed

LEMMA SendKeeps ==
  ASSUME WireInv, NEW payload \in Payloads, PageSends(payload)
  PROVE  WireInv'
<1>1. /\ pending \in Seq(Seq(Token)) /\ sent \in Seq(Payloads) /\ payload \in Seq(Token)
      /\ Len(sent) < MaxPayloads /\ MaxPayloads \in Nat
  BY PayloadsAssumption, MaxPayloadsAssumption DEF WireInv, WireTypeOK, PageSends
<1>2. pending' \in Seq(Seq(Token)) /\ sent' \in Seq(Payloads) /\ Len(sent') <= MaxPayloads
  <2>1. pending' = Append(pending, payload) /\ sent' = Append(sent, payload)
    BY DEF PageSends, Arrive
  <2> QED
    BY <1>1, <2>1
<1> QED
  BY <1>2 DEF PageSends, Arrive, serverVars, WireInv, WireTypeOK, InHand, PanicNeedsNoise,
     WellFormed

LEMMA LossKeeps ==
  ASSUME WireInv, NEW k \in 0 .. Len(pending), NEW m \in IF k = 0 THEN {0} ELSE 1 .. Len(pending[k]),
         ConnectionLost(k, m)
  PROVE  WireInv'
<1>1. pending \in Seq(Seq(Token))
  BY DEF WireInv
<1>2. pending' \in Seq(Seq(Token))
  <2>1. CASE k = 0
    <3>1. pending' = << >>
      BY <2>1 DEF ConnectionLost, Lose
    <3> QED
      BY <3>1
  <2>2. CASE k # 0
    <3>1. k \in 1 .. Len(pending) /\ m \in 1 .. Len(pending[k]) /\ pending[k] \in Seq(Token)
      BY <1>1, <2>2
    <3> DEFINE kept == SubSeq(pending, 1, k)
    <3>2. kept \in Seq(Seq(Token)) /\ Len(kept) = k /\ kept[k] = pending[k]
      BY <1>1, <3>1
    <3>3. SubSeq(kept[k], 1, m) \in Seq(Token)
      BY <3>1, <3>2
    <3>4. pending' = [kept EXCEPT ![k] = SubSeq(@, 1, m)]
      BY <2>2 DEF ConnectionLost, Lose
    <3> HIDE DEF kept
    <3> QED
      BY <3>1, <3>2, <3>3, <3>4
  <2> QED
    BY <2>1, <2>2
<1> QED
  BY <1>2 DEF ConnectionLost, Lose, serverVars, WireInv, WireTypeOK, InHand, PanicNeedsNoise,
     WellFormed

LEMMA StepWire == WireInv /\ [WireNext]_wireVars => WireInv'
<1>1. WireInv /\ WireNext => WireInv'
  <2> SUFFICES ASSUME WireInv, WireNext PROVE WireInv'
    OBVIOUS
  <2>1. CASE NanoServer
    <3>1. CASE \E k \in 1 .. Size : ReadCommand(k)
      BY <3>1, ReadKeeps
    <3>2. CASE \/ Malformed \/ SlicePanic \/ HandleLogin \/ HandleRequest \/ HandleAccept
               \/ UnknownOp
      BY <3>2, HandleKeeps
    <3> QED
      BY <2>1, <3>1, <3>2 DEF NanoServer
  <2>2. CASE \E payload \in Payloads : PageSends(payload)
    BY <2>2, SendKeeps
  <2>3. CASE \E k \in 0 .. Len(pending) :
               \E m \in IF k = 0 THEN {0} ELSE 1 .. Len(pending[k]) : ConnectionLost(k, m)
    BY <2>3, LossKeeps
  <2> QED
    BY <2>1, <2>2, <2>3 DEF WireNext
<1>2. WireInv /\ UNCHANGED wireVars => WireInv'
  <2> SUFFICES ASSUME WireInv, UNCHANGED wireVars PROVE WireInv'
    OBVIOUS
  <2>1. UNCHANGED <<pending, chunk, astray, cmd, n, pc, login, sent, clean>>
    BY DEF wireVars, streamVars, serverVars
  <2>2. WireTypeOK'
    BY <2>1 DEF WireInv, WireTypeOK
  <2>3. InHand'
    BY <2>1 DEF WireInv, InHand, WellFormed
  <2> QED
    BY <2>1, <2>2, <2>3 DEF WireInv, PanicNeedsNoise
<1> QED
  BY <1>1, <1>2

LEMMA WireHolds == WireSpec => []WireInv
  BY InitWire, StepWire, PTL DEF WireSpec

(* The buffer keeps its length, the credentials are ones a client gave. *)
THEOREM WireTypeCorrect == WireSpec => []WireTypeOK
<1>1. WireInv => WireTypeOK
  BY DEF WireInv
<1> QED
  BY <1>1, WireHolds, PTL

(* As long as every read returned one whole command, the slice that takes  *)
(* the data of a command is in order (websocket.go:87), although the       *)
(* delimiter is searched in MAX_OP_LEN bytes of which some may be left     *)
(* over from earlier commands.                                             *)
THEOREM CommandsDoNotPanic == WireSpec => []PanicNeedsNoise
<1>1. WireInv => PanicNeedsNoise
  BY DEF WireInv
<1> QED
  BY <1>1, WireHolds, PTL

-----------------------------------------------------------------------------
(* The commands that wait in what has arrived. *)

(* The first w frames of p are whole commands, and no more. *)
Whole(p, w) ==
  /\ w \in 0 .. Len(p)
  /\ \A j \in 1 .. w : WellFormed(p[j])
  /\ w = Len(p) \/ ~WellFormed(p[w + 1])

Meanings(p, w) == [i \in 1 .. w |-> Meaning(p[i])]

LEMMA MeaningTyped ==
  ASSUME NEW p, WellFormed(p)
  PROVE  Meaning(p) \in Commands /\ Encode(Meaning(p)) = p
  BY DEF WellFormed, Meaning

LEMMA SomeAreWhole ==
  ASSUME NEW p \in Seq(Seq(Token))
  PROVE  \E w \in 0 .. Len(p) : Whole(p, w)
<1> DEFINE ill == {j \in 0 .. Len(p) : j = Len(p) \/ ~WellFormed(p[j + 1])}
<1>1. ill \in SUBSET Nat /\ ill # {} /\ Len(p) \in Nat
  <2>1. Len(p) \in Nat
    OBVIOUS
  <2>2. Len(p) \in ill
    BY <2>1
  <2>3. ill \in SUBSET Nat
    BY <2>1
  <2> QED
    BY <2>1, <2>2, <2>3
<1>2. PICK w \in ill : \A j \in ill : w <= j
  BY <1>1, LeastNumber
<1>3. ASSUME NEW j \in 1 .. w PROVE WellFormed(p[j])
  <2>1. w \in 0 .. Len(p)
    BY <1>2
  <2>2. j - 1 \in 0 .. Len(p) /\ j - 1 < w /\ j - 1 # Len(p) /\ (j - 1) + 1 = j
    BY <1>1, <2>1
  <2>3. j - 1 \notin ill
    <3> HIDE DEF ill
    <3>1. j - 1 \in ill => w <= j - 1
      BY <1>2
    <3> QED
      BY <1>1, <2>1, <2>2, <3>1
  <2> QED
    BY <2>2, <2>3
<1> QED
  BY <1>2, <1>3 DEF Whole

LEMMA WholeIsOne ==
  ASSUME NEW p \in Seq(Seq(Token)), NEW w, NEW x, Whole(p, w), Whole(p, x)
  PROVE  w = x
<1>1. w \in 0 .. Len(p) /\ x \in 0 .. Len(p) /\ Len(p) \in Nat
  BY DEF Whole
<1>2. ASSUME w < x PROVE FALSE
  <2>1. w + 1 \in 1 .. x /\ w # Len(p)
    BY <1>1, <1>2
  <2> QED
    BY <2>1 DEF Whole
<1>3. ASSUME x < w PROVE FALSE
  <2>1. x + 1 \in 1 .. w /\ x # Len(p)
    BY <1>1, <1>3
  <2> QED
    BY <2>1 DEF Whole
<1> QED
  BY <1>1, <1>2, <1>3

LEMMA WaitingIs ==
  ASSUME NEW p \in Seq(Seq(Token)), NEW w, Whole(p, w)
  PROVE  Waiting(p) = Meanings(p, w)
<1> DEFINE whole == CHOOSE i \in Intact(p) : \A j \in Intact(p) : j <= i
<1>1. Intact(p) = 0 .. w
  <2>1. w \in 0 .. Len(p) /\ Len(p) \in Nat
    BY DEF Whole
  <2>2. ASSUME NEW i \in 0 .. w PROVE i \in Intact(p)
    BY <2>1 DEF Intact, Whole
  <2>3. ASSUME NEW i \in Intact(p) PROVE i \in 0 .. w
    <3>1. i \in 0 .. Len(p) /\ \A j \in 1 .. i : WellFormed(p[j])
      BY DEF Intact
    <3>2. ASSUME i > w PROVE FALSE
      <4>1. w + 1 \in 1 .. i /\ w # Len(p)
        BY <2>1, <3>1, <3>2
      <4> QED
        BY <3>1, <4>1 DEF Whole
    <3> QED
      BY <2>1, <3>1, <3>2
  <2> QED
    BY <2>2, <2>3
<1>2. whole = w
  <2>1. w \in Nat
    BY DEF Whole
  <2>2. w \in Intact(p) /\ \A j \in Intact(p) : j <= w
    BY <1>1, <2>1
  <2>3. whole \in Intact(p) /\ \A j \in Intact(p) : j <= whole
    BY <2>2
  <2> HIDE DEF whole
  <2>4. whole \in 0 .. w /\ w <= whole
    BY <1>1, <2>2, <2>3
  <2> QED
    BY <2>1, <2>4
<1>3. Waiting(p) = [i \in 1 .. whole |-> Meaning(p[i])]
  BY DEF Waiting
<1> HIDE DEF whole
<1> QED
  BY <1>2, <1>3 DEF Meanings

LEMMA MeaningsTyped ==
  ASSUME NEW p \in Seq(Seq(Token)), NEW w, Whole(p, w)
  PROVE  Meanings(p, w) \in Seq(Commands) /\ Len(Meanings(p, w)) = w
<1>1. w \in Nat /\ \A i \in 1 .. w : Meaning(p[i]) \in Commands
  BY MeaningTyped DEF Whole
<1> QED
  BY <1>1 DEF Meanings

(* One more frame: a command is one more that waits if all before it are.  *)
LEMMA WholeAppend ==
  ASSUME NEW p \in Seq(Seq(Token)), NEW t \in Seq(Token), NEW w, Whole(p, w)
  PROVE  \/ /\ WellFormed(t)
            /\ Whole(Append(p, t), w + 1)
            /\ Meanings(Append(p, t), w + 1) = Append(Meanings(p, w), Meaning(t))
         \/ /\ Whole(Append(p, t), w)
            /\ Meanings(Append(p, t), w) = Meanings(p, w)
<1> DEFINE q == Append(p, t)
<1>1. /\ w \in Nat /\ Len(p) \in Nat /\ w <= Len(p)
      /\ \A j \in 1 .. w : WellFormed(p[j])
      /\ w = Len(p) \/ ~WellFormed(p[w + 1])
  BY DEF Whole
<1>2. /\ Len(q) = Len(p) + 1 /\ q[Len(p) + 1] = t
      /\ \A j \in 1 .. Len(p) : q[j] = p[j]
  OBVIOUS
<1> HIDE DEF q
<1>3. \A j \in 1 .. w : j \in 1 .. Len(p)
  BY <1>1
<1>4. CASE w = Len(p) /\ WellFormed(t)
  <2>1. Whole(q, w + 1)
    <3>1. \A j \in 1 .. w + 1 : j \in 1 .. w \/ j = w + 1
      BY <1>1
    <3>2. \A j \in 1 .. w + 1 : WellFormed(q[j])
      BY <1>1, <1>2, <1>3, <1>4, <3>1
    <3> QED
      BY <1>1, <1>2, <1>4, <3>2 DEF Whole
  <2>2. Meanings(q, w + 1) = Append(Meanings(p, w), Meaning(t))
    <3> DEFINE v == Meanings(p, w)
    <3>1. v \in Seq(Commands) /\ Len(v) = w
      BY MeaningsTyped
    <3>2. \A j \in 1 .. w : v[j] = Meaning(p[j])
      BY DEF Meanings
    <3>3. Meaning(t) \in Commands
      BY <1>4, MeaningTyped
    <3> HIDE DEF v
    <3>4. /\ Append(v, Meaning(t)) \in Seq(Commands) /\ Len(Append(v, Meaning(t))) = w + 1
          /\ Append(v, Meaning(t))[w + 1] = Meaning(t)
          /\ \A j \in 1 .. w : Append(v, Meaning(t))[j] = v[j]
      BY <1>1, <3>1, <3>3
    <3> DEFINE av == Append(v, Meaning(t))
    <3>8. av \in Seq(Commands) /\ Len(av) = w + 1
      BY <3>4
    <3> HIDE DEF av
    <3>5. av = [j \in 1 .. w + 1 |-> av[j]]
      BY <3>8
    <3>6. ASSUME NEW j \in 1 .. w + 1 PROVE av[j] = Meaning(q[j])
      <4>1. j \in 1 .. w \/ j = w + 1
        BY <1>1
      <4> QED
        BY <1>2, <1>3, <1>4, <3>2, <3>4, <4>1 DEF av
    <3>7. av = Meanings(q, w + 1)
      BY <3>5, <3>6 DEF Meanings
    <3> QED
      BY <3>7 DEF av, v
  <2> QED
    BY <1>4, <2>1, <2>2 DEF q
<1>5. CASE ~(w = Len(p) /\ WellFormed(t))
  <2>1. ~WellFormed(q[w + 1])
    <3>1. CASE w = Len(p)
      BY <1>2, <1>5, <3>1
    <3>2. CASE w # Len(p)
      <4>1. w + 1 \in 1 .. Len(p)
        BY <1>1, <3>2
      <4> QED
        BY <1>1, <1>2, <3>2, <4>1
    <3> QED
      BY <3>1, <3>2
  <2>2. Whole(q, w)
    BY <1>1, <1>2, <1>3, <2>1 DEF Whole
  <2>3. Meanings(q, w) = Meanings(p, w)
    BY <1>2, <1>3 DEF Meanings
  <2> QED
    BY <2>2, <2>3 DEF q
<1> QED
  BY <1>4, <1>5

(* The first frame is taken out whole. *)
LEMMA WholeTail ==
  ASSUME NEW p \in Seq(Seq(Token)), NEW w, Whole(p, w), p # << >>, WellFormed(Head(p))
  PROVE  /\ Whole(Tail(p), w - 1)
         /\ Meanings(p, w) = <<Meaning(Head(p))>> \o Meanings(Tail(p), w - 1)
<1> DEFINE q == Tail(p)
<1>1. /\ w \in Nat /\ Len(p) \in Nat /\ w <= Len(p) /\ Len(p) > 0
      /\ \A j \in 1 .. w : WellFormed(p[j])
      /\ w = Len(p) \/ ~WellFormed(p[w + 1])
      /\ Head(p) = p[1]
  BY DEF Whole
<1>2. w > 0
  BY <1>1
<1>3. /\ q \in Seq(Seq(Token)) /\ Len(q) = Len(p) - 1
      /\ \A j \in 1 .. Len(p) - 1 : q[j] = p[j + 1]
  BY <1>1
<1> HIDE DEF q
<1>4. \A j \in 1 .. w - 1 : j \in 1 .. Len(p) - 1 /\ j + 1 \in 1 .. w
  BY <1>1
<1>5. Whole(q, w - 1)
  <2>1. \A j \in 1 .. w - 1 : WellFormed(q[j])
    BY <1>1, <1>3, <1>4
  <2>2. w - 1 = Len(q) \/ ~WellFormed(q[(w - 1) + 1])
    <3>1. CASE w # Len(p)
      <4>1. w \in 1 .. Len(p) - 1 /\ (w - 1) + 1 = w
        BY <1>1, <1>2, <3>1
      <4> QED
        BY <1>1, <1>3, <3>1, <4>1
    <3> QED
      BY <1>3, <3>1
  <2>3. w - 1 \in 0 .. Len(q)
    BY <1>1, <1>2, <1>3
  <2> QED
    BY <2>1, <2>2, <2>3 DEF Whole
<1>6. Meanings(p, w) = <<Meaning(Head(p))>> \o Meanings(q, w - 1)
  <2> DEFINE u == Meanings(p, w)
             v == Meanings(q, w - 1)
             h == Meaning(Head(p))
             hv == <<h>> \o v
  <2>1. v \in Seq(Commands) /\ Len(v) = w - 1
    BY <1>3, <1>5, MeaningsTyped
  <2>2. h \in Commands
    BY MeaningTyped
  <2>3. u \in Seq(Commands) /\ Len(u) = w
    BY MeaningsTyped
  <2>4. u[1] = h
    BY <1>1, <1>2 DEF Meanings
  <2>5. ASSUME NEW j \in 1 .. w - 1 PROVE u[j + 1] = v[j]
    BY <1>3, <1>4 DEF Meanings
  <2> HIDE DEF u, v, h
  <2>6. hv \in Seq(Commands) /\ Len(hv) = w /\ hv[1] = h
    BY <1>1, <1>2, <2>1, <2>2
  <2>7. ASSUME NEW j \in 1 .. w - 1 PROVE hv[j + 1] = v[j]
    BY <1>1, <2>1, <2>2
  <2> HIDE DEF hv
  <2>8. ASSUME NEW j \in 1 .. w PROVE u[j] = hv[j]
    <3>1. CASE j = 1
      BY <2>4, <2>6, <3>1
    <3>2. CASE j # 1
      <4>1. j - 1 \in 1 .. w - 1 /\ (j - 1) + 1 = j
        BY <1>1, <3>2
      <4> QED
        BY <2>5, <2>7, <4>1
    <3> QED
      BY <3>1, <3>2
  <2>9. u = hv
    BY <2>3, <2>6, <2>8
  <2> QED
    BY <2>9 DEF u, v, h, hv
<1> QED
  BY <1>5, <1>6 DEF q

(* The first k frames, the last of them replaced by t. *)
CutTo(p, k, t) == [SubSeq(p, 1, k) EXCEPT ![k] = t]

(* Of the commands in p, the first w, there are in q one more, t; or only  *)
(* the first of them.                                                      *)
OneMore(p, w, t, q) ==
  /\ WellFormed(t)
  /\ Whole(q, w + 1)
  /\ Meanings(q, w + 1) = Append(Meanings(p, w), Meaning(t))

SomeLess(p, w, q) ==
  \E x \in 0 .. w : Whole(q, x) /\ Meanings(q, x) = SubSeq(Meanings(p, w), 1, x)

(* A connection goes down: of the first k frames a part of the last is     *)
(* left, which is no command unless it is all of it or the frame was none. *)
LEMMA WholeCut ==
  ASSUME NEW p \in Seq(Seq(Token)), NEW w, Whole(p, w), NEW k \in 1 .. Len(p),
         NEW t \in Seq(Token), WellFormed(t) /\ WellFormed(p[k]) => t = p[k],
         NEW q, q = CutTo(p, k, t)
  PROVE  OneMore(p, w, t, q) \/ SomeLess(p, w, q)
<1>1. /\ w \in Nat /\ Len(p) \in Nat /\ w <= Len(p) /\ k \in Nat /\ k > 0 /\ k <= Len(p)
      /\ \A j \in 1 .. w : WellFormed(p[j])
      /\ w = Len(p) \/ ~WellFormed(p[w + 1])
  BY DEF Whole
<1> DEFINE before == SubSeq(p, 1, k - 1)
<1>2. /\ before \in Seq(Seq(Token)) /\ Len(before) = k - 1
      /\ \A j \in 1 .. k - 1 : before[j] = p[j]
  BY <1>1
<1>3. q = Append(before, t)
  <2> DEFINE kept == SubSeq(p, 1, k)
  <2>1. /\ kept \in Seq(Seq(Token)) /\ Len(kept) = k
        /\ \A j \in 1 .. k : kept[j] = p[j]
    BY <1>1
  <2>2. q = [kept EXCEPT ![k] = t]
    BY DEF CutTo
  <2> HIDE DEF kept, before
  <2>7. k \in 1 .. Len(kept)
    BY <1>1, <2>1
  <2>8. q \in Seq(Seq(Token)) /\ Len(q) = k /\ q[k] = t
    BY <2>1, <2>2, <2>7
  <2>9. ASSUME NEW j \in 1 .. k - 1 PROVE q[j] = p[j]
    <3>1. j \in 1 .. Len(kept) /\ j # k /\ j \in 1 .. k
      BY <1>1, <2>1
    <3>3. j \in DOMAIN kept
      BY <2>1, <3>1
    <3>2. q[j] = kept[j]
      BY <2>2, <3>1, <3>3, Zenon
    <3> QED
      BY <2>1, <3>1, <3>2
  <2>3. /\ q \in Seq(Seq(Token)) /\ Len(q) = k /\ q[k] = t
        /\ \A j \in 1 .. k - 1 : q[j] = p[j]
    BY <2>8, <2>9
  <2> DEFINE r == Append(before, t)
  <2>4. /\ r \in Seq(Seq(Token)) /\ Len(r) = k /\ r[k] = t
        /\ \A j \in 1 .. k - 1 : r[j] = p[j]
    BY <1>1, <1>2
  <2> HIDE DEF r
  <2>5. ASSUME NEW j \in 1 .. k PROVE q[j] = r[j]
    <3>1. j = k \/ j \in 1 .. k - 1
      BY <1>1
    <3> QED
      BY <2>3, <2>4, <3>1
  <2>10. q = [j \in 1 .. k |-> q[j]]
    BY <2>3
  <2>11. r = [j \in 1 .. k |-> r[j]]
    BY <2>4
  <2>6. q = r
    BY <2>5, <2>10, <2>11
  <2> QED
    BY <2>6 DEF r
<1> DEFINE v == IF w < k THEN w ELSE k - 1
<1>4. v \in Nat /\ v <= w /\ v <= k - 1
  BY <1>1
<1>5. Whole(before, v) /\ Meanings(before, v) = SubSeq(Meanings(p, w), 1, v)
  <2>1. \A j \in 1 .. v : j \in 1 .. w /\ j \in 1 .. k - 1
    BY <1>1, <1>4
  <2>2. Whole(before, v)
    <3>1. v = Len(before) \/ ~WellFormed(before[v + 1])
      <4>1. CASE w < k - 1
        <5>1. v = w /\ w + 1 \in 1 .. k - 1 /\ w # Len(p)
          BY <1>1, <4>1
        <5> QED
          BY <1>1, <1>2, <5>1
      <4>2. CASE ~(w < k - 1)
        BY <1>1, <1>2, <4>2
      <4> QED
        BY <4>1, <4>2
    <3> HIDE DEF v, before
    <3>2. \A j \in 1 .. v : WellFormed(before[j])
      BY <1>1, <1>2, <2>1
    <3> QED
      BY <1>1, <1>2, <1>4, <3>1, <3>2 DEF Whole
  <2>3. Meanings(before, v) = SubSeq(Meanings(p, w), 1, v)
    <3> DEFINE m == Meanings(p, w)
    <3>1. m \in Seq(Commands) /\ Len(m) = w
      BY MeaningsTyped
    <3>2. \A j \in 1 .. w : m[j] = Meaning(p[j])
      BY DEF Meanings
    <3> HIDE DEF m, v, before
    <3>3. SubSeq(m, 1, v) = [j \in 1 .. v |-> m[j]]
      BY <1>4, <3>1
    <3> QED
      BY <1>2, <2>1, <3>2, <3>3 DEF Meanings, m
  <2> QED
    BY <2>2, <2>3
<1>6. \/ WellFormed(t) /\ Whole(q, v + 1) /\ Meanings(q, v + 1) = Append(Meanings(before, v), Meaning(t))
      \/ Whole(q, v) /\ Meanings(q, v) = Meanings(before, v)
  <2> HIDE DEF v, before
  <2>1. before \in Seq(Seq(Token)) /\ Whole(before, v)
    BY <1>2, <1>5
  <2>2. \/ /\ WellFormed(t)
           /\ Whole(Append(before, t), v + 1)
           /\ Meanings(Append(before, t), v + 1) = Append(Meanings(before, v), Meaning(t))
        \/ /\ Whole(Append(before, t), v)
           /\ Meanings(Append(before, t), v) = Meanings(before, v)
    BY <2>1, WholeAppend
  <2> QED
    BY <1>3, <2>2, Zenon
<1>7. CASE Whole(q, v) /\ Meanings(q, v) = Meanings(before, v)
  <2>1. v \in 0 .. w
    BY <1>1, <1>4
  <2> QED
    BY <1>5, <1>7, <2>1 DEF SomeLess
<1>8. CASE WellFormed(t) /\ Whole(q, v + 1) /\ Meanings(q, v + 1) = Append(Meanings(before, v), Meaning(t))
  <2> DEFINE m == Meanings(p, w)
  <2>1. m \in Seq(Commands) /\ Len(m) = w
    BY MeaningsTyped
  <2>2. CASE w < k
    <3>1. v = w /\ SubSeq(m, 1, v) = m
      BY <1>1, <2>1, <2>2
    <3> QED
      BY <1>5, <1>8, <3>1 DEF OneMore
  <2>3. CASE ~(w < k)
    <3>1. v + 1 = k /\ k \in 1 .. w /\ k \in 0 .. w /\ k = v + 1
      BY <1>1, <2>3
    <3>2. t = p[k]
      BY <1>1, <1>8, <3>1
    <3>3. m[k] = Meaning(t)
      BY <3>1, <3>2 DEF Meanings
    <3> HIDE DEF m, v, before
    <3>4. SubSeq(m, 1, k) = Append(SubSeq(m, 1, v), m[k])
      <4>1. v \in Nat /\ v = k - 1 /\ k <= w
        BY <1>4, <3>1
      <4> QED
        BY <2>1, <3>1, <4>1
    <3>5. Meanings(q, k) = SubSeq(m, 1, k)
      BY <1>5, <1>8, <3>1, <3>3, <3>4 DEF m
    <3> QED
      BY <1>8, <3>1, <3>5 DEF m, SomeLess
  <2> QED
    BY <2>2, <2>3
<1> QED
  BY <1>6, <1>7, <1>8

-----------------------------------------------------------------------------
(* CommandWire implements CommandQueue. *)

LEMMA CutIsNoCommand ==
  ASSUME NEW p, WellFormed(p), NEW m \in 1 .. Len(p), WellFormed(SubSeq(p, 1, m))
  PROVE  SubSeq(p, 1, m) = p
<1>1. PICK c \in Commands : p = Encode(c)
  BY DEF WellFormed
<1>2. PICK d \in Commands : SubSeq(p, 1, m) = Encode(d)
  BY DEF WellFormed
<1>3. c \in Sayable /\ d \in Sayable
  BY CommandsSayable
<1>4. p \in Seq(Token)
  BY <1>1, <1>3, EncodedParts
<1>5. Len(SubSeq(p, 1, m)) = m /\ \A i \in 1 .. m : i \in 1 .. Len(p) /\ SubSeq(p, 1, m)[i] = p[i]
  BY <1>4
<1>6. \A i \in 1 .. Len(Encode(d)) : i \in 1 .. Len(Encode(c)) /\ Encode(c)[i] = Encode(d)[i]
  BY <1>1, <1>2, <1>5
<1> QED
  BY <1>1, <1>2, <1>3, <1>6, EncodedApart

LEMMA OtherWord ==
  ASSUME NEW op \in DOMAIN OpParts, NEW other \in DOMAIN OpParts,
         Word(op, OpParts[op]) = Word(other, OpParts[other])
  PROVE  op = other
<1>1. Word(op, OpParts[op])[1].word = op /\ Word(other, OpParts[other])[1].word = other
  BY PartsAssumption, WordTyped
<1> QED
  BY <1>1

(* What NanoServer makes of a whole command: its own operation and data.   *)
LEMMA CommandInHand ==
  ASSUME WireInv, pc = "handle", clean,
         NEW c \in Commands, chunk = Encode(c)
  PROVE  /\ Delimiters # {}
         /\ OpIndex <= n
         /\ \A op \in Operations : Is(op) <=> op = c.op
         /\ \A target : Decoded(target) = c.arg
<1> DEFINE a == OpParts[c.op]
           b == Len(ArgBytes[c.arg])
<1>1. /\ a \in Nat \ {0} /\ b \in Nat \ {0}
      /\ chunk \in Seq(Token) /\ Len(chunk) = a + 1 + b
      /\ \A i \in 1 .. a : chunk[i] = [word |-> c.op, part |-> i, of |-> a]
      /\ chunk[a + 1] = Delimiter[1]
      /\ \A i \in 1 .. b : chunk[a + 1 + i] = ArgBytes[c.arg][i]
  <2> DEFINE e == Encode(c)
  <2>1. c \in Sayable /\ a = OpParts[c.op] /\ b = Len(ArgBytes[c.arg])
    BY CommandsSayable
  <2> HIDE DEF a, b
  <2>2. /\ a \in Nat \ {0} /\ b \in Nat \ {0}
        /\ e \in Seq(Token) /\ Len(e) = a + 1 + b
        /\ \A i \in 1 .. a : e[i] = [word |-> c.op, part |-> i, of |-> a]
        /\ e[a + 1] = Delimiter[1]
        /\ \A i \in 1 .. b : e[a + 1 + i] = ArgBytes[c.arg][i]
    <3>1. a \in Nat \ {0} /\ b \in Nat \ {0} /\ e \in Seq(Token) /\ Len(e) = a + 1 + b
      BY <2>1, EncodedParts
    <3>2. \A i \in 1 .. a : e[i] = [word |-> c.op, part |-> i, of |-> a]
      BY <2>1, EncodedParts
    <3>3. e[a + 1] = Delimiter[1]
      BY <2>1, EncodedParts
    <3>4. \A i \in 1 .. b : e[a + 1 + i] = ArgBytes[c.arg][i]
      BY <2>1, EncodedParts
    <3> QED
      BY <3>1, <3>2, <3>3, <3>4, Zenon
  <2>3. chunk = e
    OBVIOUS
  <2> HIDE DEF e
  <2> QED
    BY <2>2, <2>3
<1>2. /\ c.op \in Operations /\ c.op \in DOMAIN OpParts /\ c.arg \in DOMAIN ArgBytes
      /\ a < MaxOpLen /\ MaxOpLen \in Nat /\ MaxOpLen <= Size /\ Size \in Nat
      /\ c.op # "|"
  BY CommandsAssumption, MaxOpLenAssumption, SizeAssumption
<1>3. /\ n \in Nat /\ n = a + 1 + b /\ n <= Size /\ \A i \in 1 .. n : cmd[i] = chunk[i]
      /\ cmd \in Seq(Token) /\ Len(cmd) = Size
  <2>1. /\ n \in 1 .. Size /\ Len(chunk) = n /\ \A i \in 1 .. n : cmd[i] = chunk[i]
        /\ cmd \in Seq(Token) /\ Len(cmd) = Size
    BY DEF WireInv, WireTypeOK, InHand
  <2> HIDE DEF a, b
  <2>2. n = a + 1 + b
    BY <1>1, <2>1
  <2>3. n \in Nat /\ n <= Size
    BY <2>1, SizeAssumption
  <2> QED
    BY <2>1, <2>2, <2>3
<1>4. Delimiter[1].word = "|"
  BY SpecialWords, WordTyped DEF Delimiter
<1> HIDE DEF a, b
<1>5. \A i \in 1 .. a : i \in 1 .. n /\ cmd[i] = [word |-> c.op, part |-> i, of |-> a]
  BY <1>1, <1>3
<1>6. a + 1 \in 1 .. n /\ cmd[a + 1] = Delimiter[1]
  BY <1>1, <1>3
<1>7. \A i \in 1 .. b : a + 1 + i \in 1 .. n /\ cmd[a + 1 + i] = ArgBytes[c.arg][i]
  BY <1>1, <1>3
<1>8. a + 1 \in Delimiters
  BY <1>1, <1>2, <1>6 DEF Delimiters
<1>9. \A i \in 1 .. a : cmd[i] # Delimiter[1]
  <2>1. ASSUME NEW i \in 1 .. a PROVE cmd[i].word = c.op
    <3>1. cmd[i] = [word |-> c.op, part |-> i, of |-> a]
      BY <1>5
    <3> QED
      BY <3>1
  <2> QED
    BY <1>2, <1>4, <2>1
<1>10. OpIndex = a + 1
  <2>1. OpIndex \in Delimiters /\ OpIndex <= a + 1
    BY <1>8, FirstDelimiter
  <2>2. OpIndex \in 1 .. MaxOpLen /\ cmd[OpIndex] = Delimiter[1]
    BY <2>1 DEF Delimiters
  <2>3. ~(OpIndex \in 1 .. a)
    BY <1>9, <2>2
  <2> QED
    BY <1>1, <1>2, <2>1, <2>2, <2>3
<1>11. Op = Word(c.op, a)
  <2>1. Op = SubSeq(cmd, 1, a)
    BY <1>1, <1>10 DEF Op
  <2>2. SubSeq(cmd, 1, a) = [i \in 1 .. a |-> cmd[i]]
    BY <1>1, <1>2, <1>3
  <2> QED
    BY <1>5, <2>1, <2>2 DEF Word
<1>12. Data = ArgBytes[c.arg]
  <2>1. Data = SubSeq(cmd, a + 2, n)
    <3>1. OpIndex + 1 = a + 2
      BY <1>1, <1>10
    <3> QED
      BY <3>1 DEF Data
  <2> DEFINE data == SubSeq(cmd, a + 2, n)
             word == ArgBytes[c.arg]
  <2>2. data \in Seq(Token) /\ Len(data) = b
    <3>1. a + 2 \in 1 .. Size + 1 /\ n \in 0 .. Size /\ n - (a + 2) + 1 = b
      BY <1>1, <1>3
    <3>2. cmd \in Seq(Token) /\ Len(cmd) = Size /\ Size \in Nat
      BY <1>2, <1>3
    <3>3. \A i \in (a + 2) .. n : cmd[i] \in Token
      BY <1>1, <3>1, <3>2
    <3>4. data \in Seq(Token)
      BY <1>1, <3>1, <3>2, <3>3
    <3>5. Len(data) = IF a + 2 <= n THEN n - (a + 2) + 1 ELSE 0
      BY <1>1, <3>1, <3>2
    <3> HIDE DEF data
    <3> QED
      BY <1>1, <1>3, <3>1, <3>4, <3>5
  <2>3. word \in Seq(Token) /\ Len(word) = b
    BY <1>2, ArgTyped DEF b
  <2>4. ASSUME NEW i \in 1 .. b PROVE data[i] = word[i]
    <3>1. data[i] = cmd[a + 1 + i]
      <4>0. a \in Nat /\ b \in Nat /\ n = a + 1 + b
        BY <1>1, <1>3
      <4>1. (a + 2) + i - 1 = a + 1 + i /\ i \in 1 .. n - (a + 2) + 1
        BY <4>0
      <4>2. /\ cmd \in Seq(Token) /\ a + 2 \in 1 .. Len(cmd) + 1
            /\ n \in a + 2 - 1 .. Len(cmd)
        BY <1>2, <1>3, <4>0
      <4>3. data[i] = cmd[(a + 2) + i - 1]
        BY <4>1, <4>2, SubSeqProperties
      <4> QED
        BY <4>1, <4>3
    <3> QED
      BY <1>7, <3>1
  <2> HIDE DEF data, word
  <2>5. data = word
    BY <2>2, <2>3, <2>4
  <2> QED
    BY <2>1, <2>5 DEF data, word
<1>13. \A op \in Operations : Is(op) <=> op = c.op
  BY <1>2, <1>11, OtherWord, CommandsAssumption DEF Is, a
<1>14. \A target : Decoded(target) = c.arg
  <2>1. \A arg \in DOMAIN ArgBytes : Data = ArgBytes[arg] <=> arg = c.arg
    BY <1>2, <1>12, ArgsApart
  <2> QED
    BY <1>2, <2>1 DEF Decoded
<1>15. OpIndex <= n
  BY <1>1, <1>3, <1>10
<1> QED
  BY <1>8, <1>13, <1>14, <1>15

LEMMA PendingWhole ==
  ASSUME NEW p \in Seq(Seq(Token))
  PROVE  \E w \in 0 .. Len(p) :
           Whole(p, w) /\ Waiting(p) = Meanings(p, w) /\ Waiting(p) \in Seq(Commands)
<1>1. PICK w \in 0 .. Len(p) : Whole(p, w)
  BY SomeAreWhole
<1> QED
  BY <1>1, WaitingIs, MeaningsTyped

(* A read that returns a whole command moves it from those that wait to    *)
(* the buffer.                                                             *)
LEMMA ReadIsSilent ==
  ASSUME WireInv, clean, clean', NEW k \in 1 .. Size, ReadCommand(k)
  PROVE  UNCHANGED <<InBuffer \o Waiting(pending), handled, clean>>
<1> DEFINE first == Head(pending)
<1>1. /\ pending \in Seq(Seq(Token)) /\ pending # << >> /\ chunk' = first
      /\ chunk' = SubSeq(first, 1, k) /\ k \in 1 .. Len(first) /\ WellFormed(first)
      /\ pending' = IF k = Len(first) THEN Tail(pending)
                    ELSE [pending EXCEPT ![1] = SubSeq(@, k + 1, Len(@))]
      /\ pc = "read" /\ pc' = "handle" /\ clean' = clean /\ handled' = handled
  BY DEF WireInv, ReadCommand, Return
<1>2. first \in Seq(Token)
  BY <1>1
<1>3. k = Len(first)
  <2>1. Len(SubSeq(first, 1, k)) = k
    BY <1>1, <1>2
  <2> QED
    BY <1>1, <2>1
<1>4. pending' = Tail(pending)
  BY <1>1, <1>3
<1>5. PICK w \in 0 .. Len(pending) : Whole(pending, w) /\ Waiting(pending) = Meanings(pending, w)
  BY <1>1, PendingWhole
<1>6. /\ Whole(Tail(pending), w - 1)
      /\ Meanings(pending, w) = <<Meaning(first)>> \o Meanings(Tail(pending), w - 1)
  BY <1>1, <1>5, WholeTail
<1>7. Waiting(Tail(pending)) = Meanings(Tail(pending), w - 1)
  <2>1. Tail(pending) \in Seq(Seq(Token))
    BY <1>1
  <2> QED
    BY <1>6, <2>1, WaitingIs
<1>8. InBuffer = << >> /\ InBuffer' = <<Meaning(first)>>
  BY <1>1 DEF InBuffer, Meaning
<1>9. Waiting(pending)' = Waiting(Tail(pending))
  BY <1>4 DEF Waiting, Intact, WellFormed, Meaning
<1>10. InBuffer \o Waiting(pending) = Waiting(pending)
  <2>1. Waiting(pending) \in Seq(Commands)
    BY <1>1, PendingWhole
  <2> QED
    BY <1>8, <2>1
<1>11. InBuffer' \o Waiting(pending)' = Waiting(pending)
  BY <1>5, <1>6, <1>7, <1>8, <1>9
<1> QED
  BY <1>1, <1>10, <1>11

(* What is in the buffer is carried out as it was sent.                    *)
LEMMA HandleIsTake ==
  ASSUME WireInv, clean, clean',
         \/ Malformed \/ SlicePanic \/ HandleLogin \/ HandleRequest \/ HandleAccept
         \/ UnknownOp
  PROVE  Queue!Take
<1>1. pc = "handle" /\ pending' = pending /\ clean' = clean /\ chunk' = chunk
  BY DEF Malformed, SlicePanic, HandleLogin, HandleRequest, HandleAccept, UnknownOp, CarryOut,
     streamVars
<1> DEFINE c == Meaning(chunk)
<1>2. c \in Commands /\ chunk = Encode(c)
  BY <1>1, MeaningTyped DEF WireInv, InHand
<1> HIDE DEF c
<1>3. /\ Delimiters # {} /\ OpIndex <= n
      /\ \A op \in Operations : Is(op) <=> op = c.op
      /\ \A target : Decoded(target) = c.arg
  BY <1>1, <1>2, CommandInHand
<1>4. c.op \in Operations /\ c = [op |-> c.op, arg |-> c.arg]
  BY <1>2, CommandsAssumption
<1>5. ~Malformed /\ ~UnknownOp
  BY <1>3, <1>4 DEF Malformed, UnknownOp
<1>6. ~SlicePanic
  <2>1. OpIndex \in Nat /\ n \in Nat
    BY <1>1, <1>3, FirstDelimiter, MaxOpLenAssumption, SizeAssumption DEF Delimiters, WireInv, InHand
  <2> QED
    BY <1>3, <2>1 DEF SlicePanic
<1>7. handled' = Append(handled, c) /\ pc' = "read"
  <2>1. ASSUME NEW op \in Operations, NEW target, CarryOut(op, Decoded(target))
        PROVE  handled' = Append(handled, c) /\ pc' = "read"
    <3>1. op = c.op /\ Decoded(target) = c.arg
      BY <1>3, <2>1 DEF CarryOut
    <3> QED
      BY <1>4, <2>1, <3>1 DEF CarryOut
  <2>2. {"login", "pvp-request", "pvp-accept"} \subseteq Operations
    BY DEF Operations
  <2> QED
    BY <1>5, <1>6, <2>1, <2>2 DEF HandleLogin, HandleRequest, HandleAccept
<1>8. InBuffer = <<c>> /\ InBuffer' = << >>
  BY <1>1, <1>7 DEF InBuffer, c
<1>9. Waiting(pending)' = Waiting(pending) /\ Waiting(pending) \in Seq(Commands)
  <2>1. Waiting(pending) \in Seq(Commands)
    BY PendingWhole DEF WireInv
  <2> QED
    BY <1>1, <2>1 DEF Waiting, Intact, WellFormed, Meaning
<1> DEFINE q == InBuffer \o Waiting(pending)
<1>10. q # << >> /\ Head(q) = c /\ Tail(q) = Waiting(pending)
  BY <1>2, <1>8, <1>9
<1>11. q' = Waiting(pending)
  BY <1>8, <1>9
<1> QED
  BY <1>1, <1>7, <1>10, <1>11 DEF Queue!Take

LEMMA InBufferTyped == WireInv => InBuffer \in Seq(Commands)
<1> SUFFICES ASSUME WireInv PROVE InBuffer \in Seq(Commands)
  OBVIOUS
<1>1. CASE pc = "handle" /\ clean
  <2>1. Meaning(chunk) \in Commands
    BY <1>1, MeaningTyped DEF WireInv, InHand
  <2> QED
    BY <1>1, <2>1 DEF InBuffer
<1>2. CASE ~(pc = "handle" /\ clean)
  BY <1>2 DEF InBuffer
<1> QED
  BY <1>1, <1>2

(* A frame that arrives is a command more, or one that none can pass.      *)
LEMMA SendIsSubmit ==
  ASSUME WireInv, WireInv', NEW payload \in Payloads, PageSends(payload)
  PROVE  \/ \E c \in Commands : Queue!Submit(c)
         \/ UNCHANGED <<InBuffer \o Waiting(pending), handled, clean>>
<1>1. /\ pending \in Seq(Seq(Token)) /\ payload \in Seq(Token)
      /\ pending' = Append(pending, payload) /\ pending' \in Seq(Seq(Token))
      /\ handled' = handled /\ clean' = clean /\ InBuffer' = InBuffer
  BY PayloadsAssumption DEF WireInv, PageSends, Arrive, InBuffer, serverVars, Meaning
<1>2. PICK w \in 0 .. Len(pending) :
        Whole(pending, w) /\ Waiting(pending) = Meanings(pending, w)
          /\ Waiting(pending) \in Seq(Commands)
  BY <1>1, PendingWhole
<1>3. Waiting(pending)' = Waiting(Append(pending, payload))
  BY <1>1 DEF Waiting, Intact, WellFormed, Meaning
<1>4. InBuffer \in Seq(Commands)
  BY InBufferTyped
<1> DEFINE more == Append(pending, payload)
<1>5. more \in Seq(Seq(Token))
  BY <1>1
<1>6. CASE /\ WellFormed(payload)
           /\ Whole(more, w + 1)
           /\ Meanings(more, w + 1) = Append(Meanings(pending, w), Meaning(payload))
  <2>1. Meaning(payload) \in Commands
    BY <1>6, MeaningTyped
  <2>2. Waiting(more) = Append(Waiting(pending), Meaning(payload))
    BY <1>2, <1>5, <1>6, WaitingIs
  <2> DEFINE waiting == Waiting(pending)
             c == Meaning(payload)
  <2>3. waiting \in Seq(Commands) /\ c \in Commands
    BY <1>2, <2>1
  <2> HIDE DEF waiting, c
  <2>4. InBuffer \o Append(waiting, c) = Append(InBuffer \o waiting, c)
    BY <1>4, <2>3
  <2>5. (InBuffer \o Waiting(pending))' = Append(InBuffer \o Waiting(pending), c)
    BY <1>1, <1>3, <2>2, <2>4 DEF waiting, c
  <2>6. Queue!Submit(c)
    BY <1>1, <2>5 DEF Queue!Submit
  <2> QED
    BY <2>3, <2>6
<1>7. CASE Whole(more, w) /\ Meanings(more, w) = Meanings(pending, w)
  <2>1. Waiting(more) = Waiting(pending)
    BY <1>2, <1>5, <1>7, WaitingIs
  <2> QED
    BY <1>1, <1>3, <2>1
<1> QED
  BY <1>1, <1>2, <1>6, <1>7, WholeAppend

(* When the connection goes down the commands are lost from some point on; *)
(* what is left of a frame that was no command may be one.                 *)
LEMMA LossIsDrop ==
  ASSUME WireInv, WireInv', NEW k \in 0 .. Len(pending),
         NEW m \in IF k = 0 THEN {0} ELSE 1 .. Len(pending[k]), ConnectionLost(k, m)
  PROVE  \/ \E c \in Commands : Queue!Submit(c)
         \/ \E x \in 0 .. Len(InBuffer \o Waiting(pending)) : Queue!Drop(x)
<1>1. /\ pending \in Seq(Seq(Token)) /\ pending' \in Seq(Seq(Token))
      /\ handled' = handled /\ clean' = clean /\ InBuffer' = InBuffer
      /\ pending' = IF k = 0 THEN << >>
                    ELSE [SubSeq(pending, 1, k) EXCEPT ![k] = SubSeq(@, 1, m)]
  BY DEF WireInv, ConnectionLost, Lose, InBuffer, serverVars, Meaning
<1>2. PICK w \in 0 .. Len(pending) :
        Whole(pending, w) /\ Waiting(pending) = Meanings(pending, w)
          /\ Waiting(pending) \in Seq(Commands)
  BY <1>1, PendingWhole
<1>3. Waiting(pending)' = Waiting(pending')
  BY DEF Waiting, Intact, WellFormed, Meaning
<1>4. InBuffer \in Seq(Commands)
  BY InBufferTyped
<1>0. w \in Nat /\ Len(Waiting(pending)) = w
  BY <1>1, <1>2, MeaningsTyped
<1> DEFINE waiting == Waiting(pending)
           q == InBuffer \o waiting
<1>5. ASSUME NEW x \in 0 .. w, Waiting(pending') = SubSeq(waiting, 1, x)
      PROVE  \E y \in 0 .. Len(q) : Queue!Drop(y)
  <2> DEFINE y == Len(InBuffer) + x
  <2>1. waiting \in Seq(Commands) /\ Len(waiting) = w
    BY <1>0, <1>2
  <2> HIDE DEF waiting
  <2>2. y \in 0 .. Len(q) /\ SubSeq(q, 1, y) = InBuffer \o SubSeq(waiting, 1, x)
    BY <1>0, <1>4, <2>1
  <2>3. q' = SubSeq(q, 1, y)
    BY <1>1, <1>3, <1>5, <2>2 DEF waiting
  <2>4. Queue!Drop(y)
    BY <1>1, <2>3 DEF Queue!Drop, waiting
  <2> QED
    BY <2>2, <2>4
<1>6. CASE k = 0
  <2>1. pending' = << >>
    BY <1>1, <1>6
  <2>2. Whole(pending', 0)
    BY <2>1 DEF Whole
  <2>3. Waiting(pending') = Meanings(pending', 0)
    BY <1>1, <2>2, WaitingIs
  <2>4. Meanings(pending', 0) = << >>
    BY DEF Meanings
  <2>5. SubSeq(waiting, 1, 0) = << >> /\ 0 \in 0 .. w
    BY <1>0, <1>2
  <2> QED
    BY <1>5, <2>3, <2>4, <2>5
<1>7. CASE k # 0
  <2>1. k \in 1 .. Len(pending) /\ m \in 1 .. Len(pending[k]) /\ pending[k] \in Seq(Token)
    BY <1>1, <1>7
  <2> DEFINE t == SubSeq(pending[k], 1, m)
  <2>2. t \in Seq(Token)
    BY <2>1
  <2>3. WellFormed(t) /\ WellFormed(pending[k]) => t = pending[k]
    BY <2>1, CutIsNoCommand
  <2>4. pending' = [SubSeq(pending, 1, k) EXCEPT ![k] = t]
    <3>1. SubSeq(pending, 1, k)[k] = pending[k]
      BY <1>1, <2>1
    <3> QED
      BY <1>1, <1>7, <3>1
  <2> HIDE DEF t
  <2>5. OneMore(pending, w, t, pending') \/ SomeLess(pending, w, pending')
    <3> DEFINE p == pending
               r == pending'
    <3>1. p \in Seq(Seq(Token)) /\ Whole(p, w) /\ k \in 1 .. Len(p)
      BY <1>1, <1>2, <2>1
    <3>2. WellFormed(t) /\ WellFormed(p[k]) => t = p[k]
      BY <2>3
    <3>3. r = CutTo(p, k, t)
      BY <2>4 DEF CutTo
    <3> HIDE DEF p, r
    <3>5. t \in Seq(Token)
      BY <2>2
    <3> HIDE DEF p, r
    <3>4. OneMore(p, w, t, r) \/ SomeLess(p, w, r)
      BY <3>1, <3>2, <3>3, <3>5, WholeCut
    <3> QED
      BY <3>4 DEF p, r
  <2>6. CASE OneMore(pending, w, t, pending')
    <3> DEFINE c == Meaning(t)
    <3>1. c \in Commands /\ waiting \in Seq(Commands)
      BY <1>2, <2>6, MeaningTyped DEF OneMore
    <3>2. Waiting(pending') = Append(waiting, c)
      BY <1>1, <1>2, <2>6, WaitingIs DEF OneMore
    <3> HIDE DEF waiting, c
    <3>3. InBuffer \o Append(waiting, c) = Append(InBuffer \o waiting, c)
      BY <1>4, <3>1
    <3>4. q' = Append(q, c)
      BY <1>1, <1>3, <3>2, <3>3 DEF waiting
    <3>5. Queue!Submit(c)
      BY <1>1, <3>4 DEF Queue!Submit, waiting
    <3> QED
      BY <3>1, <3>5
  <2>7. CASE SomeLess(pending, w, pending')
    <3>1. PICK x \in 0 .. w :
            Whole(pending', x) /\ Meanings(pending', x) = SubSeq(Meanings(pending, w), 1, x)
      BY <2>7 DEF SomeLess
    <3>2. Waiting(pending') = SubSeq(waiting, 1, x)
      BY <1>1, <1>2, <3>1, WaitingIs
    <3> QED
      BY <1>5, <3>2
  <2> QED
    BY <2>5, <2>6, <2>7
<1> QED
  BY <1>6, <1>7

LEMMA WireStepIsQueueStep ==
  ASSUME WireInv, WireInv', [WireNext]_wireVars
  PROVE  [Queue!QueueNext]_(Queue!queueVars)
<1>1. CASE ~clean
  BY <1>1 DEF Queue!QueueNext
<1>2. CASE clean /\ ~clean'
  <2>1. CASE WireNext
    <3>1. clean' = FALSE
      <4>1. clean' = clean \/ \E k \in 1 .. Size : ReadCommand(k)
        BY <2>1 DEF WireNext, NanoServer, PageSends, ConnectionLost, Malformed, SlicePanic,
           HandleLogin, HandleRequest, HandleAccept, UnknownOp, CarryOut
      <4> QED
        BY <1>2, <4>1 DEF ReadCommand
    <3> QED
      BY <3>1 DEF Queue!QueueNext, Queue!Spoil
  <2>2. CASE UNCHANGED wireVars
    BY <1>2, <2>2 DEF wireVars
  <2> QED
    BY <2>1, <2>2
<1>3. CASE clean /\ clean'
  <2>1. CASE \E k \in 1 .. Size : ReadCommand(k)
    BY <1>3, <2>1, ReadIsSilent DEF Queue!queueVars
  <2>2. CASE \/ Malformed \/ SlicePanic \/ HandleLogin \/ HandleRequest \/ HandleAccept
             \/ UnknownOp
    BY <1>3, <2>2, HandleIsTake DEF Queue!QueueNext
  <2>3. CASE \E payload \in Payloads : PageSends(payload)
    BY <2>3, SendIsSubmit DEF Queue!QueueNext, Queue!queueVars
  <2>4. CASE \E k \in 0 .. Len(pending) :
               \E m \in IF k = 0 THEN {0} ELSE 1 .. Len(pending[k]) : ConnectionLost(k, m)
    BY <2>4, LossIsDrop DEF Queue!QueueNext
  <2>5. CASE UNCHANGED wireVars
    <3>1. UNCHANGED <<pending, chunk, pc, handled, clean>>
      BY <2>5 DEF wireVars, streamVars, serverVars
    <3>2. UNCHANGED <<InBuffer, Waiting(pending)>>
      BY <3>1 DEF InBuffer, Waiting, Intact, WellFormed, Meaning
    <3> QED
      BY <3>1, <3>2 DEF Queue!queueVars
  <2> QED
    BY <2>1, <2>2, <2>3, <2>4, <2>5 DEF WireNext, NanoServer
<1> QED
  BY <1>1, <1>2, <1>3 DEF WireInv

LEMMA InitIsQueueInit == WireInit => Queue!QueueInit
<1> SUFFICES ASSUME WireInit PROVE Queue!QueueInit
  OBVIOUS
<1>1. pending = << >> /\ pc = "read" /\ handled = << >> /\ clean = TRUE
  BY DEF WireInit, StreamInit
<1>2. Whole(pending, 0)
  BY <1>1 DEF Whole
<1>3. Waiting(pending) = Meanings(pending, 0)
  <2>1. pending \in Seq(Seq(Token))
    BY <1>1
  <2> QED
    BY <1>2, <2>1, WaitingIs
<1>4. Waiting(pending) = << >> /\ InBuffer = << >>
  BY <1>1, <1>3 DEF Meanings, InBuffer
<1> QED
  BY <1>1, <1>4 DEF Queue!QueueInit

(* NanoServer's buffer is as good as a queue of commands: as long as every *)
(* read returned one whole command, each is carried out once, with its own *)
(* argument, in the order in which they were sent, although the buffer is  *)
(* never cleared and the delimiter is searched beyond what was read        *)
(* (websocket.go:51-88).  This is what module LobbyServer builds on.       *)
THEOREM WireImplementsQueue == WireSpec => ImplementsQueue
<1>1. WireInv /\ WireInv' /\ [WireNext]_wireVars => [Queue!QueueNext]_(Queue!queueVars)
  BY WireStepIsQueueStep
<1> QED
  BY <1>1, InitIsQueueInit, WireHolds, PTL DEF WireSpec, ImplementsQueue, Queue!QueueSpec

-----------------------------------------------------------------------------
(* How often something stands in a sequence. *)

Places(s, x) == {i \in 1 .. Len(s) : s[i] = x}
Count(s, x) == Cardinality(Places(s, x))

LEMMA CountTyped ==
  ASSUME NEW s, Len(s) \in Nat, NEW x
  PROVE  IsFiniteSet(Places(s, x)) /\ Count(s, x) \in Nat
<1>1. IsFiniteSet(1 .. Len(s))
  BY FS_Interval
<1>2. Places(s, x) \in SUBSET (1 .. Len(s))
  BY DEF Places
<1>3. IsFiniteSet(Places(s, x))
  BY <1>1, <1>2, FS_Subset
<1> QED
  BY <1>3, FS_CardinalityType DEF Count

LEMMA CountAppend ==
  ASSUME NEW S, NEW s \in Seq(S), NEW y \in S, NEW x
  PROVE  Count(Append(s, y), x) = Count(s, x) + (IF y = x THEN 1 ELSE 0)
<1> DEFINE t == Append(s, y)
           l == Len(s)
<1>1. l \in Nat /\ Len(t) = l + 1 /\ t[l + 1] = y /\ \A i \in 1 .. l : t[i] = s[i]
  OBVIOUS
<1> HIDE DEF t, l
<1>2. \A i : i \in 1 .. l + 1 <=> i \in 1 .. l \/ i = l + 1
  BY <1>1
<1>3. l + 1 \notin Places(s, x) /\ IsFiniteSet(Places(s, x)) /\ Count(s, x) \in Nat
  <2>1. ~(l + 1 \in 1 .. l)
    BY <1>1
  <2> QED
    BY <1>1, <2>1, CountTyped DEF Places, l
<1>4. CASE y = x
  <2>1. Places(t, x) = Places(s, x) \cup {l + 1}
    <3>1. \A i : i \in Places(t, x) <=> i \in Places(s, x) \/ i = l + 1
      BY <1>1, <1>2, <1>4 DEF Places, l
    <3> QED
      BY <3>1
  <2>2. Cardinality(Places(s, x) \cup {l + 1}) = Cardinality(Places(s, x)) + 1
    BY <1>3, FS_AddElement
  <2> QED
    BY <1>4, <2>1, <2>2 DEF Count, t
<1>5. CASE y # x
  <2>1. Places(t, x) = Places(s, x)
    <3>1. \A i : i \in Places(t, x) <=> i \in Places(s, x)
      BY <1>1, <1>2, <1>5 DEF Places, l
    <3> QED
      BY <3>1
  <2> QED
    BY <1>3, <1>5, <2>1 DEF Count, t
<1> QED
  BY <1>4, <1>5

-----------------------------------------------------------------------------
(* Where an acceptance stands in frames. *)

Acceptance == Encode(Accepted)

Within(payload) == {p \in 0 .. Len(payload) : StandsAt(Acceptance, payload, p)}

Found(frames) == Occurrences(Acceptance, frames)

LEMMA FoundIs ==
  ASSUME NEW frames, NEW i, NEW p
  PROVE  <<i, p>> \in Found(frames) <=> i \in 1 .. Len(frames) /\ p \in Within(frames[i])
BY DEF Found, Occurrences, Within

LEMMA FoundArePairs ==
  ASSUME NEW frames, NEW x \in Found(frames)
  PROVE  x = <<x[1], x[2]>> /\ x[1] \in 1 .. Len(frames) /\ x[2] \in Within(frames[x[1]])
<1>1. PICK i \in 1 .. Len(frames) : x \in {i} \X Within(frames[i])
  BY DEF Found, Occurrences, Within
<1> QED
  BY <1>1

LEMMA WithinFinite ==
  ASSUME NEW payload \in Seq(Token)
  PROVE  IsFiniteSet(Within(payload)) /\ Cardinality(Within(payload)) \in Nat
<1>1. IsFiniteSet(0 .. Len(payload))
  BY FS_Interval
<1>2. Within(payload) \in SUBSET (0 .. Len(payload))
  BY DEF Within
<1> QED
  BY <1>1, <1>2, FS_Subset, FS_CardinalityType

LEMMA FoundFinite ==
  ASSUME NEW frames \in Seq(Seq(Token))
  PROVE  IsFiniteSet(Found(frames)) /\ Cardinality(Found(frames)) \in Nat
<1> DEFINE rows == {{i} \X Within(frames[i]) : i \in 1 .. Len(frames)}
           row == [i \in 1 .. Len(frames) |-> {i} \X Within(frames[i])]
<1>1. IsFiniteSet(1 .. Len(frames))
  BY FS_Interval
<1>2. row \in Surjection(1 .. Len(frames), rows)
  BY DEF Surjection
<1>3. IsFiniteSet(rows)
  <2> HIDE DEF row, rows
  <2> QED
    BY <1>1, <1>2, FS_Surjection
<1>4. ASSUME NEW i \in 1 .. Len(frames) PROVE IsFiniteSet({i} \X Within(frames[i]))
  <2>1. IsFiniteSet({i})
    BY FS_Singleton
  <2>2. IsFiniteSet(Within(frames[i]))
    BY WithinFinite
  <2> QED
    BY <2>1, <2>2, FS_Product
<1>5. \A T \in rows : IsFiniteSet(T)
  BY <1>4
<1>6. Found(frames) = UNION rows
  BY DEF Found, Occurrences, Within
<1>7. IsFiniteSet(Found(frames))
  <2> HIDE DEF rows
  <2> QED
    BY <1>3, <1>5, <1>6, FS_UNION
<1> QED
  BY <1>7, FS_CardinalityType

(* What a frame more adds depends on the frame only. *)
LEMMA FoundAppend ==
  ASSUME NEW frames \in Seq(Seq(Token)), NEW payload \in Seq(Token)
  PROVE  Cardinality(Found(Append(frames, payload)))
           = Cardinality(Found(frames)) + Cardinality(Within(payload))
<1> DEFINE l == Len(frames)
           more == Append(frames, payload)
           last == {l + 1} \X Within(payload)
<1>1. /\ l \in Nat /\ Len(more) = l + 1 /\ more[l + 1] = payload
      /\ \A i \in 1 .. l : more[i] = frames[i]
  OBVIOUS
<1> HIDE DEF l, more
<1>2. Found(more) = Found(frames) \cup last
  <2>1. ASSUME NEW x \in Found(more) PROVE x \in Found(frames) \cup last
    <3>1. x = <<x[1], x[2]>> /\ x[1] \in 1 .. l + 1 /\ x[2] \in Within(more[x[1]])
      BY <1>1, FoundArePairs
    <3>2. CASE x[1] = l + 1
      BY <1>1, <3>1, <3>2
    <3>3. CASE x[1] # l + 1
      <4>1. x[1] \in 1 .. l
        BY <1>1, <3>1, <3>3
      <4> QED
        BY <1>1, <3>1, <4>1, FoundIs DEF l
    <3> QED
      BY <3>2, <3>3
  <2>2. ASSUME NEW x \in Found(frames) PROVE x \in Found(more)
    <3>1. x = <<x[1], x[2]>> /\ x[1] \in 1 .. l /\ x[2] \in Within(frames[x[1]])
      BY FoundArePairs DEF l
    <3>2. x[1] \in 1 .. l + 1 /\ more[x[1]] = frames[x[1]]
      BY <1>1, <3>1
    <3> QED
      BY <1>1, <3>1, <3>2, FoundIs
  <2>3. ASSUME NEW x \in last PROVE x \in Found(more)
    <3>1. PICK p \in Within(payload) : x = <<l + 1, p>>
      BY <2>3
    <3>2. l + 1 \in 1 .. l + 1
      BY <1>1
    <3> QED
      BY <1>1, <3>1, <3>2, FoundIs
  <2> HIDE DEF last
  <2> QED
    BY <2>1, <2>2, <2>3
<1>3. Found(frames) \cap last = {}
  <2>1. ASSUME NEW x \in Found(frames), x \in last PROVE FALSE
    <3>1. x[1] \in 1 .. l
      BY FoundArePairs DEF l
    <3>2. x[1] = l + 1
      BY <2>1
    <3> QED
      BY <1>1, <3>1, <3>2
  <2> QED
    BY <2>1
<1>4. IsFiniteSet(Within(payload)) /\ Cardinality(Within(payload)) \in Nat
  BY WithinFinite
<1>5. IsFiniteSet(last) /\ Cardinality(last) = Cardinality(Within(payload))
  <2>1. IsFiniteSet({l + 1}) /\ Cardinality({l + 1}) = 1
    BY FS_Singleton
  <2>2. IsFiniteSet(last) /\ Cardinality(last) = 1 * Cardinality(Within(payload))
    BY <1>4, <2>1, FS_Product
  <2> QED
    BY <1>4, <2>2
<1>6. IsFiniteSet(Found(frames)) /\ Cardinality(Found(frames)) \in Nat
  BY FoundFinite
<1> HIDE DEF last
<1>7. Cardinality(Found(frames) \cup last)
        = Cardinality(Found(frames)) + Cardinality(last) - Cardinality(Found(frames) \cap last)
  BY <1>5, <1>6, FS_Union
<1>8. Cardinality(Found(frames) \cap last) = 0
  BY <1>3, FS_EmptySet
<1> QED
  BY <1>2, <1>4, <1>5, <1>6, <1>7, <1>8 DEF more

(* What stands in a piece of a payload stands in the payload. *)
LEMMA WithinPiece ==
  ASSUME NEW s \in Seq(Token), NEW t \in Seq(Token), NEW c \in Nat,
         \A i \in 1 .. Len(t) : c + i \in 1 .. Len(s) /\ s[c + i] = t[i],
         c + Len(t) <= Len(s), NEW p \in Within(t)
  PROVE  p \in Nat /\ c + p \in Within(s)
<1>1. /\ p \in 0 .. Len(t) /\ Len(t) \in Nat /\ Len(s) \in Nat
      /\ \A j \in 1 .. Len(Acceptance) : p + j \in 1 .. Len(t) /\ t[p + j] = Acceptance[j]
  BY DEF Within, StandsAt
<1>2. ASSUME NEW j \in 1 .. Len(Acceptance)
      PROVE  c + p + j \in 1 .. Len(s) /\ s[c + p + j] = Acceptance[j]
  <2>1. c + (p + j) \in 1 .. Len(s) /\ s[c + (p + j)] = Acceptance[j]
    BY <1>1
  <2>2. c + (p + j) = c + p + j
    BY <1>1
  <2> QED
    BY <2>1, <2>2
<1> QED
  BY <1>1, <1>2 DEF Within, StandsAt

(* A frame that has been read to its end takes with it what stood in it.   *)
LEMMA FoundTail ==
  ASSUME NEW frames \in Seq(Seq(Token)), frames # << >>, NEW p,
         Tail(frames) \in Seq(Seq(Token))
  PROVE  Cardinality(Found(Tail(frames))) <= Cardinality(Found(frames) \ {<<1, p>>})
<1> DEFINE t == Tail(frames)
           rest == Found(frames) \ {<<1, p>>}
           f == [x \in Found(t) |-> <<x[1] + 1, x[2]>>]
<1>1. /\ Len(frames) \in Nat /\ Len(t) = Len(frames) - 1
      /\ \A i \in 1 .. Len(t) : t[i] = frames[i + 1]
  OBVIOUS
<1> HIDE DEF t
<1>2. ASSUME NEW x \in Found(t)
      PROVE  x = <<x[1], x[2]>> /\ x[1] \in Nat \ {0} /\ <<x[1] + 1, x[2]>> \in rest
  <2>1. x = <<x[1], x[2]>> /\ x[1] \in 1 .. Len(t) /\ x[2] \in Within(t[x[1]])
    BY FoundArePairs
  <2>2. x[1] \in Nat \ {0} /\ x[1] + 1 \in 1 .. Len(frames) /\ frames[x[1] + 1] = t[x[1]]
    BY <1>1, <2>1
  <2>3. <<x[1] + 1, x[2]>> \in Found(frames)
    BY <2>1, <2>2, FoundIs
  <2>4. <<x[1] + 1, x[2]>> # <<1, p>>
    BY <2>2
  <2> QED
    BY <2>1, <2>2, <2>3, <2>4
<1>3. f \in Injection(Found(t), rest)
  <2>1. f \in [Found(t) -> rest]
    BY <1>2
  <2>2. ASSUME NEW x \in Found(t), NEW y \in Found(t), f[x] = f[y] PROVE x = y
    <3>1. x[1] + 1 = y[1] + 1 /\ x[2] = y[2]
      BY <2>2
    <3>2. x[1] = y[1]
      <4> DEFINE i == x[1]
                 j == y[1]
      <4>1. i \in Nat /\ j \in Nat /\ i + 1 = j + 1
        BY <1>2, <3>1
      <4> HIDE DEF i, j
      <4>2. i = j
        BY <4>1
      <4> QED
        BY <4>2 DEF i, j
    <3> QED
      BY <1>2, <3>1, <3>2
  <2> HIDE DEF f, rest
  <2> QED
    BY <2>1, <2>2 DEF Injection, IsInjective
<1>4. IsFiniteSet(rest)
  BY FoundFinite, FS_RemoveElement
<1> HIDE DEF f, rest
<1>5. Cardinality(Found(t)) <= Cardinality(rest)
  BY <1>3, <1>4, FS_Injection
<1> QED
  BY <1>5 DEF t, rest

(* A frame of which the first k tokens have been read keeps at most what   *)
(* stands behind them.                                                     *)
LEMMA FoundRest ==
  ASSUME NEW frames \in Seq(Seq(Token)), frames # << >>, NEW k \in 1 .. Len(frames[1]),
         NEW rest \in Seq(Token), Len(rest) = Len(frames[1]) - k,
         \A i \in 1 .. Len(rest) : rest[i] = frames[1][k + i],
         NEW t \in Seq(Seq(Token)), t = [frames EXCEPT ![1] = rest]
  PROVE  Cardinality(Found(t)) <= Cardinality(Found(frames) \ {<<1, 0>>})
<1> DEFINE others == Found(frames) \ {<<1, 0>>}
           f == [x \in Found(t) |-> IF x[1] = 1 THEN <<1, k + x[2]>> ELSE x]
<1>1. /\ 1 \in 1 .. Len(frames) /\ Len(t) = Len(frames) /\ t[1] = rest
      /\ \A i \in 1 .. Len(frames) : i # 1 => t[i] = frames[i]
      /\ frames[1] \in Seq(Token) /\ k \in Nat \ {0}
  <2>1. Len(frames) \in Nat /\ Len(frames) # 0 /\ DOMAIN frames = 1 .. Len(frames)
    OBVIOUS
  <2>2. 1 \in 1 .. Len(frames) /\ frames[1] \in Seq(Token)
    BY <2>1
  <2>3. DOMAIN t = 1 .. Len(frames) /\ t[1] = rest
    BY <2>1, <2>2
  <2>4. \A i \in 1 .. Len(frames) : i # 1 => t[i] = frames[i]
    BY <2>1
  <2>5. Len(t) = Len(frames)
    BY <2>1, <2>3
  <2>6. k \in Nat \ {0}
    BY <2>2
  <2> QED
    BY <2>2, <2>3, <2>4, <2>5, <2>6
<1>2. ASSUME NEW x \in Found(t)
      PROVE  /\ x = <<x[1], x[2]>> /\ x[2] \in Nat
             /\ x[1] = 1 => <<1, k + x[2]>> \in others
             /\ x[1] # 1 => x \in others
  <2>1. x = <<x[1], x[2]>> /\ x[1] \in 1 .. Len(t) /\ x[2] \in Within(t[x[1]])
    BY FoundArePairs
  <2>2. x[2] \in Nat
    BY <2>1 DEF Within
  <2>3. CASE x[1] = 1
    <3>1. x[2] \in Within(rest)
      BY <1>1, <2>1, <2>3
    <3>2. k + x[2] \in Within(frames[1])
      <4>1. /\ \A i \in 1 .. Len(rest) : k + i \in 1 .. Len(frames[1]) /\ frames[1][k + i] = rest[i]
            /\ k + Len(rest) <= Len(frames[1])
        BY <1>1
      <4> QED
        BY <1>1, <3>1, <4>1, WithinPiece
    <3>3. <<1, k + x[2]>> \in Found(frames)
      BY <1>1, <3>2, FoundIs
    <3>4. <<1, k + x[2]>> # <<1, 0>>
      BY <1>1, <2>2
    <3> QED
      BY <2>1, <2>2, <2>3, <3>3, <3>4
  <2>4. CASE x[1] # 1
    <3>1. x[1] \in 1 .. Len(frames) /\ x[2] \in Within(frames[x[1]])
      BY <1>1, <2>1, <2>4
    <3>2. x \in Found(frames)
      BY <2>1, <3>1, FoundIs
    <3>3. x # <<1, 0>>
      BY <2>4
    <3> QED
      BY <2>1, <2>2, <2>4, <3>2, <3>3
  <2> QED
    BY <2>3, <2>4
<1>3. f \in Injection(Found(t), others)
  <2>1. f \in [Found(t) -> others]
    BY <1>2
  <2>2. ASSUME NEW x \in Found(t), NEW y \in Found(t), f[x] = f[y] PROVE x = y
    <3>1. f[x][1] = x[1] /\ f[y][1] = y[1]
      BY <1>2
    <3>2. x[1] = y[1]
      BY <2>2, <3>1
    <3>3. CASE x[1] = 1
      <4>1. k + x[2] = k + y[2]
        BY <2>2, <3>2, <3>3
      <4>2. x[2] \in Nat /\ y[2] \in Nat /\ k \in Nat
        BY <1>1, <1>2
      <4>3. x[2] = y[2]
        <5> DEFINE p == x[2]
                   q == y[2]
        <5>1. p \in Nat /\ q \in Nat /\ k + p = k + q
          BY <4>1, <4>2
        <5> HIDE DEF p, q
        <5>2. p = q
          BY <4>2, <5>1
        <5> QED
          BY <5>2 DEF p, q
      <4> QED
        BY <1>2, <3>2, <4>3
    <3>4. CASE x[1] # 1
      BY <2>2, <3>2, <3>4
    <3> QED
      BY <3>3, <3>4
  <2> HIDE DEF f, others
  <2> QED
    BY <2>1, <2>2 DEF Injection, IsInjective
<1>4. IsFiniteSet(others)
  BY FoundFinite, FS_RemoveElement
<1> HIDE DEF f, others
<1>5. Cardinality(Found(t)) <= Cardinality(others)
  BY <1>3, <1>4, FS_Injection
<1> QED
  BY <1>5 DEF others

(* Frames that are lost, and the end of one that is cut, add nothing. *)
LEMMA FoundFewer ==
  ASSUME NEW frames \in Seq(Seq(Token)), NEW t \in Seq(Seq(Token)), Len(t) <= Len(frames),
         \A i \in 1 .. Len(t) : /\ Len(t[i]) <= Len(frames[i])
                                /\ \A j \in 1 .. Len(t[i]) : t[i][j] = frames[i][j]
  PROVE  Cardinality(Found(t)) <= Cardinality(Found(frames))
<1>1. ASSUME NEW x \in Found(t) PROVE x \in Found(frames)
  <2>1. x = <<x[1], x[2]>> /\ x[1] \in 1 .. Len(t) /\ x[2] \in Within(t[x[1]])
    BY FoundArePairs
  <2> DEFINE i == x[1]
             s == frames[i]
             r == t[i]
  <2>2. /\ i \in 1 .. Len(frames) /\ s \in Seq(Token) /\ r \in Seq(Token)
        /\ Len(r) <= Len(s) /\ \A j \in 1 .. Len(r) : r[j] = s[j]
    BY <2>1
  <2>3. x[2] \in Within(r)
    BY <2>1
  <2> HIDE DEF s, r
  <2>4. 0 + Len(r) <= Len(s) /\ \A j \in 1 .. Len(r) : 0 + j \in 1 .. Len(s) /\ s[0 + j] = r[j]
    BY <2>2
  <2>5. x[2] \in Nat /\ 0 + x[2] \in Within(s)
    BY <2>2, <2>3, <2>4, WithinPiece
  <2>6. x[2] \in Within(s)
    BY <2>5
  <2> QED
    BY <2>1, <2>2, <2>6, FoundIs DEF s
<1>2. Found(t) \in SUBSET Found(frames)
  BY <1>1
<1> QED
  BY <1>2, FoundFinite, FS_Subset

-----------------------------------------------------------------------------
(* What an acceptance consists of. *)

OpLen == OpParts["pvp-accept"]
ArgLen == Len(ArgBytes["true"])

LEMMA AcceptanceParts ==
  /\ OpLen \in Nat \ {0} /\ ArgLen \in Nat \ {0}
  /\ Acceptance \in Seq(Token) /\ Len(Acceptance) = OpLen + 1 + ArgLen
  /\ \A i \in 1 .. OpLen :
       Acceptance[i] = [word |-> "pvp-accept", part |-> i, of |-> OpLen]
  /\ Acceptance[OpLen + 1] = Delimiter[1]
  /\ \A i \in 1 .. ArgLen : Acceptance[OpLen + 1 + i] = ArgBytes["true"][i]
<1> DEFINE a == OpLen
           b == ArgLen
<1>1. Accepted.op = "pvp-accept" /\ Accepted.arg = "true"
  BY DEF Accepted
<1>2. Accepted \in Sayable
  BY CommandsAssumption DEF Sayable, Accepted, Operations
<1>3. a = OpParts["pvp-accept"] /\ b = Len(ArgBytes["true"])
  BY DEF OpLen, ArgLen
<1> HIDE DEF a, b
<1> DEFINE e == Encode(Accepted)
<1>4. a \in Nat \ {0} /\ b \in Nat \ {0} /\ e \in Seq(Token) /\ Len(e) = a + 1 + b
  BY <1>1, <1>2, <1>3, EncodedParts
<1>5. \A i \in 1 .. a : e[i] = [word |-> "pvp-accept", part |-> i, of |-> a]
  BY <1>1, <1>2, <1>3, EncodedParts
<1>6. e[a + 1] = Delimiter[1]
  BY <1>1, <1>2, <1>3, EncodedParts
<1>7. \A i \in 1 .. b : e[a + 1 + i] = ArgBytes["true"][i]
  BY <1>1, <1>2, <1>3, EncodedParts
<1> HIDE DEF e
<1> QED
  BY <1>4, <1>5, <1>6, <1>7, Zenon DEF Acceptance, e, a, b

-----------------------------------------------------------------------------
(* The acceptances that stand in what was sent cover those carried out,    *)
(* the one in the buffer and those that stand in what has yet to be read.  *)

InHandNow == IF pc = "handle" /\ chunk = Acceptance THEN 1 ELSE 0

Outcome == [op : Operations, arg : {"", "false"} \cup DOMAIN ArgBytes]

ConsentInv ==
  /\ handled \in Seq(Outcome)
  /\ Count(handled, Accepted) + InHandNow + Cardinality(Found(pending))
       <= Cardinality(Found(sent))

LEMMA CountsTyped ==
  ASSUME WireInv, ConsentInv
  PROVE  /\ Count(handled, Accepted) \in Nat /\ InHandNow \in {0, 1}
         /\ Cardinality(Found(pending)) \in Nat /\ Cardinality(Found(sent)) \in Nat
         /\ pending \in Seq(Seq(Token)) /\ sent \in Seq(Seq(Token))
<1>1. handled \in Seq(Outcome)
  BY DEF ConsentInv
<1>2. Len(handled) \in Nat
  BY <1>1
<1>3. pending \in Seq(Seq(Token))
  BY DEF WireInv
<1>4. sent \in Seq(Seq(Token))
  <2>1. sent \in Seq(Payloads)
    BY DEF WireInv, WireTypeOK
  <2>2. Len(sent) \in Nat /\ sent \in [1 .. Len(sent) -> Payloads]
    BY <2>1
  <2>3. sent \in [1 .. Len(sent) -> Seq(Token)]
    BY <2>2, PayloadsAssumption
  <2> QED
    BY <2>2, <2>3
<1> QED
  BY <1>2, <1>3, <1>4, CountTyped, FoundFinite DEF InHandNow

LEMMA InitConsent == WireInit => ConsentInv
<1> SUFFICES ASSUME WireInit PROVE ConsentInv
  OBVIOUS
<1>1. pending = << >> /\ handled = << >> /\ sent = << >> /\ pc = "read"
  BY DEF WireInit, StreamInit
<1>2. Count(<< >>, Accepted) = 0
  <2>1. Places(<< >>, Accepted) = {}
    BY DEF Places
  <2> QED
    BY <2>1, FS_EmptySet DEF Count
<1>3. Cardinality(Found(<< >>)) = 0
  <2>1. \A x \in Found(<< >>) : FALSE
    BY FoundArePairs
  <2>2. Found(<< >>) = {}
    BY <2>1
  <2> QED
    BY <2>2, FS_EmptySet
<1>4. InHandNow = 0
  BY <1>1 DEF InHandNow
<1>5. Count(handled, Accepted) + InHandNow + Cardinality(Found(pending))
        <= Cardinality(Found(sent))
  BY <1>1, <1>2, <1>3, <1>4
<1> QED
  BY <1>1, <1>5 DEF ConsentInv

(* An acceptance that is read takes its occurrence out of what is pending. *)
LEMMA ReadConsent ==
  ASSUME WireInv, WireInv', ConsentInv, NEW k \in 1 .. Size, ReadCommand(k)
  PROVE  ConsentInv'
<1> DEFINE first == pending[1]
           others == Found(pending) \ {<<1, 0>>}
<1>1. /\ pending \in Seq(Seq(Token)) /\ pending # << >> /\ pending' \in Seq(Seq(Token))
      /\ k \in 1 .. Len(first) /\ chunk' = SubSeq(first, 1, k)
      /\ pending' = IF k = Len(first) THEN Tail(pending)
                    ELSE [pending EXCEPT ![1] = SubSeq(@, k + 1, Len(@))]
      /\ pc = "read" /\ pc' = "handle" /\ UNCHANGED <<handled, sent>>
  <2>1. /\ pending \in Seq(Seq(Token)) /\ pending # << >> /\ pending' \in Seq(Seq(Token))
        /\ k \in 1 .. Len(Head(pending)) /\ chunk' = SubSeq(Head(pending), 1, k)
        /\ pending' = IF k = Len(Head(pending)) THEN Tail(pending)
                      ELSE [pending EXCEPT ![1] = SubSeq(@, k + 1, Len(@))]
        /\ pc = "read" /\ pc' = "handle" /\ UNCHANGED <<handled, sent>>
    BY DEF WireInv, ReadCommand, Return
  <2>2. Head(pending) = first
    BY <2>1
  <2> QED
    BY <2>1, <2>2
<1>2. first \in Seq(Token) /\ Len(first) \in Nat /\ 1 \in 1 .. Len(pending)
  BY <1>1
<1> HIDE DEF first
<1>3. Cardinality(Found(pending')) <= Cardinality(others)
  <2>1. CASE k = Len(first)
    <3>1. pending' = Tail(pending)
      BY <1>1, <2>1
    <3> QED
      BY <1>1, <3>1, FoundTail
  <2>2. CASE k # Len(first)
    <3> DEFINE rest == SubSeq(first, k + 1, Len(first))
    <3>1. pending' = [pending EXCEPT ![1] = rest]
      BY <1>1, <2>2 DEF first
    <3>2. /\ rest \in Seq(Token) /\ Len(rest) = Len(first) - k
          /\ \A i \in 1 .. Len(rest) : rest[i] = first[k + i]
      BY <1>1, <1>2, <2>2
    <3> HIDE DEF rest
    <3> QED
      BY <1>1, <3>1, <3>2, FoundRest DEF first
  <2> QED
    BY <2>1, <2>2
<1>4. /\ IsFiniteSet(Found(pending)) /\ Cardinality(Found(pending)) \in Nat
      /\ Cardinality(Found(pending')) \in Nat
  BY <1>1, FoundFinite
<1>5. Cardinality(others) = IF <<1, 0>> \in Found(pending)
                            THEN Cardinality(Found(pending)) - 1 ELSE Cardinality(Found(pending))
  BY <1>4, FS_RemoveElement
<1>6. chunk' = Acceptance => <<1, 0>> \in Found(pending)
  <2> SUFFICES ASSUME chunk' = Acceptance PROVE <<1, 0>> \in Found(pending)
    OBVIOUS
  <2>1. /\ Len(Acceptance) = k /\ k \in Nat /\ k <= Len(first)
        /\ \A j \in 1 .. k : first[j] = Acceptance[j]
    BY <1>1, <1>2
  <2>2. \A j \in 1 .. Len(Acceptance) : 0 + j \in 1 .. Len(first) /\ first[0 + j] = Acceptance[j]
    BY <1>2, <2>1
  <2>3. 0 \in 0 .. Len(first)
    BY <1>2
  <2>4. 0 \in Within(first)
    BY <2>2, <2>3 DEF Within, StandsAt
  <2> QED
    BY <1>2, <2>4, FoundIs DEF first
<1>7. InHandNow = 0 /\ InHandNow' = IF chunk' = Acceptance THEN 1 ELSE 0
  BY <1>1 DEF InHandNow, Acceptance
<1> HIDE DEF others
<1>8. InHandNow' \in {0, 1} /\ InHandNow' + Cardinality(Found(pending')) <= Cardinality(Found(pending))
  BY <1>3, <1>4, <1>5, <1>6, <1>7
<1>9. /\ UNCHANGED <<Count(handled, Accepted), Cardinality(Found(sent))>>
      /\ Cardinality(Found(pending))' = Cardinality(Found(pending'))
  BY <1>1 DEF Count, Places, Accepted, Found, Occurrences, StandsAt, Acceptance
<1>10. Count(handled, Accepted) + InHandNow + Cardinality(Found(pending))
         <= Cardinality(Found(sent))
  BY DEF ConsentInv
<1>11. Count(handled, Accepted) \in Nat /\ Cardinality(Found(sent)) \in Nat
  BY CountsTyped
<1>12. (Count(handled, Accepted) + InHandNow + Cardinality(Found(pending))
          <= Cardinality(Found(sent)))'
  BY <1>4, <1>7, <1>8, <1>9, <1>10, <1>11
<1>13. handled' \in Seq(Outcome)
  BY <1>1 DEF ConsentInv
<1> QED
  BY <1>12, <1>13 DEF ConsentInv
(* Only what accepts is carried out as an acceptance. *)
LEMMA AcceptedWasInHand ==
  ASSUME WireInv, HandleAccept, Decoded("false") = "true"
  PROVE  chunk = Acceptance
<1>1. pc = "handle" /\ Delimiters # {} /\ OpIndex <= n /\ Is("pvp-accept")
  BY DEF HandleAccept, CarryOut
<1>2. /\ n \in 1 .. Size /\ Len(chunk) = n /\ chunk \in Seq(Token)
      /\ cmd \in Seq(Token) /\ Len(cmd) = Size /\ Size \in Nat /\ n \in Nat /\ n <= Size
      /\ \A i \in 1 .. n : cmd[i] = chunk[i]
  <2>1. /\ n \in 1 .. Size /\ Len(chunk) = n /\ chunk \in Seq(Token)
        /\ cmd \in Seq(Token) /\ Len(cmd) = Size /\ \A i \in 1 .. n : cmd[i] = chunk[i]
    BY <1>1 DEF WireInv, WireTypeOK, InHand
  <2>2. Size \in Nat /\ n \in Nat /\ n <= Size
    BY <2>1, SizeAssumption
  <2> QED
    BY <2>1, <2>2
<1>3. OpIndex \in Nat /\ OpIndex >= 1 /\ cmd[OpIndex] = Delimiter[1]
  BY <1>1, FirstDelimiter, MaxOpLenAssumption DEF Delimiters
<1>4. Data = ArgBytes["true"]
  <2>1. CASE \E arg \in DOMAIN ArgBytes : Data = ArgBytes[arg]
    <3>1. Data = ArgBytes[Decoded("false")]
      BY <2>1 DEF Decoded
    <3> QED
      BY <3>1
  <2>2. CASE ~\E arg \in DOMAIN ArgBytes : Data = ArgBytes[arg]
    BY <2>2 DEF Decoded
  <2> QED
    BY <2>1, <2>2
<1> DEFINE a == OpLen
           b == ArgLen
           json == ArgBytes["true"]
<1>5. /\ a \in Nat /\ a > 0 /\ b \in Nat /\ b > 0
      /\ Acceptance \in Seq(Token) /\ Len(Acceptance) = a + 1 + b
      /\ \A i \in 1 .. a : Acceptance[i] = [word |-> "pvp-accept", part |-> i, of |-> a]
      /\ Acceptance[a + 1] = Delimiter[1]
      /\ \A i \in 1 .. b : Acceptance[a + 1 + i] = json[i]
  BY AcceptanceParts
<1>0. a \in Nat /\ b \in Nat
  BY <1>5
<1>6. SubSeq(cmd, 1, OpIndex - 1) = Word("pvp-accept", a)
  BY <1>1 DEF Is, Op, OpLen
<1>7. SubSeq(cmd, OpIndex + 1, n) = json /\ Len(json) = b
  BY <1>4 DEF Data, ArgLen
<1> HIDE DEF a, b, json
<1>8. Len(Word("pvp-accept", a)) = a
  <2>1. \A w : Word(w, a) = [i \in 1 .. a |-> [word |-> w, part |-> i, of |-> a]]
    BY DEF Word
  <2> QED
    BY <1>5, <2>1
<1>9. OpIndex = a + 1 /\ \A i \in 1 .. a : cmd[i] = Acceptance[i]
  <2> DEFINE m == OpIndex - 1
             p == SubSeq(cmd, 1, m)
  <2>1. m \in Nat /\ m <= Size /\ m + 1 = OpIndex
    BY <1>1, <1>2, <1>3
  <2>2. Len(p) = m /\ \A i \in 1 .. m : p[i] = cmd[i]
    <3> HIDE DEF m
    <3> QED
      BY <1>2, <2>1
  <2>3. p = Word("pvp-accept", a)
    BY <1>6
  <2> HIDE DEF p, m
  <2>4. m = a
    BY <1>8, <2>2, <2>3
  <2>5. \A i \in 1 .. a : p[i] = [word |-> "pvp-accept", part |-> i, of |-> a]
    BY <2>3 DEF Word
  <2>6. \A i \in 1 .. a : cmd[i] = Acceptance[i]
    BY <1>5, <2>2, <2>4, <2>5
  <2> QED
    BY <2>1, <2>4, <2>6
<1>10. n = a + 1 + b /\ \A i \in 1 .. b : cmd[a + 1 + i] = Acceptance[a + 1 + i]
  <2> DEFINE q == SubSeq(cmd, a + 2, n)
  <2>1. q = json
    <3>1. OpIndex + 1 = a + 2
      <4>1. OpIndex = a + 1
        BY <1>9
      <4> QED
        BY <1>0, <4>1
    <3> QED
      BY <1>7, <3>1
  <2>2. \A i \in a + 2 .. n : cmd[i] \in Token
    <3>1. \A i \in a + 2 .. n : i \in 1 .. Len(cmd)
      BY <1>2, <1>5
    <3> QED
      BY <1>2, <3>1
  <2>3. a + 2 \in Int /\ n \in Int
    BY <1>0, <1>2
  <2>4. /\ Len(q) = IF a + 2 <= n THEN n - (a + 2) + 1 ELSE 0
        /\ \A i \in 1 .. n - (a + 2) + 1 : q[i] = cmd[a + 2 + i - 1]
    BY <2>2, <2>3, SubSeqProperties
  <2>5. Len(q) = b /\ \A i \in 1 .. b : q[i] = json[i]
    BY <1>7, <2>1
  <2> HIDE DEF q
  <2>6. n = a + 1 + b
    BY <1>2, <1>5, <2>4, <2>5
  <2>7. ASSUME NEW i \in 1 .. b PROVE cmd[a + 1 + i] = Acceptance[a + 1 + i]
    <3>1. i \in 1 .. n - (a + 2) + 1 /\ a + 2 + i - 1 = a + 1 + i
      BY <1>5, <2>6
    <3>2. q[i] = cmd[a + 1 + i]
      BY <2>4, <3>1
    <3> QED
      BY <1>5, <2>5, <3>2
  <2> QED
    BY <2>6, <2>7
<1>11. ASSUME NEW i \in 1 .. n PROVE chunk[i] = Acceptance[i]
  <2>1. i \in 1 .. a \/ i = a + 1 \/ (i - (a + 1) \in 1 .. b /\ a + 1 + (i - (a + 1)) = i)
    BY <1>5, <1>10
  <2>2. cmd[i] = Acceptance[i]
    BY <1>3, <1>5, <1>9, <1>10, <2>1
  <2> QED
    BY <1>2, <2>2
<1> QED
  BY <1>2, <1>5, <1>10, <1>11
LEMMA AtMostTheOneInHand ==
  ASSUME NEW before \in Nat, NEW after, NEW hand \in {0, 1}, NEW h,
         after = before + (IF h = Accepted THEN 1 ELSE 0), h = Accepted => hand = 1
  PROVE  after <= before + hand
<1>1. CASE h = Accepted
  BY <1>1
<1>2. CASE h # Accepted
  BY <1>2
<1> QED
  BY <1>1, <1>2

LEMMA CountOutcome ==
  ASSUME NEW h \in Outcome, NEW s \in Seq(Outcome)
  PROVE  Count(Append(s, h), Accepted) = Count(s, Accepted) + (IF h = Accepted THEN 1 ELSE 0)
BY CountAppend

LEMMA HandleConsent ==
  ASSUME WireInv, ConsentInv,
         \/ Malformed \/ SlicePanic \/ HandleLogin \/ HandleRequest \/ HandleAccept
         \/ UnknownOp
  PROVE  ConsentInv'
<1>1. /\ pc = "handle" /\ pc' # "handle" /\ UNCHANGED <<pending, sent>>
      /\ handled \in Seq(Outcome)
  BY DEF Malformed, SlicePanic, HandleLogin, HandleRequest, HandleAccept, UnknownOp,
     CarryOut, streamVars, ConsentInv
<1>2. InHandNow' = 0
  BY <1>1 DEF InHandNow
<1>3. UNCHANGED <<Cardinality(Found(pending)), Cardinality(Found(sent))>>
  BY <1>1 DEF Found, Occurrences, StandsAt, Acceptance
<1>4. handled' \in Seq(Outcome) /\ Count(handled', Accepted) <= Count(handled, Accepted) + InHandNow
  <2>1. ASSUME NEW op \in Operations, NEW arg \in {"", "false"} \cup DOMAIN ArgBytes,
               handled' = Append(handled, [op |-> op, arg |-> arg]),
               op = "pvp-accept" /\ arg = "true" => chunk = Acceptance
        PROVE  handled' \in Seq(Outcome)
               /\ Count(handled', Accepted) <= Count(handled, Accepted) + InHandNow
    <3> DEFINE h == [op |-> op, arg |-> arg]
    <3>1. h \in Outcome
      BY DEF Outcome
    <3>2. h = Accepted => chunk = Acceptance
      <4>1. h = Accepted => h.op = "pvp-accept" /\ h.arg = "true"
        BY DEF Accepted
      <4>2. h.op = op /\ h.arg = arg
        OBVIOUS
      <4> QED
        BY <2>1, <4>1, <4>2
    <3>3. handled' = Append(handled, h)
      BY <2>1
    <3> HIDE DEF h
    <3>4. Count(Append(handled, h), Accepted) = Count(handled, Accepted) + (IF h = Accepted THEN 1 ELSE 0)
      BY <1>1, <3>1, CountOutcome
    <3>5. InHandNow = IF chunk = Acceptance THEN 1 ELSE 0
      BY <1>1 DEF InHandNow
    <3>6. Count(handled, Accepted) \in Nat
      BY CountsTyped
    <3>7. handled' \in Seq(Outcome)
      BY <1>1, <3>1, <3>3, AppendProperties
    <3>8. Count(handled', Accepted) = Count(handled, Accepted) + (IF h = Accepted THEN 1 ELSE 0)
      BY <3>3, <3>4
    <3>9. InHandNow \in {0, 1} /\ (h = Accepted => InHandNow = 1)
      BY <3>2, <3>5
    <3>10. Count(handled', Accepted) <= Count(handled, Accepted) + InHandNow
      <4> DEFINE before == Count(handled, Accepted)
                 after == Count(handled', Accepted)
                 hand == InHandNow
      <4>1. before \in Nat
        BY <3>6
      <4>2. after = before + (IF h = Accepted THEN 1 ELSE 0)
        BY <3>8
      <4>3. hand \in {0, 1} /\ (h = Accepted => hand = 1)
        BY <3>9
      <4> HIDE DEF before, after, hand
      <4>4. after <= before + hand
        BY <4>1, <4>2, <4>3, AtMostTheOneInHand
      <4> QED
        BY <4>4 DEF before, after, hand
    <3> QED
      BY <3>7, <3>10
  <2>2. CASE handled' = handled
    <3>1. Count(handled, Accepted) \in Nat /\ InHandNow \in {0, 1}
      BY CountsTyped
    <3> QED
      BY <1>1, <2>2, <3>1
  <2>3. CASE HandleLogin
    <3>1. Decoded(login) \in {""} \cup DOMAIN ArgBytes
      BY DecodedTyped DEF WireInv, WireTypeOK
    <3>2. handled' = Append(handled, [op |-> "login", arg |-> Decoded(login)])
      BY <2>3 DEF HandleLogin, CarryOut
    <3> QED
      BY <2>1, <3>1, <3>2 DEF Operations
  <2>4. CASE HandleRequest
    <3>1. Decoded("") \in {""} \cup DOMAIN ArgBytes
      BY DecodedTyped
    <3>2. handled' = Append(handled, [op |-> "pvp-request", arg |-> Decoded("")])
      BY <2>4 DEF HandleRequest, CarryOut
    <3> QED
      BY <2>1, <3>1, <3>2 DEF Operations
  <2>5. CASE HandleAccept
    <3>1. Decoded("false") \in {"", "false"} \cup DOMAIN ArgBytes
      <4>1. "false" \in {"", "false"} \cup DOMAIN ArgBytes
        OBVIOUS
      <4> QED
        BY <4>1, DecodedTyped
    <3>2. handled' = Append(handled, [op |-> "pvp-accept", arg |-> Decoded("false")])
      BY <2>5 DEF HandleAccept, CarryOut
    <3>3. Decoded("false") = "true" => chunk = Acceptance
      BY <2>5, AcceptedWasInHand
    <3> QED
      BY <2>1, <3>1, <3>2, <3>3 DEF Operations
  <2> QED
    BY <2>2, <2>3, <2>4, <2>5 DEF Malformed, SlicePanic, UnknownOp
<1>5. (Count(handled, Accepted) + InHandNow + Cardinality(Found(pending))
         <= Cardinality(Found(sent)))'
  <2>1. Count(handled, Accepted)' = Count(handled', Accepted)
    BY DEF Count, Places, Accepted
  <2>2. Count(handled', Accepted) \in Nat
    <3>1. Len(handled') \in Nat
      BY <1>4
    <3> QED
      BY <3>1, CountTyped
  <2>3. Count(handled, Accepted) + InHandNow + Cardinality(Found(pending))
          <= Cardinality(Found(sent))
    BY DEF ConsentInv
  <2>4. /\ Count(handled, Accepted) \in Nat /\ Cardinality(Found(pending)) \in Nat
        /\ Cardinality(Found(sent)) \in Nat /\ InHandNow \in {0, 1}
    BY CountsTyped
  <2> QED
    BY <1>2, <1>3, <1>4, <2>1, <2>2, <2>3, <2>4
<1> QED
  BY <1>4, <1>5 DEF ConsentInv

LEMMA SendConsent ==
  ASSUME WireInv, ConsentInv, NEW payload \in Payloads, PageSends(payload)
  PROVE  ConsentInv'
<1>1. /\ pending \in Seq(Seq(Token)) /\ sent \in Seq(Seq(Token)) /\ payload \in Seq(Token)
      /\ pending' = Append(pending, payload) /\ sent' = Append(sent, payload)
      /\ UNCHANGED <<handled, pc, chunk>>
  BY CountsTyped, PayloadsAssumption DEF PageSends, Arrive, serverVars
<1> DEFINE more == Cardinality(Within(payload))
<1>2. /\ Cardinality(Found(Append(pending, payload))) = Cardinality(Found(pending)) + more
      /\ Cardinality(Found(Append(sent, payload))) = Cardinality(Found(sent)) + more
      /\ more \in Nat
  BY <1>1, FoundAppend, WithinFinite
<1>3. /\ Cardinality(Found(pending))' = Cardinality(Found(Append(pending, payload)))
      /\ Cardinality(Found(sent))' = Cardinality(Found(Append(sent, payload)))
      /\ UNCHANGED <<Count(handled, Accepted), InHandNow>>
  BY <1>1 DEF Count, Places, Accepted, InHandNow, Found, Occurrences, StandsAt, Acceptance
<1> HIDE DEF more
<1>4. (Count(handled, Accepted) + InHandNow + Cardinality(Found(pending))
         <= Cardinality(Found(sent)))'
  <2>1. Count(handled, Accepted) + InHandNow + Cardinality(Found(pending))
          <= Cardinality(Found(sent))
    BY DEF ConsentInv
  <2>2. /\ Count(handled, Accepted) \in Nat /\ Cardinality(Found(pending)) \in Nat
        /\ Cardinality(Found(sent)) \in Nat /\ InHandNow \in {0, 1}
    BY CountsTyped
  <2> QED
    BY <1>2, <1>3, <2>1, <2>2
<1>5. handled' \in Seq(Outcome)
  BY <1>1 DEF ConsentInv
<1> QED
  BY <1>4, <1>5 DEF ConsentInv

LEMMA LossConsent ==
  ASSUME WireInv, WireInv', ConsentInv, NEW k \in 0 .. Len(pending),
         NEW m \in IF k = 0 THEN {0} ELSE 1 .. Len(pending[k]), ConnectionLost(k, m)
  PROVE  ConsentInv'
<1>1. /\ pending \in Seq(Seq(Token)) /\ pending' \in Seq(Seq(Token))
      /\ pending' = IF k = 0 THEN << >>
                    ELSE [SubSeq(pending, 1, k) EXCEPT ![k] = SubSeq(@, 1, m)]
      /\ UNCHANGED <<handled, pc, chunk, sent>>
      /\ Len(pending) \in Nat /\ Len(pending') \in Nat
  BY DEF WireInv, ConnectionLost, Lose, serverVars
<1>2. /\ Len(pending') <= Len(pending)
      /\ \A i \in 1 .. Len(pending') :
           /\ Len(pending'[i]) <= Len(pending[i])
           /\ \A j \in 1 .. Len(pending'[i]) : pending'[i][j] = pending[i][j]
  <2>1. CASE k = 0
    BY <1>1, <2>1
  <2>2. CASE k # 0
    <3> DEFINE kept == SubSeq(pending, 1, k)
               t == SubSeq(kept[k], 1, m)
    <3>1. k \in 1 .. Len(pending) /\ k \in 1 .. k /\ m \in 1 .. Len(pending[k])
      BY <1>1, <2>2
    <3>2. /\ Len(kept) = k /\ kept[k] = pending[k] /\ DOMAIN kept = 1 .. k
          /\ \A j \in 1 .. k : kept[j] = pending[j]
      BY <1>1, <3>1
    <3>3. pending' = [kept EXCEPT ![k] = t]
      BY <1>1, <2>2
    <3>4. pending[k] \in Seq(Token)
      BY <1>1, <3>1
    <3>5. Len(t) = m /\ m <= Len(pending[k]) /\ \A j \in 1 .. m : t[j] = pending[k][j]
      BY <3>1, <3>2, <3>4
    <3> HIDE DEF kept, t
    <3>6. DOMAIN pending' = 1 .. k /\ pending'[k] = t
          /\ \A i \in 1 .. k : i # k => pending'[i] = pending[i]
      BY <3>1, <3>2, <3>3
    <3>7. Len(pending') = k /\ k <= Len(pending)
      BY <1>1, <3>1, <3>6
    <3>8. ASSUME NEW i \in 1 .. k
          PROVE  /\ Len(pending'[i]) <= Len(pending[i])
                 /\ \A j \in 1 .. Len(pending'[i]) : pending'[i][j] = pending[i][j]
      <4>1. CASE i = k
        BY <3>5, <3>6, <4>1
      <4>2. CASE i # k
        <5>1. pending'[i] = pending[i] /\ pending[i] \in Seq(Token)
          BY <1>1, <3>1, <3>6, <4>2
        <5>2. Len(pending[i]) \in Nat
          BY <5>1
        <5> QED
          BY <5>1, <5>2
      <4> QED
        BY <4>1, <4>2
    <3> QED
      BY <3>7, <3>8
  <2> QED
    BY <2>1, <2>2
<1>3. Cardinality(Found(pending')) <= Cardinality(Found(pending))
  BY <1>1, <1>2, FoundFewer
<1>4. /\ Cardinality(Found(pending))' = Cardinality(Found(pending'))
      /\ UNCHANGED <<Count(handled, Accepted), Cardinality(Found(sent)), InHandNow>>
  BY <1>1 DEF Count, Places, Accepted, InHandNow, Found, Occurrences, StandsAt, Acceptance
<1>5. (Count(handled, Accepted) + InHandNow + Cardinality(Found(pending))
         <= Cardinality(Found(sent)))'
  <2>1. Count(handled, Accepted) + InHandNow + Cardinality(Found(pending))
          <= Cardinality(Found(sent))
    BY DEF ConsentInv
  <2>2. /\ Count(handled, Accepted) \in Nat /\ Cardinality(Found(pending)) \in Nat
        /\ Cardinality(Found(sent)) \in Nat /\ InHandNow \in {0, 1}
    BY CountsTyped
  <2>3. Cardinality(Found(pending')) \in Nat
    BY <1>1, FoundFinite
  <2> QED
    BY <1>3, <1>4, <2>1, <2>2, <2>3
<1>6. handled' \in Seq(Outcome)
  BY <1>1 DEF ConsentInv
<1> QED
  BY <1>5, <1>6 DEF ConsentInv

LEMMA StepConsent ==
  ASSUME WireInv, WireInv', ConsentInv, [WireNext]_wireVars
  PROVE  ConsentInv'
<1>1. CASE \E k \in 1 .. Size : ReadCommand(k)
  BY <1>1, ReadConsent
<1>2. CASE \/ Malformed \/ SlicePanic \/ HandleLogin \/ HandleRequest \/ HandleAccept
           \/ UnknownOp
  BY <1>2, HandleConsent
<1>3. CASE \E payload \in Payloads : PageSends(payload)
  BY <1>3, SendConsent
<1>4. CASE \E k \in 0 .. Len(pending) :
             \E m \in IF k = 0 THEN {0} ELSE 1 .. Len(pending[k]) : ConnectionLost(k, m)
  BY <1>4, LossConsent
<1>5. CASE UNCHANGED wireVars
  <2>1. UNCHANGED <<pending, chunk, pc, sent, handled>>
    BY <1>5 DEF wireVars, streamVars, serverVars
  <2>2. UNCHANGED <<InHandNow, Count(handled, Accepted)>>
    BY <2>1 DEF InHandNow, Count, Places, Accepted, Acceptance
  <2>3. UNCHANGED <<Cardinality(Found(pending)), Cardinality(Found(sent))>>
    BY <2>1 DEF Found, Occurrences, StandsAt, Acceptance
  <2>4. ConsentInv' <=>
          /\ handled' \in Seq(Outcome)
          /\ Count(handled, Accepted)' + InHandNow' + Cardinality(Found(pending))'
               <= Cardinality(Found(sent))'
    BY DEF ConsentInv
  <2> QED
    BY <2>1, <2>2, <2>3, <2>4 DEF ConsentInv
<1> QED
  BY <1>1, <1>2, <1>3, <1>4, <1>5 DEF WireNext, NanoServer

(* Nothing is made into an acceptance: whatever the page sends, the        *)
(* delimiter and acceptances within names included, however its frames are *)
(* torn, wherever the connection is cut, and whatever earlier commands     *)
(* have left in the buffer, a game is accepted at most as often as the     *)
(* bytes of an acceptance stand in what was sent (websocket.go:84-87).     *)
THEOREM ConsentIsWritten == WireSpec => []ConsentWasWritten
<1>1. WireInv /\ WireInv' /\ ConsentInv /\ [WireNext]_wireVars => ConsentInv'
  BY StepConsent
<1>2. WireInv /\ ConsentInv => ConsentWasWritten
  <2> SUFFICES ASSUME WireInv, ConsentInv PROVE ConsentWasWritten
    OBVIOUS
  <2>1. Count(handled, Accepted) + InHandNow + Cardinality(Found(pending))
          <= Cardinality(Found(sent))
    BY DEF ConsentInv
  <2>2. /\ Count(handled, Accepted) \in Nat /\ Cardinality(Found(pending)) \in Nat
        /\ Cardinality(Found(sent)) \in Nat /\ InHandNow \in {0, 1}
    BY CountsTyped
  <2>3. Count(handled, Accepted) <= Cardinality(Found(sent))
    BY <2>1, <2>2
  <2> QED
    BY <2>3 DEF ConsentWasWritten, Count, Places, Found, Acceptance
<1> QED
  BY <1>1, <1>2, InitConsent, WireHolds, PTL DEF WireSpec
=============================================================================
