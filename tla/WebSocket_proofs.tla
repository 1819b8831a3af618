---------------------------- MODULE WebSocket_proofs ----------------------------
(***************************************************************************)
(* Theorems about WebSocket, for any frames of the peer, any number of     *)
(* writers, any buffer, and whatever TCP delivers before it goes down.     *)
(***************************************************************************)
EXTENDS WebSocket, WellFoundedInduction, TLAPS

-----------------------------------------------------------------------------
(* Typing. *)

WireFrame == [op : Opcode, masked : BOOLEAN, size : Nat, first : Nat, nr : Nat, here : Nat]

Typed ==
  /\ link \in {"up", "eof", "reset", "closed"}
  /\ in \in Seq(WireFrame)
  /\ sent \in Seq(WireFrame)
  /\ frame \in [size : Nat, masked : BOOLEAN, first : Nat, left : Nat, here : Nat, pos : Nat]
  /\ frame.here <= frame.left /\ frame.left <= frame.size
  /\ \A i \in 1 .. Len(in) : in[i].here <= in[i].size
  /\ reader \in {"idle", "header", "payload", "pong", "refuse"}
  /\ result \in [n : Nat, err : {"nil", "EOF", "other"}]
  /\ result.n <= Size
  /\ got \in Seq(Nat)
  /\ synced \in BOOLEAN
  /\ wio \in Tasks \cup {Nobody}
  /\ todo \in [Tasks -> Seq(Piece)]
  /\ out \in Seq(Piece)
  /\ written \in [Writers -> 0 .. MaxWrites]
  /\ drained \in 0 .. Len(out)
  /\ Len(sent) <= MaxFrames

LEMMA TypedIsTypeOK == Typed => TypeOK
  BY DEF Typed, TypeOK, WireFrame

LEMMA InitTyped == Init => Typed
<1> SUFFICES ASSUME Init PROVE Typed
  OBVIOUS
<1>1. /\ in \in Seq(WireFrame) /\ sent \in Seq(WireFrame)
      /\ got \in Seq(Nat) /\ out \in Seq(Piece)
      /\ Len(in) = 0 /\ Len(out) = 0 /\ Len(sent) = 0
  BY DEF Init
<1>2. todo \in [Tasks -> Seq(Piece)]
  BY DEF Init
<1>3. written \in [Writers -> 0 .. MaxWrites]
  BY NumbersAssumption DEF Init
<1> QED
  BY <1>1, <1>2, <1>3, NumbersAssumption DEF Init, Typed, NoFrame

LEMMA PiecesTyped ==
  ASSUME NEW t \in Tasks, NEW kind \in Opcode, NEW n \in Nat, NEW of \in Nat
  PROVE  /\ PiecesOf(t, kind, n, of) \in Seq(Piece)
         /\ Len(PiecesOf(t, kind, n, of)) = of
         /\ \A k \in 1 .. of : PiecesOf(t, kind, n, of)[k] =
              [by |-> t, kind |-> kind, nr |-> n, part |-> k, of |-> of]
  BY DEF PiecesOf, Piece

(* The number of the byte after the last frame sent. *)
LEMMA NextByteTyped == Typed => NextByte \in Nat /\ (sent = << >> => NextByte = 1)
<1> SUFFICES ASSUME Typed PROVE NextByte \in Nat /\ (sent = << >> => NextByte = 1)
  OBVIOUS
<1>1. CASE sent = << >>
  BY <1>1 DEF NextByte
<1>2. CASE sent # << >>
  <2>1. sent \in Seq(WireFrame)
    BY DEF Typed
  <2>2. sent[Len(sent)] \in WireFrame
    BY <1>2, <2>1
  <2>3. After(sent[Len(sent)]) \in Nat
    BY <2>2 DEF After, WireFrame
  <2> QED
    BY <1>2, <2>3 DEF NextByte
<1> QED
  BY <1>1, <1>2

LEMMA TailTyped ==
  ASSUME Typed, in # << >>
  PROVE  /\ Tail(in) \in Seq(WireFrame)
         /\ Head(in) \in WireFrame /\ Head(in) = in[1]
         /\ Head(in).here <= Head(in).size
         /\ Len(Tail(in)) = Len(in) - 1 /\ Len(in) \in Nat \ {0}
         /\ \A i \in 1 .. Len(Tail(in)) : Tail(in)[i] = in[i + 1] /\ i + 1 \in 1 .. Len(in)
         /\ \A i \in 1 .. Len(Tail(in)) : Tail(in)[i].here <= Tail(in)[i].size
<1>1. in \in Seq(WireFrame)
  BY DEF Typed
<1>2. Len(in) \in Nat \ {0}
  BY <1>1
<1>3. /\ Tail(in) \in Seq(WireFrame)
      /\ Head(in) \in WireFrame /\ Head(in) = in[1]
      /\ Len(Tail(in)) = Len(in) - 1
      /\ \A i \in 1 .. Len(Tail(in)) : Tail(in)[i] = in[i + 1] /\ i + 1 \in 1 .. Len(in)
  BY <1>1, <1>2
<1> QED
  BY <1>2, <1>3 DEF Typed

FrameReader == [size : Nat, masked : BOOLEAN, first : Nat, left : Nat, here : Nat, pos : Nat]

LEMMA FrameCut ==
  ASSUME NEW f \in FrameReader, f.here <= f.left, f.left <= f.size,
         NEW m \in Nat, m <= f.here, NEW g, g = [f EXCEPT !.here = m]
  PROVE  g \in FrameReader /\ g.here <= g.left /\ g.left <= g.size
<1>1. g.here = m /\ g.left = f.left /\ g.size = f.size /\ g \in FrameReader
  BY DEF FrameReader
<1> QED
  BY <1>1 DEF FrameReader

LEMMA WireTyped ==
  ASSUME Typed, NEW f \in PeerFrames
  PROVE  Wire(f) \in WireFrame /\ Wire(f).here = Wire(f).size
<1>1. f \in Frame /\ NextByte \in Nat /\ Len(sent) + 1 \in Nat
  <2>1. Len(sent) \in Nat
    BY DEF Typed
  <2> QED
    BY <2>1, PeerFramesAssumption, NextByteTyped
<1> QED
  BY <1>1 DEF Wire, WireFrame, Frame

LEMMA PeerTyped == Typed /\ Peer => Typed'
<1> SUFFICES ASSUME Typed, Peer PROVE Typed'
  OBVIOUS
<1> USE DEF Typed, readVars, writeVars
<1>1. ASSUME NEW f \in PeerFrames, PeerSends(f) PROVE Typed'
  <2>1. Wire(f) \in WireFrame /\ Wire(f).here = Wire(f).size
    BY WireTyped
  <2>2. Append(in, Wire(f)) \in Seq(WireFrame) /\ Append(sent, Wire(f)) \in Seq(WireFrame)
    BY <2>1
  <2>3. \A i \in 1 .. Len(in') : in'[i].here <= in'[i].size
    BY <1>1, <2>1 DEF PeerSends, WireFrame
  <2>4. Len(sent') <= MaxFrames
    BY <1>1, NumbersAssumption DEF PeerSends
  <2> QED
    BY <1>1, <2>2, <2>3, <2>4 DEF PeerSends
<1>2. CASE PeerReads
  BY <1>2 DEF PeerReads
<1>3. ASSUME NEW how \in {"eof", "reset"}, NEW k \in 0 .. Len(in),
             NEW m \in 0 .. IF k = 0 THEN frame.here ELSE in[k].size, Down(how, k, m)
      PROVE  Typed'
  <2>1. CASE k > 0
    <3> DEFINE s == SubSeq(in, 1, k)
               h == [in[k] EXCEPT !.here = m]
    <3>1. /\ s \in Seq(WireFrame) /\ Len(s) = k
          /\ \A i \in 1 .. k : s[i] = in[i] /\ i \in 1 .. Len(in)
      BY <2>1
    <3>2. h \in WireFrame /\ h.here <= h.size
      <4>1. in[k] \in WireFrame
        BY <2>1
      <4>2. m \in Nat /\ m <= in[k].size
        BY <2>1, <4>1 DEF WireFrame
      <4> QED
        BY <4>1, <4>2 DEF WireFrame
    <3>3. in' = [s EXCEPT ![k] = h] /\ UNCHANGED frame
      BY <1>3, <2>1, <3>1 DEF Down
    <3> HIDE DEF s, h
    <3>4. in' \in Seq(WireFrame) /\ Len(in') = k
      BY <2>1, <3>1, <3>2, <3>3
    <3>5. \A i \in 1 .. Len(in') : in'[i].here <= in'[i].size
      <4>1. k \in 1 .. Len(s) /\ in'[k] = h /\ \A i \in 1 .. k : i # k => in'[i] = s[i]
        BY <2>1, <3>1, <3>3
      <4> QED
        BY <3>1, <3>2, <3>4, <4>1
    <3> QED
      BY <1>3, <3>3, <3>4, <3>5 DEF Down
  <2>2. CASE k = 0
    <3>1. in' = << >> /\ frame' = [frame EXCEPT !.here = m] /\ m <= frame.here
      BY <1>3, <2>2 DEF Down
    <3>2. in' \in Seq(WireFrame) /\ Len(in') = 0
      <4>1. << >> \in Seq(WireFrame) /\ Len(<< >>) = 0
        OBVIOUS
      <4> QED
        BY <3>1, <4>1
    <3>3. m \in Nat
      BY <2>2
    <3>4. /\ frame' \in [size : Nat, masked : BOOLEAN, first : Nat, left : Nat,
                        here : Nat, pos : Nat]
          /\ frame'.here <= frame'.left /\ frame'.left <= frame'.size
      BY <3>1, <3>3, FrameCut DEF FrameReader
    <3>5. \A i \in 1 .. Len(in') : in'[i].here <= in'[i].size
      BY <3>2
    <3> QED
      BY <1>3, <3>2, <3>4, <3>5 DEF Down
  <2>3. k > 0 \/ k = 0
    OBVIOUS
  <2> QED
    BY <2>1, <2>2, <2>3
<1> QED
  BY <1>1, <1>2, <1>3 DEF Peer

(* What a call of Read puts into its caller's buffer. *)
LEMMA BytesTyped ==
  ASSUME Typed, NEW n \in 1 .. Size, n <= frame.here
  PROVE  LET offset == frame.size - frame.left
             bytes == [i \in 1 .. n |-> UnmaskedAt(frame, offset + i - 1, frame.pos + i - 1)]
         IN  bytes \in Seq(Nat) /\ Len(bytes) = n
<1> DEFINE offset == frame.size - frame.left
           bytes == [i \in 1 .. n |-> UnmaskedAt(frame, offset + i - 1, frame.pos + i - 1)]
<1>1. n \in Nat /\ offset \in Nat /\ frame.first \in Nat
  BY NumbersAssumption DEF Typed
<1>2. \A i \in 1 .. n : UnmaskedAt(frame, offset + i - 1, frame.pos + i - 1) \in Nat
  <2>1. \A i \in 1 .. n : frame.first + (offset + i - 1) \in Nat
    BY <1>1
  <2> HIDE DEF offset
  <2> QED
    BY <2>1 DEF UnmaskedAt, Garbled
<1>3. bytes \in Seq(Nat) /\ Len(bytes) = n
  <2> HIDE DEF offset
  <2> QED
    BY <1>1, <1>2
<1> QED
  BY <1>3

LEMMA HeadTyped ==
  ASSUME Typed, in # << >>, NEW h, h = Head(in)
  PROVE  /\ h.op \in Opcode /\ h.masked \in BOOLEAN /\ h.size \in Nat /\ h.first \in Nat
         /\ h.nr \in Nat /\ h.here \in Nat /\ h.here <= h.size
  BY TailTyped DEF WireFrame

LEMMA TodoTyped ==
  ASSUME Typed, NEW t \in Tasks, NEW s \in Seq(Piece), todo' = [todo EXCEPT ![t] = s]
  PROVE  todo' \in [Tasks -> Seq(Piece)]
  BY DEF Typed

LEMMA ReadTyped == Typed /\ Read => Typed'
<1> SUFFICES ASSUME Typed, Read PROVE Typed'
  OBVIOUS
<1>0. Reader \in Tasks
  BY DEF Tasks
<1> USE DEF readVars, writeVars
<1>1. CASE CallRead
  BY <1>1 DEF CallRead, Typed
<1>2. CASE RefuseFrame
  <2>1. in # << >> /\ Head(in).nr \in Nat
    BY <1>2, HeadTyped DEF RefuseFrame, Header
  <2>2. PiecesOf(Reader, "close", Head(in).nr, 2) \in Seq(Piece)
    BY <1>0, <2>1, PiecesTyped DEF Opcode
  <2>3. todo' \in [Tasks -> Seq(Piece)]
    BY <1>0, <1>2, <2>2, TodoTyped DEF RefuseFrame
  <2> QED
    BY <1>2, <2>1, <2>3, TailTyped DEF RefuseFrame, Typed
<1>3. CASE OpenFrame
  <2>1. in # << >>
    BY <1>3 DEF OpenFrame, Header
  <2>2. /\ frame' \in FrameReader
        /\ frame'.here <= frame'.left /\ frame'.left <= frame'.size
    BY <1>3, <2>1, HeadTyped DEF OpenFrame, NewFrame, FrameReader
  <2> QED
    BY <1>3, <2>1, <2>2, TailTyped DEF OpenFrame, Typed, FrameReader
<1>4. CASE ReadClose
  BY <1>4, TailTyped, NumbersAssumption DEF ReadClose, Header, Returns, Typed
<1>5. CASE ReadPing
  <2> DEFINE n == Least(Head(in).here, MaxControl)
  <2>1. in # << >>
    BY <1>5 DEF ReadPing, Header
  <2>2. n \in Nat /\ Head(in).nr \in Nat
    BY <2>1, HeadTyped, NumbersAssumption DEF Least
  <2>3. PiecesOf(Reader, "pong", Head(in).nr, 1 + n) \in Seq(Piece)
    <3>1. 1 + n \in Nat
      BY <2>2
    <3> QED
      BY <1>0, <2>2, <3>1, PiecesTyped DEF Opcode
  <2>4. todo' \in [Tasks -> Seq(Piece)]
    <3>1. todo' = todo \/ todo' = [todo EXCEPT ![Reader] = PiecesOf(Reader, "pong", Head(in).nr, 1 + n)]
      BY <1>5 DEF ReadPing
    <3> QED
      BY <1>0, <2>3, <3>1, TodoTyped DEF Typed
  <2>5. /\ result' \in [n : Nat, err : {"nil", "EOF", "other"}] /\ result'.n <= Size
        /\ reader' \in {"idle", "pong"} /\ link' \in {link, "eof"}
    BY <1>5, NumbersAssumption DEF ReadPing, Returns, Typed
  <2> QED
    BY <1>5, <2>1, <2>4, <2>5, TailTyped DEF ReadPing, Typed
<1>6. CASE ReadPong
  BY <1>6, TailTyped, NumbersAssumption DEF ReadPong, Header, Returns, Typed
<1>7. CASE Misread
  <2>1. in' \in Seq(WireFrame) /\ \A i \in 1 .. Len(in') : in'[i].here <= in'[i].size
    <3>1. PICK k \in 1 .. Len(in) : in' = SubSeq(in, k + 1, Len(in))
      BY <1>7 DEF Misread
    <3>2. in \in Seq(WireFrame)
      BY DEF Typed
    <3>3. /\ in' \in Seq(WireFrame)
          /\ \A i \in 1 .. Len(in') : in'[i] = in[k + i] /\ k + i \in 1 .. Len(in)
      BY <3>1, <3>2
    <3> QED
      BY <3>3 DEF Typed
  <2>2. got' \in Seq(Nat) /\ result' \in [n : Nat, err : {"nil", "EOF", "other"}]
        /\ result'.n <= Size /\ reader' \in {"idle", "pong"}
    <3>1. ASSUME NEW n \in 1 .. Size, Returns(n, "nil"),
                 got' = got \o [i \in 1 .. n |-> Garbled]
          PROVE  <2>2
      <4>1. n \in Nat /\ n <= Size
        BY <3>1, NumbersAssumption
      <4>2. [i \in 1 .. n |-> Garbled] \in Seq(Nat)
        BY <4>1 DEF Garbled
      <4>3. got' \in Seq(Nat)
        BY <3>1, <4>2 DEF Typed
      <4> QED
        BY <3>1, <4>1, <4>3 DEF Returns
    <3>2. CASE (\E err \in {"EOF", "other"} : Returns(0, err)) /\ UNCHANGED got
      BY <3>2, NumbersAssumption DEF Returns, Typed
    <3>3. CASE reader' = "pong" /\ UNCHANGED <<result, got>>
      BY <3>3 DEF Typed
    <3> QED
      BY <1>7, <3>1, <3>2, <3>3 DEF Misread
  <2>3. todo' \in [Tasks -> Seq(Piece)]
    <3>1. todo' = todo \/ todo' = [todo EXCEPT ![Reader] = PiecesOf(Reader, "pong", 0, 2)]
      BY <1>7 DEF Misread
    <3>2. PiecesOf(Reader, "pong", 0, 2) \in Seq(Piece)
      BY <1>0, PiecesTyped DEF Opcode
    <3> QED
      BY <1>0, <3>1, <3>2, TodoTyped DEF Typed
  <2> QED
    BY <1>7, <2>1, <2>2, <2>3 DEF Misread, Typed
<1>8. CASE EndFrame
  BY <1>8 DEF EndFrame, NoFrame, Typed
<1>9. CASE ReadEnd
  BY <1>9, NumbersAssumption DEF ReadEnd, Returns, Typed
<1>10. CASE ReadReset
  BY <1>10, NumbersAssumption DEF ReadReset, Returns, Typed
<1>11. CASE Hangup
  BY <1>11 DEF Hangup, Typed
<1>12. ASSUME NEW n \in 1 .. Size, ReadPayload(n) PROVE Typed'
  <2>1. n <= frame.here /\ n \in Nat \ {0} /\ n <= Size
    BY <1>12, NumbersAssumption DEF ReadPayload, Typed
  <2>2. got' \in Seq(Nat)
    BY <1>12, <2>1, BytesTyped DEF ReadPayload, Typed
  <2>3. /\ frame' \in FrameReader
        /\ frame'.here <= frame'.left /\ frame'.left <= frame'.size
    <3>1. /\ frame.left \in Nat /\ frame.here \in Nat /\ frame.pos \in Nat /\ frame.size \in Nat
          /\ frame.here <= frame.left /\ frame.left <= frame.size /\ frame \in FrameReader
      BY DEF Typed, FrameReader
    <3>2. frame' = [size |-> frame.size, masked |-> frame.masked, first |-> frame.first,
                    left |-> frame.left - n, here |-> frame.here - n, pos |-> frame.pos + n]
      BY <1>12, <3>1 DEF ReadPayload, FrameReader
    <3> QED
      BY <2>1, <3>1, <3>2 DEF FrameReader
  <2>4. result' = [n |-> n, err |-> "nil"] /\ reader' = "idle"
    BY <1>12 DEF ReadPayload, Returns
  <2> QED
    BY <1>12, <2>1, <2>2, <2>3, <2>4 DEF ReadPayload, Typed, FrameReader
<1> QED
  BY <1>1, <1>2, <1>3, <1>4, <1>5, <1>6, <1>7, <1>8, <1>9, <1>10, <1>11, <1>12 DEF Read

LEMMA WriteTyped ==
  ASSUME Typed,
         \/ \E t \in Tasks : WriteStep(t)
         \/ \E w \in Writers : CallWrite(w)
  PROVE  Typed'
<1> USE DEF readVars, writeVars
<1>1. ASSUME NEW w \in Writers, CallWrite(w) PROVE Typed'
  <2>1. w \in Tasks
    BY DEF Tasks
  <2>2. written[w] + 1 \in 0 .. MaxWrites
    BY <1>1, NumbersAssumption DEF CallWrite, Typed
  <2>3. PiecesOf(w, "data", written[w] + 1, Pieces) \in Seq(Piece)
    BY <2>1, <2>2, PiecesTyped, NumbersAssumption DEF Opcode
  <2>4. todo' \in [Tasks -> Seq(Piece)]
    BY <1>1, <2>1, <2>3, TodoTyped DEF CallWrite
  <2> QED
    BY <1>1, <2>2, <2>4 DEF CallWrite, Typed
<1>2. ASSUME NEW t \in Tasks, NEW ok \in BOOLEAN, Resume(t, ok)
      PROVE  /\ result' \in [n : Nat, err : {"nil", "EOF", "other"}] /\ result'.n <= Size
             /\ reader' \in {"idle", "header", "payload", "pong", "refuse"}
  BY <1>2, NumbersAssumption DEF Resume, Returns, Typed
<1>3. ASSUME NEW t \in Tasks, WriteStep(t) PROVE Typed'
  <2>1. CASE Lock(t)
    BY <2>1 DEF Lock, Typed
  <2>2. CASE Push(t)
    <3>1. todo[t] \in Seq(Piece) /\ todo[t] # << >>
      BY <2>2 DEF Push, Typed
    <3>2. Head(todo[t]) \in Piece /\ Tail(todo[t]) \in Seq(Piece)
      BY <3>1
    <3>3. todo' \in [Tasks -> Seq(Piece)]
      BY <2>2, <3>2, TodoTyped DEF Push
    <3>4. out' \in Seq(Piece) /\ Len(out') = Len(out) + 1
      BY <2>2, <3>2 DEF Push, Typed
    <3> QED
      BY <2>2, <3>3, <3>4 DEF Push, Typed
  <2>5. CASE PushLost(t)
    <3>1. todo[t] \in Seq(Piece) /\ todo[t] # << >>
      BY <2>5 DEF PushLost, Typed
    <3>2. Tail(todo[t]) \in Seq(Piece)
      BY <3>1
    <3>3. todo' \in [Tasks -> Seq(Piece)]
      BY <2>5, <3>2, TodoTyped DEF PushLost
    <3> QED
      BY <2>5, <3>3 DEF PushLost, Typed
  <2>3. CASE Written(t)
    BY <1>2, <2>3 DEF Written, Typed
  <2>4. CASE WriteFails(t)
    <3>1. << >> \in Seq(Piece)
      OBVIOUS
    <3>2. todo' \in [Tasks -> Seq(Piece)]
      BY <2>4, <3>1, TodoTyped DEF WriteFails
    <3> QED
      BY <1>2, <2>4, <3>2 DEF WriteFails, Typed
  <2> QED
    BY <1>3, <2>1, <2>2, <2>3, <2>4, <2>5 DEF WriteStep
<1> QED
  BY <1>1, <1>3

LEMMA StepTyped == Typed /\ [Next]_vars => Typed'
<1>1. Typed /\ UNCHANGED vars => Typed'
  BY DEF Typed, vars, readVars, writeVars
<1> QED
  BY <1>1, PeerTyped, ReadTyped, WriteTyped DEF Next

(* The type invariant of a connection: the reader never holds more of a    *)
(* frame than has arrived, nor returns more than its caller's buffer takes. *)
THEOREM TypeCorrect == Spec => []TypeOK
  BY InitTyped, StepTyped, TypedIsTypeOK, PTL DEF Spec

-----------------------------------------------------------------------------
(* What is written under the lock wio. *)

WithPart(p, k) == [p EXCEPT !.part = k]

(* s is what is left of the pieces of a frame. *)
Rest(s) == \A k \in 1 .. Len(s) : s[k] = WithPart(s[1], s[1].of - Len(s) + k)

Fresh(s) == Rest(s) /\ (s # << >> => s[1].of = Len(s))

Ended == out # << >> => out[Len(out)].part = out[Len(out)].of

(* The pieces s go on where out stops, within a frame or between two. *)
Continues(s) ==
  \/ Ended /\ Fresh(s)
  \/ /\ s # << >> /\ Rest(s) /\ s[1].of # Len(s)
     /\ out # << >>
     /\ out[Len(out)] = WithPart(s[1], s[1].of - Len(s))

ReaderWrites == reader \in {"pong", "refuse"}

OneWrites ==
  /\ \A t \in Tasks : wio # t => Fresh(todo[t])
  /\ ~ReaderWrites => wio # Reader /\ todo[Reader] = << >>
  /\ link = "up" => \A t \in Tasks : wio = t => Continues(todo[t])
  /\ link = "up" /\ wio = Nobody => Ended

WireInv == WholeFrames /\ OneWrites

LEMMA InitWire == Init => WireInv
<1> SUFFICES ASSUME Init PROVE WireInv
  OBVIOUS
<1>1. \A t \in Tasks : todo[t] = << >> /\ Len(todo[t]) = 0
  BY DEF Init
<1>2. \A t \in Tasks : Fresh(todo[t]) /\ wio # t
  BY <1>1, WritersAssumption DEF Fresh, Rest, Init, Tasks
<1>3. Len(out) = 0 /\ out = << >> /\ WholeFrames /\ Ended
  BY DEF Init, WholeFrames, Ended
<1> QED
  BY <1>1, <1>2, <1>3, WritersAssumption DEF Init, WireInv, OneWrites, ReaderWrites, Tasks

LEMMA WithPartFacts ==
  ASSUME NEW p \in Piece, NEW a, NEW b
  PROVE  /\ WithPart(p, a).of = p.of
         /\ WithPart(p, a).part = a
         /\ WithPart(WithPart(p, a), b) = WithPart(p, b)
         /\ WithPart(p, p.part) = p
  BY DEF Piece, WithPart

LEMMA EmptyIffNoLength ==
  ASSUME NEW S, NEW s \in Seq(S)
  PROVE  Len(s) \in Nat /\ (s = << >> <=> Len(s) = 0)
  OBVIOUS

LEMMA PiecesFresh ==
  ASSUME NEW t \in Tasks, NEW kind \in Opcode, NEW n \in Nat, NEW of \in Nat
  PROVE  Fresh(PiecesOf(t, kind, n, of))
<1> DEFINE s == PiecesOf(t, kind, n, of)
           piece(k) == [by |-> t, kind |-> kind, nr |-> n, part |-> k, of |-> of]
<1>1. s \in Seq(Piece) /\ Len(s) = of /\ \A k \in 1 .. of : s[k] = piece(k)
  BY PiecesTyped
<1>2. \A k : WithPart(piece(1), k) = piece(k)
  BY DEF WithPart
<1>3. piece(1).of = of
  OBVIOUS
<1> HIDE DEF s, piece
<1>4. ASSUME NEW k \in 1 .. Len(s) PROVE s[k] = WithPart(s[1], s[1].of - Len(s) + k)
  <2>1. s[1] = piece(1) /\ s[k] = piece(k)
    BY <1>1
  <2>2. s[1].of - Len(s) + k = k
    BY <1>1, <1>3, <2>1
  <2> QED
    BY <1>2, <2>1, <2>2
<1>5. s # << >> => s[1].of = Len(s)
  <2>1. s # << >> => 1 \in 1 .. of
    BY <1>1, EmptyIffNoLength
  <2> QED
    BY <1>1, <1>3, <2>1
<1>6. Fresh(s)
  BY <1>4, <1>5 DEF Fresh, Rest
<1> QED
  BY <1>6 DEF s

(* The next piece of the frame that is being written. *)
LEMMA RestOfTail ==
  ASSUME NEW s \in Seq(Piece), s # << >>, Rest(s)
  PROVE  /\ s[1] \in Piece /\ Head(s) = s[1] /\ Len(s) \in Nat \ {0}
         /\ s[1].of \in Nat /\ s[1].part = s[1].of - Len(s) + 1
         /\ Tail(s) \in Seq(Piece) /\ Len(Tail(s)) = Len(s) - 1 /\ Rest(Tail(s))
         /\ Tail(s) # << >> =>
              /\ Tail(s)[1] \in Piece
              /\ Tail(s)[1].of = s[1].of
              /\ s[1] = WithPart(Tail(s)[1], Tail(s)[1].of - Len(Tail(s)))
<1> DEFINE l == Len(s)
           o == s[1].of
           r == Tail(s)
<1>1. /\ l \in Nat \ {0} /\ Head(s) = s[1] /\ s[1] \in Piece
      /\ r \in Seq(Piece) /\ Len(r) = l - 1
      /\ \A k \in 1 .. Len(r) : r[k] = s[k + 1] /\ k + 1 \in 1 .. l
  OBVIOUS
<1>2. o \in Nat
  BY <1>1 DEF Piece
<1>3. \A k \in 1 .. l : s[k] = WithPart(s[1], o - l + k)
  BY DEF Rest
<1> HIDE DEF l, o, r
<1>4. s[1] = WithPart(s[1], o - l + 1)
  BY <1>1, <1>3
<1>5. s[1].part = o - l + 1
  BY <1>1, <1>4, WithPartFacts
<1>6. \A k \in 1 .. Len(r) : r[k] = WithPart(s[1], o - l + (k + 1))
  BY <1>1, <1>3
<1>7. ASSUME r # << >>
      PROVE  /\ r[1] \in Piece /\ r[1] = WithPart(s[1], o - l + (1 + 1))
             /\ r[1].of = o
  <2>1. 1 \in 1 .. Len(r)
    BY <1>1, <1>7, EmptyIffNoLength
  <2>2. r[1] \in Piece
    BY <1>1, <2>1
  <2>3. r[1] = WithPart(s[1], o - l + (1 + 1))
    BY <1>6, <2>1
  <2>4. r[1].of = s[1].of
    BY <1>1, <2>3, WithPartFacts
  <2> QED
    BY <2>2, <2>3, <2>4 DEF o
<1>8. ASSUME r # << >> PROVE s[1] = WithPart(r[1], r[1].of - Len(r))
  <2>1. r[1].of - Len(r) = o - l + 1
    BY <1>1, <1>2, <1>7, <1>8
  <2> QED
    BY <1>1, <1>4, <1>7, <1>8, <2>1, WithPartFacts
<1>9. ASSUME NEW k \in 1 .. Len(r) PROVE r[k] = WithPart(r[1], r[1].of - Len(r) + k)
  <2>1. r # << >>
    BY <1>1, EmptyIffNoLength
  <2>2. r[1].of - Len(r) + k = o - l + (k + 1)
    BY <1>1, <1>2, <1>7, <2>1
  <2> QED
    BY <1>1, <1>6, <1>7, <2>1, <2>2, WithPartFacts
<1>10. Rest(r)
  BY <1>9 DEF Rest
<1> QED
  BY <1>1, <1>2, <1>5, <1>7, <1>8, <1>10 DEF l, o, r

LEMMA WholeAppended ==
  ASSUME WireInv, NEW p, out \in Seq(Piece), Len(out') = Len(out) + 1,
         \A i \in 1 .. Len(out) : out'[i] = out[i],
         out'[Len(out) + 1] = p,
         LET i == Len(out) + 1
         IN  /\ i = 1 => p.part = 1
             /\ i > 1 => IF out[i - 1].part = out[i - 1].of THEN p.part = 1
                         ELSE p = [out[i - 1] EXCEPT !.part = @ + 1]
  PROVE  WholeFrames'
<1>1. Len(out) \in Nat
  OBVIOUS
<1>2. ASSUME NEW i \in 1 .. Len(out')
      PROVE  /\ i = 1 => out'[i].part = 1
             /\ i > 1 => IF out'[i - 1].part = out'[i - 1].of THEN out'[i].part = 1
                         ELSE out'[i] = [out'[i - 1] EXCEPT !.part = @ + 1]
  <2>1. CASE i \in 1 .. Len(out)
    <3>1. i > 1 => i - 1 \in 1 .. Len(out)
      BY <1>1, <2>1
    <3> QED
      BY <2>1, <3>1 DEF WireInv, WholeFrames
  <2>2. CASE i = Len(out) + 1
    <3>1. i > 1 => i - 1 \in 1 .. Len(out) /\ i - 1 = Len(out)
      BY <1>1, <2>2
    <3> QED
      BY <1>1, <2>2, <3>1
  <2> QED
    BY <1>1, <2>1, <2>2
<1> QED
  BY <1>2 DEF WholeFrames

LEMMA PushKeepsWire ==
  ASSUME Typed, WireInv, NEW t \in Tasks, Push(t)
  PROVE  WireInv'
<1> DEFINE s == todo[t]
           r == Tail(s)
<1>1. /\ s \in Seq(Piece) /\ s # << >>
      /\ wio = t /\ wio' = t /\ link = "up" /\ link' = "up"
      /\ out' = Append(out, Head(s)) /\ reader' = reader
  BY DEF Push, Typed, readVars
<1>2. /\ todo'[t] = r /\ \A u \in Tasks \ {t} : todo'[u] = todo[u]
  BY DEF Push, Typed
<1>3. Continues(s)
  BY <1>1 DEF WireInv, OneWrites
<1> HIDE DEF s
<1>4. Rest(s)
  BY <1>3 DEF Continues, Fresh
<1>5. /\ s[1] \in Piece /\ Head(s) = s[1] /\ Len(s) \in Nat \ {0}
      /\ s[1].of \in Nat /\ s[1].part = s[1].of - Len(s) + 1
      /\ r \in Seq(Piece) /\ Len(r) = Len(s) - 1 /\ Rest(r)
      /\ r # << >> => /\ r[1].of = s[1].of
                      /\ s[1] = WithPart(r[1], r[1].of - Len(r))
  BY <1>1, <1>4, RestOfTail
<1> HIDE DEF r
<1>6. /\ out \in Seq(Piece) /\ Len(out) \in Nat /\ Len(out') = Len(out) + 1
      /\ out'[Len(out) + 1] = s[1]
      /\ \A i \in 1 .. Len(out) : out'[i] = out[i]
      /\ out' # << >>
      /\ out # << >> => Len(out) \in 1 .. Len(out) /\ out[Len(out)] \in Piece
  <2>1. out \in Seq(Piece) /\ s[1] \in Piece /\ out' = Append(out, s[1])
    BY <1>1, <1>5 DEF Typed
  <2> QED
    BY <2>1, EmptyIffNoLength
(* In the middle of a frame the last piece written was not its last.       *)
<1>7. ASSUME ~(Ended /\ Fresh(s))
      PROVE  /\ out # << >> /\ out[Len(out)].of = s[1].of
             /\ s[1].of # Len(s)
             /\ out[Len(out)].part = s[1].of - Len(s) /\ s[1].of - Len(s) \in Nat
             /\ s[1] = WithPart(out[Len(out)], out[Len(out)].part + 1)
  <2>1. /\ out # << >> /\ s[1].of # Len(s)
        /\ out[Len(out)] = WithPart(s[1], s[1].of - Len(s))
    BY <1>3, <1>7 DEF Continues
  <2>2. out[Len(out)].part = s[1].of - Len(s) /\ out[Len(out)].of = s[1].of
    <3> DEFINE k == s[1].of - Len(s)
    <3>1. s[1] \in Piece /\ out[Len(out)] = WithPart(s[1], k)
      BY <1>5, <2>1
    <3> HIDE DEF k
    <3>2. out[Len(out)].part = k /\ out[Len(out)].of = s[1].of
      BY <3>1, WithPartFacts
    <3> QED
      BY <3>2 DEF k
  <2>3. out[Len(out)].part \in Nat
    BY <1>6, <2>1 DEF Piece
  <2>4. s[1] = WithPart(out[Len(out)], s[1].part)
    BY <1>5, <2>1, WithPartFacts
  <2> QED
    BY <1>5, <2>1, <2>2, <2>3, <2>4
<1>8. Len(s) <= s[1].of
  BY <1>1, <1>5, <1>7 DEF Fresh
<1>9. Continues(todo[t])'
  <2>1. CASE r = << >>
    <3>1. Len(r) = 0
      BY <2>1
    <3>2. s[1].part = s[1].of
      <4>1. /\ s[1].of \in Nat /\ s[1].part = s[1].of - Len(s) + 1
            /\ Len(s) \in Nat /\ Len(r) = Len(s) - 1
        BY <1>5
      <4>2. Len(s) = 1
        BY <3>1, <4>1
      <4> QED
        BY <4>1, <4>2
    <3>3. Ended'
      BY <1>6, <3>2 DEF Ended
    <3>4. Fresh(r)
      BY <1>5, <2>1 DEF Fresh
    <3> QED
      BY <1>2, <3>3, <3>4 DEF Continues
  <2>2. CASE r # << >>
    <3>1. r[1].of # Len(r)
      BY <1>5, <1>8, <2>2
    <3>2. out'[Len(out')] = WithPart(r[1], r[1].of - Len(r))
      BY <1>5, <1>6, <2>2
    <3> QED
      BY <1>2, <1>5, <1>6, <2>2, <3>1, <3>2 DEF Continues
  <2> QED
    BY <2>1, <2>2
<1>10. WholeFrames'
  <2> DEFINE i == Len(out) + 1
  <2>1. CASE Ended /\ Fresh(s)
    <3>1. s[1].part = 1
      BY <1>1, <1>5, <2>1 DEF Fresh
    <3>2. i > 1 => out[i - 1].part = out[i - 1].of
      <4>1. i > 1 => out # << >> /\ i - 1 = Len(out)
        BY <1>6, EmptyIffNoLength
      <4> QED
        BY <2>1, <4>1 DEF Ended
    <3> QED
      BY <1>6, <3>1, <3>2, WholeAppended
  <2>2. CASE ~(Ended /\ Fresh(s))
    <3>1. i - 1 = Len(out) /\ i # 1
      BY <1>6, <1>7, <2>2, EmptyIffNoLength
    <3>2. out[i - 1].part # out[i - 1].of
      BY <1>5, <1>7, <2>2, <3>1
    <3>3. s[1] = [out[i - 1] EXCEPT !.part = @ + 1]
      BY <1>7, <2>2, <3>1 DEF WithPart
    <3> QED
      BY <1>6, <3>1, <3>2, <3>3, WholeAppended
  <2> QED
    BY <2>1, <2>2
<1>11. OneWrites'
  <2>1. \A u \in Tasks : wio' # u => Fresh(todo[u])'
    BY <1>1, <1>2 DEF WireInv, OneWrites, Fresh, Rest
  <2>2. (~ReaderWrites)' => wio' # Reader /\ todo'[Reader] = << >>
    BY <1>1, <1>2 DEF WireInv, OneWrites, ReaderWrites, Tasks
  <2> QED
    BY <1>1, <1>9, <2>1, <2>2, WritersAssumption DEF OneWrites, Tasks
<1> QED
  BY <1>10, <1>11 DEF WireInv

(* A task that holds no lock is given a whole frame to write. *)
LEMMA AskedToWrite ==
  ASSUME Typed, WireInv, NEW t \in Tasks, wio # t, NEW s, Fresh(s),
         todo' = [todo EXCEPT ![t] = s], out' = out, wio' = wio,
         link' = "up" => link = "up",
         (~ReaderWrites)' => wio # Reader /\ todo'[Reader] = << >>
  PROVE  WireInv'
<1>1. todo'[t] = s /\ \A u \in Tasks \ {t} : todo'[u] = todo[u]
  BY DEF Typed
<1>2. \A u \in Tasks : wio' # u => Fresh(todo[u])'
  BY <1>1 DEF WireInv, OneWrites, Fresh, Rest
<1>3. \A u \in Tasks : link' = "up" /\ wio' = u => Continues(todo[u])'
  BY <1>1 DEF WireInv, OneWrites, Continues, Ended, Fresh, Rest
<1> QED
  BY <1>2, <1>3 DEF WireInv, OneWrites, WholeFrames, Ended

(* A step that concerns neither the lock nor what is written under it.     *)
LEMMA NothingToWrite ==
  ASSUME WireInv, UNCHANGED <<wio, todo, out>>, link' = "up" => link = "up",
         ReaderWrites => ReaderWrites'
  PROVE  WireInv'
<1>1. \A t \in Tasks : Fresh(todo[t])' <=> Fresh(todo[t])
  BY DEF Fresh, Rest
<1>2. \A t \in Tasks : Continues(todo[t])' <=> Continues(todo[t])
  BY DEF Continues, Fresh, Rest, Ended
<1> QED
  BY <1>1, <1>2 DEF WireInv, OneWrites, WholeFrames, Ended

LEMMA ReadKeepsWire == Typed /\ WireInv /\ Read => WireInv'
<1> SUFFICES ASSUME Typed, WireInv, Read PROVE WireInv'
  OBVIOUS
<1>0. Reader \in Tasks
  BY DEF Tasks
<1> USE DEF readVars, writeVars
<1>1. CASE RefuseFrame
  <2>1. in # << >> /\ Head(in).nr \in Nat /\ reader = "header"
    BY <1>1, HeadTyped DEF RefuseFrame, Header
  <2>2. Fresh(PiecesOf(Reader, "close", Head(in).nr, 2))
    BY <1>0, <2>1, PiecesFresh DEF Opcode
  <2>3. wio # Reader /\ ReaderWrites'
    BY <1>1, <2>1 DEF RefuseFrame, WireInv, OneWrites, ReaderWrites
  <2> QED
    BY <1>0, <1>1, <2>2, <2>3, AskedToWrite DEF RefuseFrame
<1>2. ASSUME reader = "header", reader' = "pong", wio' = wio, out' = out,
             link' = "up" => link = "up",
             NEW n \in Nat, NEW k \in Nat,
             todo' = [todo EXCEPT ![Reader] = PiecesOf(Reader, "pong", n, k)]
      PROVE  WireInv'
  <2>1. Fresh(PiecesOf(Reader, "pong", n, k))
    BY <1>0, <1>2, PiecesFresh DEF Opcode
  <2>2. wio # Reader /\ ReaderWrites'
    BY <1>2 DEF WireInv, OneWrites, ReaderWrites
  <2> QED
    BY <1>0, <1>2, <2>1, <2>2, AskedToWrite
<1>3. CASE ReadPing
  <2> DEFINE n == Least(Head(in).here, MaxControl)
  <2>1. in # << >> /\ reader = "header"
    BY <1>3 DEF ReadPing, Header
  <2>2. n \in Nat /\ 1 + n \in Nat /\ Head(in).nr \in Nat
    BY <2>1, HeadTyped, NumbersAssumption DEF Least
  <2>3. CASE todo' = [todo EXCEPT ![Reader] = PiecesOf(Reader, "pong", Head(in).nr, 1 + n)]
             /\ reader' = "pong" /\ UNCHANGED link
    <3> HIDE DEF n
    <3> QED
      BY <1>2, <1>3, <2>1, <2>2, <2>3 DEF ReadPing
  <2>4. CASE todo' = todo
    BY <1>3, <2>1, <2>4, NothingToWrite DEF ReadPing, ReaderWrites
  <2> QED
    BY <1>3, <2>3, <2>4 DEF ReadPing
<1>4. CASE Misread
  <2>1. reader = "header" /\ wio' = wio /\ out' = out /\ link' = link
    BY <1>4 DEF Misread
  <2>2. CASE todo' = [todo EXCEPT ![Reader] = PiecesOf(Reader, "pong", 0, 2)] /\ reader' = "pong"
    BY <1>2, <2>1, <2>2
  <2>3. CASE todo' = todo
    BY <2>1, <2>3, NothingToWrite DEF ReaderWrites
  <2> QED
    BY <1>4, <2>2, <2>3 DEF Misread
<1>5. CASE \/ CallRead \/ OpenFrame \/ ReadClose \/ ReadPong \/ EndFrame \/ ReadEnd
           \/ ReadReset \/ Hangup \/ \E n \in 1 .. Size : ReadPayload(n)
  <2>1. /\ UNCHANGED <<wio, todo, out>> /\ ~ReaderWrites
        /\ link' \in {link, "eof", "closed"}
    BY <1>5 DEF CallRead, OpenFrame, ReadClose, ReadPong, EndFrame, ReadEnd, ReadReset, Hangup,
                ReadPayload, Header, ReaderWrites
  <2> QED
    BY <2>1, NothingToWrite
<1> QED
  BY <1>1, <1>3, <1>4, <1>5 DEF Read

LEMMA LockKeepsWire ==
  ASSUME Typed, WireInv, NEW t \in Tasks, Lock(t) \/ Written(t) \/ WriteFails(t)
  PROVE  WireInv'
<1> USE DEF readVars, writeVars
<1>0. t # Nobody /\ Reader \in Tasks
  BY WritersAssumption DEF Tasks
<1>1. CASE Lock(t)
  <2>1. UNCHANGED <<link, todo, out, reader>> /\ wio = Nobody /\ wio' = t /\ todo[t] # << >>
    BY <1>1 DEF Lock
  <2>2. \A u \in Tasks : Fresh(todo[u]) /\ Fresh(todo[u])'
    BY <2>1, WritersAssumption DEF WireInv, OneWrites, Tasks, Fresh, Rest
  <2>3. link = "up" => Ended /\ Ended'
    BY <2>1 DEF WireInv, OneWrites, Ended
  <2>4. (~ReaderWrites)' => t # Reader /\ todo[Reader] = << >>
    BY <2>1 DEF WireInv, OneWrites, ReaderWrites
  <2> QED
    BY <1>0, <2>1, <2>2, <2>3, <2>4 DEF WireInv, OneWrites, WholeFrames, Continues
<1>2. CASE Written(t) \/ WriteFails(t)
  <2>1. /\ UNCHANGED <<link, out>> /\ wio = t /\ wio' = Nobody /\ todo'[t] = << >>
        /\ \A u \in Tasks \ {t} : todo'[u] = todo[u]
        /\ t # Reader => reader' = reader
        /\ t = Reader => reader' \in {"idle", "header"}
    BY <1>2 DEF Written, WriteFails, Resume, Returns, Typed
  <2>2. Fresh(<< >>)
    <3>1. Len(<< >>) = 0
      OBVIOUS
    <3> QED
      BY <3>1 DEF Fresh, Rest
  <2>3. \A u \in Tasks : Fresh(todo[u])'
    BY <2>1, <2>2 DEF WireInv, OneWrites, Fresh, Rest
  <2>4. link = "up" => Ended'
    <3>1. link = "up" => todo[t] = << >>
      BY <1>2 DEF Written, WriteFails
    <3>2. link = "up" => Continues(<< >>)
      BY <2>1, <3>1 DEF WireInv, OneWrites
    <3> QED
      BY <2>1, <3>2 DEF Continues, Ended
  <2>5. (~ReaderWrites)' => wio' # Reader /\ todo'[Reader] = << >>
    <3>1. CASE t = Reader
      <4>1. wio' # Reader
        BY <2>1, WritersAssumption
      <4> QED
        BY <2>1, <3>1, <4>1
    <3>2. CASE t # Reader
      BY <1>0, <2>1, <3>2, WritersAssumption DEF WireInv, OneWrites, ReaderWrites, Tasks
    <3> QED
      BY <3>1, <3>2
  <2> QED
    BY <2>1, <2>3, <2>4, <2>5, WritersAssumption DEF WireInv, OneWrites, WholeFrames, Tasks
<1> QED
  BY <1>1, <1>2

(* What is written to a connection that is down.                           *)
LEMMA LossKeepsWire ==
  ASSUME Typed, WireInv, NEW t \in Tasks, PushLost(t)
  PROVE  WireInv'
<1>1. /\ wio = t /\ wio' = t /\ link # "up" /\ UNCHANGED <<link, out, reader>>
      /\ \A u \in Tasks \ {t} : todo'[u] = todo[u]
  BY DEF PushLost, Typed, readVars
<1>2. \A u \in Tasks : wio' # u => Fresh(todo[u])'
  BY <1>1 DEF WireInv, OneWrites, Fresh, Rest
<1>3. (~ReaderWrites)' => wio' # Reader /\ todo'[Reader] = << >>
  BY <1>1 DEF WireInv, OneWrites, ReaderWrites, Tasks
<1> QED
  BY <1>1, <1>2, <1>3 DEF WireInv, OneWrites, WholeFrames

LEMMA StepWire == Typed /\ WireInv /\ [Next]_vars => WireInv'
<1> SUFFICES ASSUME Typed, WireInv, [Next]_vars PROVE WireInv'
  OBVIOUS
<1> USE DEF readVars, writeVars
<1>1. ASSUME NEW w \in Writers, CallWrite(w) PROVE WireInv'
  <2>1. w \in Tasks /\ w # Reader /\ written[w] + 1 \in Nat
    <3>1. written[w] \in 0 .. MaxWrites
      BY DEF Typed
    <3> QED
      BY <3>1, WritersAssumption, NumbersAssumption DEF Tasks
  <2>2. Fresh(PiecesOf(w, "data", written[w] + 1, Pieces))
    BY <2>1, PiecesFresh, NumbersAssumption DEF Opcode
  <2>3. (~ReaderWrites)' => wio # Reader /\ todo'[Reader] = << >>
    BY <1>1, <2>1 DEF CallWrite, WireInv, OneWrites, ReaderWrites, Typed, Tasks
  <2> QED
    BY <1>1, <2>1, <2>2, <2>3, AskedToWrite DEF CallWrite
<1>2. ASSUME NEW t \in Tasks, WriteStep(t) PROVE WireInv'
  BY <1>2, PushKeepsWire, LossKeepsWire, LockKeepsWire DEF WriteStep
<1>3. CASE Peer
  <2>1. UNCHANGED <<wio, todo, out, reader>> /\ link' \in {link, "eof", "reset"}
    BY <1>3 DEF Peer, PeerSends, PeerReads, Down
  <2> QED
    BY <2>1, NothingToWrite DEF ReaderWrites
<1>4. CASE UNCHANGED vars
  BY <1>4, NothingToWrite DEF vars, ReaderWrites
<1> QED
  BY <1>1, <1>2, <1>3, <1>4, ReadKeepsWire DEF Next

(* Whoever writes and whatever fails, frames are never interleaved on the  *)
(* wire, and nothing follows a frame that was broken off.                  *)
THEOREM FramesGoOutWhole == Spec => []WholeFrames
<1>1. WireInv => WholeFrames
  BY DEF WireInv
<1> QED
  BY <1>1, InitTyped, StepTyped, InitWire, StepWire, PTL DEF Spec

-----------------------------------------------------------------------------
(* What Read returns. *)

(* Read may still return payload, and knows its place in the stream. *)
Reading == synced /\ result.err # "EOF" /\ reader # "refuse"

(* The number of the byte after the frame being read. *)
Expected == IF frame = NoFrame THEN Len(got) + 1 ELSE frame.first + frame.size

(* The frames in line continue the frame being read without a gap; only    *)
(* the last of all can be cut, and none while the connection is up.        *)
InLine ==
  /\ \A i \in 1 .. Len(in) : i < Len(in) \/ link = "up" => in[i].here = in[i].size
  /\ \A i \in 1 .. Len(in) : i < Len(in) => in[i + 1].first = After(in[i])
  /\ in # << >> => in[1].first = Expected
  /\ link = "up" => NextByte = IF in = << >> THEN Expected ELSE After(in[Len(in)])
  /\ in # << >> \/ link = "up" => frame.here = frame.left

FrameKept ==
  /\ reader \in {"header", "pong", "refuse"} => frame = NoFrame
  /\ reader = "payload" => frame # NoFrame
  /\ reader # "idle" => result.err # "EOF"
  /\ frame # NoFrame => frame.first \in Nat \ {0}
  /\ frame.pos = frame.size - frame.left
  /\ Reading /\ frame # NoFrame => frame.first + frame.pos = Len(got) + 1

OrderInv == InOrder /\ FrameKept /\ (Reading => InLine)

LEMMA InitOrder == Init => OrderInv
<1> SUFFICES ASSUME Init PROVE OrderInv
  OBVIOUS
<1>1. Len(in) = 0 /\ Len(got) = 0 /\ NextByte = 1
  BY DEF Init, NextByte
<1> QED
  BY <1>1 DEF Init, OrderInv, InOrder, FrameKept, InLine, Expected, NoFrame

(* The reader has taken the header of the first frame in line. *)
LEMMA HeaderTaken ==
  ASSUME Typed, InLine, in # << >>, in' = Tail(in), sent' = sent,
         link' = "up" => link = "up",
         Expected' = After(in[1]),
         Len(in) > 1 \/ link = "up" => frame'.here = frame'.left
  PROVE  InLine'
<1>1. /\ Len(in) \in Nat \ {0} /\ Len(in') = Len(in) - 1 /\ in' \in Seq(WireFrame)
      /\ \A i \in 1 .. Len(in') : in'[i] = in[i + 1] /\ i + 1 \in 1 .. Len(in)
  <2>1. /\ Len(in) \in Nat \ {0} /\ Len(Tail(in)) = Len(in) - 1 /\ Tail(in) \in Seq(WireFrame)
        /\ \A i \in 1 .. Len(Tail(in)) : Tail(in)[i] = in[i + 1] /\ i + 1 \in 1 .. Len(in)
    BY TailTyped
  <2> QED
    BY <2>1
<1>2. in' # << >> <=> Len(in) > 1
  <2>1. in' = << >> <=> Len(in') = 0
    BY <1>1, EmptyIffNoLength
  <2>2. Len(in) \in Nat \ {0} /\ Len(in') = Len(in) - 1
    BY <1>1
  <2> QED
    BY <2>1, <2>2
<1>3. \A i \in 1 .. Len(in') : i < Len(in') \/ link' = "up" => in'[i].here = in'[i].size
  BY <1>1 DEF InLine
<1>4. \A i \in 1 .. Len(in') : i < Len(in') => in'[i + 1].first = After(in'[i])
  BY <1>1 DEF InLine
<1>5. in' # << >> => in'[1].first = Expected'
  <2>1. in' # << >> => 1 \in 1 .. Len(in') /\ in'[1] = in[2] /\ 1 \in 1 .. Len(in) /\ 1 < Len(in)
    BY <1>1, <1>2
  <2>2. in' # << >> => in[1 + 1].first = After(in[1])
    BY <2>1 DEF InLine
  <2> QED
    BY <2>1, <2>2
<1>6. link' = "up" => NextByte' = IF in' = << >> THEN Expected' ELSE After(in'[Len(in')])
  <2>1. NextByte' = NextByte
    BY DEF NextByte
  <2>2. link' = "up" => NextByte = After(in[Len(in)])
    BY DEF InLine
  <2>3. in' # << >> => in'[Len(in')] = in[Len(in)]
    <3>1. in' # << >> => Len(in') \in 1 .. Len(in') /\ Len(in') + 1 = Len(in)
      BY <1>1, <1>2
    <3> QED
      BY <1>1, <3>1
  <2>4. in' = << >> => Len(in) = 1
    BY <1>1, <1>2
  <2> QED
    BY <2>1, <2>2, <2>3, <2>4
<1>7. in' # << >> \/ link' = "up" => frame'.here = frame'.left
  BY <1>2
<1> QED
  BY <1>3, <1>4, <1>5, <1>6, <1>7 DEF InLine

(* A step that concerns neither the frames nor what was read of them.      *)
LEMMA OrderUntouched ==
  ASSUME OrderInv, UNCHANGED <<in, sent, frame, got, synced>>, link' = "up" => link = "up",
         Reading' => Reading,
         reader' \in {"header", "pong", "refuse"} => reader \in {"header", "pong", "refuse"},
         reader' = "payload" => reader = "payload",
         reader' # "idle" => result'.err # "EOF"
  PROVE  OrderInv'
<1>1. Expected' = Expected /\ NextByte' = NextByte
  BY DEF Expected, NextByte
<1>2. InLine => InLine'
  BY <1>1 DEF InLine
<1>3. FrameKept'
  BY DEF OrderInv, FrameKept
<1> QED
  BY <1>2, <1>3 DEF OrderInv, InOrder

LEMMA OpenKeepsOrder == Typed /\ OrderInv /\ OpenFrame => OrderInv'
<1> SUFFICES ASSUME Typed, OrderInv, OpenFrame PROVE OrderInv'
  OBVIOUS
<1> DEFINE h == Head(in)
<1>1. /\ reader = "header" /\ synced /\ in # << >> /\ h.op = "data"
      /\ in' = Tail(in) /\ frame' = NewFrame(h) /\ reader' = "payload"
      /\ UNCHANGED <<link, sent, result, got, synced>>
  BY DEF OpenFrame, Header
<1>2. /\ h = in[1] /\ h.size \in Nat /\ h.first \in Nat /\ Len(in) \in Nat \ {0}
  BY <1>1, HeadTyped, TailTyped
<1>3. InLine /\ Reading /\ frame = NoFrame
  BY <1>1 DEF OrderInv, FrameKept, Reading
<1>4. h.first = Len(got) + 1 /\ Len(got) \in Nat
  BY <1>1, <1>2, <1>3 DEF InLine, Expected, Typed
<1> HIDE DEF h
<1>5. /\ frame' # NoFrame /\ frame'.first = h.first /\ frame'.size = h.size
      /\ frame'.pos = 0 /\ frame'.left = h.size /\ frame'.here = h.here
  BY <1>1, <1>2, <1>4 DEF NewFrame, NoFrame
<1>6. FrameKept'
  BY <1>1, <1>2, <1>3, <1>4, <1>5 DEF FrameKept, Reading
<1>7. InLine'
  <2>1. Expected' = After(in[1])
    BY <1>1, <1>2, <1>5 DEF Expected, After
  <2>2. Len(in) > 1 \/ link = "up" => in[1].here = in[1].size
    BY <1>2, <1>3 DEF InLine
  <2> QED
    BY <1>1, <1>2, <1>3, <1>5, <2>1, <2>2, HeaderTaken
<1> QED
  BY <1>1, <1>6, <1>7 DEF OrderInv, InOrder

LEMMA NumbersConcatenated ==
  ASSUME NEW s \in Seq(Nat), NEW t \in Seq(Nat)
  PROVE  /\ Len(s \o t) = Len(s) + Len(t)
         /\ \A i \in 1 .. Len(s) : (s \o t)[i] = s[i]
         /\ \A i \in 1 .. Len(t) : (s \o t)[Len(s) + i] = t[i]
OBVIOUS

LEMMA Concatenated ==
  ASSUME NEW T, NEW s \in Seq(T), NEW t \in Seq(T)
  PROVE  /\ s \o t \in Seq(T)
         /\ Len(s \o t) = Len(s) + Len(t) /\ Len(s) \in Nat /\ Len(t) \in Nat
         /\ \A i \in 1 .. Len(s) : (s \o t)[i] = s[i]
         /\ \A i \in 1 .. Len(t) : (s \o t)[Len(s) + i] = t[i]
OBVIOUS

LEMMA PayloadKeepsOrder ==
  ASSUME Typed, OrderInv, NEW n \in 1 .. Size, ReadPayload(n)
  PROVE  OrderInv'
<1> DEFINE offset == frame.size - frame.left
           bytes == [i \in 1 .. n |-> UnmaskedAt(frame, offset + i - 1, frame.pos + i - 1)]
<1>1. /\ reader = "payload" /\ n <= frame.here /\ n \in Nat \ {0}
      /\ got' = got \o bytes /\ reader' = "idle" /\ result'.err # "EOF"
      /\ UNCHANGED <<link, in, sent, synced>>
  BY NumbersAssumption DEF ReadPayload, Returns, Typed
<1>2. /\ frame' = [frame EXCEPT !.left = @ - n, !.here = @ - n, !.pos = @ + n]
      /\ frame \in FrameReader
  BY DEF ReadPayload, Typed, FrameReader
<1>3. /\ frame'.first = frame.first /\ frame'.size = frame.size
      /\ frame'.left = frame.left - n /\ frame'.here = frame.here - n
      /\ frame'.pos = frame.pos + n
      /\ frame.first \in Nat /\ frame.size \in Nat /\ frame.left \in Nat
      /\ frame.here \in Nat /\ frame.pos \in Nat
  BY <1>2 DEF FrameReader
<1>4. frame # NoFrame /\ frame.first \in Nat \ {0} /\ frame.pos = offset
  BY <1>1 DEF OrderInv, FrameKept
<1>5. frame' # NoFrame
  BY <1>3, <1>4 DEF NoFrame
<1>6. Reading <=> synced
  BY <1>1 DEF Reading, OrderInv, FrameKept
<1>7. Reading' <=> synced
  BY <1>1 DEF Reading
<1>8. bytes \in Seq(Nat) /\ Len(bytes) = n /\ got \in Seq(Nat) /\ Len(got) \in Nat
  BY <1>1, BytesTyped DEF Typed
<1>9. /\ Len(got') = Len(got) + n
      /\ \A i \in 1 .. Len(got) : got'[i] = got[i]
      /\ \A i \in 1 .. n : got'[Len(got) + i] = bytes[i]
  <2> HIDE DEF bytes
  <2>1. got' = got \o bytes
    BY <1>1
  <2>2. /\ Len(got \o bytes) = Len(got) + Len(bytes)
        /\ \A i \in 1 .. Len(got) : (got \o bytes)[i] = got[i]
        /\ \A i \in 1 .. Len(bytes) : (got \o bytes)[Len(got) + i] = bytes[i]
    BY <1>8, NumbersConcatenated
  <2>3. Len(bytes) = n
    BY <1>8
  <2> QED
    BY <2>1, <2>2, <2>3, Zenon
<1>10. ASSUME synced, NEW i \in 1 .. n PROVE bytes[i] = Len(got) + i
  <2>1. frame.first + frame.pos = Len(got) + 1
    BY <1>4, <1>6, <1>10 DEF OrderInv, FrameKept
  <2>2. bytes[i] = UnmaskedAt(frame, offset + i - 1, frame.pos + i - 1)
    OBVIOUS
  <2>3. bytes[i] = frame.first + (offset + i - 1)
    BY <1>4, <2>2 DEF UnmaskedAt
  <2>4. /\ frame.first \in Nat /\ frame.pos \in Nat /\ frame.pos = offset
        /\ Len(got) \in Nat /\ i \in Nat
    BY <1>1, <1>3, <1>4, <1>8
  <2> HIDE DEF bytes, offset
  <2> QED
    BY <2>1, <2>3, <2>4
<1> HIDE DEF bytes
<1>11. InOrder'
  <2>1. ASSUME synced, NEW i \in 1 .. Len(got') PROVE got'[i] = i
    <3>1. CASE i \in 1 .. Len(got)
      BY <1>9, <2>1, <3>1 DEF OrderInv, InOrder
    <3>2. CASE i \notin 1 .. Len(got)
      <4>1. i - Len(got) \in 1 .. n /\ Len(got) + (i - Len(got)) = i
        BY <1>1, <1>8, <1>9, <3>2
      <4> QED
        BY <1>9, <1>10, <2>1, <4>1
    <3> QED
      BY <3>1, <3>2
  <2> QED
    BY <1>1, <2>1 DEF InOrder
<1>12. FrameKept'
  <2>1. Reading => frame.first + frame.pos = Len(got) + 1
    BY <1>4 DEF OrderInv, FrameKept
  <2>2. Reading' => frame'.first + frame'.pos = Len(got') + 1
    <3>1. /\ frame'.first + frame'.pos = frame.first + (frame.pos + n)
          /\ frame.first \in Nat /\ frame.pos \in Nat /\ n \in Nat
          /\ Len(got) \in Nat /\ Len(got') = Len(got) + n
      BY <1>1, <1>3, <1>8, <1>9
    <3>2. Reading' => Reading
      BY <1>6, <1>7
    <3> QED
      BY <2>1, <3>1, <3>2
  <2>3. frame'.pos = frame'.size - frame'.left
    BY <1>1, <1>3, <1>4
  <2> QED
    BY <1>1, <1>3, <1>4, <2>2, <2>3 DEF FrameKept
<1>13. Reading' => InLine'
  <2>1. Expected' = Expected
    BY <1>3, <1>4, <1>5 DEF Expected
  <2>2. NextByte' = NextByte
    BY <1>1 DEF NextByte
  <2>3. frame.here = frame.left => frame'.here = frame'.left
    BY <1>3
  <2> QED
    BY <1>1, <1>6, <1>7, <2>1, <2>2, <2>3 DEF OrderInv, InLine
<1> QED
  BY <1>11, <1>12, <1>13 DEF OrderInv

LEMMA EndFrameKeepsOrder == Typed /\ OrderInv /\ EndFrame => OrderInv'
<1> SUFFICES ASSUME Typed, OrderInv, EndFrame PROVE OrderInv'
  OBVIOUS
<1>1. /\ reader = "payload" /\ frame' = NoFrame /\ reader' = "header"
      /\ frame.left = 0 \/ (frame.here = 0 /\ link = "eof")
      /\ UNCHANGED <<link, in, sent, result, got, synced>>
  BY DEF EndFrame
<1>2. frame # NoFrame /\ result.err # "EOF" /\ frame.pos = frame.size - frame.left
  BY <1>1 DEF OrderInv, FrameKept
<1>3. FrameKept'
  BY <1>1, <1>2 DEF FrameKept, NoFrame
<1>4. ASSUME Reading' PROVE InLine'
  <2>1. Reading /\ InLine /\ frame.first + frame.pos = Len(got) + 1
    BY <1>1, <1>2, <1>4 DEF Reading, OrderInv, FrameKept
  <2>2. NextByte' = NextByte /\ Expected' = Len(got) + 1
    BY <1>1 DEF NextByte, Expected
  <2>3. CASE frame.left = 0
    <3>1. Expected' = Expected
      BY <1>2, <2>1, <2>2, <2>3 DEF Expected, Typed
    <3> QED
      BY <1>1, <2>1, <2>2, <3>1 DEF InLine, NoFrame
  <2>4. CASE frame.left # 0 /\ frame.here = 0 /\ link = "eof"
    <3>1. in = << >>
      BY <2>1, <2>4 DEF InLine
    <3>2. Len(in') = 0
      BY <1>1, <3>1
    <3> QED
      BY <1>1, <2>4, <3>1, <3>2 DEF InLine
  <2> QED
    BY <1>1, <2>3, <2>4
<1> QED
  BY <1>1, <1>3, <1>4 DEF OrderInv, InOrder

(* A ping, a pong without payload or a close frame: Read goes on with the  *)
(* next frame, or not at all.                                              *)
LEMMA ControlKeepsOrder ==
  ASSUME Typed, OrderInv, reader = "header", in # << >>, in[1].op # "data",
         in' = Tail(in), UNCHANGED <<sent, frame, got, synced>>,
         link' = "up" => link = "up",
         reader' \in {"idle", "pong"}, reader' = "pong" => result' = result
  PROVE  OrderInv'
<1>1. frame = NoFrame /\ result.err # "EOF"
  BY DEF OrderInv, FrameKept
<1>2. FrameKept'
  BY <1>1 DEF OrderInv, FrameKept, Reading
<1>3. ASSUME Reading' PROVE InLine'
  <2>1. Reading /\ InLine
    BY <1>1, <1>3 DEF Reading, OrderInv
  <2>2. Expected' = After(in[1])
    BY <1>1, <2>1 DEF InLine, Expected, After
  <2>3. Len(in) > 1 \/ link = "up" => frame'.here = frame'.left
    BY <1>1 DEF NoFrame
  <2> QED
    BY <2>1, <2>2, <2>3, HeaderTaken
<1> QED
  BY <1>2, <1>3 DEF OrderInv, InOrder

LEMMA ReadKeepsOrder == Typed /\ OrderInv /\ Read => OrderInv'
<1> SUFFICES ASSUME Typed, OrderInv, Read PROVE OrderInv'
  OBVIOUS
<1> USE DEF readVars, writeVars
<1>1. CASE CallRead
  <2>1. Reading' <=> Reading
    BY <1>1 DEF CallRead, Reading
  <2>2. InLine' <=> InLine
    BY <1>1 DEF CallRead, InLine, Expected, NextByte
  <2>3. FrameKept'
    BY <1>1, <2>1 DEF CallRead, OrderInv, FrameKept
  <2> QED
    BY <1>1, <2>1, <2>2, <2>3 DEF CallRead, OrderInv, InOrder
<1>2. CASE RefuseFrame
  <2>1. ~Reading'
    BY <1>2 DEF RefuseFrame, Reading
  <2>2. FrameKept'
    BY <1>2, <2>1 DEF RefuseFrame, Header, OrderInv, FrameKept
  <2> QED
    BY <1>2, <2>1, <2>2 DEF RefuseFrame, OrderInv, InOrder
<1>3. CASE OpenFrame
  BY <1>3, OpenKeepsOrder
<1>4. CASE ReadClose
  <2>1. Head(in) = in[1] /\ in # << >> /\ Head(in).op = "close" /\ reader = "header"
    BY <1>4, TailTyped DEF ReadClose, Header
  <2> QED
    BY <1>4, <2>1, ControlKeepsOrder DEF ReadClose, Returns
<1>5. CASE ReadPing
  <2>1. Head(in) = in[1] /\ in # << >> /\ Head(in).op = "ping" /\ reader = "header"
    BY <1>5, TailTyped DEF ReadPing, Header
  <2>2. /\ in' = Tail(in) /\ UNCHANGED <<sent, frame, got, synced>>
        /\ link' \in {link, "eof"}
        /\ reader' = "idle" \/ (reader' = "pong" /\ result' = result)
    BY <1>5 DEF ReadPing, Returns
  <2> QED
    BY <2>1, <2>2, ControlKeepsOrder
<1>6. CASE ReadPong
  <2>1. Head(in) = in[1] /\ in # << >> /\ Head(in).op = "pong" /\ reader = "header" /\ synced
    BY <1>6, TailTyped DEF ReadPong, Header
  <2>2. CASE Head(in).size = 0
    BY <1>6, <2>1, <2>2, ControlKeepsOrder DEF ReadPong, Returns
  <2>3. CASE Head(in).size # 0
    <3>1. ~Reading' /\ ~synced'
      BY <1>6, <2>3 DEF ReadPong, Reading
    <3>2. FrameKept'
      BY <1>6, <2>1, <3>1 DEF ReadPong, Returns, OrderInv, FrameKept
    <3> QED
      BY <3>1, <3>2 DEF OrderInv, InOrder
  <2> QED
    BY <2>2, <2>3
<1>7. CASE Misread
  <2>1. /\ ~synced' /\ reader = "header" /\ frame' = frame
        /\ reader' = "idle" \/ (reader' = "pong" /\ result' = result)
    BY <1>7 DEF Misread, Returns
  <2>2. FrameKept'
    BY <2>1 DEF OrderInv, FrameKept, Reading
  <2> QED
    BY <2>1, <2>2 DEF OrderInv, InOrder, Reading
<1>8. CASE EndFrame
  BY <1>8, EndFrameKeepsOrder
<1>9. CASE ReadEnd \/ ReadReset
  <2>1. /\ UNCHANGED <<in, sent, frame, got, synced>> /\ link' \in {link, "eof"}
        /\ reader' = "idle" /\ reader \in {"header", "payload"}
    BY <1>9 DEF ReadEnd, ReadReset, Returns
  <2>2. Reading' => Reading
    BY <2>1 DEF Reading, OrderInv, FrameKept
  <2> QED
    BY <2>1, <2>2, OrderUntouched
<1>10. CASE Hangup
  BY <1>10, OrderUntouched DEF Hangup, Reading
<1>11. ASSUME NEW n \in 1 .. Size, ReadPayload(n) PROVE OrderInv'
  BY <1>11, PayloadKeepsOrder
<1> QED
  BY <1>1, <1>2, <1>3, <1>4, <1>5, <1>6, <1>7, <1>8, <1>9, <1>10, <1>11 DEF Read

LEMMA PeerKeepsOrder == Typed /\ OrderInv /\ Peer => OrderInv'
<1> SUFFICES ASSUME Typed, OrderInv, Peer PROVE OrderInv'
  OBVIOUS
<1> USE DEF readVars, writeVars
<1>1. ASSUME NEW f \in PeerFrames, PeerSends(f) PROVE OrderInv'
  <2> DEFINE w == Wire(f)
  <2>1. /\ in' = Append(in, w) /\ sent' = Append(sent, w) /\ link = "up" /\ link' = "up"
        /\ UNCHANGED <<frame, reader, result, got, synced>>
    BY <1>1 DEF PeerSends
  <2>2. w.first = NextByte /\ w.here = w.size
    BY DEF Wire
  <2> HIDE DEF w
  <2>3. in \in Seq(WireFrame) /\ sent \in Seq(WireFrame)
    BY DEF Typed
  <2>4. /\ Len(in) \in Nat /\ Len(in') = Len(in) + 1 /\ in'[Len(in) + 1] = w
        /\ \A i \in 1 .. Len(in) : in'[i] = in[i]
        /\ Len(sent') = Len(sent) + 1 /\ Len(sent) \in Nat /\ sent'[Len(sent) + 1] = w
        /\ in' # << >> /\ sent' # << >>
    <3>1. w \in WireFrame
      BY WireTyped DEF w
    <3> QED
      BY <2>1, <2>3, <3>1
  <2>5. NextByte' = After(w) /\ Expected' = Expected
    BY <2>1, <2>4 DEF NextByte, Expected
  <2>6. ASSUME InLine PROVE InLine'
    <3>1. \A i \in 1 .. Len(in') : in'[i].here = in'[i].size
      BY <2>1, <2>2, <2>4, <2>6 DEF InLine
    <3>2. ASSUME NEW i \in 1 .. Len(in'), i < Len(in') PROVE in'[i + 1].first = After(in'[i])
      <4>1. CASE i < Len(in)
        BY <2>4, <2>6, <4>1 DEF InLine
      <4>2. CASE i = Len(in)
        <5>1. in # << >> /\ in'[i] = in[Len(in)] /\ in'[i + 1] = w
          BY <2>4, <3>2, <4>2
        <5> QED
          BY <2>1, <2>2, <2>6, <5>1, <4>2 DEF InLine
      <4> QED
        BY <2>4, <3>2, <4>1, <4>2
    <3>3. in'[1].first = Expected'
      <4>1. CASE in = << >>
        <5>1. in'[1] = w
          BY <2>4, <4>1
        <5> QED
          BY <2>1, <2>2, <2>5, <2>6, <4>1, <5>1 DEF InLine
      <4>2. CASE in # << >>
        <5>1. in'[1] = in[1]
          BY <2>3, <2>4, <4>2
        <5> QED
          BY <2>5, <2>6, <4>2, <5>1 DEF InLine
      <4> QED
        BY <4>1, <4>2
    <3> QED
      BY <2>1, <2>4, <2>5, <2>6, <3>1, <3>2, <3>3 DEF InLine
  <2>7. FrameKept' /\ (Reading' <=> Reading)
    BY <2>1 DEF OrderInv, FrameKept, Reading
  <2> QED
    BY <2>1, <2>6, <2>7 DEF OrderInv, InOrder
<1>2. CASE PeerReads
  BY <1>2, OrderUntouched DEF PeerReads, Reading, OrderInv, FrameKept
<1>3. ASSUME NEW how \in {"eof", "reset"}, NEW k \in 0 .. Len(in),
             NEW m \in 0 .. IF k = 0 THEN frame.here ELSE in[k].size, Down(how, k, m)
      PROVE  OrderInv'
  <2>1. /\ link = "up" /\ link' # "up" /\ UNCHANGED <<sent, reader, result, got, synced>>
    BY <1>3 DEF Down
  <2>2. CASE k > 0
    <3> DEFINE s == SubSeq(in, 1, k)
               h == [in[k] EXCEPT !.here = m]
    <3>1. /\ s \in Seq(WireFrame) /\ Len(s) = k /\ k \in Nat \ {0} /\ k <= Len(in)
          /\ Len(in) \in Nat
          /\ \A i \in 1 .. k : s[i] = in[i] /\ i \in 1 .. Len(in)
      BY <2>2 DEF Typed
    <3>2. h.first = in[k].first
      <4>1. in[k] \in WireFrame
        BY <3>1 DEF Typed
      <4> QED
        BY <4>1 DEF WireFrame
    <3>3. in' = [s EXCEPT ![k] = h] /\ UNCHANGED frame
      BY <1>3, <2>2, <3>1 DEF Down
    <3> HIDE DEF s, h
    <3>4. /\ Len(in') = k /\ in'[k] = h /\ in' # << >>
          /\ \A i \in 1 .. k : i # k => in'[i] = in[i]
      <4>1. in' \in [1 .. k -> WireFrame \cup {h}]
        BY <3>1, <3>3
      <4>2. in' \in Seq(WireFrame \cup {h}) /\ Len(in') = k
        BY <3>1, <4>1
      <4> QED
        BY <3>1, <3>3, <4>2, EmptyIffNoLength
    <3>5. \A i \in 1 .. k : in'[i].first = in[i].first
      BY <3>2, <3>4
    <3>6. ASSUME InLine PROVE InLine'
      <4>1. Expected' = Expected
        BY <2>1, <3>3 DEF Expected
      <4>2. in # << >> /\ in'[1].first = in[1].first
        BY <3>1, <3>5
      <4>3. \A i \in 1 .. Len(in') : i < Len(in') => in'[i + 1].first = After(in'[i])
        BY <3>1, <3>4, <3>5, <3>6 DEF InLine
      <4> QED
        BY <2>1, <3>1, <3>3, <3>4, <3>6, <4>1, <4>2, <4>3 DEF InLine
    <3>7. FrameKept' /\ (Reading' <=> Reading)
      BY <2>1, <3>3 DEF OrderInv, FrameKept, Reading
    <3> QED
      BY <2>1, <3>6, <3>7 DEF OrderInv, InOrder
  <2>3. CASE k = 0
    <3>1. in' = << >> /\ frame' = [frame EXCEPT !.here = m] /\ m <= frame.here /\ m \in Nat
      BY <1>3, <2>3 DEF Down
    <3>2. /\ frame'.first = frame.first /\ frame'.size = frame.size
          /\ frame'.left = frame.left /\ frame'.pos = frame.pos
      BY <3>1 DEF Typed
    <3>3. Len(in') = 0
      BY <3>1
    <3>4. frame' = NoFrame <=> frame = NoFrame
      <4>1. frame = NoFrame => m = 0
        BY <3>1 DEF NoFrame
      <4>2. frame = NoFrame => frame' = NoFrame
        BY <3>1, <4>1 DEF NoFrame
      <4>3. frame # NoFrame => frame'.first # 0
        BY <3>2 DEF OrderInv, FrameKept
      <4> QED
        BY <4>2, <4>3 DEF NoFrame
    <3>5. InLine'
      BY <2>1, <3>1, <3>3 DEF InLine
    <3>6. FrameKept'
      BY <2>1, <3>2, <3>4 DEF OrderInv, FrameKept, Reading
    <3> QED
      BY <2>1, <3>5, <3>6 DEF OrderInv, InOrder
  <2>4. k > 0 \/ k = 0
    OBVIOUS
  <2> QED
    BY <2>2, <2>3, <2>4
<1> QED
  BY <1>1, <1>2, <1>3 DEF Peer

LEMMA StepOrder == Typed /\ WireInv /\ OrderInv /\ [Next]_vars => OrderInv'
<1> SUFFICES ASSUME Typed, WireInv, OrderInv, [Next]_vars PROVE OrderInv'
  OBVIOUS
<1> USE DEF readVars, writeVars
<1>1. ASSUME NEW w \in Writers, CallWrite(w) PROVE OrderInv'
  BY <1>1, OrderUntouched DEF CallWrite, Reading, OrderInv, FrameKept
<1>2. ASSUME NEW t \in Tasks, WriteStep(t) PROVE OrderInv'
  <2>1. CASE Lock(t) \/ Push(t) \/ PushLost(t)
    BY <2>1, OrderUntouched DEF Lock, Push, PushLost, Reading, OrderInv, FrameKept
  <2>2. CASE Written(t) \/ WriteFails(t)
    <3>1. /\ UNCHANGED <<link, in, sent, frame, got, synced>> /\ wio = t
          /\ t # Reader => UNCHANGED <<reader, result>>
      BY <2>2 DEF Written, WriteFails, Resume
    <3>2. t = Reader => ReaderWrites
      BY <3>1 DEF WireInv, OneWrites
    <3>3. t = Reader => \/ reader' = "idle"
                        \/ reader # "refuse" /\ reader' = "header" /\ result' = result
      BY <2>2 DEF Written, WriteFails, Resume, Returns
    <3>4. result.err # "EOF" \/ reader = "idle"
      BY DEF OrderInv, FrameKept
    <3>5. t = Reader => (reader = "refuse" => result'.err = "EOF")
      BY <2>2 DEF Written, WriteFails, Resume, Returns
    <3>6. Reading' => Reading
      BY <3>1, <3>2, <3>4, <3>5 DEF Reading, ReaderWrites
    <3> QED
      BY <3>1, <3>2, <3>3, <3>4, <3>6, OrderUntouched DEF ReaderWrites
  <2> QED
    BY <1>2, <2>1, <2>2 DEF WriteStep
<1>3. CASE UNCHANGED vars
  BY <1>3, OrderUntouched DEF vars, Reading, OrderInv, FrameKept
<1> QED
  BY <1>1, <1>2, <1>3, ReadKeepsOrder, PeerKeepsOrder DEF Next

(* Whatever portions TCP delivers and whatever else the peer sends in      *)
(* between, Read returns the payload bytes in order and rightly unmasked,  *)
(* until a pong with a payload leads it astray.                            *)
THEOREM BytesComeInOrder == Spec => []InOrder
<1>1. OrderInv => InOrder
  BY DEF OrderInv
<1> QED
  BY <1>1, InitTyped, StepTyped, InitWire, StepWire, InitOrder, StepOrder, PTL DEF Spec

-----------------------------------------------------------------------------
(* What the frames of the peer make of the reader. *)

(* The peer has sent a frame like h. *)
WasSent(h) ==
  \E j \in 1 .. Len(sent) : /\ sent[j].op = h.op
                            /\ sent[j].masked = h.masked
                            /\ sent[j].size = h.size

EndSent == \E j \in 1 .. Len(sent) : Ends(sent[j])

PeerInv ==
  /\ \A i \in 1 .. Len(in) : WasSent(in[i])
  /\ reader = "refuse" => EndSent
  /\ NotTakenForGone

LEMMA InitPeer == Init => PeerInv
<1> SUFFICES ASSUME Init PROVE PeerInv
  OBVIOUS
<1>1. Len(in) = 0
  BY DEF Init
<1> QED
  BY <1>1 DEF Init, PeerInv, NotTakenForGone

(* What was sent was sent. *)
LEMMA SentKept ==
  ASSUME PeerInv, sent' = sent,
         \A i \in 1 .. Len(in') : \E j \in 1 .. Len(in) :
           /\ in'[i].op = in[j].op /\ in'[i].masked = in[j].masked /\ in'[i].size = in[j].size
  PROVE  \A i \in 1 .. Len(in') : WasSent(in[i])'
<1> SUFFICES ASSUME NEW i \in 1 .. Len(in') PROVE WasSent(in[i])'
  OBVIOUS
<1>1. PICK j \in 1 .. Len(in) : /\ in'[i].op = in[j].op
                               /\ in'[i].masked = in[j].masked
                               /\ in'[i].size = in[j].size
  OBVIOUS
<1>2. WasSent(in[j])
  BY DEF PeerInv
<1>3. PICK k \in 1 .. Len(sent) : /\ sent[k].op = in[j].op
                                 /\ sent[k].masked = in[j].masked
                                 /\ sent[k].size = in[j].size
  BY <1>2 DEF WasSent
<1>4. /\ k \in 1 .. Len(sent')
      /\ sent'[k].op = in'[i].op
      /\ sent'[k].masked = in'[i].masked
      /\ sent'[k].size = in'[i].size
  BY <1>1, <1>3
<1> QED
  BY <1>4 DEF WasSent

LEMMA TailSent ==
  ASSUME Typed, PeerInv, sent' = sent, in' = in \/ (in # << >> /\ in' = Tail(in))
  PROVE  \A i \in 1 .. Len(in') : WasSent(in[i])'
<1>1. CASE in' = in
  BY <1>1, SentKept
<1>2. CASE in # << >> /\ in' = Tail(in)
  <2>1. \A i \in 1 .. Len(in') : in'[i] = in[i + 1] /\ i + 1 \in 1 .. Len(in)
    BY <1>2, TailTyped
  <2> QED
    BY <2>1, SentKept
<1> QED
  BY <1>1, <1>2

(* A frame whose header Read has taken was sent by the peer. *)
LEMMA HeadSent ==
  ASSUME Typed, PeerInv, in # << >>
  PROVE  Ends(Head(in)) => EndSent
<1>1. Head(in) = in[1] /\ 1 \in 1 .. Len(in)
  BY TailTyped
<1>2. PICK j \in 1 .. Len(sent) : /\ sent[j].op = Head(in).op
                                  /\ sent[j].masked = Head(in).masked
                                  /\ sent[j].size = Head(in).size
  BY <1>1 DEF PeerInv, WasSent
<1> QED
  BY <1>2 DEF EndSent, Ends, WrongMask

LEMMA ReadKeepsPeer == Typed /\ OrderInv /\ PeerInv /\ Read => PeerInv'
<1> SUFFICES ASSUME Typed, OrderInv, PeerInv, Read PROVE PeerInv'
  OBVIOUS
<1> USE DEF readVars, writeVars
<1>0. sent' = sent /\ (EndSent' <=> EndSent)
  <2>1. sent' = sent
    BY DEF Read, CallRead, RefuseFrame, OpenFrame, ReadClose, ReadPing, ReadPong, Misread,
           EndFrame, ReadEnd, ReadReset, Hangup, ReadPayload
  <2> QED
    BY <2>1 DEF EndSent, Ends, WrongMask
(* It is enough to look at a new end-of-file, at a refusal and at the place *)
(* in the stream.                                                          *)
<1>1. ASSUME in' = in \/ (in # << >> /\ in' = Tail(in)),
             synced' = synced,
             reader' = "refuse" => reader = "refuse" \/ EndSent,
             result'.err = "EOF" /\ link' = "up" /\ synced =>
               (result.err = "EOF" /\ link = "up") \/ EndSent
      PROVE  PeerInv'
  <2>1. \A i \in 1 .. Len(in') : WasSent(in[i])'
    BY <1>0, <1>1, TailSent
  <2> QED
    BY <1>0, <1>1, <2>1 DEF PeerInv, NotTakenForGone, EndSent
<1>2. CASE RefuseFrame
  <2>1. in # << >> /\ Ends(Head(in))
    BY <1>2 DEF RefuseFrame, Header, Ends
  <2> QED
    BY <1>1, <1>2, <2>1, HeadSent DEF RefuseFrame
<1>3. CASE ReadClose
  <2>1. in # << >> /\ Ends(Head(in))
    BY <1>3 DEF ReadClose, Header, Ends
  <2> QED
    BY <1>1, <1>3, <2>1, HeadSent DEF ReadClose, Returns
<1>4. CASE ReadPing
  <2>1. /\ in # << >> /\ in' = Tail(in) /\ synced' = synced /\ synced
        /\ Head(in).op = "ping" /\ reader' \in {"idle", "pong"} /\ reader = "header"
    BY <1>4 DEF ReadPing, Header, Returns
  <2>2. ASSUME link' = "up", result'.err = "EOF" PROVE Ends(Head(in)) \/ result.err = "EOF"
    <3>1. link = "up" /\ (result' = result \/ Least(Head(in).here, MaxControl) = 0)
      BY <1>4, <2>2 DEF ReadPing, Returns
    <3>2. Head(in).here = Head(in).size
      <4>1. Reading
        BY <2>1 DEF Reading, OrderInv, FrameKept
      <4>2. Head(in) = in[1] /\ 1 \in 1 .. Len(in)
        BY <2>1, TailTyped
      <4> QED
        BY <3>1, <4>1, <4>2 DEF OrderInv, InLine
    <3>3. Head(in).here \in Nat
      BY <2>1, HeadTyped
    <3> QED
      BY <2>1, <2>2, <3>1, <3>2, <3>3, NumbersAssumption DEF Least, Ends
  <2>3. link' = "up" => link = "up"
    BY <1>4 DEF ReadPing
  <2> QED
    BY <1>1, <2>1, <2>2, <2>3, HeadSent
<1>5. CASE ReadPong
  <2>1. /\ in # << >> /\ Head(in).op = "pong" /\ synced /\ UNCHANGED link
        /\ reader' = "idle" /\ result'.err = "other"
    BY <1>5 DEF ReadPong, Header, Returns
  <2>2. CASE Head(in).size = 0
    BY <1>1, <1>5, <2>1, <2>2 DEF ReadPong
  <2>3. CASE Head(in).size # 0
    <3>1. \A i \in 1 .. Len(in') : WasSent(in[i])'
      BY <1>0, <1>5, <2>3, TailSent DEF ReadPong
    <3>2. synced' = FALSE
      BY <1>5, <2>3 DEF ReadPong
    <3> QED
      BY <2>1, <3>1, <3>2 DEF PeerInv, NotTakenForGone
  <2> QED
    BY <2>2, <2>3
<1>6. CASE Misread
  <2>1. /\ ~synced /\ synced' = synced /\ reader' \in {"idle", "pong"}
    BY <1>6 DEF Misread, Returns
  <2>2. \A i \in 1 .. Len(in') : WasSent(in[i])'
    <3>1. PICK k \in 1 .. Len(in) : in' = SubSeq(in, k + 1, Len(in))
      BY <1>6 DEF Misread
    <3>2. in \in Seq(WireFrame)
      BY DEF Typed
    <3>3. \A i \in 1 .. Len(in') : in'[i] = in[k + i] /\ k + i \in 1 .. Len(in)
      BY <3>1, <3>2
    <3> QED
      BY <1>0, <3>3, SentKept
  <2> QED
    BY <1>0, <2>1, <2>2 DEF PeerInv, NotTakenForGone
<1>7. CASE CallRead \/ OpenFrame \/ EndFrame
  BY <1>1, <1>7 DEF CallRead, OpenFrame, Header, EndFrame
<1>8. CASE ReadEnd \/ ReadReset \/ Hangup
  BY <1>1, <1>8 DEF ReadEnd, ReadReset, Hangup, Returns
<1>9. ASSUME NEW n \in 1 .. Size, ReadPayload(n) PROVE PeerInv'
  BY <1>1, <1>9 DEF ReadPayload, Returns
<1> QED
  BY <1>2, <1>3, <1>4, <1>5, <1>6, <1>7, <1>8, <1>9 DEF Read

LEMMA PeerKeepsPeer == Typed /\ PeerInv /\ Peer => PeerInv'
<1> SUFFICES ASSUME Typed, PeerInv, Peer PROVE PeerInv'
  OBVIOUS
<1> USE DEF readVars, writeVars
<1>1. ASSUME NEW f \in PeerFrames, PeerSends(f) PROVE PeerInv'
  <2> DEFINE w == Wire(f)
  <2>1. /\ in' = Append(in, w) /\ sent' = Append(sent, w) /\ link = "up" /\ link' = "up"
        /\ UNCHANGED <<reader, result, synced>>
    BY <1>1 DEF PeerSends
  <2>2. w \in WireFrame /\ in \in Seq(WireFrame) /\ sent \in Seq(WireFrame)
    BY WireTyped DEF Typed
  <2> HIDE DEF w
  <2>3. /\ Len(in) \in Nat /\ Len(in') = Len(in) + 1 /\ in'[Len(in) + 1] = w
        /\ \A i \in 1 .. Len(in) : in'[i] = in[i]
        /\ Len(sent') = Len(sent) + 1 /\ Len(sent) \in Nat /\ sent'[Len(sent) + 1] = w
        /\ \A i \in 1 .. Len(sent) : sent'[i] = sent[i]
    BY <2>1, <2>2
  <2>4. \A j \in 1 .. Len(sent) : j \in 1 .. Len(sent') /\ sent'[j] = sent[j]
    BY <2>3
  <2>5. ASSUME NEW i \in 1 .. Len(in') PROVE WasSent(in[i])'
    <3>1. CASE i \in 1 .. Len(in)
      <4>1. PICK j \in 1 .. Len(sent) : /\ sent[j].op = in[i].op
                                        /\ sent[j].masked = in[i].masked
                                        /\ sent[j].size = in[i].size
        BY <3>1 DEF PeerInv, WasSent
      <4> QED
        BY <2>3, <2>4, <3>1, <4>1 DEF WasSent
    <3>2. CASE i = Len(in) + 1
      <4>1. Len(sent) + 1 \in 1 .. Len(sent') /\ sent'[Len(sent) + 1] = in'[i]
        BY <2>3, <3>2
      <4> QED
        BY <4>1 DEF WasSent
    <3> QED
      BY <2>3, <3>1, <3>2
  <2>6. EndSent => EndSent'
    BY <2>1, <2>4 DEF PeerInv, EndSent, Ends, WrongMask
  <2> QED
    BY <2>1, <2>5, <2>6 DEF PeerInv, NotTakenForGone, EndSent
<1>2. CASE PeerReads
  BY <1>2 DEF PeerReads, PeerInv, WasSent, NotTakenForGone, EndSent, Ends,
              WrongMask
<1>3. ASSUME NEW how \in {"eof", "reset"}, NEW k \in 0 .. Len(in),
             NEW m \in 0 .. IF k = 0 THEN frame.here ELSE in[k].size, Down(how, k, m)
      PROVE  PeerInv'
  <2>1. /\ link = "up" /\ link' # "up" /\ UNCHANGED <<sent, reader, result, synced>>
    BY <1>3 DEF Down
  <2>2. \A i \in 1 .. Len(in') : WasSent(in[i])'
    <3>1. CASE k > 0
      <4> DEFINE s == SubSeq(in, 1, k)
                 h == [in[k] EXCEPT !.here = m]
      <4>1. /\ s \in Seq(WireFrame) /\ Len(s) = k /\ k \in Nat \ {0}
            /\ \A i \in 1 .. k : s[i] = in[i] /\ i \in 1 .. Len(in)
        BY <3>1 DEF Typed
      <4>2. h.op = in[k].op /\ h.masked = in[k].masked /\ h.size = in[k].size
        <5>1. in[k] \in WireFrame
          BY <4>1 DEF Typed
        <5> QED
          BY <5>1 DEF WireFrame
      <4>3. in' = [s EXCEPT ![k] = h]
        BY <1>3, <3>1, <4>1 DEF Down
      <4> HIDE DEF s, h
      <4>4. /\ Len(in') = k /\ in'[k] = h
            /\ \A i \in 1 .. k : i # k => in'[i] = in[i]
        BY <4>1, <4>3
      <4>5. \A i \in 1 .. Len(in') : in'[i].op = in[i].op /\ in'[i].masked = in[i].masked
                                     /\ in'[i].size = in[i].size /\ i \in 1 .. Len(in)
        BY <4>1, <4>2, <4>4
      <4> QED
        BY <2>1, <4>5, SentKept
    <3>2. CASE k = 0
      <4>1. Len(in') = 0
        <5>1. Len(<< >>) = 0
          OBVIOUS
        <5> QED
          BY <1>3, <3>2, <5>1 DEF Down
      <4> QED
        BY <4>1
    <3>3. k > 0 \/ k = 0
      OBVIOUS
    <3> QED
      BY <3>1, <3>2, <3>3
  <2> QED
    BY <2>1, <2>2 DEF PeerInv, NotTakenForGone, EndSent, Ends, WrongMask
<1> QED
  BY <1>1, <1>2, <1>3 DEF Peer

LEMMA StepPeer == Typed /\ OrderInv /\ PeerInv /\ [Next]_vars => PeerInv'
<1> SUFFICES ASSUME Typed, OrderInv, PeerInv, [Next]_vars PROVE PeerInv'
  OBVIOUS
<1> USE DEF readVars, writeVars
<1>1. ASSUME UNCHANGED <<in, sent, synced, link>>,
             reader' = "refuse" => reader = "refuse",
             result'.err = "EOF" => result.err = "EOF" \/ EndSent
      PROVE  PeerInv'
  BY <1>1 DEF PeerInv, WasSent, NotTakenForGone, EndSent, Ends, WrongMask
<1>2. ASSUME NEW w \in Writers, CallWrite(w) PROVE PeerInv'
  BY <1>1, <1>2 DEF CallWrite
<1>3. ASSUME NEW t \in Tasks, WriteStep(t) PROVE PeerInv'
  <2>1. CASE Lock(t) \/ Push(t) \/ PushLost(t)
    BY <1>1, <2>1 DEF Lock, Push, PushLost
  <2>2. CASE Written(t) \/ WriteFails(t)
    <3>1. UNCHANGED <<in, sent, synced, link>>
      BY <2>2 DEF Written, WriteFails
    <3>2. \E ok \in BOOLEAN : Resume(t, ok)
      BY <2>2 DEF Written, WriteFails
    <3>3. reader' = "refuse" => reader = "refuse"
      BY <3>2 DEF Resume, Returns
    <3>4. result'.err = "EOF" => result.err = "EOF" \/ reader = "refuse"
      BY <3>2 DEF Resume, Returns
    <3> QED
      BY <1>1, <3>1, <3>3, <3>4 DEF PeerInv
  <2> QED
    BY <1>3, <2>1, <2>2 DEF WriteStep
<1>4. CASE UNCHANGED vars
  BY <1>1, <1>4 DEF vars
<1> QED
  BY <1>2, <1>3, <1>4, ReadKeepsPeer, PeerKeepsPeer DEF Next

(* A client whose connection is up is taken for gone only after a close    *)
(* frame, a frame masked against the rules, or a ping without payload.     *)
THEOREM UpIsNotGone == Spec => []NotTakenForGone
<1>1. PeerInv => NotTakenForGone
  BY DEF PeerInv
<1> QED
  BY <1>1, InitTyped, StepTyped, InitWire, StepWire, InitOrder, StepOrder, InitPeer, StepPeer,
     PTL DEF Spec

-----------------------------------------------------------------------------
(* What becomes of the pings. *)

(* The number of frames of the peer whose header Read has taken. *)
Passed == Len(sent) - Len(in)

(* The frames of the peer are numbered, whole when they are sent, and wait  *)
(* in line as they were sent while the connection is up.                   *)
Counted ==
  /\ Len(in) <= Len(sent)
  /\ \A k \in 1 .. Len(sent) : sent[k].nr = k /\ sent[k].here = sent[k].size
  /\ link = "up" /\ synced => \A i \in 1 .. Len(in) : in[i] = sent[Passed + i]

(* The reader has on hand what is left of the pong for the frame it has    *)
(* taken last; once nothing is left, the pong is on the wire.              *)
Answering(s) ==
  /\ Passed \in 1 .. Len(sent)
  /\ sent[Passed].op = "ping"
  /\ \A i \in 1 .. Len(s) :
       /\ s[i].kind = "pong"
       /\ s[i].nr = Passed
       /\ s[i].of = 1 + Least(sent[Passed].size, MaxControl)
  /\ s # << >> => s[Len(s)].part = s[Len(s)].of
  /\ s = << >> => Ponged(Passed)

NoPong(s) == \A i \in 1 .. Len(s) : s[i].kind # "pong"

AnswerInv ==
  /\ Counted
  /\ \A t \in Tasks : t # Reader \/ reader # "pong" => NoPong(todo[t])
  /\ reader = "pong" /\ synced /\ link = "up" => Answering(todo[Reader])
  /\ PongsAnswerPings
  /\ NoPingForgotten

LEMMA InitAnswers == Init => AnswerInv
<1> SUFFICES ASSUME Init PROVE AnswerInv
  OBVIOUS
<1>1. Len(in) = 0 /\ Len(sent) = 0 /\ Len(out) = 0
  BY DEF Init
<1>2. \A t \in Tasks : todo[t] = << >> /\ Len(todo[t]) = 0
  BY DEF Init
<1>3. Counted
  BY <1>1 DEF Counted, Passed
<1>4. PongsAnswerPings /\ NoPingForgotten
  BY <1>1 DEF PongsAnswerPings, NoPingForgotten
<1> QED
  BY <1>2, <1>3, <1>4 DEF Init, AnswerInv, NoPong

LEMMA PassedTyped ==
  ASSUME Typed
  PROVE  /\ Len(in) \in Nat /\ Len(sent) \in Nat /\ Len(out) \in Nat /\ Passed \in Int
         /\ in \in Seq(WireFrame) /\ sent \in Seq(WireFrame) /\ out \in Seq(Piece)
  BY DEF Typed, Passed

(* What has been answered stays answered. *)
LEMMA PongedStays ==
  ASSUME NEW k, sent'[k] = sent[k],
         \A i \in 1 .. Len(out) : i \in 1 .. Len(out') /\ out'[i] = out[i],
         Ponged(k)
  PROVE  Ponged(k)'
<1>1. PICK i \in 1 .. Len(out) :
        /\ out[i].kind = "pong" /\ out[i].nr = k /\ out[i].part = out[i].of
        /\ out[i].of = 1 + Least(sent[k].size, MaxControl)
  BY DEF Ponged
<1>2. i \in 1 .. Len(out') /\ out'[i] = out[i]
  BY <1>1
<1> QED
  BY <1>1, <1>2 DEF Ponged

(* The pongs on the wire when nothing is written and nothing sent.         *)
LEMMA PongsKept ==
  ASSUME Typed, PongsAnswerPings, UNCHANGED <<sent, out>>, synced' => synced,
         Len(in') \in Nat, Len(in') <= Len(in)
  PROVE  PongsAnswerPings'
<1>1. synced' => \A i \in 1 .. Len(out) : out[i].kind = "pong" => out[i].nr \in 1 .. Len(sent) - Len(in')
  BY PassedTyped DEF PongsAnswerPings
<1> QED
  BY <1>1 DEF PongsAnswerPings

(* Nothing is read, sent or written. *)
LEMMA NothingAnswered ==
  ASSUME AnswerInv, UNCHANGED <<in, sent, todo, out>>,
         synced' => synced, link' = "up" => link = "up",
         reader' = "pong" <=> reader = "pong",
         link' = "up" /\ synced /\ result'.err # "EOF" /\ reader' # "refuse" =>
           result.err # "EOF" /\ reader # "refuse"
  PROVE  AnswerInv'
<1>1. Counted'
  BY DEF AnswerInv, Counted, Passed
<1>2. \A t \in Tasks : (t # Reader \/ reader # "pong")' => NoPong(todo[t])'
  BY DEF AnswerInv, NoPong
<1>3. \A k : Ponged(k)' <=> Ponged(k)
  BY DEF Ponged
<1>4. (reader = "pong" /\ synced /\ link = "up" => Answering(todo[Reader]))'
  BY <1>3 DEF AnswerInv, Answering, Passed
<1>5. PongsAnswerPings'
  BY DEF AnswerInv, PongsAnswerPings
<1>6. NoPingForgotten'
  BY <1>3 DEF AnswerInv, NoPingForgotten
<1> QED
  BY <1>1, <1>2, <1>4, <1>5, <1>6 DEF AnswerInv

(* The count when the first frame in line is taken.                        *)
LEMMA TailCounted ==
  ASSUME Typed, AnswerInv, in # << >>, in' = Tail(in), sent' = sent,
         link' = "up" => link = "up", synced' => synced
  PROVE  /\ Counted' /\ Passed' = Passed + 1 /\ Passed + 1 \in 1 .. Len(sent)
         /\ Len(in') \in Nat /\ Len(in') <= Len(in)
         /\ link = "up" /\ synced => Head(in) = sent[Passed + 1]
         /\ sent[Passed + 1].nr = Passed + 1
         /\ sent[Passed + 1].here = sent[Passed + 1].size
<1>1. /\ Len(in) \in Nat \ {0} /\ Len(in') = Len(in) - 1 /\ Head(in) = in[1]
      /\ \A i \in 1 .. Len(in') : in'[i] = in[i + 1] /\ i + 1 \in 1 .. Len(in)
  BY TailTyped
<1>2. Len(sent) \in Nat /\ Len(in) <= Len(sent)
  BY PassedTyped DEF AnswerInv, Counted
<1> DEFINE n == Len(in)
           m == Len(sent)
<1>3. /\ Passed' = Passed + 1 /\ Passed + 1 \in 1 .. Len(sent)
      /\ Len(in') \in Nat /\ Len(in') <= Len(in)
  BY <1>1, <1>2 DEF Passed
<1>4. ASSUME link' = "up", synced', NEW i \in 1 .. Len(in')
      PROVE  in'[i] = sent'[Passed' + i]
  <2>1. in'[i] = in[i + 1] /\ i + 1 \in 1 .. Len(in)
    BY <1>1
  <2>2. in[i + 1] = sent[Passed + (i + 1)]
    BY <1>4, <2>1 DEF AnswerInv, Counted
  <2>3. Passed + (i + 1) = Passed' + i
    BY <1>1, <1>2, <1>3 DEF Passed
  <2> QED
    BY <2>1, <2>2, <2>3
<1>5. Counted'
  <2>1. Len(in') <= Len(sent')
    BY <1>1, <1>2
  <2> QED
    BY <1>4, <2>1 DEF AnswerInv, Counted
<1>6. link = "up" /\ synced => Head(in) = sent[Passed + 1]
  BY <1>1 DEF AnswerInv, Counted
<1>7. sent[Passed + 1].nr = Passed + 1 /\ sent[Passed + 1].here = sent[Passed + 1].size
  BY <1>3 DEF AnswerInv, Counted
<1> QED
  BY <1>3, <1>5, <1>6, <1>7

(* Before a header is read every ping but the latest has been answered, and *)
(* the latest as well.                                                     *)
LEMMA AllPonged ==
  ASSUME Typed, OrderInv, AnswerInv, link = "up", synced, reader = "header"
  PROVE  \A k \in 1 .. Passed : sent[k].op = "ping" => Ponged(k)
<1>1. result.err # "EOF"
  BY DEF OrderInv, FrameKept
<1> QED
  BY <1>1 DEF AnswerInv, NoPingForgotten, Passed

(* A header is taken that asks for no pong, or Read reports the end or an  *)
(* error of a connection that is no longer up.                             *)
LEMMA PassedBy ==
  ASSUME Typed, WireInv, OrderInv, AnswerInv,
         reader = "header", synced, in # << >>, in' = Tail(in), UNCHANGED <<sent, out>>,
         link' = "up" => link = "up", synced' => synced, reader' # "pong",
         \A t \in Tasks : NoPong(todo'[t]),
         \/ link' # "up" \/ result'.err = "EOF" \/ reader' = "refuse"
         \/ Head(in).op # "ping"
  PROVE  AnswerInv'
<1>1. /\ Counted' /\ Passed' = Passed + 1 /\ Passed + 1 \in 1 .. Len(sent)
      /\ Len(in') \in Nat /\ Len(in') <= Len(in)
      /\ link = "up" => Head(in) = sent[Passed + 1]
  BY TailCounted
<1>2. PongsAnswerPings'
  BY <1>1, PongsKept DEF AnswerInv
<1>3. NoPingForgotten'
  <2> SUFFICES ASSUME link' = "up", result'.err # "EOF", reader' # "refuse",
                      NEW k \in 1 .. Passed', sent[k].op = "ping"
               PROVE  Ponged(k)'
    BY DEF NoPingForgotten, Passed
  <2>1. link = "up" /\ sent[Passed + 1].op # "ping"
    BY <1>1
  <2>2. k \in 1 .. Passed
    BY <1>1, <2>1, PassedTyped
  <2>3. Ponged(k)
    BY <2>1, <2>2, AllPonged
  <2> QED
    BY <2>3 DEF Ponged
<1> QED
  BY <1>1, <1>2, <1>3 DEF AnswerInv, NoPong

(* The pieces of a pong. *)
LEMMA PongPieces ==
  ASSUME NEW k \in Nat, NEW of \in Nat \ {0}
  PROVE  LET s == PiecesOf(Reader, "pong", k, of)
         IN  /\ \A i \in 1 .. Len(s) : s[i].kind = "pong" /\ s[i].nr = k /\ s[i].of = of
             /\ s # << >> /\ s[Len(s)].part = s[Len(s)].of
<1> DEFINE s == PiecesOf(Reader, "pong", k, of)
<1>1. Reader \in Tasks /\ "pong" \in Opcode /\ of \in Nat
  BY DEF Tasks, Opcode
<1>2. /\ s \in Seq(Piece) /\ Len(s) = of
      /\ \A i \in 1 .. of :
           s[i] = [by |-> Reader, kind |-> "pong", nr |-> k, part |-> i, of |-> of]
  BY <1>1, PiecesTyped
<1> HIDE DEF s
<1>3. s # << >> /\ of \in 1 .. of
  BY <1>2, EmptyIffNoLength
<1>4. ASSUME NEW i \in 1 .. of
      PROVE  s[i].kind = "pong" /\ s[i].nr = k /\ s[i].of = of /\ s[i].part = i
  <2>1. s[i] = [by |-> Reader, kind |-> "pong", nr |-> k, part |-> i, of |-> of]
    BY <1>2
  <2> QED
    BY <2>1
<1>5. s[Len(s)].part = s[Len(s)].of
  BY <1>2, <1>3, <1>4
<1>6. \A i \in 1 .. Len(s) : s[i].kind = "pong" /\ s[i].nr = k /\ s[i].of = of
  BY <1>2, <1>4
<1> QED
  BY <1>3, <1>5, <1>6 DEF s

(* A ping is taken, its pong taken up. *)
LEMMA PingTaken ==
  ASSUME Typed, WireInv, OrderInv, AnswerInv, ReadPing, reader' = "pong",
         UNCHANGED <<link, result>>,
         todo' = [todo EXCEPT ![Reader] =
                   PiecesOf(Reader, "pong", Head(in).nr, 1 + Least(Head(in).here, MaxControl))]
  PROVE  AnswerInv'
<1> DEFINE s == PiecesOf(Reader, "pong", Head(in).nr, 1 + Least(Head(in).here, MaxControl))
<1>1. /\ in # << >> /\ Head(in).op = "ping" /\ reader = "header" /\ synced
      /\ in' = Tail(in) /\ UNCHANGED <<sent, out, synced>>
  BY DEF ReadPing, Header
<1>2. /\ Counted' /\ Passed' = Passed + 1 /\ Passed + 1 \in 1 .. Len(sent)
      /\ Len(in') \in Nat /\ Len(in') <= Len(in)
      /\ link = "up" => Head(in) = sent[Passed + 1]
      /\ sent[Passed + 1].nr = Passed + 1
      /\ sent[Passed + 1].here = sent[Passed + 1].size
  BY <1>1, TailCounted
<1>3. PongsAnswerPings'
  BY <1>1, <1>2, PongsKept DEF AnswerInv
<1>4. Reader \in Tasks /\ todo'[Reader] = s /\ \A t \in Tasks \ {Reader} : todo'[t] = todo[t]
  BY DEF Tasks, Typed
<1>5. \A t \in Tasks : (t # Reader \/ reader # "pong")' => NoPong(todo[t])'
  BY <1>4 DEF AnswerInv, NoPong
<1>6. NoPingForgotten'
  <2> SUFFICES ASSUME link' = "up", NEW k \in 1 .. Passed', sent[k].op = "ping"
               PROVE  Ponged(k)' \/ k = Passed'
    BY <1>1 DEF NoPingForgotten, Passed
  <2>1. CASE k \in 1 .. Passed
    <3>1. Ponged(k)
      BY <1>1, <2>1, AllPonged
    <3> QED
      BY <1>1, <3>1 DEF Ponged
  <2> QED
    BY <1>2, <2>1, PassedTyped
<1>7. ASSUME link' = "up" PROVE Answering(todo[Reader])'
  <2>1. Head(in) = sent[Passed + 1] /\ Head(in).nr = Passed' /\ Head(in).here = sent'[Passed'].size
        /\ Head(in).op = sent'[Passed'].op
    BY <1>1, <1>2, <1>7
  <2>2. Head(in).nr \in Nat /\ Least(Head(in).here, MaxControl) \in Nat
    BY <1>1, HeadTyped, NumbersAssumption DEF Least
  <2> HIDE DEF s
  <2>3. /\ \A i \in 1 .. Len(s) :
             /\ s[i].kind = "pong" /\ s[i].nr = Head(in).nr
             /\ s[i].of = 1 + Least(Head(in).here, MaxControl)
        /\ s # << >> /\ s[Len(s)].part = s[Len(s)].of
    <3> DEFINE k == Head(in).nr
               of == 1 + Least(Head(in).here, MaxControl)
    <3>1. k \in Nat /\ of \in Nat \ {0} /\ s = PiecesOf(Reader, "pong", k, of)
      BY <2>2 DEF s
    <3> HIDE DEF k, of
    <3> DEFINE q == PiecesOf(Reader, "pong", k, of)
    <3>2. /\ \A i \in 1 .. Len(q) : q[i].kind = "pong" /\ q[i].nr = k /\ q[i].of = of
          /\ q # << >> /\ q[Len(q)].part = q[Len(q)].of
      BY <3>1, PongPieces
    <3>3. s = q
      BY <3>1
    <3> HIDE DEF q
    <3> QED
      BY <3>2, <3>3 DEF k, of
  <2>4. Passed' \in 1 .. Len(sent') /\ sent'[Passed'].op = "ping"
    BY <1>1, <1>2, <2>1
  <2> QED
    BY <1>4, <2>1, <2>3, <2>4 DEF Answering
<1> QED
  BY <1>2, <1>3, <1>5, <1>6, <1>7 DEF AnswerInv

(* On a connection that is down, or gone astray, only what is on the wire  *)
(* counts.                                                                 *)
LEMMA NothingOwed ==
  ASSUME Typed, AnswerInv, UNCHANGED <<sent, out>>, Counted',
         Len(in') \in Nat, Len(in') <= Len(in), synced' => synced,
         link' # "up" \/ ~synced',
         \A t \in Tasks : t # Reader \/ reader' # "pong" => NoPong(todo'[t])
  PROVE  AnswerInv'
<1>1. PongsAnswerPings'
  BY PongsKept DEF AnswerInv
<1>2. NoPingForgotten'
  BY DEF NoPingForgotten
<1> QED
  BY <1>1, <1>2 DEF AnswerInv, NoPong

LEMMA OtherPieces ==
  ASSUME NEW t \in Tasks, NEW kind \in Opcode \ {"pong"}, NEW n \in Nat, NEW of \in Nat
  PROVE  NoPong(PiecesOf(t, kind, n, of))
<1> DEFINE s == PiecesOf(t, kind, n, of)
<1>1. /\ Len(s) = of
      /\ \A k \in 1 .. of : s[k] = [by |-> t, kind |-> kind, nr |-> n, part |-> k, of |-> of]
  BY PiecesTyped
<1> HIDE DEF s
<1>2. ASSUME NEW k \in 1 .. Len(s) PROVE s[k].kind # "pong"
  <2>1. s[k] = [by |-> t, kind |-> kind, nr |-> n, part |-> k, of |-> of]
    BY <1>1
  <2> QED
    BY <2>1
<1>3. NoPong(s)
  BY <1>2 DEF NoPong
<1> QED
  BY <1>3 DEF s

LEMMA NoPongAtAHeader ==
  ASSUME AnswerInv, reader # "pong"
  PROVE  \A t \in Tasks : NoPong(todo[t])
  BY DEF AnswerInv

LEMMA ReadKeepsAnswers ==
  Typed /\ WireInv /\ OrderInv /\ AnswerInv /\ Read => AnswerInv'
<1> SUFFICES ASSUME Typed, WireInv, OrderInv, AnswerInv, Read PROVE AnswerInv'
  OBVIOUS
<1> USE DEF readVars, writeVars
<1>0. reader # "idle" => result.err # "EOF"
  BY DEF OrderInv, FrameKept
<1>1. CASE RefuseFrame
  <2>1. /\ in # << >> /\ reader = "header" /\ synced /\ in' = Tail(in) /\ reader' = "refuse"
        /\ todo' = [todo EXCEPT ![Reader] = PiecesOf(Reader, "close", Head(in).nr, 2)]
        /\ UNCHANGED <<link, sent, out, synced>>
    BY <1>1 DEF RefuseFrame, Header
  <2>2. NoPong(PiecesOf(Reader, "close", Head(in).nr, 2))
    BY <2>1, HeadTyped, OtherPieces DEF Tasks, Opcode
  <2>3. \A t \in Tasks : NoPong(todo'[t])
    BY <2>1, <2>2, NoPongAtAHeader DEF Typed
  <2> QED
    BY <2>1, <2>3, PassedBy
<1>2. CASE OpenFrame \/ ReadClose
  <2>1. /\ in # << >> /\ reader = "header" /\ synced /\ in' = Tail(in) /\ Head(in).op # "ping"
        /\ reader' # "pong" /\ UNCHANGED <<link, sent, out, todo, synced>>
    BY <1>2 DEF OpenFrame, ReadClose, Header, Returns
  <2> QED
    BY <2>1, PassedBy, NoPongAtAHeader
<1>3. CASE ReadPing
  <2>1. /\ in # << >> /\ reader = "header" /\ synced /\ in' = Tail(in)
        /\ UNCHANGED <<sent, out, synced>>
    BY <1>3 DEF ReadPing, Header
  <2>2. CASE /\ reader' = "pong" /\ UNCHANGED <<link, result>>
             /\ todo' = [todo EXCEPT ![Reader] =
                   PiecesOf(Reader, "pong", Head(in).nr, 1 + Least(Head(in).here, MaxControl))]
    BY <1>3, <2>2, PingTaken
  <2>3. CASE /\ todo' = todo /\ reader' = "idle" /\ (link' = "up" => link = "up")
             /\ link' # "up" \/ result'.err = "EOF"
    BY <2>1, <2>3, PassedBy, NoPongAtAHeader
  <2> QED
    BY <1>3, <2>2, <2>3 DEF ReadPing, Returns
<1>4. CASE ReadPong
  <2>1. /\ in # << >> /\ reader = "header" /\ synced /\ Head(in).op = "pong"
        /\ reader' = "idle" /\ UNCHANGED <<link, sent, out, todo>>
    BY <1>4 DEF ReadPong, Header, Returns
  <2>2. CASE in' = Tail(in)
    BY <2>1, <2>2, PassedBy, NoPongAtAHeader
  <2>3. CASE in' = in
    BY <1>0, <2>1, <2>3, NothingAnswered
  <2> QED
    BY <1>4, <2>2, <2>3 DEF ReadPong
<1>5. CASE Misread
  <2>1. /\ reader = "header" /\ ~synced /\ UNCHANGED <<link, sent, out, synced>>
        /\ reader' # "pong" => todo' = todo
        /\ \/ todo' = todo
           \/ todo' = [todo EXCEPT ![Reader] = PiecesOf(Reader, "pong", 0, 2)]
    BY <1>5 DEF Misread, Returns
  <2>2. PICK k \in 1 .. Len(in) : in' = SubSeq(in, k + 1, Len(in))
    BY <1>5 DEF Misread
  <2>3. Len(in') \in Nat /\ Len(in') <= Len(in)
    BY <2>2, PassedTyped
  <2>4. Counted'
    BY <2>1, <2>3, PassedTyped DEF AnswerInv, Counted
  <2>5. \A t \in Tasks : t # Reader \/ reader' # "pong" => NoPong(todo'[t])
    BY <2>1, NoPongAtAHeader DEF Typed
  <2> QED
    BY <2>1, <2>3, <2>4, <2>5, NothingOwed
<1>6. CASE CallRead
  BY <1>6, NothingAnswered DEF CallRead
<1>7. CASE EndFrame \/ ReadEnd \/ ReadReset \/ Hangup
  BY <1>0, <1>7, NothingAnswered DEF EndFrame, ReadEnd, ReadReset, Hangup, Returns
<1>8. ASSUME NEW n \in 1 .. Size, ReadPayload(n) PROVE AnswerInv'
  BY <1>0, <1>8, NothingAnswered DEF ReadPayload, Returns
<1> QED
  BY <1>1, <1>2, <1>3, <1>4, <1>5, <1>6, <1>7, <1>8 DEF Read

LEMMA PeerKeepsAnswers == Typed /\ AnswerInv /\ Peer => AnswerInv'
<1> SUFFICES ASSUME Typed, AnswerInv, Peer PROVE AnswerInv'
  OBVIOUS
<1> USE DEF readVars, writeVars
<1>0. /\ Len(in) \in Nat /\ Len(sent) \in Nat /\ Len(in) <= Len(sent) /\ Passed \in Nat
      /\ in \in Seq(WireFrame) /\ sent \in Seq(WireFrame)
  BY PassedTyped DEF AnswerInv, Counted, Passed
<1>1. ASSUME NEW f \in PeerFrames, PeerSends(f) PROVE AnswerInv'
  <2> DEFINE w == Wire(f)
  <2>1. /\ in' = Append(in, w) /\ sent' = Append(sent, w)
        /\ UNCHANGED <<link, reader, result, synced, todo, out>>
    BY <1>1 DEF PeerSends
  <2>2. w \in WireFrame /\ w.nr = Len(sent) + 1 /\ w.here = w.size
    BY WireTyped DEF Wire
  <2> HIDE DEF w
  <2>3. /\ Len(in') = Len(in) + 1 /\ in'[Len(in) + 1] = w
        /\ \A i \in 1 .. Len(in) : in'[i] = in[i]
        /\ Len(sent') = Len(sent) + 1 /\ sent'[Len(sent) + 1] = w
        /\ \A i \in 1 .. Len(sent) : sent'[i] = sent[i]
    BY <1>0, <2>1, <2>2
  <2>4. Passed' = Passed
    BY <1>0, <2>3 DEF Passed
  <2>5. Counted'
    <3>1. ASSUME link = "up", synced, NEW i \in 1 .. Len(in') PROVE in'[i] = sent'[Passed + i]
      <4>1. CASE i \in 1 .. Len(in)
        <5>1. in[i] = sent[Passed + i] /\ Passed + i \in 1 .. Len(sent)
          BY <1>0, <3>1, <4>1 DEF AnswerInv, Counted, Passed
        <5> QED
          BY <2>3, <4>1, <5>1
      <4>2. CASE i = Len(in) + 1
        <5>1. Passed + i = Len(sent) + 1
          BY <1>0, <4>2 DEF Passed
        <5> QED
          BY <2>3, <4>2, <5>1
      <4> QED
        BY <1>0, <2>3, <4>1, <4>2
    <3>2. \A k \in 1 .. Len(sent') : sent'[k].nr = k /\ sent'[k].here = sent'[k].size
      <4> SUFFICES ASSUME NEW k \in 1 .. Len(sent')
                   PROVE  sent'[k].nr = k /\ sent'[k].here = sent'[k].size
        OBVIOUS
      <4>1. CASE k \in 1 .. Len(sent)
        BY <2>3, <4>1 DEF AnswerInv, Counted
      <4>2. CASE k = Len(sent) + 1
        BY <2>2, <2>3, <4>2
      <4> QED
        BY <1>0, <2>3, <4>1, <4>2
    <3>3. Len(in') <= Len(sent')
      BY <1>0, <2>3
    <3> QED
      BY <2>1, <2>4, <3>1, <3>2, <3>3 DEF Counted
  <2>6. \A k \in 1 .. Passed : /\ k \in 1 .. Len(sent) /\ sent'[k] = sent[k]
                               /\ Ponged(k) => Ponged(k)'
    <3> SUFFICES ASSUME NEW k \in 1 .. Passed
                 PROVE  k \in 1 .. Len(sent) /\ sent'[k] = sent[k] /\ (Ponged(k) => Ponged(k)')
      OBVIOUS
    <3>1. k \in 1 .. Len(sent)
      BY <1>0 DEF Passed
    <3>2. sent'[k] = sent[k]
      BY <2>3, <3>1
    <3> QED
      BY <2>1, <3>1, <3>2, PongedStays
  <2>7. Answering(todo[Reader]) => Answering(todo[Reader])'
    <3> SUFFICES ASSUME Answering(todo[Reader]) PROVE Answering(todo[Reader])'
      OBVIOUS
    <3>1. Passed \in 1 .. Passed /\ Passed \in 1 .. Len(sent')
      BY <1>0, <2>3 DEF Answering
    <3> QED
      BY <2>1, <2>4, <2>6, <3>1 DEF Answering
  <2>8. PongsAnswerPings'
    BY <2>1, <2>4, <2>6 DEF AnswerInv, PongsAnswerPings, Passed
  <2>9. NoPingForgotten'
    BY <2>1, <2>4, <2>6 DEF AnswerInv, NoPingForgotten, Passed
  <2> QED
    BY <2>1, <2>5, <2>7, <2>8, <2>9 DEF AnswerInv, NoPong
<1>2. CASE PeerReads
  BY <1>2, NothingAnswered DEF PeerReads
<1>3. ASSUME NEW how \in {"eof", "reset"}, NEW k \in 0 .. Len(in),
             NEW m \in 0 .. IF k = 0 THEN frame.here ELSE in[k].size, Down(how, k, m)
      PROVE  AnswerInv'
  <2>1. link' # "up" /\ UNCHANGED <<sent, reader, result, synced, todo, out>>
    BY <1>3 DEF Down
  <2>2. Len(in') = k
    <3>1. CASE k > 0
      <4> DEFINE s == SubSeq(in, 1, k)
      <4>1. s \in Seq(WireFrame) /\ Len(s) = k
        BY <1>0, <3>1
      <4>2. in' = [s EXCEPT ![k].here = m]
        BY <1>3, <3>1 DEF Down
      <4> HIDE DEF s
      <4> QED
        BY <4>1, <4>2
    <3>2. CASE k = 0
      BY <1>3, <3>2 DEF Down
    <3> QED
      BY <3>1, <3>2
  <2>3. Len(in') \in Nat /\ Len(in') <= Len(in)
    BY <1>0, <2>2
  <2>4. Counted'
    BY <1>0, <2>1, <2>3 DEF AnswerInv, Counted
  <2> QED
    BY <2>1, <2>3, <2>4, NothingOwed DEF AnswerInv
<1> QED
  BY <1>1, <1>2, <1>3 DEF Peer

(* A piece reaches the wire. *)
LEMMA PushKeepsAnswers ==
  ASSUME Typed, WireInv, AnswerInv, NEW t \in Tasks, Push(t)
  PROVE  AnswerInv'
<1> USE DEF readVars, writeVars
<1> DEFINE s == todo[t]
           p == Head(s)
<1>1. /\ s # << >> /\ wio = t /\ out' = Append(out, p) /\ todo'[t] = Tail(s)
      /\ \A u \in Tasks \ {t} : todo'[u] = todo[u]
      /\ link = "up" /\ UNCHANGED <<link, in, sent, reader, result, synced>>
  BY DEF Push, Typed
<1>2. /\ s \in Seq(Piece) /\ Len(s) \in Nat \ {0} /\ p = s[1] /\ p \in Piece
      /\ Tail(s) \in Seq(Piece) /\ Len(Tail(s)) = Len(s) - 1
      /\ \A i \in 1 .. Len(Tail(s)) : Tail(s)[i] = s[i + 1] /\ i + 1 \in 1 .. Len(s)
  <2>1. s \in Seq(Piece)
    BY DEF Typed
  <2> QED
    BY <1>1, <2>1
<1> HIDE DEF s, p
<1>3. /\ Len(out) \in Nat /\ Len(out') = Len(out) + 1 /\ out'[Len(out) + 1] = p
      /\ \A i \in 1 .. Len(out) : i \in 1 .. Len(out') /\ out'[i] = out[i]
  BY <1>1, <1>2, PassedTyped
<1>4. \A k : Ponged(k) => Ponged(k)'
  BY <1>1, <1>3, PongedStays
<1>5. Counted' /\ Passed' = Passed
  BY <1>1 DEF AnswerInv, Counted, Passed
<1>6. ASSUME NEW u \in Tasks, u # Reader \/ reader # "pong" PROVE NoPong(todo'[u])
  <2>1. NoPong(todo[u])
    BY <1>6 DEF AnswerInv
  <2>2. CASE u = t
    <3>1. \A i \in 1 .. Len(Tail(s)) : Tail(s)[i].kind # "pong"
      BY <1>2, <2>1, <2>2 DEF NoPong, s
    <3> QED
      BY <1>1, <2>2, <3>1 DEF NoPong
  <2> QED
    BY <1>1, <2>1, <2>2
<1>7. NoPingForgotten'
  BY <1>1, <1>4 DEF AnswerInv, NoPingForgotten
<1>8. CASE ~(t = Reader /\ reader = "pong" /\ synced)
  <2>1. p.kind # "pong" \/ ~synced
    BY <1>2, <1>8 DEF AnswerInv, NoPong, s
  <2>2. PongsAnswerPings'
    BY <1>1, <1>3, <2>1 DEF AnswerInv, PongsAnswerPings
  <2>3. (reader = "pong" /\ synced /\ link = "up" => Answering(todo[Reader]))'
    <3> SUFFICES ASSUME reader = "pong", synced PROVE Answering(todo[Reader])'
      BY <1>1
    <3>1. Answering(todo[Reader]) /\ todo'[Reader] = todo[Reader]
      BY <1>1, <1>8 DEF AnswerInv, Tasks
    <3> QED
      BY <1>1, <1>4, <1>5, <3>1 DEF Answering
  <2> QED
    BY <1>1, <1>5, <1>6, <1>7, <2>2, <2>3 DEF AnswerInv, NoPong
<1>9. CASE t = Reader /\ reader = "pong" /\ synced
  <2>1. Answering(s)
    BY <1>1, <1>9 DEF AnswerInv, s
  <2>2. /\ p.kind = "pong" /\ p.nr = Passed
        /\ p.of = 1 + Least(sent[Passed].size, MaxControl)
        /\ Passed \in 1 .. Passed /\ sent[Passed].op = "ping"
        /\ Len(s) = 1 => p.part = p.of
    <3>1. Passed \in 1 .. Passed
      BY <2>1 DEF Answering
    <3> QED
      BY <1>2, <2>1, <3>1 DEF Answering
  <2>3. PongsAnswerPings'
    <3> SUFFICES ASSUME NEW i \in 1 .. Len(out'), out'[i].kind = "pong"
                 PROVE  /\ out'[i].nr \in 1 .. Passed
                        /\ sent[out'[i].nr].op = "ping"
                        /\ out'[i].of = 1 + Least(sent[out'[i].nr].size, MaxControl)
                        /\ \A j \in 1 .. i : out'[j].kind = "pong" => out'[j].nr <= out'[i].nr
      BY <1>1 DEF PongsAnswerPings, Passed
    <3>1. CASE i \in 1 .. Len(out)
      <4>1. \A j \in 1 .. i : out'[j] = out[j]
        BY <1>3, <3>1
      <4> QED
        BY <1>3, <1>9, <3>1, <4>1 DEF AnswerInv, PongsAnswerPings, Passed
    <3>2. CASE i = Len(out) + 1
      <4>1. out'[i] = p
        BY <1>3, <3>2
      <4>2. \A j \in 1 .. Len(out) : out[j].kind = "pong" => out[j].nr <= Passed
        BY <1>9 DEF AnswerInv, PongsAnswerPings, Passed
      <4>3. \A j \in 1 .. i : out'[j].kind = "pong" => out'[j].nr <= Passed
        BY <1>3, <2>2, <3>2, <4>1, <4>2
      <4> QED
        BY <2>2, <4>1, <4>3
    <3> QED
      BY <1>3, <3>1, <3>2
  <2>4. Answering(todo[Reader])'
    <3> DEFINE r == Tail(s)
    <3>1. \A i \in 1 .. Len(r) : /\ r[i].kind = "pong" /\ r[i].nr = Passed
                                 /\ r[i].of = 1 + Least(sent[Passed].size, MaxControl)
      BY <1>2, <2>1 DEF Answering
    <3>2. r # << >> => r[Len(r)].part = r[Len(r)].of
      <4> SUFFICES ASSUME r # << >> PROVE r[Len(r)] = s[Len(s)]
        BY <1>2, <2>1 DEF Answering
      <4>1. Len(r) # 0
        BY <1>2
      <4>2. Len(r) \in 1 .. Len(r) /\ Len(r) + 1 = Len(s)
        BY <1>2, <4>1
      <4> QED
        BY <1>2, <4>2
    <3>3. r = << >> => Ponged(Passed)'
      <4> SUFFICES ASSUME r = << >> PROVE Ponged(Passed)'
        OBVIOUS
      <4>1. Len(s) = 1
        <5>1. Tail(s) \in Seq(Piece) /\ Tail(s) = << >>
          BY <1>2
        <5>2. Len(Tail(s)) = 0
          BY <5>1, EmptyIffNoLength
        <5> QED
          BY <1>2, <5>2
      <4>2. Len(out) + 1 \in 1 .. Len(out') /\ out'[Len(out) + 1] = p
        BY <1>3
      <4> QED
        BY <1>1, <2>2, <4>1, <4>2, <1>5 DEF Ponged
    <3> HIDE DEF r
    <3>4. todo'[Reader] = r
      BY <1>1, <1>9 DEF r
    <3>5. Passed' \in 1 .. Len(sent') /\ sent'[Passed'].op = "ping"
      BY <1>1, <1>5, <2>1 DEF Answering
    <3> QED
      BY <1>1, <1>5, <3>1, <3>2, <3>3, <3>4, <3>5 DEF Answering
  <2> QED
    BY <1>1, <1>5, <1>6, <1>7, <2>3, <2>4 DEF AnswerInv, NoPong
<1> QED
  BY <1>8, <1>9

(* A task is done with writing, or breaks it off. *)
LEMMA DoneKeepsAnswers ==
  ASSUME Typed, WireInv, OrderInv, AnswerInv, NEW t \in Tasks, Written(t) \/ WriteFails(t)
  PROVE  AnswerInv'
<1> USE DEF readVars, writeVars
<1>0. reader = "pong" => result.err # "EOF"
  BY DEF OrderInv, FrameKept
<1>1. CASE Written(t) /\ (t # Reader \/ reader = "refuse")
  BY <1>1, NothingAnswered DEF Written, Resume, Returns
<1>2. CASE Written(t) /\ t = Reader /\ reader # "refuse"
  <2>1. /\ todo[Reader] = << >> /\ reader' = "header" /\ reader = "pong"
        /\ UNCHANGED <<link, in, sent, result, synced, todo, out>>
    BY <1>2 DEF Written, Resume, WireInv, OneWrites, ReaderWrites
  <2>2. \A u \in Tasks : NoPong(todo[u])
    <3>1. NoPong(todo[Reader])
      BY <2>1 DEF NoPong
    <3> QED
      BY <3>1 DEF AnswerInv
  <2>3. Counted' /\ PongsAnswerPings' /\ \A k : Ponged(k)' <=> Ponged(k)
    BY <2>1 DEF AnswerInv, Counted, Passed, PongsAnswerPings, Ponged
  <2>4. NoPingForgotten'
    <3> SUFFICES ASSUME link = "up", synced, NEW k \in 1 .. Len(sent) - Len(in),
                        sent[k].op = "ping"
                 PROVE  Ponged(k)
      BY <2>1, <2>3 DEF NoPingForgotten
    <3>1. Ponged(Passed)
      BY <2>1 DEF AnswerInv, Answering
    <3> QED
      BY <1>0, <2>1, <3>1 DEF AnswerInv, NoPingForgotten, Passed
  <2> QED
    BY <2>1, <2>2, <2>3, <2>4 DEF AnswerInv, NoPong
<1>3. CASE WriteFails(t)
  <2>1. /\ link # "up" /\ UNCHANGED <<link, in, sent, synced, out>>
        /\ todo'[t] = << >> /\ \A u \in Tasks \ {t} : todo'[u] = todo[u]
        /\ reader' # reader => t = Reader
    BY <1>3 DEF WriteFails, Resume, Returns, Typed
  <2>2. NoPong(<< >>)
    BY DEF NoPong
  <2>3. \A u \in Tasks : u # Reader \/ reader' # "pong" => NoPong(todo'[u])
    BY <2>1, <2>2 DEF AnswerInv
  <2>4. Counted'
    BY <2>1 DEF AnswerInv, Counted, Passed
  <2> QED
    BY <2>1, <2>3, <2>4, NothingOwed, PassedTyped
<1> QED
  BY <1>1, <1>2, <1>3

LEMMA LossKeepsAnswers ==
  ASSUME Typed, AnswerInv, NEW t \in Tasks, PushLost(t)
  PROVE  AnswerInv'
<1>1. /\ link # "up" /\ UNCHANGED <<link, in, sent, synced, out, reader>>
      /\ todo[t] \in Seq(Piece) /\ todo[t] # << >>
      /\ todo'[t] = Tail(todo[t]) /\ \A u \in Tasks \ {t} : todo'[u] = todo[u]
  BY DEF PushLost, Typed, readVars
<1>2. NoPong(todo[t]) => NoPong(todo'[t])
  <2> DEFINE s == todo[t]
  <2>1. s \in Seq(Piece) /\ s # << >> /\ todo'[t] = Tail(s)
    BY <1>1
  <2> HIDE DEF s
  <2>2. /\ Len(Tail(s)) = Len(s) - 1
        /\ \A i \in 1 .. Len(Tail(s)) : Tail(s)[i] = s[i + 1] /\ i + 1 \in 1 .. Len(s)
    BY <2>1
  <2>3. NoPong(s) => NoPong(Tail(s))
    BY <2>2 DEF NoPong
  <2> QED
    BY <2>1, <2>3 DEF s
<1>3. \A u \in Tasks : u # Reader \/ reader' # "pong" => NoPong(todo'[u])
  BY <1>1, <1>2 DEF AnswerInv
<1>4. Counted'
  BY <1>1 DEF AnswerInv, Counted, Passed
<1> QED
  BY <1>1, <1>3, <1>4, NothingOwed, PassedTyped

LEMMA CallKeepsAnswers ==
  ASSUME Typed, AnswerInv, NEW w \in Writers, CallWrite(w)
  PROVE  AnswerInv'
<1> USE DEF readVars, writeVars
<1> DEFINE s == PiecesOf(w, "data", written[w] + 1, Pieces)
<1>1. /\ w \in Tasks /\ w # Reader /\ todo'[w] = s
      /\ \A u \in Tasks \ {w} : todo'[u] = todo[u]
      /\ UNCHANGED <<link, in, sent, reader, result, synced, out>>
  BY WritersAssumption DEF CallWrite, Typed, Tasks
<1>2. NoPong(s)
  <2>1. written[w] + 1 \in Nat
    <3>1. written[w] \in 0 .. MaxWrites
      BY DEF Typed
    <3> QED
      BY <3>1, NumbersAssumption
  <2> QED
    BY <1>1, <2>1, OtherPieces, NumbersAssumption DEF Opcode
<1> HIDE DEF s
<1>3. \A u \in Tasks : u # Reader \/ reader # "pong" => NoPong(todo'[u])
  BY <1>1, <1>2 DEF AnswerInv
<1>4. Counted' /\ PongsAnswerPings' /\ \A k : Ponged(k)' <=> Ponged(k)
  BY <1>1 DEF AnswerInv, Counted, Passed, PongsAnswerPings, Ponged
<1>5. NoPingForgotten'
  BY <1>1, <1>4 DEF AnswerInv, NoPingForgotten
<1>6. reader = "pong" /\ synced /\ link = "up" => Answering(todo[Reader])'
  <2>1. todo'[Reader] = todo[Reader]
    BY <1>1 DEF Tasks
  <2> QED
    BY <1>1, <1>4, <2>1 DEF AnswerInv, Answering, Passed
<1> QED
  BY <1>1, <1>3, <1>4, <1>5, <1>6 DEF AnswerInv, NoPong

LEMMA StepAnswers ==
  Typed /\ WireInv /\ OrderInv /\ AnswerInv /\ [Next]_vars => AnswerInv'
<1> SUFFICES ASSUME Typed, WireInv, OrderInv, AnswerInv, [Next]_vars PROVE AnswerInv'
  OBVIOUS
<1> USE DEF readVars, writeVars
<1>1. ASSUME NEW w \in Writers, CallWrite(w) PROVE AnswerInv'
  BY <1>1, CallKeepsAnswers
<1>2. ASSUME NEW t \in Tasks, WriteStep(t) PROVE AnswerInv'
  <2>1. CASE Lock(t)
    BY <2>1, NothingAnswered DEF Lock
  <2>2. CASE Push(t)
    BY <2>2, PushKeepsAnswers
  <2>3. CASE Written(t) \/ WriteFails(t)
    BY <2>3, DoneKeepsAnswers
  <2>4. CASE PushLost(t)
    BY <2>4, LossKeepsAnswers
  <2> QED
    BY <1>2, <2>1, <2>2, <2>3, <2>4 DEF WriteStep
<1>3. CASE UNCHANGED vars
  BY <1>3, NothingAnswered DEF vars
<1> QED
  BY <1>1, <1>2, <1>3, ReadKeepsAnswers, PeerKeepsAnswers DEF Next

(* However the reader is held up by writers and by the caller: while the   *)
(* connection is up it passes over no ping, and every pong on the wire      *)
(* belongs to a ping, carries as much of it as it may, and keeps the order. *)
THEOREM PingsAreAnswered == Spec => []PongsMatchPings
<1>1. AnswerInv => PongsMatchPings
  BY DEF AnswerInv, PongsMatchPings
<1> QED
  BY <1>1, InitTyped, StepTyped, InitWire, StepWire, InitOrder, StepOrder, InitAnswers,
     StepAnswers, PTL DEF Spec

-----------------------------------------------------------------------------
(* The payloads in a sequence of frames, by induction on its length. *)

LEMMA LeastNumber ==
  ASSUME NEW S \in SUBSET Nat, S # {}
  PROVE  \E x \in S : \A y \in S : x <= y
<1> DEFINE R == OpToRel(<, Nat)
<1>1. IsWellFoundedOn(R, Nat)
  BY NatLessThanWellFounded
<1>2. \A a, b \in Nat : <<a, b>> \in R <=> a < b
  BY DEF OpToRel
<1> HIDE DEF R
<1>3. PICK x \in S : \A y \in S : ~(<<y, x>> \in R)
  BY <1>1, WFMin
<1>4. \A y \in S : ~(y < x) /\ y \in Nat /\ x \in Nat
  BY <1>2, <1>3, Zenon
<1> QED
  BY <1>4

(* Induction up to n, with a set for the predicate. *)
LEMMA UpTo ==
  ASSUME NEW n \in Nat, NEW S, 0 \in S, \A k \in 1 .. n : k - 1 \in S => k \in S
  PROVE  n \in S
<1> DEFINE Outside == (0 .. n) \ S
<1> SUFFICES ASSUME Outside # {} PROVE FALSE
  OBVIOUS
<1>1. Outside \in SUBSET Nat
  OBVIOUS
<1>2. PICK m \in Outside : \A k \in Outside : m <= k
  <2> HIDE DEF Outside
  <2> QED
    BY <1>1, LeastNumber
<1>3. m # 0 /\ m \in 1 .. n /\ m - 1 \in 0 .. n /\ m - 1 \notin Outside
  BY <1>2
<1> QED
  BY <1>2, <1>3

(* The payloads that the i-th frame of s adds to those before it. *)
Longer(p, s, i) == IF Carries(s, i) THEN Append(p, Bytes(s[i].first, s[i].here)) ELSE p

(* The recursion of PayloadsOf: A is its function for the first n frames. *)
Lists(A, s, n) ==
  A = [i \in 0 .. n |-> IF i = 0 THEN << >> ELSE Longer(A[i - 1], s, i)]

LEMMA ListsExist ==
  ASSUME NEW s, NEW n \in Nat
  PROVE  \E A : Lists(A, s, n)
<1> DEFINE With == {k \in 0 .. n : \E A : Lists(A, s, k)}
<1>1. 0 \in With
  <2> DEFINE A == [i \in 0 .. 0 |-> << >>]
  <2>1. Lists(A, s, 0)
    BY DEF Lists
  <2> QED
    BY <2>1
<1>2. ASSUME NEW k \in 1 .. n, k - 1 \in With PROVE k \in With
  <2>1. PICK A : Lists(A, s, k - 1)
    BY <1>2
  <2>2. \A i \in 0 .. k - 1 : A[i] = IF i = 0 THEN << >> ELSE Longer(A[i - 1], s, i)
    BY <2>1 DEF Lists
  <2> DEFINE B == [i \in 0 .. k |-> IF i = k THEN Longer(A[k - 1], s, k) ELSE A[i]]
  <2>3. \A i \in 0 .. k : B[i] = IF i = 0 THEN << >> ELSE Longer(B[i - 1], s, i)
    <3> SUFFICES ASSUME NEW i \in 0 .. k
                 PROVE  B[i] = IF i = 0 THEN << >> ELSE Longer(B[i - 1], s, i)
      OBVIOUS
    <3>1. CASE i = k
      <4>1. k - 1 \in 0 .. k /\ k - 1 # k /\ k # 0
        OBVIOUS
      <4>2. B[k - 1] = A[k - 1] /\ B[k] = Longer(A[k - 1], s, k)
        BY <4>1
      <4> QED
        BY <3>1, <4>1, <4>2
    <3>2. CASE i # k
      <4>1. i \in 0 .. k - 1 /\ B[i] = A[i]
        BY <3>2
      <4>2. A[i] = IF i = 0 THEN << >> ELSE Longer(A[i - 1], s, i)
        BY <2>2, <4>1
      <4>3. i # 0 => B[i - 1] = A[i - 1]
        BY <4>1
      <4> QED
        BY <4>1, <4>2, <4>3
    <3> QED
      BY <3>1, <3>2
  <2>4. Lists(B, s, k)
    <3>1. B = [i \in 0 .. k |-> B[i]]
      OBVIOUS
    <3> HIDE DEF B
    <3>2. B = [i \in 0 .. k |-> IF i = 0 THEN << >> ELSE Longer(B[i - 1], s, i)]
      BY <2>3, <3>1
    <3> QED
      BY <3>2 DEF Lists
  <2> HIDE DEF B
  <2> QED
    BY <2>4
<1>3. n \in With
  <2> HIDE DEF With
  <2> QED
    BY <1>1, <1>2, UpTo
<1> QED
  BY <1>3

(* There is but one such function: the one for fewer frames is a part of it. *)
LEMMA ListsAgree ==
  ASSUME NEW s, NEW n \in Nat, NEW k \in 0 .. n, NEW A, Lists(A, s, n), NEW B, Lists(B, s, k)
  PROVE  A[k] = B[k]
<1>1. \A i \in 0 .. n : A[i] = IF i = 0 THEN << >> ELSE Longer(A[i - 1], s, i)
  BY DEF Lists
<1>2. \A i \in 0 .. k : B[i] = IF i = 0 THEN << >> ELSE Longer(B[i - 1], s, i)
  BY DEF Lists
<1> DEFINE Same == {i \in 0 .. k : A[i] = B[i]}
<1>3. 0 \in Same
  BY <1>1, <1>2
<1>4. ASSUME NEW i \in 1 .. k, i - 1 \in Same PROVE i \in Same
  <2>1. i \in 0 .. n /\ i \in 0 .. k /\ i # 0 /\ A[i - 1] = B[i - 1]
    BY <1>4
  <2>2. A[i] = Longer(A[i - 1], s, i) /\ B[i] = Longer(B[i - 1], s, i)
    BY <1>1, <1>2, <2>1
  <2> QED
    BY <2>1, <2>2
<1>5. k \in Same
  <2> HIDE DEF Same
  <2> QED
    BY <1>3, <1>4, UpTo
<1> QED
  BY <1>5

(* What PayloadsOf computes, frame by frame. *)
LEMMA PayloadsUnfold ==
  ASSUME NEW s
  PROVE  /\ PayloadsOf(s, 0) = << >>
         /\ \A n \in Nat : PayloadsOf(s, n + 1) = Longer(PayloadsOf(s, n), s, n + 1)
<1>1. ASSUME NEW n \in Nat
      PROVE  \E A : Lists(A, s, n) /\ PayloadsOf(s, n) = A[n]
  <2> DEFINE A == CHOOSE B : Lists(B, s, n)
  <2>1. Lists(A, s, n)
    BY ListsExist
  <2>2. PayloadsOf(s, n) = A[n]
    BY DEF PayloadsOf, Lists, Longer
  <2> HIDE DEF A
  <2> QED
    BY <2>1, <2>2
<1>2. PayloadsOf(s, 0) = << >>
  <2>1. PICK A : Lists(A, s, 0) /\ PayloadsOf(s, 0) = A[0]
    BY <1>1
  <2> QED
    BY <2>1 DEF Lists
<1>3. ASSUME NEW n \in Nat
      PROVE  PayloadsOf(s, n + 1) = Longer(PayloadsOf(s, n), s, n + 1)
  <2>1. PICK A : Lists(A, s, n + 1) /\ PayloadsOf(s, n + 1) = A[n + 1]
    BY <1>1
  <2>2. PICK B : Lists(B, s, n) /\ PayloadsOf(s, n) = B[n]
    BY <1>1
  <2>3. \A i \in 0 .. n + 1 : A[i] = IF i = 0 THEN << >> ELSE Longer(A[i - 1], s, i)
    BY <2>1 DEF Lists
  <2>4. A[n + 1] = Longer(A[n], s, n + 1)
    <3>1. n + 1 \in 0 .. n + 1 /\ n + 1 # 0 /\ (n + 1) - 1 = n
      OBVIOUS
    <3> QED
      BY <2>3, <3>1
  <2>5. A[n] = B[n]
    <3>1. n \in 0 .. n + 1 /\ n + 1 \in Nat
      OBVIOUS
    <3> QED
      BY <2>1, <2>2, <3>1, ListsAgree
  <2> QED
    BY <2>1, <2>2, <2>4, <2>5
<1> QED
  BY <1>2, <1>3

(* Payloads are sequences of numbers. *)
LEMMA BytesAre ==
  ASSUME NEW first \in Nat, NEW n \in Nat
  PROVE  /\ Bytes(first, n) \in Seq(Int) /\ Len(Bytes(first, n)) = n
         /\ \A i \in 1 .. n : Bytes(first, n)[i] = first + i - 1
  BY DEF Bytes

LEMMA FrameNumbers ==
  ASSUME NEW s \in Seq(WireFrame), NEW i \in 1 .. Len(s)
  PROVE  s[i] \in WireFrame /\ s[i].first \in Nat /\ s[i].here \in Nat
<1>1. s[i] \in WireFrame
  OBVIOUS
<1> QED
  BY <1>1 DEF WireFrame

LEMMA LongerTyped ==
  ASSUME NEW s, NEW i, NEW p \in Seq(Seq(Int)), Bytes(s[i].first, s[i].here) \in Seq(Int)
  PROVE  /\ Longer(p, s, i) \in Seq(Seq(Int))
         /\ Len(p) <= Len(Longer(p, s, i))
         /\ \A j \in 1 .. Len(p) : Longer(p, s, i)[j] = p[j]
<1>1. CASE Carries(s, i)
  <2>1. Longer(p, s, i) = Append(p, Bytes(s[i].first, s[i].here))
    BY <1>1 DEF Longer
  <2> QED
    BY <2>1
<1>2. CASE ~Carries(s, i)
  <2>1. Longer(p, s, i) = p
    BY <1>2 DEF Longer
  <2> QED
    BY <2>1
<1> QED
  BY <1>1, <1>2

LEMMA PayloadsTyped ==
  ASSUME NEW s \in Seq(WireFrame), NEW n \in 0 .. Len(s)
  PROVE  PayloadsOf(s, n) \in Seq(Seq(Int))
<1> DEFINE Fine == {i \in 0 .. n : PayloadsOf(s, i) \in Seq(Seq(Int))}
<1>0. n \in Nat /\ Len(s) \in Nat
  OBVIOUS
<1>1. 0 \in Fine
  <2>1. PayloadsOf(s, 0) = << >> /\ 0 \in 0 .. n
    BY <1>0, PayloadsUnfold
  <2>2. << >> \in Seq(Seq(Int))
    OBVIOUS
  <2> QED
    BY <2>1, <2>2
<1>2. ASSUME NEW i \in 1 .. n, i - 1 \in Fine PROVE i \in Fine
  <2>0. i \in 1 .. Len(s) /\ i \in 0 .. n
    BY <1>0
  <2>1. s[i].first \in Nat /\ s[i].here \in Nat
    BY <2>0, FrameNumbers
  <2>2. Bytes(s[i].first, s[i].here) \in Seq(Int)
    BY <2>1, BytesAre
  <2>3. i - 1 \in Nat /\ (i - 1) + 1 = i /\ PayloadsOf(s, i - 1) \in Seq(Seq(Int))
    BY <1>2
  <2>4. PayloadsOf(s, i) = Longer(PayloadsOf(s, i - 1), s, i)
    BY <2>3, PayloadsUnfold
  <2> QED
    BY <2>0, <2>2, <2>3, <2>4, LongerTyped
<1>3. n \in Fine
  <2> HIDE DEF Fine
  <2> QED
    BY <1>0, <1>1, <1>2, UpTo
<1> QED
  BY <1>3

(* Payloads depend on the frames they come from only. *)
LEMMA SamePayloads ==
  ASSUME NEW s, NEW t, NEW n \in Nat, \A i \in 1 .. n : s[i] = t[i]
  PROVE  PayloadsOf(s, n) = PayloadsOf(t, n)
<1> DEFINE Same == {i \in 0 .. n : PayloadsOf(s, i) = PayloadsOf(t, i)}
<1>1. 0 \in Same
  BY PayloadsUnfold
<1>2. ASSUME NEW i \in 1 .. n, i - 1 \in Same PROVE i \in Same
  <2>1. i - 1 \in Nat /\ (i - 1) + 1 = i /\ PayloadsOf(s, i - 1) = PayloadsOf(t, i - 1)
    BY <1>2
  <2>2. \A j \in 1 .. i : s[j] = t[j]
    OBVIOUS
  <2>3. Carries(s, i) <=> Carries(t, i)
    BY <2>2 DEF Carries
  <2>4. s[i] = t[i]
    OBVIOUS
  <2>5. /\ PayloadsOf(s, i) = Longer(PayloadsOf(s, i - 1), s, i)
        /\ PayloadsOf(t, i) = Longer(PayloadsOf(t, i - 1), t, i)
    BY <2>1, PayloadsUnfold
  <2> QED
    BY <2>1, <2>3, <2>4, <2>5 DEF Longer
<1>3. n \in Same
  <2> HIDE DEF Same
  <2> QED
    BY <1>1, <1>2, UpTo
<1> QED
  BY <1>3

(* Nothing is read beyond a frame at which Read stops. *)
LEMMA NothingBeyond ==
  ASSUME NEW s, NEW n \in Nat, Stops(s[1])
  PROVE  PayloadsOf(s, n) = << >>
<1> DEFINE None == {i \in 0 .. n : PayloadsOf(s, i) = << >>}
<1>1. 0 \in None
  BY PayloadsUnfold
<1>2. ASSUME NEW i \in 1 .. n, i - 1 \in None PROVE i \in None
  <2>1. i - 1 \in Nat /\ (i - 1) + 1 = i /\ PayloadsOf(s, i - 1) = << >>
    BY <1>2
  <2>2. ~Carries(s, i)
    <3>1. 1 \in 1 .. i
      OBVIOUS
    <3> QED
      BY <3>1 DEF Carries
  <2>3. PayloadsOf(s, i) = Longer(PayloadsOf(s, i - 1), s, i)
    BY <2>1, PayloadsUnfold
  <2> QED
    BY <2>1, <2>2, <2>3 DEF Longer
<1>3. n \in None
  <2> HIDE DEF None
  <2> QED
    BY <1>1, <1>2, UpTo
<1> QED
  BY <1>3

(* The payload of the first frame, if it has one, comes before the others. *)
First(h) == IF h.op = "data" /\ h.here > 0 THEN <<Bytes(h.first, h.here)>> ELSE << >>

LEMMA AppendBehind ==
  ASSUME NEW p \in Seq(Seq(Int)), NEW q \in Seq(Seq(Int)), NEW e \in Seq(Int)
  PROVE  Append(p \o q, e) = p \o Append(q, e)
<1> DEFINE a == Append(p \o q, e)
           b == p \o Append(q, e)
<1>1. /\ a \in Seq(Seq(Int)) /\ b \in Seq(Seq(Int))
      /\ Len(a) = Len(p) + Len(q) + 1 /\ Len(b) = Len(p) + Len(q) + 1
      /\ Len(p) \in Nat /\ Len(q) \in Nat
  OBVIOUS
<1>2. ASSUME NEW i \in 1 .. Len(p) + Len(q) + 1 PROVE a[i] = b[i]
  <2>1. CASE i <= Len(p)
    BY <2>1
  <2>2. CASE i > Len(p) /\ i <= Len(p) + Len(q)
    BY <2>2
  <2>3. CASE i = Len(p) + Len(q) + 1
    BY <2>3
  <2>4. i <= Len(p) \/ (i > Len(p) /\ i <= Len(p) + Len(q)) \/ i = Len(p) + Len(q) + 1
    <3> DEFINE m == Len(p)
               n == Len(q)
    <3>1. m \in Nat /\ n \in Nat /\ i \in 1 .. m + n + 1
      OBVIOUS
    <3> HIDE DEF a, b, m, n
    <3>2. i <= m \/ (i > m /\ i <= m + n) \/ i = m + n + 1
      BY <3>1
    <3> QED
      BY <3>2 DEF m, n
  <2> HIDE DEF a, b
  <2> QED
    BY <2>1, <2>2, <2>3, <2>4
<1> HIDE DEF a, b
<1>3. a = b
  BY <1>1, <1>2
<1> QED
  BY <1>3 DEF a, b

LEMMA FirstThenRest ==
  ASSUME NEW s \in Seq(WireFrame), s # << >>, ~Stops(s[1]),
         NEW n \in 0 .. Len(s) - 1
  PROVE  PayloadsOf(s, n + 1) = First(s[1]) \o PayloadsOf(Tail(s), n)
<1> DEFINE t == Tail(s)
           Fine == {i \in 0 .. n : PayloadsOf(s, i + 1) = First(s[1]) \o PayloadsOf(t, i)}
<1>1. /\ Len(s) \in Nat \ {0} /\ t \in Seq(WireFrame) /\ Len(t) = Len(s) - 1 /\ n \in Nat
      /\ \A i \in 1 .. Len(t) : t[i] = s[i + 1]
      /\ s[1] \in WireFrame
  OBVIOUS
<1> HIDE DEF t
<1>2. First(s[1]) \in Seq(Seq(Int))
  <2>1. s[1].first \in Nat /\ s[1].here \in Nat
    BY <1>1 DEF WireFrame
  <2>2. Bytes(s[1].first, s[1].here) \in Seq(Int)
    BY <2>1, BytesAre
  <2> QED
    BY <2>2 DEF First
<1>3. 0 \in Fine
  <2>0. 0 + 1 = 1 /\ 0 \in Nat
    OBVIOUS
  <2>1. PayloadsOf(s, 1) = Longer(<< >>, s, 1) /\ PayloadsOf(t, 0) = << >>
    BY <2>0, PayloadsUnfold
  <2>2. Carries(s, 1) <=> s[1].op = "data" /\ s[1].here > 0
    BY DEF Carries
  <2>3. Longer(<< >>, s, 1) = First(s[1])
    BY <2>2 DEF Longer, First
  <2>4. First(s[1]) \o << >> = First(s[1])
    BY <1>2
  <2>5. PayloadsOf(s, 0 + 1) = First(s[1]) \o PayloadsOf(t, 0)
    BY <2>0, <2>1, <2>3, <2>4
  <2> QED
    BY <1>1, <2>5
<1>4. ASSUME NEW i \in 1 .. n, i - 1 \in Fine PROVE i \in Fine
  <2>1. /\ i - 1 \in Nat /\ (i - 1) + 1 = i /\ i \in Nat /\ i \in 1 .. Len(t) /\ i - 1 \in 0 .. Len(t)
        /\ PayloadsOf(s, i) = First(s[1]) \o PayloadsOf(t, i - 1)
    BY <1>1, <1>4
  <2>2. t[i] = s[i + 1] /\ t[i] \in WireFrame
    BY <1>1, <2>1
  <2>3. Carries(s, i + 1) <=> Carries(t, i)
    <3>1. (\A j \in 1 .. i + 1 : ~Stops(s[j])) <=> (\A j \in 1 .. i : ~Stops(t[j]))
      <4>1. ASSUME \A j \in 1 .. i + 1 : ~Stops(s[j]), NEW j \in 1 .. i PROVE ~Stops(t[j])
        <5>0. j \in 1 .. Len(t) /\ j + 1 \in 1 .. i + 1
          BY <1>1, <2>1
        <5>1. t[j] = s[j + 1]
          BY <1>1, <5>0
        <5> QED
          BY <4>1, <5>0, <5>1
      <4>2. ASSUME \A j \in 1 .. i : ~Stops(t[j]), NEW j \in 1 .. i + 1 PROVE ~Stops(s[j])
        <5>1. CASE j = 1
          BY <5>1
        <5>2. CASE j # 1
          <6>1. j - 1 \in 1 .. i /\ j - 1 \in 1 .. Len(t) /\ (j - 1) + 1 = j
            BY <1>1, <2>1, <5>2
          <6>2. t[j - 1] = s[j]
            BY <1>1, <6>1
          <6> QED
            BY <4>2, <6>1, <6>2
        <5> QED
          BY <5>1, <5>2
      <4> QED
        BY <4>1, <4>2
    <3> QED
      BY <2>2, <3>1 DEF Carries
  <2>4. /\ PayloadsOf(s, i + 1) = Longer(PayloadsOf(s, i), s, i + 1)
        /\ PayloadsOf(t, i) = Longer(PayloadsOf(t, i - 1), t, i)
    BY <2>1, PayloadsUnfold
  <2>5. PayloadsOf(t, i - 1) \in Seq(Seq(Int))
    BY <1>1, <2>1, PayloadsTyped
  <2>6. Bytes(t[i].first, t[i].here) \in Seq(Int)
    <3>1. t[i].first \in Nat /\ t[i].here \in Nat
      BY <2>2 DEF WireFrame
    <3> QED
      BY <3>1, BytesAre
  <2>7. PayloadsOf(s, i + 1) = First(s[1]) \o PayloadsOf(t, i)
    <3>1. CASE Carries(t, i)
      <4>1. /\ PayloadsOf(s, i + 1) = Append(PayloadsOf(s, i), Bytes(t[i].first, t[i].here))
            /\ PayloadsOf(t, i) = Append(PayloadsOf(t, i - 1), Bytes(t[i].first, t[i].here))
        BY <2>2, <2>3, <2>4, <3>1 DEF Longer
      <4> DEFINE p == First(s[1])
                 q == PayloadsOf(t, i - 1)
                 e == Bytes(t[i].first, t[i].here)
      <4>2. p \in Seq(Seq(Int)) /\ q \in Seq(Seq(Int)) /\ e \in Seq(Int)
        BY <1>2, <2>5, <2>6
      <4>3. PayloadsOf(s, i + 1) = Append(p \o q, e) /\ PayloadsOf(t, i) = Append(q, e)
        BY <2>1, <4>1
      <4> HIDE DEF p, q, e
      <4>4. Append(p \o q, e) = p \o Append(q, e)
        BY <4>2, AppendBehind
      <4>5. PayloadsOf(s, i + 1) = p \o PayloadsOf(t, i)
        BY <4>3, <4>4
      <4> QED
        BY <4>5 DEF p
    <3>2. CASE ~Carries(t, i)
      BY <2>1, <2>3, <2>4, <3>2 DEF Longer
    <3> QED
      BY <3>1, <3>2
  <2> QED
    BY <2>7
<1>5. n \in Fine
  <2> HIDE DEF Fine
  <2> QED
    BY <1>1, <1>3, <1>4, UpTo
<1> QED
  BY <1>5 DEF t

(* Fewer frames carry the first of the payloads. *)
LEMMA FewerFrames ==
  ASSUME NEW s \in Seq(WireFrame), NEW n \in 0 .. Len(s), NEW k \in 0 .. n
  PROVE  /\ Len(PayloadsOf(s, k)) <= Len(PayloadsOf(s, n))
         /\ \A i \in 1 .. Len(PayloadsOf(s, k)) : PayloadsOf(s, k)[i] = PayloadsOf(s, n)[i]
<1> DEFINE Part(i) == /\ Len(PayloadsOf(s, k)) <= Len(PayloadsOf(s, i))
                      /\ \A j \in 1 .. Len(PayloadsOf(s, k)) :
                           PayloadsOf(s, k)[j] = PayloadsOf(s, i)[j]
           Fine == {i \in 0 .. n : k <= i => Part(i)}
<1>0. n \in Nat /\ Len(s) \in Nat /\ \A i \in 0 .. n : i \in 0 .. Len(s)
  OBVIOUS
<1>1. \A i \in 0 .. n : PayloadsOf(s, i) \in Seq(Seq(Int))
  BY <1>0, PayloadsTyped
<1>2. Part(k)
  BY <1>1
<1>3. 0 \in Fine
  BY <1>2
<1>4. ASSUME NEW i \in 1 .. n, i - 1 \in Fine PROVE i \in Fine
  <2>1. CASE k <= i - 1
    <3>1. /\ i - 1 \in 0 .. n /\ i - 1 \in Nat /\ (i - 1) + 1 = i /\ Part(i - 1)
          /\ i \in 1 .. Len(s) /\ i \in 0 .. n
      BY <1>0, <1>4, <2>1
    <3>2. PayloadsOf(s, i) = Longer(PayloadsOf(s, i - 1), s, i)
      BY <3>1, PayloadsUnfold
    <3>3. Bytes(s[i].first, s[i].here) \in Seq(Int)
      <4>1. s[i].first \in Nat /\ s[i].here \in Nat
        BY <3>1, FrameNumbers
      <4> QED
        BY <4>1, BytesAre
    <3>4. PayloadsOf(s, i - 1) \in Seq(Seq(Int)) /\ PayloadsOf(s, k) \in Seq(Seq(Int))
      BY <1>1, <3>1
    <3>5. /\ Len(PayloadsOf(s, i - 1)) <= Len(PayloadsOf(s, i))
          /\ \A j \in 1 .. Len(PayloadsOf(s, i - 1)) : PayloadsOf(s, i)[j] = PayloadsOf(s, i - 1)[j]
      BY <3>2, <3>3, <3>4, LongerTyped
    <3>6. Part(i)
      <4>1. PayloadsOf(s, i) \in Seq(Seq(Int))
        BY <1>1, <3>1
      <4> QED
        BY <3>1, <3>4, <3>5, <4>1
    <3> QED
      BY <3>1, <3>6
  <2>2. CASE ~(k <= i - 1)
    <3>1. k = i \/ ~(k <= i)
      BY <2>2
    <3> QED
      BY <1>2, <3>1
  <2> QED
    BY <2>1, <2>2
<1>5. n \in Fine
  <2> HIDE DEF Fine
  <2> QED
    BY <1>0, <1>3, <1>4, UpTo
<1> QED
  BY <1>5

-----------------------------------------------------------------------------
(* Every step of Read, of the writers, the peer and the network is one of  *)
(* FrameStream, or none.                                                   *)

LEMMA FailIsStep ==
  ASSUME synced, synced', Pending' = Pending, Chunk' = << >>
  PROVE  Stream!StreamNext
BY DEF Stream!StreamNext, Stream!Fail

LEMMA NoStep ==
  ASSUME synced, synced', Pending' = Pending, Chunk' = Chunk
  PROVE  UNCHANGED Stream!streamVars
BY DEF Stream!streamVars

LEMMA NothingReturned ==
  ASSUME Typed, got' = got, result'.n = 0
  PROVE  Chunk' = << >>
<1>1. got \in Seq(Nat)
  BY DEF Typed
<1>2. Chunk' = SubSeq(got, Len(got) - 0 + 1, Len(got))
  BY DEF Chunk
<1> QED
  BY <1>1, <1>2

LEMMA ChunkKept ==
  ASSUME UNCHANGED <<got, result>>
  PROVE  Chunk' = Chunk
BY DEF Chunk

LEMMA WhatIsPending ==
  ASSUME synced
  PROVE  Pending = IF Reading THEN Left \o PayloadsOf(in, Len(in)) ELSE << >>
BY DEF Pending, Reading

LEMMA PendingNext ==
  ASSUME synced'
  PROVE  Pending' = IF Reading' THEN Left' \o PayloadsOf(in', Len(in')) ELSE << >>
BY DEF Pending, Reading

LEMMA PendingKept ==
  ASSUME synced, synced', UNCHANGED <<in, frame>>, Reading' <=> Reading
  PROVE  Pending' = Pending
<1>1. Left' = Left /\ in' = in
  BY DEF Left
<1>2. Pending = IF Reading THEN Left \o PayloadsOf(in, Len(in)) ELSE << >>
  BY WhatIsPending
<1>3. Pending' = IF Reading' THEN Left' \o PayloadsOf(in', Len(in')) ELSE << >>
  BY PendingNext
<1> QED
  BY <1>1, <1>2, <1>3, Zenon

LEMMA LeftTyped ==
  ASSUME Typed
  PROVE  Left \in Seq(Seq(Int)) /\ PayloadsOf(in, Len(in)) \in Seq(Seq(Int))
<1>1. /\ in \in Seq(WireFrame) /\ frame.here \in Nat
      /\ frame.first + frame.size - frame.left \in Nat
  BY DEF Typed
<1>2. Bytes(frame.first + frame.size - frame.left, frame.here) \in Seq(Int)
  BY <1>1, BytesAre
<1>3. Left \in Seq(Seq(Int))
  BY <1>2 DEF Left
<1>4. Len(in) \in 0 .. Len(in)
  BY <1>1
<1> QED
  BY <1>1, <1>3, <1>4, PayloadsTyped

(* Between two frames: what is pending comes from the frames in line.      *)
LEMMA AtAHeader ==
  ASSUME Typed, OrderInv, synced, reader = "header", in # << >>
  PROVE  /\ Reading /\ InLine /\ frame = NoFrame /\ Left = << >>
         /\ Head(in) = in[1]
         /\ Stops(in[1]) => Pending = << >>
         /\ ~Stops(in[1]) => Pending = First(in[1]) \o PayloadsOf(Tail(in), Len(Tail(in)))
<1>1. Reading /\ InLine /\ frame = NoFrame
  BY DEF OrderInv, FrameKept, Reading
<1>2. Left = << >>
  BY <1>1 DEF Left, NoFrame
<1>3. /\ in \in Seq(WireFrame) /\ Len(in) \in Nat \ {0} /\ Len(Tail(in)) = Len(in) - 1
      /\ Head(in) = in[1]
  BY TailTyped DEF Typed
<1>4. Pending = PayloadsOf(in, Len(in))
  <2>1. PayloadsOf(in, Len(in)) \in Seq(Seq(Int))
    BY LeftTyped
  <2>2. Pending = << >> \o PayloadsOf(in, Len(in))
    BY <1>1, <1>2, WhatIsPending
  <2> QED
    BY <2>1, <2>2
<1>5. Stops(in[1]) => Pending = << >>
  BY <1>3, <1>4, NothingBeyond
<1>6. ASSUME ~Stops(in[1])
      PROVE  Pending = First(in[1]) \o PayloadsOf(Tail(in), Len(Tail(in)))
  <2>1. Len(in) - 1 \in 0 .. Len(in) - 1 /\ (Len(in) - 1) + 1 = Len(in)
    BY <1>3
  <2>2. PayloadsOf(in, (Len(in) - 1) + 1) = First(in[1]) \o PayloadsOf(Tail(in), Len(in) - 1)
    BY <1>3, <1>6, <2>1, FirstThenRest
  <2> QED
    BY <1>3, <1>4, <2>1, <2>2
<1> QED
  BY <1>1, <1>2, <1>3, <1>5, <1>6

(* A control frame that Read does not stop at takes nothing away. *)
LEMMA ControlPassed ==
  ASSUME Typed, Typed', OrderInv, synced, synced', reader = "header", in # << >>,
         ~Stops(in[1]), in[1].op # "data", in' = Tail(in), frame' = frame, Reading'
  PROVE  Pending' = Pending
<1>1. /\ frame = NoFrame /\ Left = << >>
      /\ Pending = First(in[1]) \o PayloadsOf(Tail(in), Len(Tail(in)))
  BY AtAHeader
<1>2. First(in[1]) = << >>
  BY DEF First
<1>3. Left' = << >>
  BY <1>1 DEF Left, NoFrame
<1>4. Pending' = << >> \o PayloadsOf(Tail(in), Len(Tail(in)))
  BY <1>3, PendingNext
<1> QED
  BY <1>1, <1>2, <1>4

LEMMA OpenIsNoStep ==
  ASSUME Typed, Typed', OrderInv, synced, OpenFrame
  PROVE  UNCHANGED Stream!streamVars
<1> DEFINE h == in[1]
<1>1. /\ reader = "header" /\ in # << >> /\ in' = Tail(in) /\ reader' = "payload"
      /\ UNCHANGED <<result, got, synced>>
      /\ frame' = NewFrame(Head(in)) /\ Head(in).op = "data" /\ ~WrongMask(Head(in))
  BY DEF OpenFrame, Header
<1>2. /\ Head(in) = h /\ Reading
      /\ ~Stops(h) => Pending = First(h) \o PayloadsOf(Tail(in), Len(Tail(in)))
  BY <1>1, AtAHeader
<1>3. ~Stops(h)
  BY <1>1, <1>2 DEF Stops, Ends
<1>4. Reading'
  BY <1>1, <1>2 DEF Reading
<1>5. h.first \in Nat /\ h.size \in Nat /\ h.here \in Nat
  BY <1>1, TailTyped DEF WireFrame
<1> HIDE DEF h
<1>6. /\ frame'.here = h.here /\ frame'.first = h.first
      /\ frame'.size = h.size /\ frame'.left = h.size
  BY <1>1, <1>2 DEF NewFrame
<1>7. frame'.first + frame'.size - frame'.left = h.first
  BY <1>5, <1>6
<1>8. Left' = First(h)
  <2>1. Left' = IF h.here = 0 THEN << >> ELSE <<Bytes(h.first, h.here)>>
    BY <1>6, <1>7 DEF Left
  <2>2. h.here = 0 <=> ~(h.here > 0)
    BY <1>5
  <2> QED
    BY <1>1, <1>2, <2>1, <2>2 DEF First
<1>9. Pending' = Pending
  BY <1>1, <1>2, <1>3, <1>4, <1>8, PendingNext
<1>10. Chunk' = Chunk
  BY <1>1, ChunkKept
<1> QED
  BY <1>1, <1>9, <1>10, NoStep

LEMMA SameSequence ==
  ASSUME NEW T, NEW s \in Seq(T), NEW t \in Seq(T), Len(s) = Len(t),
         \A i \in 1 .. Len(s) : s[i] = t[i]
  PROVE  s = t
OBVIOUS

LEMMA LastPart ==
  ASSUME NEW s \in Seq(Nat), NEW t \in Seq(Int), NEW n \in Nat, Len(t) = n
  PROVE  SubSeq(s \o t, Len(s \o t) - n + 1, Len(s \o t)) = t
<1> DEFINE u == s \o t
           l == Len(s)
           v == SubSeq(u, l + 1, l + n)
<1>1. /\ l \in Nat /\ u \in Seq(Int) /\ Len(u) = l + n
      /\ \A i \in 1 .. n : u[l + i] = t[i]
  OBVIOUS
<1> HIDE DEF u, l
<1>2. v \in Seq(Int) /\ Len(v) = n /\ \A i \in 1 .. n : v[i] = u[l + i]
  BY <1>1
<1> HIDE DEF v
<1>3. v = t
  BY <1>1, <1>2
<1>4. Len(u) - n + 1 = l + 1
  BY <1>1
<1> QED
  BY <1>1, <1>3, <1>4 DEF u, v

LEMMA FirstPart ==
  ASSUME NEW s \in Seq(Int), NEW t \in Seq(Int), NEW n \in Nat, Len(t) = n, n <= Len(s),
         \A i \in 1 .. n : s[i] = t[i]
  PROVE  SubSeq(s, 1, n) = t
<1> DEFINE v == SubSeq(s, 1, n)
<1>1. v \in Seq(Int) /\ Len(v) = n /\ \A i \in 1 .. n : v[i] = s[i]
  OBVIOUS
<1> HIDE DEF v
<1>2. Len(v) = Len(t) /\ \A i \in 1 .. Len(v) : v[i] = t[i]
  BY <1>1
<1>3. v = t
  BY <1>1, <1>2, SameSequence
<1> QED
  BY <1>3 DEF v

LEMMA InFront ==
  ASSUME NEW b \in Seq(Int), NEW c \in Seq(Int), NEW rest \in Seq(Seq(Int))
  PROVE  /\ <<b>> \o rest # << >>
         /\ (<<b>> \o rest)[1] = b
         /\ Head(<<b>> \o rest) = b
         /\ Tail(<<b>> \o rest) = rest
         /\ [<<b>> \o rest EXCEPT ![1] = c] = <<c>> \o rest
<1> DEFINE p == <<b>> \o rest
           q == <<c>> \o rest
           e == [p EXCEPT ![1] = c]
           t == Tail(p)
           l == Len(rest)
<1>1. /\ p \in Seq(Seq(Int)) /\ Len(p) = l + 1 /\ p[1] = b /\ l \in Nat
      /\ \A i \in 1 .. l : p[i + 1] = rest[i]
  OBVIOUS
<1>2. /\ q \in Seq(Seq(Int)) /\ Len(q) = l + 1 /\ q[1] = c
      /\ \A i \in 1 .. l : q[i + 1] = rest[i]
  OBVIOUS
<1> HIDE DEF p, q
<1>3. p # << >> /\ Head(p) = b
  BY <1>1
<1>4. t = rest
  <2>1. t \in Seq(Seq(Int)) /\ Len(t) = l /\ \A i \in 1 .. l : t[i] = p[i + 1]
    BY <1>1, <1>3
  <2> HIDE DEF t, l
  <2>2. \A i \in 1 .. l : t[i] = rest[i]
    BY <1>1, <2>1
  <2>3. Len(t) = Len(rest) /\ \A i \in 1 .. Len(t) : t[i] = rest[i]
    BY <2>1, <2>2 DEF l
  <2> QED
    BY <2>1, <2>3, SameSequence
<1>5. e = q
  <2>1. e \in Seq(Seq(Int)) /\ Len(e) = l + 1 /\ e[1] = c /\ \A i \in 2 .. l + 1 : e[i] = p[i]
    BY <1>1
  <2> HIDE DEF e
  <2>2. ASSUME NEW i \in 2 .. l + 1 PROVE e[i] = q[i]
    <3> DEFINE j == i - 1
    <3>1. j \in 1 .. l /\ i = j + 1
      BY <1>1
    <3> HIDE DEF j
    <3> QED
      BY <1>1, <1>2, <2>1, <3>1
  <2>3. \A i \in 1 .. l + 1 : e[i] = q[i]
    BY <1>1, <1>2, <2>1, <2>2
  <2> HIDE DEF l
  <2> QED
    BY <1>1, <1>2, <2>1, <2>3
<1> QED
  BY <1>1, <1>3, <1>4, <1>5 DEF p, q, t, e

(* ReadPayload returns the first bytes of what is left of the frame. *)
LEMMA PayloadIsReturned ==
  ASSUME Typed, Typed', OrderInv, synced, NEW n \in 1 .. Size, ReadPayload(n)
  PROVE  Stream!StreamNext
<1> DEFINE b == Bytes(frame.first + frame.pos, frame.here)
           rest == PayloadsOf(in, Len(in))
<1>1. /\ reader = "payload" /\ n \in 1 .. frame.here /\ n <= Size /\ reader' = "idle"
      /\ got' = got \o [i \in 1 .. n |->
                  UnmaskedAt(frame, frame.size - frame.left + i - 1, frame.pos + i - 1)]
      /\ frame' = [frame EXCEPT !.left = @ - n, !.here = @ - n, !.pos = @ + n]
      /\ result' = [n |-> n, err |-> "nil"]
      /\ UNCHANGED <<in, synced>>
  BY DEF ReadPayload, Returns
<1>2. /\ frame.here \in Nat /\ frame.left \in Nat /\ frame.size \in Nat /\ frame.first \in Nat
      /\ frame.pos \in Nat /\ frame.pos = frame.size - frame.left
  BY DEF Typed, OrderInv, FrameKept
<1>3. /\ frame'.here = frame.here - n /\ frame'.left = frame.left - n
      /\ frame'.size = frame.size /\ frame'.first = frame.first
  BY <1>1 DEF Typed
<1>4. Reading /\ Reading'
  BY <1>1 DEF Reading, OrderInv, FrameKept
<1>5. b \in Seq(Int) /\ Len(b) = frame.here /\ \A i \in 1 .. frame.here : b[i] = frame.first + frame.pos + i - 1
  <2>1. frame.first + frame.pos \in Nat
    BY <1>2
  <2> QED
    BY <1>2, <2>1, BytesAre
<1>6. rest \in Seq(Seq(Int))
  BY LeftTyped
<1>7. Pending = <<b>> \o rest
  <2>1. frame.first + frame.size - frame.left = frame.first + frame.pos /\ frame.here # 0
    BY <1>1, <1>2
  <2>2. Left = <<b>>
    BY <2>1 DEF Left
  <2> HIDE DEF b
  <2> QED
    BY <1>4, <2>2, WhatIsPending
<1>8. Pending' = Left' \o rest
  BY <1>1, <1>4, PendingNext
<1>9. Chunk' = SubSeq(b, 1, n)
  <2> DEFINE new == [i \in 1 .. n |->
                      UnmaskedAt(frame, frame.size - frame.left + i - 1, frame.pos + i - 1)]
  <2>1. \A i \in 1 .. n : new[i] = frame.first + frame.pos + i - 1
    BY <1>2 DEF UnmaskedAt
  <2>2. new \in Seq(Int) /\ Len(new) = n /\ n \in Nat
    BY <1>2, <2>1
  <2>3. got' = got \o new /\ got \in Seq(Nat)
    BY <1>1 DEF Typed
  <2>4. result'.n = n
    BY <1>1
  <2> HIDE DEF new
  <2>5. Chunk' = SubSeq(got', Len(got') - n + 1, Len(got'))
    BY <2>4 DEF Chunk
  <2>6. Chunk' = new
    BY <2>2, <2>3, <2>5, LastPart
  <2>7. SubSeq(b, 1, n) = new
    <3>1. n \in 1 .. Len(b) /\ \A i \in 1 .. n : b[i] = new[i]
      BY <1>1, <1>5, <2>1
    <3> HIDE DEF b
    <3> QED
      BY <1>5, <2>2, <3>1, FirstPart
  <2> QED
    BY <2>6, <2>7
<1>10. CASE n = frame.here
  <2>1. Left' = << >>
    BY <1>2, <1>3, <1>10 DEF Left
  <2>2. Pending' = rest
    BY <1>6, <1>8, <2>1
  <2> HIDE DEF b, rest
  <2>3. Stream!Return(n)
    <3>1. Pending # << >> /\ Head(Pending) = b /\ Tail(Pending) = rest
      BY <1>5, <1>6, <1>7, InFront
    <3> QED
      BY <1>1, <1>5, <1>9, <1>10, <2>2, <3>1 DEF Stream!Return
  <2> QED
    BY <2>3 DEF Stream!StreamNext
<1>11. CASE n # frame.here
  <2> DEFINE c == Bytes(frame.first + frame.pos + n, frame.here - n)
  <2>1. Left' = <<c>>
    <3>0. n \in Nat
      BY <1>1, <1>2
    <3>1. frame.here - n # 0
      <4> DEFINE l == frame.here
      <4>1. l \in Nat /\ n # l
        BY <1>2, <1>11
      <4> HIDE DEF l
      <4>2. l - n # 0
        BY <3>0, <4>1
      <4> QED
        BY <4>2 DEF l
    <3>2. frame'.first + frame'.size - frame'.left = frame.first + frame.size - (frame.left - n)
      BY <1>3
    <3>3. frame.first + frame.size - (frame.left - n) = frame.first + frame.pos + n
      BY <1>2, <3>0
    <3> QED
      BY <1>3, <3>1, <3>2, <3>3 DEF Left
  <2>2. c \in Seq(Int) /\ Len(c) = frame.here - n /\ frame.here - n \in Nat
        /\ \A i \in 1 .. frame.here - n : c[i] = frame.first + frame.pos + n + i - 1
    <3>1. frame.first + frame.pos + n \in Nat /\ frame.here - n \in Nat
      BY <1>1, <1>2
    <3> QED
      BY <3>1, BytesAre
  <2>3. c = SubSeq(b, n + 1, Len(b))
    <3> DEFINE d == SubSeq(b, n + 1, Len(b))
               l == frame.here
    <3>0. l \in Nat /\ n \in 1 .. l /\ Len(b) = l
      BY <1>1, <1>2, <1>5
    <3>1. d \in Seq(Int) /\ Len(d) = l - n /\ \A i \in 1 .. l - n : d[i] = b[n + i]
      <4> HIDE DEF b, l
      <4> QED
        BY <1>5, <3>0
    <3> DEFINE o == frame.first + frame.pos
    <3>2. /\ o \in Nat /\ \A i \in 1 .. l : b[i] = o + i - 1
          /\ \A i \in 1 .. l - n : c[i] = o + n + i - 1
          /\ c \in Seq(Int) /\ Len(c) = l - n
      BY <1>2, <1>5, <2>2
    <3> HIDE DEF b, c, d, l, o
    <3>3. \A i \in 1 .. l - n : d[i] = c[i]
      <4> SUFFICES ASSUME NEW i \in 1 .. l - n PROVE d[i] = c[i]
        OBVIOUS
      <4>1. n + i \in 1 .. l
        BY <3>0
      <4>2. b[n + i] = o + (n + i) - 1 /\ d[i] = b[n + i] /\ c[i] = o + n + i - 1
        BY <3>1, <3>2, <4>1
      <4>3. o + (n + i) - 1 = o + n + i - 1
        BY <3>0, <3>2
      <4> QED
        BY <4>2, <4>3
    <3>4. d = c
      <4>1. Len(d) = Len(c) /\ \A i \in 1 .. Len(d) : d[i] = c[i]
        BY <3>1, <3>2, <3>3
      <4> QED
        BY <3>1, <3>2, <4>1, SameSequence
    <3> QED
      BY <3>4 DEF d
  <2> HIDE DEF b, c, rest
  <2>4. Stream!Return(n)
    <3>1. Pending # << >> /\ Head(Pending) = b /\ [Pending EXCEPT ![1] = c] = <<c>> \o rest
          /\ Pending[1] = b
      BY <1>5, <1>6, <1>7, <2>2, InFront
    <3>2. Pending' = [Pending EXCEPT ![1] = SubSeq(@, n + 1, Len(@))]
      BY <1>8, <2>1, <2>3, <3>1
    <3> QED
      BY <1>1, <1>5, <1>9, <1>11, <3>1, <3>2 DEF Stream!Return
  <2> QED
    BY <2>4 DEF Stream!StreamNext
<1> QED
  BY <1>10, <1>11

LEMMA FirstBytes ==
  ASSUME NEW first \in Nat, NEW n \in Nat, NEW m \in 0 .. n
  PROVE  Bytes(first, m) = SubSeq(Bytes(first, n), 1, m)
<1> DEFINE b == Bytes(first, n)
           c == Bytes(first, m)
<1>1. /\ b \in Seq(Int) /\ Len(b) = n /\ \A i \in 1 .. n : b[i] = first + i - 1
      /\ c \in Seq(Int) /\ Len(c) = m /\ \A i \in 1 .. m : c[i] = first + i - 1
  BY BytesAre
<1> HIDE DEF b, c
<1>2. \A i \in 1 .. m : b[i] = c[i]
  BY <1>1
<1>3. m \in Nat /\ m <= Len(b)
  BY <1>1
<1> QED
  BY <1>1, <1>2, <1>3, FirstPart DEF b, c

(* No payload is empty. *)
LEMMA PayloadsNotEmpty ==
  ASSUME NEW s \in Seq(WireFrame), NEW n \in 0 .. Len(s)
  PROVE  \A i \in 1 .. Len(PayloadsOf(s, n)) : Len(PayloadsOf(s, n)[i]) \in Nat \ {0}
<1> DEFINE Fine == {k \in 0 .. n : \A i \in 1 .. Len(PayloadsOf(s, k)) :
                                     Len(PayloadsOf(s, k)[i]) \in Nat \ {0}}
<1>0. n \in Nat /\ Len(s) \in Nat /\ \A k \in 0 .. n : k \in 0 .. Len(s)
  OBVIOUS
<1>1. 0 \in Fine
  <2>1. PayloadsOf(s, 0) = << >> /\ 0 \in 0 .. n
    BY <1>0, PayloadsUnfold
  <2>2. Len(PayloadsOf(s, 0)) = 0
    BY <2>1
  <2> QED
    BY <2>1, <2>2
<1>2. ASSUME NEW k \in 1 .. n, k - 1 \in Fine PROVE k \in Fine
  <2> DEFINE p == PayloadsOf(s, k - 1)
             q == PayloadsOf(s, k)
             e == Bytes(s[k].first, s[k].here)
  <2>1. k - 1 \in Nat /\ k - 1 \in 0 .. n /\ (k - 1) + 1 = k /\ k \in 1 .. Len(s) /\ k \in 0 .. n
    BY <1>0
  <2>2. p \in Seq(Seq(Int)) /\ \A i \in 1 .. Len(p) : Len(p[i]) \in Nat \ {0}
    BY <1>0, <1>2, <2>1, PayloadsTyped
  <2>3. q = Longer(p, s, k)
    BY <2>1, PayloadsUnfold
  <2>4. s[k].first \in Nat /\ s[k].here \in Nat
    BY <2>1, FrameNumbers
  <2>5. e \in Seq(Int) /\ Len(e) = s[k].here
    BY <2>4, BytesAre
  <2> HIDE DEF p, q
  <2>6. \A i \in 1 .. Len(q) : Len(q[i]) \in Nat \ {0}
    <3>1. CASE Carries(s, k)
      <4>1. q = Append(p, e)
        BY <2>3, <3>1 DEF Longer
      <4>2. Len(e) \in Nat \ {0}
        BY <2>4, <2>5, <3>1 DEF Carries
      <4> HIDE DEF e
      <4>3. /\ Len(q) = Len(p) + 1 /\ q[Len(p) + 1] = e /\ Len(p) \in Nat
            /\ \A i \in 1 .. Len(p) : q[i] = p[i]
        BY <2>2, <2>5, <4>1
      <4>4. ASSUME NEW i \in 1 .. Len(q) PROVE Len(q[i]) \in Nat \ {0}
        <5> DEFINE l == Len(p)
        <5>1. l \in Nat /\ i \in 1 .. l + 1
          BY <4>3
        <5> HIDE DEF l
        <5>2. i = l + 1 \/ i \in 1 .. l
          BY <5>1
        <5> QED
          BY <2>2, <4>2, <4>3, <5>2 DEF l
      <4> QED
        BY <4>4
    <3>2. CASE ~Carries(s, k)
      <4>1. q = p
        BY <2>3, <3>2 DEF Longer
      <4> QED
        BY <2>2, <4>1
    <3> QED
      BY <3>1, <3>2
  <2> QED
    BY <2>1, <2>6 DEF q
<1>3. n \in Fine
  <2> HIDE DEF Fine
  <2> QED
    BY <1>0, <1>1, <1>2, UpTo
<1> QED
  BY <1>3

LEMMA LeftNotEmpty ==
  ASSUME Typed
  PROVE  Left = << >> \/ \E b \in Seq(Int) : Left = <<b>> /\ Len(b) \in Nat \ {0}
<1> DEFINE b == Bytes(frame.first + frame.size - frame.left, frame.here)
<1>1. /\ frame.here \in Nat /\ frame.first + frame.size - frame.left \in Nat
  BY DEF Typed
<1>2. b \in Seq(Int) /\ Len(b) = frame.here
  BY <1>1, BytesAre
<1>3. frame.here # 0 => Left = <<b>>
  BY DEF Left
<1>4. frame.here = 0 => Left = << >>
  BY DEF Left
<1> HIDE DEF b
<1> QED
  BY <1>1, <1>2, <1>3, <1>4

(* What FrameStream may lose. *)
LEMMA LoseAll ==
  ASSUME synced, synced', Chunk' = Chunk, Pending' = << >>, Pending \in Seq(Seq(Int))
  PROVE  Stream!StreamNext
<1>1. 0 \in 0 .. Len(Pending) /\ Stream!Lose(0, 0)
  BY DEF Stream!Lose
<1> QED
  BY <1>1 DEF Stream!StreamNext

LEMMA LosePart ==
  ASSUME synced, synced', Chunk' = Chunk,
         NEW p \in Seq(Seq(Int)), NEW q \in Seq(Seq(Int)), Pending = p, Pending' = q,
         NEW k \in 1 .. Len(p), Len(q) = k, \A i \in 1 .. k - 1 : q[i] = p[i],
         NEW m \in 1 .. Len(p[k]), q[k] = SubSeq(p[k], 1, m)
  PROVE  Stream!StreamNext
<1> DEFINE s == SubSeq(p, 1, k)
           r == [s EXCEPT ![k] = SubSeq(@, 1, m)]
<1>1. k \in Nat \ {0} /\ Len(p) \in Nat /\ k <= Len(p)
  OBVIOUS
<1>2. s \in Seq(Seq(Int)) /\ Len(s) = k /\ \A i \in 1 .. k : s[i] = p[i]
  BY <1>1
<1>3. SubSeq(s[k], 1, m) = q[k]
  BY <1>1, <1>2
<1>4. q[k] \in Seq(Int)
  BY <1>1
<1>5. r = [s EXCEPT ![k] = q[k]]
  BY <1>3
<1> HIDE DEF s, r
<1>6. r \in Seq(Seq(Int)) /\ Len(r) = k /\ r[k] = q[k] /\ \A i \in 1 .. k - 1 : r[i] = s[i]
  BY <1>1, <1>2, <1>4, <1>5
<1>7. r = q
  <2>1. ASSUME NEW i \in 1 .. k PROVE r[i] = q[i]
    <3>1. CASE i = k
      BY <1>6, <3>1
    <3>2. CASE i # k
      <4>1. i \in 1 .. k - 1 /\ q[i] = p[i]
        BY <1>1, <3>2
      <4> QED
        BY <1>2, <1>6, <4>1
    <3> QED
      BY <3>1, <3>2
  <2> QED
    BY <1>6, <2>1, SameSequence
<1>8. Stream!Lose(k, m)
  BY <1>1, <1>7 DEF Stream!Lose, r, s
<1>9. k \in 0 .. Len(Pending) /\ m \in IF k = 0 THEN {0} ELSE 1 .. Len(Pending[k])
  BY <1>1
<1> QED
  BY <1>8, <1>9 DEF Stream!StreamNext

(* The frame being read is kept as it is, of the payloads behind it some   *)
(* are kept, of the last of these a part.                                  *)
LEMMA LoseBehind ==
  ASSUME Typed, synced, synced', Chunk' = Chunk,
         NEW p \in Seq(Seq(Int)), NEW q \in Seq(Seq(Int)),
         Pending = Left \o p, Pending' = Left \o q,
         Len(q) <= Len(p), \A i \in 1 .. Len(q) - 1 : q[i] = p[i],
         NEW m, q # << >> => /\ m \in 1 .. Len(p[Len(q)])
                             /\ q[Len(q)] = SubSeq(p[Len(q)], 1, m)
  PROVE  Stream!StreamNext
<1> DEFINE f == Left
<1>1. f \in Seq(Seq(Int))
  BY LeftTyped
<1>2. f = << >> \/ \E b \in Seq(Int) : f = <<b>> /\ Len(b) \in Nat \ {0}
  BY LeftNotEmpty
<1> HIDE DEF f
<1>3. Pending = f \o p /\ Pending' = f \o q
  BY DEF f
<1> DEFINE a == f \o p
           c == f \o q
           l == Len(f)
<1>4. /\ a \in Seq(Seq(Int)) /\ Len(a) = l + Len(p) /\ l \in Nat /\ Len(p) \in Nat
      /\ \A i \in 1 .. l : a[i] = f[i]
      /\ \A i \in 1 .. Len(p) : a[l + i] = p[i]
  BY <1>1, Concatenated
<1>5. /\ c \in Seq(Seq(Int)) /\ Len(c) = l + Len(q) /\ Len(q) \in Nat
      /\ \A i \in 1 .. l : c[i] = f[i]
      /\ \A i \in 1 .. Len(q) : c[l + i] = q[i]
  BY <1>1, Concatenated
<1>6. CASE q # << >>
  <2> DEFINE n == Len(q)
             o == Len(p)
             k == l + n
  <2>1. /\ n \in 1 .. o /\ n \in Nat /\ o \in Nat /\ l \in Nat
        /\ Len(a) = l + o /\ Len(c) = l + n
    BY <1>4, <1>5, <1>6
  <2> HIDE DEF a, c, l, n, o
  <2>2. k \in 1 .. Len(a) /\ Len(c) = k
    BY <2>1
  <2>3. ASSUME NEW i \in 1 .. k - 1 PROVE c[i] = a[i]
    <3>1. CASE i <= l
      BY <1>4, <1>5, <2>1, <3>1
    <3>2. CASE i > l
      <4> DEFINE j == i - l
      <4>1. j \in 1 .. n - 1 /\ j \in 1 .. n /\ j \in 1 .. o /\ i = l + j
        BY <2>1, <3>2
      <4> HIDE DEF j
      <4>2. q[j] = p[j] /\ c[l + j] = q[j] /\ a[l + j] = p[j]
        BY <1>4, <1>5, <4>1 DEF n, o
      <4> QED
        BY <4>1, <4>2
    <3> QED
      BY <1>4, <3>1, <3>2
  <2>4. c[k] = q[Len(q)] /\ a[k] = p[Len(q)]
    <3>1. n \in 1 .. Len(q) /\ n \in 1 .. Len(p) /\ n = Len(q)
      BY <2>1 DEF n, o
    <3> QED
      BY <1>4, <1>5, <3>1
  <2>5. m \in 1 .. Len(a[k]) /\ c[k] = SubSeq(a[k], 1, m)
    BY <1>6, <2>4
  <2>6. Pending = a /\ Pending' = c
    BY <1>3 DEF a, c
  <2> HIDE DEF k
  <2> QED
    BY <1>4, <1>5, <2>2, <2>3, <2>5, <2>6, LosePart
<1>7. CASE q = << >> /\ f = << >>
  <2>1. Pending' = << >> /\ Pending \in Seq(Seq(Int))
    BY <1>3, <1>4, <1>7
  <2> QED
    BY <2>1, LoseAll
<1>8. CASE q = << >> /\ f # << >>
  <2>1. PICK b \in Seq(Int) : f = <<b>> /\ Len(b) \in Nat \ {0}
    BY <1>2, <1>8
  <2>2. l = 1 /\ f[1] = b /\ Len(q) = 0
    BY <1>8, <2>1
  <2> HIDE DEF a, c, l
  <2>3. 1 \in 1 .. Len(a) /\ Len(c) = 1 /\ a[1] = b /\ c[1] = b
    BY <1>4, <1>5, <2>2
  <2>4. Len(b) \in 1 .. Len(a[1]) /\ SubSeq(b, 1, Len(b)) = b
    BY <2>1, <2>3
  <2>5. Pending = a /\ Pending' = c
    BY <1>3 DEF a, c
  <2>6. \A i \in 1 .. 1 - 1 : c[i] = a[i]
    OBVIOUS
  <2>7. c[1] = SubSeq(a[1], 1, Len(b))
    BY <2>3, <2>4
  <2> QED
    BY <1>4, <1>5, <2>3, <2>4, <2>5, <2>6, <2>7, LosePart
<1> QED
  BY <1>6, <1>7, <1>8

(* The connection goes down between the k-th frame in line and the next, or *)
(* within the k-th.                                                        *)
LEMMA CutInLine ==
  ASSUME Typed, Typed', OrderInv, synced, Reading, link = "up",
         NEW k \in 1 .. Len(in), NEW m \in 0 .. in[k].size,
         in' = [SubSeq(in, 1, k) EXCEPT ![k].here = m],
         UNCHANGED <<frame, reader, result, got, synced>>
  PROVE  Stream!StreamNext
<1> DEFINE p == PayloadsOf(in, Len(in))
           q == PayloadsOf(in', Len(in'))
           o == PayloadsOf(in, k - 1)
           h == in[k]
           g == in'[k]
<1>1. /\ in \in Seq(WireFrame) /\ in' \in Seq(WireFrame) /\ Len(in) \in Nat /\ k \in Nat \ {0}
      /\ k <= Len(in) /\ k - 1 \in Nat /\ k - 1 \in 0 .. Len(in) /\ (k - 1) + 1 = k
  <2>1. in \in Seq(WireFrame) /\ in' \in Seq(WireFrame)
    BY DEF Typed
  <2> DEFINE l == Len(in)
  <2>2. l \in Nat /\ k \in 1 .. l
    BY <2>1
  <2> HIDE DEF l
  <2>3. k \in Nat \ {0} /\ k <= l /\ k - 1 \in Nat /\ k - 1 \in 0 .. l /\ (k - 1) + 1 = k
    BY <2>2
  <2> QED
    BY <2>1, <2>2, <2>3 DEF l
<1>2. /\ h \in WireFrame /\ h.first \in Nat /\ h.here \in Nat /\ h.size \in Nat
      /\ m \in Nat /\ m <= h.here
  <2>1. h \in WireFrame /\ InLine
    BY <1>1 DEF OrderInv
  <2>2. h.here = h.size
    BY <2>1 DEF InLine
  <2>3. h.first \in Nat /\ h.here \in Nat /\ h.size \in Nat
    BY <2>1 DEF WireFrame
  <2> HIDE DEF h
  <2>4. m \in 0 .. h.size
    BY DEF h
  <2> QED
    BY <2>1, <2>2, <2>3, <2>4
<1>3. /\ Len(in') = k /\ \A i \in 1 .. k - 1 : in'[i] = in[i]
      /\ g = [h EXCEPT !.here = m]
  <2> DEFINE s == SubSeq(in, 1, k)
             e == [h EXCEPT !.here = m]
  <2>1. s \in Seq(WireFrame) /\ Len(s) = k /\ \A i \in 1 .. k : s[i] = in[i]
    BY <1>1
  <2>2. e \in WireFrame
    BY <1>2 DEF WireFrame
  <2>3. in' = [s EXCEPT ![k] = e]
    <3>1. in' = [s EXCEPT ![k] = [s[k] EXCEPT !.here = m]]
      OBVIOUS
    <3>2. s[k] = h
      BY <1>1, <2>1
    <3> QED
      BY <3>1, <3>2
  <2> HIDE DEF s, e
  <2>4. Len(in') = k /\ in'[k] = e /\ \A i \in 1 .. k - 1 : in'[i] = s[i]
    BY <1>1, <2>1, <2>2, <2>3
  <2> QED
    BY <1>1, <2>1, <2>4 DEF e
<1>4. g.op = h.op /\ g.masked = h.masked /\ g.size = h.size /\ g.first = h.first /\ g.here = m
  BY <1>2, <1>3 DEF WireFrame
<1>5. p \in Seq(Seq(Int)) /\ o \in Seq(Seq(Int)) /\ q \in Seq(Seq(Int))
  <2>1. Len(in) \in 0 .. Len(in) /\ Len(in') \in 0 .. Len(in')
    BY <1>1
  <2> QED
    BY <1>1, <2>1, PayloadsTyped
<1>6. /\ Len(o) <= Len(p) /\ \A i \in 1 .. Len(o) : o[i] = p[i]
  <2>1. Len(in) \in 0 .. Len(in)
    BY <1>1
  <2>2. k - 1 \in 0 .. Len(in)
    BY <1>1
  <2> QED
    BY <1>1, <2>1, <2>2, FewerFrames
<1>7. q = Longer(o, in', k)
  <2>1. PayloadsOf(in', k) = Longer(PayloadsOf(in', k - 1), in', k)
    <3>1. PayloadsOf(in', (k - 1) + 1) = Longer(PayloadsOf(in', k - 1), in', (k - 1) + 1)
      BY <1>1, PayloadsUnfold
    <3> QED
      BY <1>1, <3>1
  <2>2. PayloadsOf(in', k - 1) = o
    <3> DEFINE n == k - 1
    <3>1. n \in Nat /\ \A i \in 1 .. n : in'[i] = in[i]
      BY <1>1, <1>3
    <3> HIDE DEF n
    <3>2. PayloadsOf(in', n) = PayloadsOf(in, n)
      BY <3>1, SamePayloads
    <3> QED
      BY <3>2 DEF n
  <2> QED
    BY <1>3, <2>1, <2>2
<1>8. \A i \in 1 .. Len(p) : Len(p[i]) \in Nat \ {0}
  <2>1. Len(in) \in 0 .. Len(in)
    BY <1>1
  <2> QED
    BY <1>1, <2>1, PayloadsNotEmpty
<1>9. Pending = Left \o p /\ Pending' = Left \o q
  <2>1. Left' = Left /\ Reading'
    BY DEF Left, Reading
  <2> QED
    BY <2>1, WhatIsPending, PendingNext
<1>10. Chunk' = Chunk
  BY ChunkKept
<1>11. CASE Carries(in', k)
  <2> DEFINE b == Bytes(h.first, h.here)
             c == Bytes(h.first, m)
             l == Len(o)
  <2>1. Carries(in, k)
    <3>1. h.op = "data" /\ m > 0 /\ \A j \in 1 .. k : ~Stops(in'[j])
      BY <1>4, <1>11 DEF Carries
    <3>2. h.here > 0
      BY <1>2, <3>1
    <3>3. ~Stops(h)
      <4>0. k \in 1 .. k
        BY <1>1
      <4>1. ~Stops(g)
        BY <3>1, <4>0
      <4> HIDE DEF g, h
      <4> QED
        BY <1>4, <3>1, <4>1 DEF Stops, Ends, WrongMask
    <3>4. ASSUME NEW j \in 1 .. k PROVE ~Stops(in[j])
      <4>1. CASE j = k
        BY <3>3, <4>1
      <4>2. CASE j # k
        <5>1. j \in 1 .. k - 1
          BY <1>1, <4>2
        <5> QED
          BY <1>3, <3>1, <5>1
      <4> QED
        BY <4>1, <4>2
    <3> QED
      BY <3>1, <3>2, <3>4 DEF Carries
  <2>2. q = Append(o, c)
    BY <1>4, <1>7, <1>11 DEF Longer
  <2>3. PayloadsOf(in, k) = Append(o, b)
    <3>1. PayloadsOf(in, k) = Longer(o, in, k)
      <4>1. PayloadsOf(in, (k - 1) + 1) = Longer(o, in, (k - 1) + 1)
        BY <1>1, PayloadsUnfold
      <4> QED
        BY <1>1, <4>1
    <3> QED
      BY <2>1, <3>1 DEF Longer
  <2>4. /\ b \in Seq(Int) /\ Len(b) = h.here /\ c \in Seq(Int)
        /\ c = SubSeq(b, 1, m) /\ m \in 1 .. Len(b)
    <3>1. m \in 0 .. h.here /\ m > 0
      BY <1>2, <1>4, <1>11 DEF Carries
    <3>2. b \in Seq(Int) /\ Len(b) = h.here /\ c \in Seq(Int)
      BY <1>2, BytesAre
    <3>3. c = SubSeq(b, 1, m)
      BY <1>2, <3>1, FirstBytes
    <3> QED
      BY <1>2, <3>1, <3>2, <3>3
  <2> HIDE DEF b, c, h, p, q, o
  <2>5. l + 1 <= Len(p) /\ p[l + 1] = b /\ l \in Nat
    <3>1. l \in Nat /\ Len(Append(o, b)) = l + 1 /\ Append(o, b)[l + 1] = b
      BY <1>5, <2>4
    <3>2. /\ Len(PayloadsOf(in, k)) <= Len(p)
          /\ \A i \in 1 .. Len(PayloadsOf(in, k)) : PayloadsOf(in, k)[i] = p[i]
      <4>1. Len(in) \in 0 .. Len(in) /\ k \in 0 .. Len(in)
        BY <1>1
      <4> QED
        BY <1>1, <4>1, FewerFrames DEF p
    <3>3. l + 1 \in 1 .. l + 1
      BY <3>1
    <3> QED
      BY <2>3, <3>1, <3>2, <3>3
  <2>6. Len(q) = l + 1 /\ q[l + 1] = c /\ \A i \in 1 .. l : q[i] = o[i]
    BY <1>5, <2>2, <2>4
  <2> HIDE DEF l
  <2>7. Len(q) <= Len(p) /\ \A i \in 1 .. Len(q) - 1 : q[i] = p[i]
    <3>1. Len(q) - 1 = l /\ \A i \in 1 .. l : o[i] = p[i]
      BY <1>6, <2>5, <2>6 DEF l
    <3> QED
      BY <2>5, <2>6, <3>1
  <2>8. m \in 1 .. Len(p[Len(q)]) /\ q[Len(q)] = SubSeq(p[Len(q)], 1, m)
    BY <2>4, <2>5, <2>6
  <2> QED
    BY <1>5, <1>9, <1>10, <2>7, <2>8, LoseBehind
<1>12. CASE ~Carries(in', k)
  <2>1. q = o
    BY <1>7, <1>12 DEF Longer
  <2> DEFINE last == IF q = << >> THEN 0 ELSE Len(p[Len(q)])
  <2> HIDE DEF p, q, o
  <2>2. Len(q) <= Len(p) /\ \A i \in 1 .. Len(q) - 1 : q[i] = p[i]
    BY <1>5, <1>6, <2>1
  <2>3. ASSUME q # << >>
        PROVE  /\ last \in 1 .. Len(p[Len(q)])
               /\ q[Len(q)] = SubSeq(p[Len(q)], 1, last)
    <3> DEFINE e == p[Len(q)]
    <3>1. Len(q) \in 1 .. Len(q) /\ Len(q) \in 1 .. Len(p)
      BY <1>5, <2>2, <2>3
    <3>2. e \in Seq(Int) /\ Len(e) \in Nat \ {0} /\ q[Len(q)] = e
      BY <1>5, <1>6, <1>8, <2>1, <3>1
    <3>3. last = Len(e)
      BY <2>3
    <3> HIDE DEF e, last
    <3>4. SubSeq(e, 1, Len(e)) = e
      BY <3>2
    <3> QED
      BY <3>2, <3>3, <3>4 DEF e
  <2> HIDE DEF last
  <2> QED
    BY <1>5, <1>9, <1>10, <2>2, <2>3, LoseBehind
<1> QED
  BY <1>11, <1>12

(* The connection goes down within the frame being read, or before the     *)
(* next has begun.                                                         *)
LEMMA CutInFrame ==
  ASSUME Typed, Typed', synced, Reading,
         NEW m \in 0 .. frame.here, frame' = [frame EXCEPT !.here = m], in' = << >>,
         UNCHANGED <<reader, result, got, synced>>
  PROVE  Stream!StreamNext
<1> DEFINE first == frame.first + frame.size - frame.left
           b == Bytes(first, frame.here)
           c == Bytes(first, m)
           p == PayloadsOf(in, Len(in))
<1>1. /\ frame.here \in Nat /\ first \in Nat /\ m \in Nat /\ m <= frame.here
      /\ frame'.here = m /\ frame'.first + frame'.size - frame'.left = first
  <2>1. /\ frame.here \in Nat /\ frame.first \in Nat /\ frame.size \in Nat /\ frame.left \in Nat
        /\ frame.left <= frame.size
    BY DEF Typed
  <2>2. /\ frame'.here = m /\ frame'.first = frame.first
        /\ frame'.size = frame.size /\ frame'.left = frame.left
    BY DEF Typed
  <2> QED
    BY <2>1, <2>2
<1>2. PayloadsOf(in', Len(in')) = << >>
  <2>1. Len(in') = 0
    OBVIOUS
  <2> QED
    BY <2>1, PayloadsUnfold
<1>3. Reading' /\ Chunk' = Chunk
  BY ChunkKept DEF Reading
<1>4. Pending' = Left'
  <2>1. Left' \in Seq(Seq(Int))
    <3>1. Left' = IF m = 0 THEN << >> ELSE <<c>>
      BY <1>1 DEF Left
    <3>2. c \in Seq(Int)
      BY <1>1, BytesAre
    <3> QED
      BY <3>1, <3>2
  <2>2. Pending' = Left' \o << >>
    BY <1>2, <1>3, PendingNext
  <2> QED
    BY <2>1, <2>2
<1>5. Left \in Seq(Seq(Int)) /\ p \in Seq(Seq(Int)) /\ Pending = Left \o p
  BY LeftTyped, WhatIsPending
<1>6. CASE m = 0
  <2>1. Pending' = << >>
    BY <1>1, <1>4, <1>6 DEF Left
  <2>2. Pending \in Seq(Seq(Int))
    BY <1>5
  <2> QED
    BY <1>3, <2>1, <2>2, LoseAll
<1>7. CASE m # 0
  <2>1. Left = <<b>> /\ Left' = <<c>>
    <3>1. frame.here # 0
      BY <1>1, <1>7
    <3> QED
      BY <1>1, <1>7, <3>1 DEF Left
  <2>2. /\ b \in Seq(Int) /\ Len(b) = frame.here /\ c \in Seq(Int)
        /\ c = SubSeq(b, 1, m) /\ m \in 1 .. Len(b)
    <3>1. b \in Seq(Int) /\ Len(b) = frame.here /\ c \in Seq(Int)
      BY <1>1, BytesAre
    <3>2. m \in 0 .. frame.here
      OBVIOUS
    <3>3. c = SubSeq(b, 1, m)
      BY <1>1, <3>2, FirstBytes
    <3> QED
      BY <1>1, <1>7, <3>1, <3>3
  <2> DEFINE a == <<b>> \o p
             q == <<c>>
  <2> HIDE DEF b, c, p
  <2>3. a \in Seq(Seq(Int)) /\ 1 \in 1 .. Len(a) /\ a[1] = b
    BY <1>5, <2>2
  <2>4. q \in Seq(Seq(Int)) /\ Len(q) = 1 /\ q[1] = c
    BY <2>2
  <2>5. Pending = a /\ Pending' = q
    BY <1>4, <1>5, <2>1
  <2> HIDE DEF a, q
  <2>6. \A i \in 1 .. 1 - 1 : q[i] = a[i]
    OBVIOUS
  <2>7. m \in 1 .. Len(a[1]) /\ q[1] = SubSeq(a[1], 1, m)
    BY <2>2, <2>3, <2>4
  <2> QED
    BY <1>3, <2>3, <2>4, <2>5, <2>6, <2>7, LosePart
<1> QED
  BY <1>6, <1>7

LEMMA DownIsStep ==
  ASSUME Typed, Typed', OrderInv, synced, synced',
         NEW how \in {"eof", "reset"}, NEW k \in 0 .. Len(in),
         NEW m \in 0 .. IF k = 0 THEN frame.here ELSE in[k].size, Down(how, k, m)
  PROVE  Stream!StreamNext \/ UNCHANGED Stream!streamVars
<1>1. link = "up" /\ UNCHANGED <<sent, reader, result, got, synced>>
  BY DEF Down
<1>2. CASE ~Reading
  <2>1. ~Reading' /\ Chunk' = Chunk
    BY <1>1, <1>2, ChunkKept DEF Reading
  <2>2. Pending' = Pending
    BY <1>2, <2>1, WhatIsPending, PendingNext
  <2> QED
    BY <2>1, <2>2, NoStep
<1>3. CASE Reading /\ k > 0
  <2>1. /\ k \in 1 .. Len(in) /\ m \in 0 .. in[k].size /\ frame' = frame
        /\ in' = [SubSeq(in, 1, k) EXCEPT ![k].here = m]
    <3>1. k \in 1 .. Len(in) /\ k # 0
      BY <1>3
    <3>2. m \in 0 .. in[k].size
      BY <3>1
    <3>3. frame' = frame /\ in' = [SubSeq(in, 1, k) EXCEPT ![k].here = m]
      BY <3>1 DEF Down
    <3> QED
      BY <3>1, <3>2, <3>3
  <2> QED
    BY <1>1, <1>3, <2>1, CutInLine
<1>4. CASE Reading /\ k = 0
  <2>1. m \in 0 .. frame.here /\ in' = << >> /\ frame' = [frame EXCEPT !.here = m]
    BY <1>4 DEF Down
  <2> QED
    BY <1>1, <1>4, <2>1, CutInFrame
<1> QED
  BY <1>2, <1>3, <1>4

(* The number of the next byte of the peer, as his frames may be long. *)
Numbered == NextByte \in 1 .. 1 + Len(sent) * MaxSize

LEMMA InitNumbered == Init => Numbered
<1> SUFFICES ASSUME Init PROVE Numbered
  OBVIOUS
<1>1. NextByte = 1 /\ Len(sent) = 0
  BY DEF Init, NextByte
<1>2. 0 * MaxSize = 0
  BY PeerFramesAssumption
<1> QED
  BY <1>1, <1>2 DEF Numbered

LEMMA SendKeepsNumbered ==
  ASSUME Typed, Numbered, NEW f \in PeerFrames, PeerSends(f)
  PROVE  Numbered'
<1> DEFINE w == Wire(f)
           n == Len(sent)
           a == n * MaxSize
           b == (n + 1) * MaxSize
<1>1. w \in WireFrame /\ w.first = NextByte /\ w.size = f.size
  BY WireTyped DEF Wire
<1>2. sent \in Seq(WireFrame) /\ sent' = Append(sent, w)
  BY DEF Typed, PeerSends
<1>3. f.size \in Nat /\ f.size <= MaxSize /\ MaxSize \in Nat /\ n \in Nat
  BY <1>2, PeerFramesAssumption DEF Frame
<1> HIDE DEF w
<1>4. Len(sent') = n + 1 /\ sent' # << >> /\ sent'[Len(sent')] = w
  BY <1>1, <1>2
<1>5. NextByte' = After(w)
  BY <1>4 DEF NextByte
<1>6. After(w) \in {NextByte, NextByte + f.size}
  BY <1>1 DEF After
<1>7. b = a + MaxSize /\ a \in Nat /\ b \in Nat
  <2> HIDE DEF n
  <2> QED
    BY <1>3
<1>8. NextByte \in 1 .. 1 + a
  BY DEF Numbered
<1> HIDE DEF a, b, n
<1>9. NextByte' \in 1 .. 1 + b
  BY <1>3, <1>5, <1>6, <1>7, <1>8
<1> QED
  BY <1>4, <1>9 DEF Numbered, b

LEMMA StepNumbered == Typed /\ Numbered /\ [Next]_vars => Numbered'
<1> SUFFICES ASSUME Typed, Numbered, [Next]_vars PROVE Numbered'
  OBVIOUS
<1>1. ASSUME sent' = sent PROVE Numbered'
  BY <1>1 DEF Numbered, NextByte
<1>2. CASE Read
  BY <1>1, <1>2 DEF Read, CallRead, RefuseFrame, OpenFrame, ReadClose, ReadPing, ReadPong, Misread,
     EndFrame, ReadEnd, ReadReset, Hangup, ReadPayload
<1>3. ASSUME NEW t \in Tasks, WriteStep(t) PROVE Numbered'
  BY <1>1, <1>3 DEF WriteStep, Lock, Push, PushLost, Written, WriteFails
<1>4. ASSUME NEW w \in Writers, CallWrite(w) PROVE Numbered'
  BY <1>1, <1>4 DEF CallWrite
<1>5. CASE Peer
  BY <1>1, <1>5, SendKeepsNumbered DEF Peer, PeerReads, Down
<1>6. CASE UNCHANGED vars
  BY <1>1, <1>6 DEF vars
<1> QED
  BY <1>2, <1>3, <1>4, <1>5, <1>6 DEF Next

(* A frame the peer sends arrives with its payload, if it carries one that *)
(* Read will come to.                                                      *)
LEMMA SendIsStep ==
  ASSUME Typed, Typed', OrderInv, Numbered, synced, NEW f \in PeerFrames, PeerSends(f)
  PROVE  Stream!StreamNext \/ UNCHANGED Stream!streamVars
<1> DEFINE w == Wire(f)
           l == Len(in)
           p == PayloadsOf(in, l)
           b == Bytes(NextByte, f.size)
<1>1. /\ in' = Append(in, w) /\ in \in Seq(WireFrame) /\ w \in WireFrame
      /\ UNCHANGED <<frame, reader, result, got, synced>>
      /\ Len(sent) < MaxFrames
  BY WireTyped DEF Typed, PeerSends, readVars
<1>2. w.first = NextByte /\ w.here = f.size
  BY DEF Wire
<1> HIDE DEF w
<1>3. l \in Nat /\ Len(in') = l + 1 /\ in'[l + 1] = w /\ \A i \in 1 .. l : in'[i] = in[i]
  BY <1>1
<1>4. Chunk' = Chunk /\ Left' = Left /\ (Reading' <=> Reading)
  BY <1>1, ChunkKept DEF Left, Reading
<1>5. p \in Seq(Seq(Int)) /\ Left \in Seq(Seq(Int))
  BY LeftTyped
<1>6. PayloadsOf(in', l + 1) = Longer(p, in', l + 1)
  <2>1. PayloadsOf(in', l + 1) = Longer(PayloadsOf(in', l), in', l + 1)
    BY <1>3, PayloadsUnfold
  <2>2. PayloadsOf(in', l) = p
    <3> HIDE DEF l
    <3>1. PayloadsOf(in', l) = PayloadsOf(in, l)
      BY <1>3, SamePayloads
    <3> QED
      BY <3>1
  <2> QED
    BY <2>1, <2>2
<1>7. CASE ~Reading
  <2>1. Pending' = Pending
    BY <1>1, <1>4, <1>7, WhatIsPending, PendingNext
  <2> QED
    BY <1>1, <1>4, <2>1, NoStep
<1>8. CASE Reading /\ ~Carries(in', l + 1)
  <2>1. PayloadsOf(in', Len(in')) = p
    BY <1>3, <1>6, <1>8 DEF Longer
  <2>2. Pending' = Left' \o PayloadsOf(in', Len(in')) /\ Pending = Left \o p
    BY <1>1, <1>4, <1>8, WhatIsPending, PendingNext
  <2>3. Pending' = Pending
    BY <1>4, <2>1, <2>2
  <2> QED
    BY <1>1, <1>4, <2>3, NoStep
<1>9. CASE Reading /\ Carries(in', l + 1)
  <2>1. PayloadsOf(in', Len(in')) = Append(p, b)
    BY <1>2, <1>3, <1>6, <1>9 DEF Longer
  <2>2. Pending' = Left' \o PayloadsOf(in', Len(in')) /\ Pending = Left \o p
    BY <1>1, <1>4, <1>9, WhatIsPending, PendingNext
  <2>3. f.size \in 0 .. MaxSize /\ NextByte \in Nat
    BY PeerFramesAssumption, NextByteTyped DEF Frame
  <2>4. b \in Seq(Int)
    BY <2>3, BytesAre
  <2>5. Pending' = Append(Pending, b)
    <3> DEFINE x == Left
    <3>1. x \in Seq(Seq(Int))
      BY <1>5
    <3> HIDE DEF b, p, x
    <3>2. Append(x \o p, b) = x \o Append(p, b)
      BY <1>5, <2>4, <3>1, AppendBehind
    <3>3. Pending' = x \o Append(p, b) /\ Pending = x \o p
      BY <1>4, <2>1, <2>2 DEF x
    <3> QED
      BY <3>2, <3>3
  <2>6. b \in PeerPayloads
    <3> DEFINE n == Len(sent)
               c == n * MaxSize
               d == MaxFrames * MaxSize
    <3>1. n \in Nat /\ n <= MaxFrames /\ MaxFrames \in Nat /\ MaxSize \in Nat
      BY <1>1, NumbersAssumption, PeerFramesAssumption DEF Typed
    <3>2. c \in Nat /\ d \in Nat /\ c <= d
      <4> HIDE DEF n
      <4> QED
        BY <3>1
    <3>3. NextByte \in 1 .. 1 + c
      BY DEF Numbered
    <3> HIDE DEF c, d
    <3>4. NextByte \in 1 .. 1 + d
      BY <3>2, <3>3
    <3> QED
      BY <2>3, <3>4 DEF PeerPayloads, d
  <2>7. Stream!Arrive(b)
    BY <1>1, <1>4, <2>5 DEF Stream!Arrive
  <2> QED
    BY <2>6, <2>7 DEF Stream!StreamNext
<1> QED
  BY <1>7, <1>8, <1>9

(* What the goroutines write. *)
LEMMA WriteIsStep ==
  ASSUME Typed, Typed', WireInv, OrderInv, synced, NEW t \in Tasks, WriteStep(t)
  PROVE  Stream!StreamNext \/ UNCHANGED Stream!streamVars
<1> USE DEF readVars
<1>1. UNCHANGED <<in, frame, got, synced>>
  BY DEF WriteStep, Lock, Push, PushLost, Written, WriteFails
<1>2. CASE UNCHANGED <<reader, result>>
  <2>1. Pending' = Pending /\ Chunk' = Chunk
    BY <1>1, <1>2, PendingKept, ChunkKept DEF Reading
  <2> QED
    BY <1>1, <2>1, NoStep
<1>3. CASE (Written(t) \/ WriteFails(t)) /\ t = Reader
  <2>1. reader \in {"pong", "refuse"} /\ result.err # "EOF"
    <3>1. wio = Reader
      BY <1>3 DEF Written, WriteFails
    <3>2. ReaderWrites
      BY <3>1 DEF WireInv, OneWrites
    <3> QED
      BY <3>2 DEF ReaderWrites, OrderInv, FrameKept
  <2>2. \/ reader = "refuse" /\ result' = [n |-> 0, err |-> "EOF"]
        \/ reader = "pong" /\ reader' = "header" /\ result' = result
        \/ reader = "pong" /\ reader' = "idle" /\ result' = [n |-> 0, err |-> "other"]
    BY <1>3, <2>1 DEF Written, WriteFails, Resume, Returns
  <2>3. Reading' <=> Reading
    BY <1>1, <2>1, <2>2 DEF Reading
  <2>4. Pending' = Pending
    BY <1>1, <2>3, PendingKept
  <2>5. CASE result' = result
    <3>1. Chunk' = Chunk
      BY <1>1, <2>5, ChunkKept
    <3> QED
      BY <1>1, <2>4, <3>1, NoStep
  <2>6. CASE result'.n = 0
    <3>1. Chunk' = << >>
      BY <1>1, <2>6, NothingReturned
    <3> QED
      BY <1>1, <2>4, <3>1, FailIsStep
  <2> QED
    BY <2>2, <2>5, <2>6
<1>4. UNCHANGED <<reader, result>> \/ ((Written(t) \/ WriteFails(t)) /\ t = Reader)
  BY DEF WriteStep, Lock, Push, PushLost, Written, WriteFails, Resume
<1> QED
  BY <1>2, <1>3, <1>4

LEMMA PingIsStep ==
  ASSUME Typed, Typed', OrderInv, synced, ReadPing
  PROVE  Stream!StreamNext \/ UNCHANGED Stream!streamVars
<1> DEFINE h == in[1]
           n == Least(h.here, MaxControl)
           cut == h.here < Least(h.size, MaxControl)
<1>1. /\ reader = "header" /\ in # << >> /\ in' = Tail(in)
      /\ Head(in).op = "ping" /\ ~WrongMask(Head(in))
      /\ UNCHANGED <<frame, got, synced>>
  BY DEF ReadPing, Header
<1>2. /\ Head(in) = h /\ Reading /\ InLine /\ frame = NoFrame
      /\ Stops(h) => Pending = << >>
  BY <1>1, AtAHeader
<1>3. /\ \/ cut /\ result' = [n |-> 0, err |-> "other"] /\ reader' = "idle"
         \/ n = 0 /\ result' = [n |-> 0, err |-> "EOF"] /\ reader' = "idle"
         \/ n > 0 /\ result' = result /\ reader' = "pong"
  BY <1>2 DEF ReadPing, Returns
<1>4. /\ h.op = "ping" /\ ~WrongMask(h) /\ h.here \in Nat /\ h.size \in Nat /\ h.here <= h.size
  BY <1>1, <1>2, TailTyped DEF WireFrame
<1>5. MaxControl \in Nat \ {0}
  BY NumbersAssumption
<1> HIDE DEF h
<1>6. Stops(h) <=> h.here = 0 \/ h.size = 0
  BY <1>4 DEF Stops, Ends
<1>7. Stops(h) <=> h.here = 0
  BY <1>4, <1>6
<1>8. n = 0 <=> h.here = 0
  BY <1>4, <1>5 DEF Least
<1>9. CASE cut /\ result' = [n |-> 0, err |-> "other"] /\ reader' = "idle"
  <2>1. Reading' /\ Chunk' = << >>
    BY <1>1, <1>2, <1>9, NothingReturned DEF Reading
  <2>2. CASE Stops(h)
    <3>1. h.here # h.size
      BY <1>4, <1>9 DEF Least
    <3>2. Len(in) = 1 /\ Tail(in) = << >>
      <4>1. /\ in \in Seq(WireFrame) /\ Len(in) \in Nat \ {0} /\ Tail(in) \in Seq(WireFrame)
            /\ Len(Tail(in)) = Len(in) - 1
        BY <1>1, TailTyped DEF Typed
      <4>2. ~(1 < Len(in))
        BY <1>2, <3>1, <4>1 DEF InLine, h
      <4>3. Len(Tail(in)) = 0
        BY <4>1, <4>2
      <4> QED
        BY <4>1, <4>2, <4>3
    <3>3. Left' = << >>
      BY <1>1, <1>2 DEF Left, NoFrame
    <3>4. PayloadsOf(in', Len(in')) = << >>
      <4>1. Len(in') = 0
        BY <1>1, <3>2
      <4> QED
        BY <4>1, PayloadsUnfold
    <3>5. Pending' = << >> \o << >>
      BY <1>1, <2>1, <3>3, <3>4, PendingNext
    <3>6. Pending' = Pending
      BY <1>2, <2>2, <3>5
    <3> QED
      BY <1>1, <2>1, <3>6, FailIsStep
  <2>3. CASE ~Stops(h)
    <3>1. Pending' = Pending
      BY <1>1, <1>2, <1>4, <2>1, <2>3, ControlPassed DEF h
    <3> QED
      BY <1>1, <2>1, <3>1, FailIsStep
  <2> QED
    BY <2>2, <2>3
<1>10. CASE n = 0 /\ result' = [n |-> 0, err |-> "EOF"] /\ reader' = "idle"
  <2>1. ~Reading' /\ Chunk' = << >>
    BY <1>1, <1>10, NothingReturned DEF Reading
  <2>2. Pending' = Pending
    BY <1>1, <1>2, <1>7, <1>8, <1>10, <2>1, PendingNext
  <2> QED
    BY <1>1, <2>1, <2>2, FailIsStep
<1>11. CASE n > 0 /\ result' = result /\ reader' = "pong"
  <2>1. Reading' /\ Chunk' = Chunk
    BY <1>1, <1>2, <1>11, ChunkKept DEF Reading
  <2>2. ~Stops(h)
    BY <1>7, <1>8, <1>11
  <2>3. Pending' = Pending
    BY <1>1, <1>2, <1>4, <2>1, <2>2, ControlPassed DEF h
  <2> QED
    BY <1>1, <2>1, <2>3, NoStep
<1> QED
  BY <1>3, <1>9, <1>10, <1>11

(* What the reader does. *)
LEMMA ReadIsStep ==
  ASSUME Typed, Typed', OrderInv, synced, synced', Read
  PROVE  Stream!StreamNext \/ UNCHANGED Stream!streamVars
<1>1. CASE CallRead
  <2>1. UNCHANGED <<in, frame, got, result>> /\ (Reading' <=> Reading)
    BY <1>1 DEF CallRead, Reading
  <2> QED
    BY <2>1, PendingKept, ChunkKept, NoStep
<1>2. CASE RefuseFrame
  <2>1. /\ reader = "header" /\ in # << >> /\ WrongMask(Head(in)) /\ reader' = "refuse"
        /\ UNCHANGED <<got, result>>
    BY <1>2 DEF RefuseFrame, Header
  <2>2. Pending = << >>
    <3>1. Head(in) = in[1]
      BY <2>1, AtAHeader
    <3>2. Stops(in[1])
      BY <2>1, <3>1 DEF Stops, Ends
    <3> QED
      BY <2>1, <3>2, AtAHeader
  <2>3. Pending' = << >>
    BY <2>1 DEF Pending
  <2> QED
    BY <2>1, <2>2, <2>3, ChunkKept, NoStep
<1>3. CASE OpenFrame
  BY <1>3, OpenIsNoStep
<1>4. CASE ReadClose
  <2>1. /\ reader = "header" /\ in # << >> /\ Head(in).op = "close"
        /\ result' = [n |-> 0, err |-> "EOF"] /\ got' = got
    BY <1>4 DEF ReadClose, Header, Returns
  <2>2. Pending = << >>
    <3>1. Head(in) = in[1]
      BY <2>1, AtAHeader
    <3>2. Stops(in[1])
      BY <2>1, <3>1 DEF Stops, Ends
    <3> QED
      BY <2>1, <3>2, AtAHeader
  <2>3. Pending' = << >> /\ Chunk' = << >>
    BY <2>1, NothingReturned DEF Pending
  <2> QED
    BY <2>2, <2>3, FailIsStep
<1>5. CASE ReadPing
  BY <1>5, PingIsStep
<1>6. CASE ReadPong
  <2>1. /\ reader = "header" /\ in # << >> /\ Head(in).op = "pong" /\ ~WrongMask(Head(in))
        /\ Head(in).size = 0 /\ in' = Tail(in)
        /\ result' = [n |-> 0, err |-> "other"] /\ reader' = "idle"
        /\ UNCHANGED <<frame, got>>
    BY <1>6 DEF ReadPong, Header, Returns
  <2>2. Head(in) = in[1]
    BY <2>1, AtAHeader
  <2>3. ~Stops(in[1]) /\ in[1].op # "data"
    BY <2>1, <2>2 DEF Stops, Ends
  <2>4. Reading' /\ Chunk' = << >>
    BY <2>1, NothingReturned DEF Reading
  <2>5. Pending' = Pending
    BY <2>1, <2>3, <2>4, ControlPassed
  <2> QED
    BY <2>4, <2>5, FailIsStep
<1>7. CASE Misread
  BY <1>7 DEF Misread
<1>8. CASE EndFrame
  <2>1. /\ reader = "payload" /\ frame.here = 0 /\ frame' = NoFrame /\ reader' = "header"
        /\ UNCHANGED <<in, result, got>>
    BY <1>8 DEF EndFrame, Typed
  <2>2. Left = << >> /\ Left' = << >> /\ in' = in /\ (Reading' <=> Reading)
    BY <2>1 DEF Left, NoFrame, Reading
  <2>3. Pending' = Pending
    <3>1. Pending = IF Reading THEN Left \o PayloadsOf(in, Len(in)) ELSE << >>
      BY WhatIsPending
    <3>2. Pending' = IF Reading' THEN Left' \o PayloadsOf(in', Len(in')) ELSE << >>
      BY PendingNext
    <3> QED
      BY <2>2, <3>1, <3>2, Zenon
  <2> QED
    BY <2>1, <2>3, ChunkKept, NoStep
<1>9. CASE ReadEnd
  <2>1. /\ reader = "header" /\ in = << >> /\ result' = [n |-> 0, err |-> "EOF"] /\ got' = got
    BY <1>9 DEF ReadEnd, Returns
  <2>2. frame = NoFrame /\ Left = << >>
    BY <2>1 DEF OrderInv, FrameKept, Left, NoFrame
  <2>3. PayloadsOf(in, Len(in)) = << >>
    <3>1. Len(in) = 0
      BY <2>1
    <3> QED
      BY <3>1, PayloadsUnfold
  <2>4. Pending = << >>
    BY <2>2, <2>3, WhatIsPending
  <2>5. Pending' = << >> /\ Chunk' = << >>
    BY <2>1, NothingReturned DEF Pending
  <2> QED
    BY <2>4, <2>5, FailIsStep
<1>10. CASE ReadReset
  <2>1. /\ reader \in {"header", "payload"} /\ UNCHANGED <<in, frame, got>>
        /\ result' = [n |-> 0, err |-> "other"] /\ reader' = "idle"
    BY <1>10 DEF ReadReset, Returns
  <2>2. Reading' <=> Reading
    BY <2>1 DEF Reading, OrderInv, FrameKept
  <2>3. Chunk' = << >> /\ Pending' = Pending
    BY <2>1, <2>2, NothingReturned, PendingKept
  <2> QED
    BY <2>3, FailIsStep
<1>11. CASE Hangup
  <2>1. UNCHANGED <<in, frame, got, result>> /\ (Reading' <=> Reading)
    BY <1>11 DEF Hangup, readVars, Reading
  <2> QED
    BY <2>1, PendingKept, ChunkKept, NoStep
<1>12. ASSUME NEW n \in 1 .. Size, ReadPayload(n) PROVE Stream!StreamNext
  BY <1>12, PayloadIsReturned
<1> QED
  BY <1>1, <1>2, <1>3, <1>4, <1>5, <1>6, <1>7, <1>8, <1>9, <1>10, <1>11, <1>12 DEF Read

LEMMA StepStream ==
  ASSUME Typed, Typed', WireInv, OrderInv, Numbered, [Next]_vars
  PROVE  [Stream!StreamNext]_(Stream!streamVars)
<1>1. CASE ~synced
  BY <1>1 DEF Stream!StreamNext
<1>2. CASE ~synced'
  BY <1>2 DEF Stream!StreamNext, Stream!GoAstray
<1>3. CASE synced /\ synced'
  <2>1. CASE Read
    BY <1>3, <2>1, ReadIsStep
  <2>2. ASSUME NEW t \in Tasks, WriteStep(t)
        PROVE  Stream!StreamNext \/ UNCHANGED Stream!streamVars
    BY <1>3, <2>2, WriteIsStep
  <2>3. ASSUME NEW w \in Writers, CallWrite(w) PROVE UNCHANGED Stream!streamVars
    <3>1. UNCHANGED <<in, frame, got, result>> /\ (Reading' <=> Reading)
      BY <2>3 DEF CallWrite, readVars, Reading
    <3> QED
      BY <1>3, <3>1, PendingKept, ChunkKept, NoStep
  <2>4. ASSUME NEW f \in PeerFrames, PeerSends(f)
        PROVE  Stream!StreamNext \/ UNCHANGED Stream!streamVars
    BY <1>3, <2>4, SendIsStep
  <2>5. CASE PeerReads \/ UNCHANGED vars
    <3>1. UNCHANGED <<in, frame, got, result>> /\ (Reading' <=> Reading)
      BY <2>5 DEF PeerReads, vars, readVars, Reading
    <3> QED
      BY <1>3, <3>1, PendingKept, ChunkKept, NoStep
  <2>6. ASSUME NEW how \in {"eof", "reset"}, NEW k \in 0 .. Len(in),
               NEW m \in 0 .. IF k = 0 THEN frame.here ELSE in[k].size, Down(how, k, m)
        PROVE  Stream!StreamNext \/ UNCHANGED Stream!streamVars
    BY <1>3, <2>6, DownIsStep
  <2> QED
    BY <2>1, <2>2, <2>3, <2>4, <2>5, <2>6 DEF Next, Peer
<1> QED
  BY <1>1, <1>2, <1>3

LEMMA InitStream == Init => Stream!StreamInit
<1> SUFFICES ASSUME Init PROVE Stream!StreamInit
  OBVIOUS
<1>1. synced /\ in = << >> /\ Len(in) = 0 /\ frame = NoFrame /\ got = << >>
      /\ result = [n |-> 0, err |-> "nil"] /\ reader = "idle"
  BY DEF Init
<1>2. Left = << >> /\ Reading
  BY <1>1 DEF Left, NoFrame, Reading
<1>3. Pending = << >>
  <2>1. PayloadsOf(in, Len(in)) = << >>
    BY <1>1, PayloadsUnfold
  <2> QED
    BY <1>1, <1>2, <2>1, WhatIsPending
<1>4. Chunk = << >>
  BY <1>1 DEF Chunk
<1> QED
  BY <1>1, <1>3, <1>4 DEF Stream!StreamInit

(* Read keeps the promise of FrameStream: the payloads of the data frames, *)
(* in order, in chunks that fit the buffer and never reach across the end  *)
(* of a frame, until the end or until a pong leads it astray.              *)
THEOREM ReadKeepsItsPromise == Spec => ImplementsStream
<1> DEFINE Inv == Typed /\ WireInv /\ OrderInv /\ Numbered
<1>1. Init => Inv
  BY InitTyped, InitWire, InitOrder, InitNumbered
<1>2. Inv /\ [Next]_vars => Inv'
  BY StepTyped, StepWire, StepOrder, StepNumbered
<1>3. Inv /\ Inv' /\ [Next]_vars => [Stream!StreamNext]_(Stream!streamVars)
  BY StepStream
<1> QED
  BY <1>1, <1>2, <1>3, InitStream, PTL DEF Spec, ImplementsStream, Stream!StreamSpec
=================================================================================
