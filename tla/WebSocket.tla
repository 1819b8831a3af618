------------------------------- MODULE WebSocket -------------------------------
(***************************************************************************)
(* One end of a connection of the WebSocket library the server is built on *)
(* (code.google.com/p/go.net/websocket): one goroutine calls Conn.Read in  *)
(* a loop, as NanoServer does, others call Conn.Write.  Two locks, rio for *)
(* reading and wio for writing; the reader takes wio as well when it       *)
(* answers a ping or refuses a frame.                                      *)
(*                                                                         *)
(* Incoming frames are records.  The payload bytes of the peer's data      *)
(* frames are numbered in the order he sends them, so a payload is an      *)
(* interval of numbers.  Outgoing frames are pieces, one for each write    *)
(* that reaches the TCP connection.  TCP may deliver a payload in any      *)
(* portions; a connection that goes down may lose any end of what was      *)
(* under way.                                                              *)
(*                                                                         *)
(* The caller stops at end-of-file; the HTTP server then closes the        *)
(* connection.  The peer is a browser: he may send any frames, and reads   *)
(* what he is sent.                                                        *)
(***************************************************************************)
EXTENDS Integers, Sequences

CONSTANTS
  IsServer,    \* IsServerConn
  Writers,     \* the goroutines that call Write
  Reader,      \* the goroutine that calls Read
  Nobody,
  Size,        \* the length of the buffer given to Read
  MaxControl,  \* maxControlFramePayloadLength
  Pieces,      \* the pieces a data frame is written in
  Window,      \* pieces written that the peer need not have read yet
  PeerFrames,  \* bound: the frames the peer sends are of these
  MaxFrames,   \* bound: frames the peer sends
  MaxSize,     \* bound: the payload of a frame of the peer
  MaxWrites    \* bound: calls of Write by one goroutine

(* Continuation, text, binary and reserved opcodes are all "data" to Read. *)
Opcode == {"data", "close", "ping", "pong"}

Frame == [op : Opcode, masked : BOOLEAN, size : Nat]

ASSUME IsServerAssumption == IsServer \in BOOLEAN
ASSUME WritersAssumption == Reader \notin Writers /\ Nobody \notin Writers \cup {Reader}
ASSUME NumbersAssumption ==
  /\ Size \in Nat \ {0}
  /\ MaxControl \in Nat \ {0}
  /\ Pieces \in Nat \ {0}
  /\ Window \in Nat \ {0}
  /\ MaxFrames \in Nat
  /\ MaxWrites \in Nat
ASSUME PeerFramesAssumption ==
  /\ PeerFrames \subseteq Frame
  /\ MaxSize \in Nat
  /\ \A f \in PeerFrames : f.size <= MaxSize

VARIABLES
  link,     \* the TCP connection: "up", "eof", "reset", or closed by this end
  in,       \* the frames that have arrived and whose header is not read yet
  sent,     \* history: all frames the peer has sent
  frame,    \* Conn.frameReader
  reader,   \* where the call of Read stands
  result,   \* what the latest call of Read returned
  got,      \* history: the bytes Read has returned
  synced,   \* FALSE once payload bytes have been taken for a header
  wio,      \* the goroutine that holds the lock wio
  todo,     \* the pieces a goroutine still has to write
  written,  \* the number of calls of Write of a goroutine
  out,      \* all pieces written while the connection was up, in order
  drained   \* how many of them the peer has read

readVars  == <<frame, reader, result, got, synced>>
writeVars == <<wio, todo, written, out, drained>>
vars == <<link, in, sent, readVars, writeVars>>

-----------------------------------------------------------------------------
(* Data. *)

Tasks == Writers \cup {Reader}

(* The number of the first payload byte after the frame f of sent or in. *)
After(f) == IF f.op = "data" THEN f.first + f.size ELSE f.first

NextByte == IF sent = << >> THEN 1 ELSE After(sent[Len(sent)])

(* A frame on its way: first numbers its payload, nr is its place among    *)
(* the frames of the peer, here counts the payload bytes not lost.         *)
Wire(f) == [op |-> f.op, masked |-> f.masked, size |-> f.size, first |-> NextByte,
            nr |-> Len(sent) + 1, here |-> f.size]

NoFrame == [size |-> 0, masked |-> FALSE, first |-> 0, left |-> 0, here |-> 0, pos |-> 0]

(* Mutant of NewFrame: the limit is one too small. *)
NewFrameShort(h) == [size |-> h.size, masked |-> h.masked, first |-> h.first,
                     left |-> h.size - 1, here |-> h.here, pos |-> 0]

(* NewFrameReader: left is the limit of the reader, pos the position in    *)
(* the masking key.                                                        *)
NewFrame(h) == [size |-> h.size, masked |-> h.masked, first |-> h.first,
                left |-> h.size, here |-> h.here, pos |-> 0]

Garbled == 0

(* The byte at an offset of a payload after Read has applied the key.      *)
UnmaskedAt(f, offset, pos) ==
  IF f.masked /\ pos % 4 # offset % 4 THEN Garbled ELSE f.first + offset

Piece == [by : Tasks, kind : Opcode, nr : Nat, part : Nat, of : Nat]

(* The pieces of a frame written by task t as its n-th frame. *)
PiecesOf(t, kind, n, of) ==
  [k \in 1 .. of |-> [by |-> t, kind |-> kind, nr |-> n, part |-> k, of |-> of]]

Least(a, b) == IF a < b THEN a ELSE b

TypeOK ==
  /\ link \in {"up", "eof", "reset", "closed"}
  /\ in \in Seq([op : Opcode, masked : BOOLEAN, size : Nat, first : Nat,
                 nr : Nat, here : Nat])
  /\ Len(sent) <= MaxFrames
  /\ frame \in [size : Nat, masked : BOOLEAN, first : Nat, left : Nat, here : Nat,
                pos : Nat]
  /\ frame.here <= frame.left /\ frame.left <= frame.size
  /\ reader \in {"idle", "header", "payload", "pong", "refuse"}
  /\ result \in [n : Nat, err : {"nil", "EOF", "other"}]
  /\ result.n <= Size
  /\ got \in Seq(Nat)
  /\ synced \in BOOLEAN
  /\ wio \in Tasks \cup {Nobody}
  /\ todo \in [Tasks -> Seq(Piece)]
  /\ out \in Seq(Piece)
  /\ written \in [Writers -> 0 .. MaxWrites]
  /\ drained \in 0 .. Len(out)

Init ==
  /\ link = "up"
  /\ in = << >>
  /\ sent = << >>
  /\ frame = NoFrame
  /\ reader = "idle"
  /\ result = [n |-> 0, err |-> "nil"]
  /\ got = << >>
  /\ synced = TRUE
  /\ wio = Nobody
  /\ todo = [t \in Tasks |-> << >>]
  /\ written = [w \in Writers |-> 0]
  /\ out = << >>
  /\ drained = 0

-----------------------------------------------------------------------------
(* The peer and the network. *)

PeerSends(f) ==
  /\ link = "up"
  /\ Len(sent) < MaxFrames
  /\ in' = Append(in, Wire(f))
  /\ sent' = Append(sent, Wire(f))
  /\ UNCHANGED <<link, readVars, writeVars>>

PeerReads ==
  /\ drained < Len(out)
  /\ drained' = drained + 1
  /\ UNCHANGED <<link, in, sent, readVars, wio, todo, written, out>>

(* The connection goes down, in order or by a reset: k frames have arrived, *)
(* of the last of them, or of the frame being read, the first m bytes.     *)
Down(how, k, m) ==
  /\ link = "up"
  /\ link' = how
  /\ \/ /\ k > 0
        /\ m <= in[k].size
        /\ in' = [SubSeq(in, 1, k) EXCEPT ![k].here = m]
        /\ UNCHANGED frame
     \/ /\ k = 0
        /\ m <= frame.here
        /\ in' = << >>
        /\ frame' = [frame EXCEPT !.here = m]
  /\ UNCHANGED <<sent, reader, result, got, synced, writeVars>>

-----------------------------------------------------------------------------
(* Conn.Read, which holds rio throughout. *)

Returns(n, err) ==
  /\ reader' = "idle"
  /\ result' = [n |-> n, err |-> err]

(* Mutant of CallRead: the unread rest of a frame is forgotten. *)
CallReadAnew ==
  /\ reader = "idle" /\ result.err # "EOF"
  /\ frame' = NoFrame
  /\ reader' = "header"
  /\ UNCHANGED <<link, in, sent, result, got, synced, writeVars>>

(* The caller reads on after errors and stops at end-of-file. *)
CallRead ==
  /\ reader = "idle"
  /\ result.err # "EOF"
  /\ reader' = IF frame = NoFrame THEN "header" ELSE "payload"
  /\ UNCHANGED <<link, in, sent, frame, result, got, synced, writeVars>>

(* NewFrameReader has read a header. *)
Header(op) ==
  /\ reader = "header"
  /\ synced
  /\ in # << >>
  /\ Head(in).op = op

WrongMask(h) == h.masked # IsServer

(* HandleFrame: a frame masked or not masked against the rules is refused  *)
(* with a close frame, and end-of-file reported.                           *)
RefuseFrame ==
  /\ \E op \in Opcode : Header(op)
  /\ WrongMask(Head(in))
  /\ in' = Tail(in)
  /\ todo' = [todo EXCEPT ![Reader] = PiecesOf(Reader, "close", Head(in).nr, 2)]
  /\ reader' = "refuse"
  /\ UNCHANGED <<link, sent, frame, result, got, synced, wio, written, out, drained>>

OpenFrame ==
  /\ Header("data")
  /\ ~WrongMask(Head(in))
  /\ in' = Tail(in)
  /\ frame' = NewFrame(Head(in))
  /\ reader' = "payload"
  /\ UNCHANGED <<link, sent, result, got, synced, writeVars>>

(* A close frame is not answered. *)
ReadClose ==
  /\ Header("close")
  /\ ~WrongMask(Head(in))
  /\ in' = Tail(in)
  /\ Returns(0, "EOF")
  /\ UNCHANGED <<link, sent, frame, got, synced, writeVars>>

(* Mutant of ReadPing: the payload is echoed whatever its length. *)
ReadPingWhole ==
  LET h == Head(in)
  IN  /\ Header("ping") /\ ~WrongMask(h) /\ h.here > 0
      /\ in' = Tail(in)
      /\ todo' = [todo EXCEPT ![Reader] = PiecesOf(Reader, "pong", h.nr, 1 + h.here)]
      /\ reader' = "pong"
      /\ UNCHANGED <<link, sent, frame, result, got, synced, wio, written, out, drained>>

(* Mutant of ReadPing: no pong while somebody else is writing. *)
ReadPingUnlessBusy ==
  LET h == Head(in)
  IN  /\ Header("ping") /\ ~WrongMask(h) /\ h.here > 0
      /\ in' = Tail(in)
      /\ IF wio # Nobody THEN reader' = "header" /\ UNCHANGED todo
         ELSE /\ todo' = [todo EXCEPT ![Reader] =
                           PiecesOf(Reader, "pong", h.nr, 1 + Least(h.here, MaxControl))]
              /\ reader' = "pong"
      /\ UNCHANGED <<link, sent, frame, result, got, synced, wio, written, out, drained>>

(* A ping: as much of its payload as fits the buffer of maxControl bytes   *)
(* is read, the rest discarded.  io.ReadFull reports end-of-file for an    *)
(* empty payload and so does Read.  A reset is reported only if the buffer *)
(* was not filled before it.                                               *)
ReadPing ==
  LET h == Head(in)
      n == Least(h.here, MaxControl)
      cut == h.here < Least(h.size, MaxControl)
  IN  /\ Header("ping")
      /\ ~WrongMask(h)
      /\ in' = Tail(in)
      /\ \/ /\ cut /\ link = "reset"
            /\ Returns(0, "other")
            /\ link' = "eof"
            /\ UNCHANGED todo
         \/ /\ n = 0
            /\ ~(cut /\ link = "reset")
            /\ Returns(0, "EOF")
            /\ UNCHANGED <<link, todo>>
         \/ /\ n > 0
            /\ ~(cut /\ link = "reset")
            /\ todo' = [todo EXCEPT ![Reader] = PiecesOf(Reader, "pong", h.nr, 1 + n)]
            /\ reader' = "pong"
            /\ UNCHANGED <<link, result>>
      /\ UNCHANGED <<sent, frame, got, synced, wio, written, out, drained>>

(* A pong is not implemented: its payload is left in the stream, where the *)
(* next header is expected.                                                *)
ReadPong ==
  /\ Header("pong")
  /\ ~WrongMask(Head(in))
  /\ synced' = (Head(in).size = 0)
  /\ in' = IF Head(in).size = 0 THEN Tail(in) ELSE in
  /\ Returns(0, "other")
  /\ UNCHANGED <<link, sent, frame, got, writeVars>>

(* Payload is taken for a header.  What Read makes of it, and where in the *)
(* stream it goes on, is anybody's guess.                                  *)
Misread ==
  /\ reader = "header"
  /\ ~synced
  /\ in # << >>
  /\ \E k \in 1 .. Len(in) : in' = SubSeq(in, k + 1, Len(in))
  /\ \/ \E n \in 1 .. Size :
          /\ Returns(n, "nil")
          /\ got' = got \o [i \in 1 .. n |-> Garbled]
          /\ UNCHANGED todo
     \/ /\ \E err \in {"EOF", "other"} : Returns(0, err)
        /\ UNCHANGED <<got, todo>>
     \/ /\ todo' = [todo EXCEPT ![Reader] = PiecesOf(Reader, "pong", 0, 2)]
        /\ reader' = "pong"
        /\ UNCHANGED <<result, got>>
  /\ UNCHANGED <<link, sent, frame, synced, wio, written, out, drained>>

(* Mutant of ReadPayload: each call starts at the first byte of the key. *)
ReadPayloadKeyRestarts(n) ==
  LET offset == frame.size - frame.left
  IN  /\ reader = "payload" /\ n \in 1 .. frame.here /\ n <= Size
      /\ got' = got \o [i \in 1 .. n |-> UnmaskedAt(frame, offset + i - 1, i - 1)]
      /\ frame' = [frame EXCEPT !.left = @ - n, !.here = @ - n, !.pos = @ + n]
      /\ Returns(n, "nil")
      /\ UNCHANGED <<link, in, sent, synced, writeVars>>

(* frameReader.Read: what has arrived, up to the buffer and the limit.     *)
ReadPayload(n) ==
  LET offset == frame.size - frame.left
  IN  /\ reader = "payload"
      /\ n \in 1 .. frame.here
      /\ n <= Size
      /\ got' = got \o [i \in 1 .. n |->
                         UnmaskedAt(frame, offset + i - 1, frame.pos + i - 1)]
      /\ frame' = [frame EXCEPT !.left = @ - n, !.here = @ - n, !.pos = @ + n]
      /\ Returns(n, "nil")
      /\ UNCHANGED <<link, in, sent, synced, writeVars>>

(* Mutant of EndFrame: the end of a frame is reported as end-of-file. *)
EndFrameIsEnd ==
  /\ reader = "payload" /\ (frame.left = 0 \/ (frame.here = 0 /\ link = "eof"))
  /\ frame' = NoFrame
  /\ Returns(0, "EOF")
  /\ UNCHANGED <<link, in, sent, got, synced, writeVars>>

(* The limit is reached, or the connection ended within the frame: on to   *)
(* the next header.                                                        *)
EndFrame ==
  /\ reader = "payload"
  /\ frame.left = 0 \/ (frame.here = 0 /\ link = "eof")
  /\ frame' = NoFrame
  /\ reader' = "header"
  /\ UNCHANGED <<link, in, sent, result, got, synced, writeVars>>

(* Nothing more arrives: end-of-file.  A reset is reported once, whether   *)
(* within a frame or between two, and end-of-file from then on.            *)
ReadEnd ==
  /\ reader = "header"
  /\ in = << >>
  /\ link = "eof"
  /\ Returns(0, "EOF")
  /\ UNCHANGED <<link, in, sent, frame, got, synced, writeVars>>

ReadReset ==
  /\ \/ reader = "header" /\ in = << >>
     \/ reader = "payload" /\ frame.here = 0 /\ frame.left > 0
  /\ link = "reset"
  /\ link' = "eof"
  /\ Returns(0, "other")
  /\ UNCHANGED <<in, sent, frame, got, synced, writeVars>>

(* The handler has returned and the server closes the connection. *)
Hangup ==
  /\ reader = "idle"
  /\ result.err = "EOF"
  /\ link # "closed"
  /\ link' = "closed"
  /\ UNCHANGED <<in, sent, readVars, writeVars>>

-----------------------------------------------------------------------------
(* Conn.Write, and the reader's own writes: under wio, piece by piece. *)

CallWrite(w) ==
  /\ todo[w] = << >>
  /\ wio # w
  /\ written[w] < MaxWrites
  /\ written' = [written EXCEPT ![w] = @ + 1]
  /\ todo' = [todo EXCEPT ![w] = PiecesOf(w, "data", written[w] + 1, Pieces)]
  /\ UNCHANGED <<link, in, sent, readVars, wio, out, drained>>

(* Mutants of Lock: no mutual exclusion; one lock for reading and writing. *)
LockAnyway(t) ==
  /\ todo[t] # << >>
  /\ wio # t
  /\ wio' = t
  /\ UNCHANGED <<link, in, sent, readVars, todo, written, out, drained>>

LockBoth(t) ==
  /\ todo[t] # << >>
  /\ wio = Nobody
  /\ t # Reader => reader = "idle"
  /\ wio' = t
  /\ UNCHANGED <<link, in, sent, readVars, todo, written, out, drained>>

Lock(t) ==
  /\ todo[t] # << >>
  /\ wio = Nobody
  /\ wio' = t
  /\ UNCHANGED <<link, in, sent, readVars, todo, written, out, drained>>

(* TCP takes a piece while the peer is not too far behind. *)
Push(t) ==
  /\ wio = t
  /\ todo[t] # << >>
  /\ link = "up"
  /\ Len(out) - drained < Window
  /\ out' = Append(out, Head(todo[t]))
  /\ todo' = [todo EXCEPT ![t] = Tail(@)]
  /\ UNCHANGED <<link, in, sent, readVars, wio, written, drained>>

(* The peer is gone, but the write does not notice yet: TCP takes a piece   *)
(* that nobody will read.                                                  *)
PushLost(t) ==
  /\ wio = t
  /\ todo[t] # << >>
  /\ link \in {"eof", "reset"}
  /\ todo' = [todo EXCEPT ![t] = Tail(@)]
  /\ UNCHANGED <<link, in, sent, readVars, wio, written, out, drained>>

(* Read goes on after a pong; a pong that fails is an error of Read.  A    *)
(* refused frame ends in end-of-file either way.                           *)
Resume(t, ok) ==
  IF t # Reader THEN UNCHANGED <<reader, result>>
  ELSE IF reader = "refuse" THEN Returns(0, "EOF")
  ELSE IF ok THEN reader' = "header" /\ UNCHANGED result
  ELSE Returns(0, "other")

(* The whole frame is written, or the connection is gone and the write     *)
(* fails; the deferred Unlock runs in either case.                         *)
Written(t) ==
  /\ wio = t
  /\ todo[t] = << >>
  /\ wio' = Nobody
  /\ Resume(t, TRUE)
  /\ UNCHANGED <<link, in, sent, frame, got, synced, todo, written, out, drained>>

WriteFails(t) ==
  /\ wio = t
  /\ todo[t] # << >>
  /\ link # "up"
  /\ todo' = [todo EXCEPT ![t] = << >>]
  /\ wio' = Nobody
  /\ Resume(t, FALSE)
  /\ UNCHANGED <<link, in, sent, frame, got, synced, written, out, drained>>

-----------------------------------------------------------------------------
Read ==
  \/ CallRead \/ RefuseFrame \/ OpenFrame \/ ReadClose \/ ReadPing \/ ReadPong
  \/ Misread \/ EndFrame \/ ReadEnd \/ ReadReset \/ Hangup
  \/ \E n \in 1 .. Size : ReadPayload(n)

WriteStep(t) == Lock(t) \/ Push(t) \/ PushLost(t) \/ Written(t) \/ WriteFails(t)

Peer ==
  \/ \E f \in PeerFrames : PeerSends(f)
  \/ PeerReads
  \/ \E how \in {"eof", "reset"}, k \in 0 .. Len(in) :
       \E m \in 0 .. IF k = 0 THEN frame.here ELSE in[k].size : Down(how, k, m)

Next ==
  \/ Read
  \/ \E t \in Tasks : WriteStep(t)
  \/ \E w \in Writers : CallWrite(w)
  \/ Peer

Spec == Init /\ [][Next]_vars

(* Goroutines run; the browser's network process empties its socket         *)
(* whatever the page does.  Nobody owes a frame or a call of Write.        *)
Fairness ==
  /\ WF_vars(Read)
  /\ \A t \in Tasks : WF_vars(WriteStep(t))
  /\ WF_vars(PeerReads)

FairSpec == Spec /\ Fairness

-----------------------------------------------------------------------------
(* Properties. *)

(* Whatever portions TCP delivers and whatever buffers Read is given, the  *)
(* bytes it returns are the payload of the peer's data frames from the     *)
(* first on, in order and unmasked with the right byte of the key, until   *)
(* payload has been taken for a header (hybi.go:82-94, websocket.go:171).  *)
InOrder == synced => \A i \in 1 .. Len(got) : got[i] = i

(* The frames of Write, of pongs and of close frames are never interleaved *)
(* on the wire: they go out under the lock wio.                            *)
WholeFrames ==
  \A i \in 1 .. Len(out) :
    /\ i = 1 => out[i].part = 1
    /\ i > 1 => IF out[i - 1].part = out[i - 1].of THEN out[i].part = 1
                ELSE out[i] = [out[i - 1] EXCEPT !.part = @ + 1]

(* End-of-file, which NanoServer takes for "client disconnected"           *)
(* (websocket.go:56), is reported on a connection that is up only after a  *)
(* close frame, a frame masked against the rules, or an empty ping.        *)
Ends(f) == f.op = "close" \/ WrongMask(f) \/ (f.op = "ping" /\ f.size = 0)

NotTakenForGone ==
  result.err = "EOF" /\ link = "up" /\ synced =>
    \E i \in 1 .. Len(sent) : Ends(sent[i])

(* The k-th frame of the peer, a ping, has been answered in full with as   *)
(* much of its payload as a control frame may carry.                       *)
Ponged(k) ==
  \E i \in 1 .. Len(out) :
    /\ out[i].kind = "pong"
    /\ out[i].nr = k
    /\ out[i].part = out[i].of
    /\ out[i].of = 1 + Least(sent[k].size, MaxControl)

(* While the connection is up no ping is passed over: of the frames whose  *)
(* header has been read, each ping has been answered in full, but for the  *)
(* latest, whose pong may still be on its way out (hybi.go:288-302).       *)
NoPingForgotten ==
  link = "up" /\ synced /\ result.err # "EOF" /\ reader # "refuse" =>
    \A k \in 1 .. Len(sent) - Len(in) :
      sent[k].op = "ping" => Ponged(k) \/ (reader = "pong" /\ k = Len(sent) - Len(in))

(* A pong on the wire answers a ping of the peer with as much of its       *)
(* payload as a control frame may carry, and pongs go out in the order of  *)
(* the pings, also beside the frames of the writers.                       *)
PongsAnswerPings ==
  synced => \A i \in 1 .. Len(out) : out[i].kind = "pong" =>
    /\ out[i].nr \in 1 .. Len(sent) - Len(in)
    /\ sent[out[i].nr].op = "ping"
    /\ out[i].of = 1 + Least(sent[out[i].nr].size, MaxControl)
    /\ \A j \in 1 .. i : out[j].kind = "pong" => out[j].nr <= out[i].nr

(* Pings and pongs match, whatever is written in between and however long  *)
(* the reader waits for the lock: no ping is passed over, and no pong goes *)
(* out that is not an answer in its turn (hybi.go:288-302, 322-332).       *)
PongsMatchPings == NoPingForgotten /\ PongsAnswerPings

(* A ping is answered, also while others write and while the application   *)
(* leaves data unread in between, unless the connection ends first.        *)
PingAnswered ==
  \A k \in 1 .. MaxFrames :
    (k <= Len(sent) /\ sent[k].op = "ping") ~>
      (Ponged(k) \/ link # "up" \/ result.err = "EOF" \/ ~synced)

(* Every Write returns: nobody keeps the lock, nobody waits for the window *)
(* for ever.                                                               *)
WriteReturns == \A w \in Writers : todo[w] # << >> ~> todo[w] = << >>

-----------------------------------------------------------------------------
(* The promise of FrameStream: what is left of the frame being read and    *)
(* the payloads that have arrived, up to the first frame Read stops at.    *)
Stops(h) == \/ Ends(h)
            \/ h.op = "ping" /\ h.here = 0
            \/ h.op = "pong" /\ h.size > 0

Carries(s, i) ==
  /\ s[i].op = "data"
  /\ s[i].here > 0
  /\ \A j \in 1 .. i : ~Stops(s[j])

Bytes(first, n) == [i \in 1 .. n |-> first + i - 1]

(* The payloads of the first n frames of s. *)
PayloadsOf(s, n) ==
  LET payloads[i \in 0 .. n] ==
        IF i = 0 THEN << >>
        ELSE IF Carries(s, i) THEN Append(payloads[i - 1], Bytes(s[i].first, s[i].here))
        ELSE payloads[i - 1]
  IN  payloads[n]

(* What is left of the payload of the frame being read. *)
Left ==
  IF frame.here = 0 THEN << >>
  ELSE <<Bytes(frame.first + frame.size - frame.left, frame.here)>>

Pending ==
  IF result.err = "EOF" \/ reader = "refuse" THEN << >>
  ELSE Left \o PayloadsOf(in, Len(in))

Chunk == SubSeq(got, Len(got) - result.n + 1, Len(got))

PeerPayloads ==
  {Bytes(first, n) : first \in 1 .. 1 + MaxFrames * MaxSize, n \in 0 .. MaxSize}

Stream == INSTANCE FrameStream WITH
  Payloads <- PeerPayloads,
  pending <- Pending,
  chunk <- Chunk,
  astray <- ~synced

ImplementsStream == Stream!StreamSpec
=============================================================================
