------------------------------ MODULE CommandWire ------------------------------
(***************************************************************************)
(* How NanoServer takes commands out of a WebSocket: it reads into one     *)
(* buffer of MAX_CMD_SIZE bytes that is never cleared, looks for the       *)
(* delimiter among the first MAX_OP_LEN of them, takes what comes before   *)
(* for the operation and what comes after, up to the n bytes read, for     *)
(* its argument in JSON.  A chunk is whatever Conn.Read returned: the      *)
(* whole payload of a frame, or a part of it when the frame is longer than *)
(* the buffer or has not arrived completely.                               *)
(*                                                                         *)
(* Bytes are abstracted to tokens, the parts of words: an operation or the *)
(* delimiter is a word of one or more parts.  The JSON of an argument is   *)
(* any sequence of tokens, those of the delimiter and of operations        *)
(* included: pages put the names users type into it as they are.           *)
(***************************************************************************)
EXTENDS FrameStream, FiniteSets

CONSTANTS
  Words,        \* the words the bytes are abstracted to
  Commands,     \* the commands a page may send
  OpParts,      \* number of parts of each operation
  ArgBytes,     \* the JSON of each argument
  MaxOpLen,     \* MAX_OP_LEN; the buffer of MAX_CMD_SIZE bytes is Size
  MaxPayloads   \* bound: frames sent

(* The parts bytes are abstracted to. *)
Token == [word : Words, part : Nat, of : Nat]

ASSUME MaxOpLenAssumption == MaxOpLen \in 1 .. Size
ASSUME MaxPayloadsAssumption == MaxPayloads \in Nat
ASSUME PayloadsAssumption == Payloads \subseteq Seq(Token)
ASSUME PartsAssumption ==
  /\ "" \in Words /\ "|" \in Words
  /\ DOMAIN OpParts \subseteq Words
  /\ \A op \in DOMAIN OpParts : OpParts[op] \in Nat \ {0}

(* The arguments are objects, true and false: no JSON of one is the         *)
(* beginning of another's.                                                 *)
ASSUME ArgsAssumption ==
  /\ \A arg \in DOMAIN ArgBytes : ArgBytes[arg] \in Seq(Token) \ {<< >>}
  /\ \A arg, other \in DOMAIN ArgBytes : arg # other =>
       \E i \in 1 .. Len(ArgBytes[arg]) :
         i \in 1 .. Len(ArgBytes[other]) /\ ArgBytes[arg][i] # ArgBytes[other][i]

(* The operations of the server.  The delimiter is searched beyond the end *)
(* of each, and none contains it.  One can accept.                         *)
Operations == {"login", "pvp-request", "pvp-accept"}

ASSUME CommandsAssumption ==
  /\ Commands \subseteq [op : Operations, arg : DOMAIN ArgBytes]
  /\ Operations \subseteq DOMAIN OpParts
  /\ \A op \in Operations : OpParts[op] < MaxOpLen
  /\ "|" \notin DOMAIN OpParts
  /\ "true" \in DOMAIN ArgBytes

VARIABLES
  cmd,      \* the buffer
  n,        \* how many of its bytes the latest Read filled
  pc,       \* where NanoServer stands: "read", "handle", "panicked"
  login,    \* player.auth, kept from one command to the next
  up,       \* is the connection up?
  sent,     \* history: the payloads sent
  handled,  \* history: the commands carried out
  clean     \* history: did every read so far return one whole command?

serverVars == <<cmd, n, pc, login>>
wireVars == <<streamVars, serverVars, up, sent, handled, clean>>

-----------------------------------------------------------------------------
(* Data. *)

Word(w, k) == [i \in 1 .. k |-> [word |-> w, part |-> i, of |-> k]]

Delimiter == Word("|", 1)
Zero == Word("", 1)[1]

(* network.send: the name of the command, the delimiter, its JSON. *)
Encode(c) == Word(c.op, OpParts[c.op]) \o Delimiter \o ArgBytes[c.arg]

WellFormed(payload) == \E c \in Commands : payload = Encode(c)

(* The operation that is searched for. *)
Delimiters == {i \in 1 .. MaxOpLen : cmd[i] = Delimiter[1]}
OpIndex == CHOOSE i \in Delimiters : \A j \in Delimiters : i <= j
Op == SubSeq(cmd, 1, OpIndex - 1)
Is(op) == Op = Word(op, OpParts[op])

(* Mutants of Data: what lies beyond n is not cut off; a streaming decoder  *)
(* takes the first value after the delimiter, wherever the bytes read end. *)
DataUncut == SubSeq(cmd, OpIndex + 1, Size)
DataDecoded ==
  IF OpIndex < Size THEN SubSeq(cmd, OpIndex + 1, OpIndex + 1) ELSE << >>

(* The data of the command: up to n bytes, what follows is garbage. *)
Data == SubSeq(cmd, OpIndex + 1, n)

(* JSON.Unmarshal leaves its target alone when the data is not valid. *)
Decoded(target) ==
  IF \E arg \in DOMAIN ArgBytes : Data = ArgBytes[arg]
  THEN CHOOSE arg \in DOMAIN ArgBytes : Data = ArgBytes[arg]
  ELSE target

-----------------------------------------------------------------------------
WireInit ==
  /\ StreamInit
  /\ cmd = [i \in 1 .. Size |-> Zero]
  /\ n = 0
  /\ pc = "read"
  /\ login = ""
  /\ up = TRUE
  /\ sent = << >>
  /\ handled = << >>
  /\ clean = TRUE

PageSends(payload) ==
  /\ up
  /\ Len(sent) < MaxPayloads
  /\ Arrive(payload)
  /\ sent' = Append(sent, payload)
  /\ UNCHANGED <<serverVars, up, handled, clean>>

ConnectionLost(k, m) ==
  /\ up
  /\ up' = FALSE
  /\ Lose(k, m)
  /\ UNCHANGED <<serverVars, sent, handled, clean>>

(* Mutants of ReadCommand: n is that of the read before; a fresh buffer     *)
(* only as long as what was read.                                          *)
ReadCommandStaleN(k) ==
  /\ pc = "read"
  /\ Return(k)
  /\ cmd' = chunk' \o SubSeq(cmd, k + 1, Size)
  /\ pc' = "handle"
  /\ clean' = (clean /\ WellFormed(chunk') /\ chunk' = Head(pending))
  /\ UNCHANGED <<n, login, up, sent, handled>>

ReadCommandShort(k) ==
  /\ pc = "read"
  /\ Return(k)
  /\ cmd' = chunk'
  /\ n' = k
  /\ pc' = "handle"
  /\ clean' = (clean /\ WellFormed(chunk') /\ chunk' = Head(pending))
  /\ UNCHANGED <<login, up, sent, handled>>

(* ws.Read(cmd) returns k bytes. *)
ReadCommand(k) ==
  /\ pc = "read"
  /\ Return(k)
  /\ cmd' = chunk' \o SubSeq(cmd, k + 1, Size)
  /\ n' = k
  /\ pc' = "handle"
  /\ clean' = (clean /\ WellFormed(chunk') /\ chunk' = Head(pending))
  /\ UNCHANGED <<login, up, sent, handled>>

(* Mutant of Malformed: the handler is left waiting. *)
MalformedIsLast ==
  /\ pc = "handle"
  /\ Delimiters = {}
  /\ UNCHANGED wireVars

(* No delimiter: logged and skipped. *)
Malformed ==
  /\ pc = "handle"
  /\ Delimiters = {}
  /\ pc' = "read"
  /\ UNCHANGED <<streamVars, cmd, n, login, up, sent, handled, clean>>

(* The delimiter is one left over from an earlier command, beyond the n    *)
(* bytes read: the slice of the data runs backwards and the handler panics. *)
SlicePanic ==
  /\ pc = "handle"
  /\ Delimiters # {}
  /\ OpIndex > n
  /\ pc' = "panicked"
  /\ UNCHANGED <<streamVars, cmd, n, login, up, sent, handled, clean>>

CarryOut(op, arg) ==
  /\ pc = "handle"
  /\ Delimiters # {}
  /\ OpIndex <= n
  /\ Is(op)
  /\ handled' = Append(handled, [op |-> op, arg |-> arg])
  /\ pc' = "read"
  /\ UNCHANGED <<streamVars, cmd, n, up, sent, clean>>

(* The credentials of an earlier login stand if these cannot be decoded. *)
HandleLogin ==
  /\ CarryOut("login", Decoded(login))
  /\ login' = Decoded(login)

HandleRequest == CarryOut("pvp-request", Decoded("")) /\ UNCHANGED login

(* accepted is false unless the data says otherwise: a denial. *)
HandleAccept == CarryOut("pvp-accept", Decoded("false")) /\ UNCHANGED login

UnknownOp ==
  /\ pc = "handle"
  /\ Delimiters # {}
  /\ OpIndex <= n
  /\ \A op \in Operations : ~Is(op)
  /\ pc' = "read"
  /\ UNCHANGED <<streamVars, cmd, n, login, up, sent, handled, clean>>

NanoServer ==
  \/ \E k \in 1 .. Size : ReadCommand(k)
  \/ Malformed \/ SlicePanic \/ HandleLogin \/ HandleRequest \/ HandleAccept
  \/ UnknownOp

WireNext ==
  \/ NanoServer
  \/ \E payload \in Payloads : PageSends(payload)
  \/ \E k \in 0 .. Len(pending) :
       \E m \in IF k = 0 THEN {0} ELSE 1 .. Len(pending[k]) : ConnectionLost(k, m)

WireSpec == WireInit /\ [][WireNext]_wireVars

(* The goroutine of the connection runs. *)
FairWireSpec == WireSpec /\ WF_wireVars(NanoServer)

-----------------------------------------------------------------------------
(* Properties. *)

WireTypeOK ==
  /\ Len(cmd) = Size
  /\ n \in 0 .. Size
  /\ pc \in {"read", "handle", "panicked"}
  /\ login \in {""} \cup DOMAIN ArgBytes
  /\ astray = FALSE
  /\ sent \in Seq(Payloads)
  /\ Len(sent) <= MaxPayloads

(* The slice expression that takes the data never panics as long as every  *)
(* read returned one whole command (websocket.go:87).                      *)
PanicNeedsNoise == pc = "panicked" => ~clean

(* The places in frames where the tokens d stand. *)
StandsAt(d, payload, p) ==
  \A j \in 1 .. Len(d) : p + j \in 1 .. Len(payload) /\ payload[p + j] = d[j]

Occurrences(d, frames) ==
  UNION {{i} \X {p \in 0 .. Len(frames[i]) : StandsAt(d, frames[i], p)} :
           i \in 1 .. Len(frames)}

(* However frames are torn, and whatever the buffer still holds of earlier *)
(* commands, a game is accepted at most as often as an acceptance stands,  *)
(* in one piece, in what the page has sent: none is put together from a    *)
(* torn command and what lies beyond n (websocket.go:84-87), nor from two  *)
(* frames, and none counts twice.  It may stand within another command: a  *)
(* name that holds one, torn at both its ends, is taken for it.  A torn    *)
(* acceptance may count as a denial.                                       *)
Accepted == [op |-> "pvp-accept", arg |-> "true"]

ConsentWasWritten ==
  Cardinality({i \in 1 .. Len(handled) : handled[i] = Accepted})
    <= Cardinality(Occurrences(Encode(Accepted), sent))

(* What has arrived is read to its end, noise included, unless the handler *)
(* panics.                                                                 *)
FramesConsumed == pending # << >> ~> (pending = << >> \/ pc = "panicked")

(* The queue of commands that LobbyServer reads from: the whole commands   *)
(* that have arrived, the one in the buffer first.                         *)
Meaning(payload) == CHOOSE c \in Commands : Encode(c) = payload

Intact(frames) ==
  {i \in 0 .. Len(frames) : \A j \in 1 .. i : WellFormed(frames[j])}

Waiting(frames) ==
  LET whole == CHOOSE i \in Intact(frames) : \A j \in Intact(frames) : j <= i
  IN  [i \in 1 .. whole |-> Meaning(frames[i])]

InBuffer == IF pc = "handle" /\ clean THEN <<Meaning(chunk)>> ELSE << >>

Queue == INSTANCE CommandQueue WITH queue <- InBuffer \o Waiting(pending)

ImplementsQueue == Queue!QueueSpec
=============================================================================
