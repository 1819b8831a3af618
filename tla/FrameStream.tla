------------------------------ MODULE FrameStream ------------------------------
(***************************************************************************)
(* What Conn.Read of the WebSocket library promises the one goroutine that *)
(* calls it: the payloads of the peer's data frames, in order, in chunks   *)
(* of any length that fit the caller's buffer and never reach across the   *)
(* end of a frame.  What was under way when the connection went down may   *)
(* be lost from some point on.  Module WebSocket implements this           *)
(* specification, module CommandWire builds on it.                         *)
(*                                                                         *)
(* The promise ends where the library loses its place in the byte stream   *)
(* (astray); in module WebSocket only ReadPong does.                       *)
(***************************************************************************)
EXTENDS Integers, Sequences

CONSTANTS
  Size,      \* the length of the caller's buffer
  Payloads   \* the payloads of the peer's data frames

ASSUME SizeAssumption == Size \in Nat \ {0}

VARIABLES
  pending,  \* what is left of each frame that can still be read
  chunk,    \* what the latest call returned
  astray    \* has the library lost its place?

streamVars == <<pending, chunk, astray>>

StreamInit ==
  /\ pending = << >>
  /\ chunk = << >>
  /\ astray = FALSE

Arrive(payload) ==
  /\ pending' = Append(pending, payload)
  /\ UNCHANGED <<chunk, astray>>

(* Read returns the first n bytes of what is left of the first frame. *)
Return(n) ==
  /\ pending # << >>
  /\ n \in 1 .. Len(Head(pending))
  /\ n <= Size
  /\ chunk' = SubSeq(Head(pending), 1, n)
  /\ pending' = IF n = Len(Head(pending)) THEN Tail(pending)
                ELSE [pending EXCEPT ![1] = SubSeq(@, n + 1, Len(@))]
  /\ UNCHANGED astray

(* The connection goes down: k frames remain, of the k-th the first m bytes. *)
Lose(k, m) ==
  /\ pending' = IF k = 0 THEN << >>
                ELSE [SubSeq(pending, 1, k) EXCEPT ![k] = SubSeq(@, 1, m)]
  /\ UNCHANGED <<chunk, astray>>

(* An error or end-of-file: nothing is returned. *)
Fail ==
  /\ chunk' = << >>
  /\ UNCHANGED <<pending, astray>>

GoAstray == astray' = TRUE

StreamNext ==
  \/ astray
  \/ \E payload \in Payloads : Arrive(payload)
  \/ \E n \in 1 .. Size : Return(n)
  \/ \E k \in 0 .. Len(pending) :
       \E m \in IF k = 0 THEN {0} ELSE 1 .. Len(pending[k]) : Lose(k, m)
  \/ Fail
  \/ GoAstray

StreamSpec == StreamInit /\ [][StreamNext]_streamVars
=============================================================================
