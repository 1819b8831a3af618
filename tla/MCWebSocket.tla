------------------------------ MODULE MCWebSocket ------------------------------
(* Constants for the runs of WebSocket; before the first step, the opening *)
(* handshake of the connection and the lengths of its frames.              *)
EXTENDS WebSocket, Handshake, FrameHeader

Masked(op, size) == [op |-> op, masked |-> TRUE, size |-> size]

(* A data frame longer than the buffer of Read, a ping longer than a       *)
(* control frame may be, one without payload, a pong with one, a close     *)
(* frame and a frame that is not masked.                                   *)
KindsOfFrames ==
  {Masked("data", 3), Masked("close", 0), Masked("ping", 0), Masked("ping", 2),
   Masked("pong", 1), [op |-> "data", masked |-> FALSE, size |-> 1]}

(* Bound: after a frame that ends the reading or leads it astray the peer   *)
(* sends one frame more at most, and only if it is his second.             *)
Worthwhile ==
  \A i \in 1 .. Len(sent) :
    Ends(sent[i]) \/ sent[i].op = "pong" => Len(sent) = i \/ Len(sent) = 2

(* Around every change of the form, and up to TLC's largest number. *)
SomeLengths == (0 .. 300) \cup (65400 .. 65700) \cup {16777215, 16777216, 2147483647}

(* What is decided before the first frame does not depend on the state:    *)
(* it is looked at once, where a connection begins.                        *)

(* Both ends of the opening handshake come to the same verdict on any      *)
(* request that carries the client's key and offer.                        *)
Handshakes == Init => HandshakeAgrees

(* Reader and writer of a frame agree on its length.                       *)
LengthsSurvive == Init => EveryLengthSurvives

MCSpec == Init /\ [][Next /\ Worthwhile']_vars /\ Fairness
=============================================================================
