----------------------------- MODULE CommandQueue -----------------------------
(***************************************************************************)
(* What module LobbyServer takes for granted of a connection: the commands *)
(* of the client come in whole, one by one, and each is handled once, in   *)
(* the order in which they were sent; those not read yet are lost from     *)
(* some point on when the connection goes down.                            *)
(*                                                                         *)
(* Module CommandWire implements this as long as the connection is clean;  *)
(* after that nothing is promised.                                         *)
(***************************************************************************)
EXTENDS Integers, Sequences

CONSTANT Commands

VARIABLES
  queue,    \* commands sent and not handled yet
  handled,  \* the commands handled, in order
  clean     \* has every read so far returned one whole command?

queueVars == <<queue, handled, clean>>

QueueInit == queue = << >> /\ handled = << >> /\ clean = TRUE

Submit(c) ==
  /\ queue' = Append(queue, c)
  /\ UNCHANGED <<handled, clean>>

Take ==
  /\ queue # << >>
  /\ queue' = Tail(queue)
  /\ handled' = Append(handled, Head(queue))
  /\ UNCHANGED clean

Drop(k) ==
  /\ queue' = SubSeq(queue, 1, k)
  /\ UNCHANGED <<handled, clean>>

Spoil == clean' = FALSE

QueueNext ==
  \/ ~clean
  \/ \E c \in Commands : Submit(c)
  \/ Take
  \/ \E k \in 0 .. Len(queue) : Drop(k)
  \/ Spoil

QueueSpec == QueueInit /\ [][QueueNext]_queueVars
=============================================================================
