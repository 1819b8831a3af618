---------------------------- MODULE LobbyServerNews ----------------------------
(***************************************************************************)
(* LobbyServer with history variables: what its clients still wait for.    *)
(*                                                                         *)
(* owed: the clients that were connected when the set of logins in the     *)
(* table of players last changed and have not been sent the new list       *)
(* since.  refused: how many logins of a client were refused and have not  *)
(* been answered by an error.  granted: the names a client has registered  *)
(* and has not been sent in a list since.                                  *)
(***************************************************************************)
EXTENDS LobbyServer

VARIABLES owed, refused, granted

historyVars == <<owed, refused, granted>>
newsVars == <<vars, historyVars>>

(* c is being sent this, and it gets it. *)
Gets(c) == outbox'[c] # outbox[c]
Sent(c) == outbox'[c][Len(outbox'[c])]

(* c is being sent the present list. *)
Told(c) == Gets(c) /\ Sent(c) = PlayersPacket

Owe ==
  owed' = IF Registered' # Registered THEN connections'
          ELSE {c \in owed : ~Told(c)}

(* The handler of c has taken a login and will not register it. *)
Refuses(c) ==
  /\ pc[c] = "read" /\ pc'[c] = "read" /\ link'[c] # "reset"
  /\ inbox'[c] # inbox[c] /\ Len(inbox'[c]) < Len(inbox[c])
  /\ Head(inbox[c]).op = "login"

(* c is being sent the error of a login. *)
Errs(c) ==
  Gets(c) /\ Sent(c).kind = "error" /\ errors'[c].socket < errors[c].socket

Answer ==
  /\ refused' = [c \in Conns |->
       IF Refuses(c) THEN refused[c] + 1
       ELSE IF Errs(c) THEN refused[c] - 1 ELSE refused[c]]
  /\ granted' = [c \in Conns |->
       IF pc[c] = "register" /\ pc'[c] = "read" THEN granted[c] \cup {name'[c]}
       ELSE IF Gets(c) /\ Sent(c).kind = "players" THEN granted[c] \ Sent(c).names
       ELSE granted[c]]

NewsInit ==
  /\ Init
  /\ owed = {}
  /\ refused = [c \in Conns |-> 0]
  /\ granted = [c \in Conns |-> {}]

NewsNext == Next /\ Owe /\ Answer

NewsSpec == NewsInit /\ [][NewsNext]_newsVars

-----------------------------------------------------------------------------
(* Properties. *)

Served == {c \in Conns : pc[c] \in Serving}

Panicked == {c \in Conns : pc[c] = "panicked"}

(* No notification is under way, and whoever is served can be reached. *)
Quiet ==
  /\ \A i \in Notifiers : notifier[i] = NoTask
  /\ \A c \in Served : link[c] = "up"

(* Nobody misses a change of the list as long as no handler has panicked:  *)
(* although notifyClients gives up at the first write that fails, and      *)
(* although notifications overtake each other, once all is quiet every     *)
(* client that is served has been sent the present list at least once.     *)
(* (The end-of-file of a client that is gone notifies everybody again;     *)
(* that of a panicked handler never comes, see EverybodyNotified.)         *)
NewsDelivered == Quiet /\ Panicked = {} => owed \cap Served = {}

(* "Notifies all connected clients" (websocket.go:152), panics or not.     *)
EverybodyNotified == Quiet => owed \cap Served = {}

(* No answer to a login is lost: once all is quiet and no error is on its  *)
(* way, every refused login of a client that is served has had its error,  *)
(* and every granted one a list that names the player, unless a handler    *)
(* has panicked, which may stop every list, or a namesake has taken the    *)
(* entry away again (websocket.go:96-100, 130).                            *)
NoAnswerLost ==
  \A c \in Served :
    /\ errors[c].socket = 0 /\ link[c] = "up" => refused[c] = 0
    /\ Quiet /\ Panicked = {} => \A n \in granted[c] : players[n] = NoConn

(* A login is read and answered while the client stays.  A refused one     *)
(* gets an error of its own.  A granted one gets a list that names the     *)
(* player, unless a handler has panicked, which may stop every list, or a  *)
(* namesake has taken the entry away again (see LostToNamesake).           *)
LoginPending(c) == \E k \in 1 .. Len(inbox[c]) : inbox[c][k].op = "login"

LoginAnswered ==
  \A c \in Conns :
    /\ LoginPending(c) \/ refused[c] > 0 ~>
         (~LoginPending(c) /\ refused[c] = 0) \/ link[c] # "up"
    /\ granted[c] # {} ~>
         \/ granted[c] = {} \/ link[c] # "up" \/ Panicked # {}
         \/ \E n \in granted[c] : players[n] = NoConn

=============================================================================
