--------------------------------- MODULE Lobby ---------------------------------
(***************************************************************************)
(* The lobby: the server of module LobbyServer and the browsers that talk  *)
(* to it (network.js, game.js, player.js, stages/login.js, lobby.js and    *)
(* prepare.js up to the placement of units).                               *)
(*                                                                         *)
(* A page is identified with the one WebSocket it opens.  game.stage is    *)
(* undefined while the script of a stage loads: messages that arrive then  *)
(* are remembered in network.data, the latest only, and go nowhere else.   *)
(***************************************************************************)
EXTENDS LobbyServer

VARIABLES
  stage,       \* the stage of the page; "x.js" while the script of x loads
  seen,        \* how many messages of outbox onmessage has handled
  typed,       \* login of stages/login.js, later game.player.name
  list,        \* players of stages/lobby.js
  dialog,      \* the name in the open confirm dialog, if there is one
  challenged,  \* history: the players this page clicked "play" at
  answers      \* history: the answers given in confirm dialogs

browserVars == <<stage, seen, typed, list, dialog, challenged, answers>>
lobbyVars == <<vars, browserVars>>

LogIn(n) == [op |-> "login", login |-> n, password |-> TRUE]
PvpRequest(n) == [op |-> "pvp-request", name |-> n]
PvpAccept(go) == [op |-> "pvp-accept", accepted |-> go]

(* What the pages of the game can send. *)
BrowserCommand ==
  {LogIn(n) : n \in Names} \cup {PvpRequest(n) : n \in Names}
    \cup {PvpAccept(go) : go \in BOOLEAN}

ASSUME BrowserAssumption == BrowserCommand \subseteq Submittable

Loading == {"login.js", "lobby.js", "prepare.js"}

Stage == {"none", "login", "lobby", "prepare", "gone"} \cup Loading

LobbyTypeOK ==
  /\ stage \in [Conns -> Stage]
  /\ seen \in [Conns -> Nat]
  /\ \A c \in Conns : seen[c] \in 0 .. Len(outbox[c])
  /\ typed \in [Conns -> Login]
  /\ list \in [Conns -> SUBSET Names]
  /\ dialog \in [Conns -> {{}} \cup {{n} : n \in Login}]
  /\ challenged \in [Conns -> SUBSET Names]
  /\ answers \in [Conns -> Seq([from : Login, go : BOOLEAN])]

LobbyInit ==
  /\ Init
  /\ stage = [c \in Conns |-> "none"]
  /\ seen = [c \in Conns |-> 0]
  /\ typed = [c \in Conns |-> NoName]
  /\ list = [c \in Conns |-> {}]
  /\ dialog = [c \in Conns |-> {}]
  /\ challenged = [c \in Conns |-> {}]
  /\ answers = [c \in Conns |-> << >>]

-----------------------------------------------------------------------------
(* The page: loading, the network, its user. *)

(* Mutant of OpenPage: the reply to the handshake counts as a message. *)
OpenPageOneAhead(c) ==
  /\ Dial(c)
  /\ stage' = [stage EXCEPT ![c] = "login.js"]
  /\ seen' = [seen EXCEPT ![c] = 1]
  /\ UNCHANGED <<typed, list, dialog, challenged, answers>>

(* network.js opens the socket, game.js asks for the login stage. *)
OpenPage(c) ==
  /\ Dial(c)
  /\ stage' = [stage EXCEPT ![c] = "login.js"]
  /\ UNCHANGED <<seen, typed, list, dialog, challenged, answers>>

(* Mutant of LobbySync: a request is taken for granted. *)
LobbySyncEager(c, m) ==
  /\ stage' = [stage EXCEPT ![c] =
       IF m.kind \in {"pvp-start", "pvp-request"} THEN "prepare.js" ELSE "lobby"]
  /\ dialog' = [dialog EXCEPT ![c] = {}]
  /\ list' = [list EXCEPT ![c] = IF m.kind = "players" THEN m.names ELSE @]

(* sync of stages/lobby.js: a command, a request or the list of players.   *)
(* A pvp-deny is an unknown key to it and is only logged.                  *)
LobbySync(c, m) ==
  /\ stage' = [stage EXCEPT ![c] = IF m.kind = "pvp-start" THEN "prepare.js" ELSE "lobby"]
  /\ dialog' = [dialog EXCEPT ![c] = IF m.kind = "pvp-request" THEN {m.from} ELSE {}]
  /\ list' = [list EXCEPT ![c] = IF m.kind = "players" THEN m.names ELSE @]

(* onload of setStage: the new stage takes over and starts; the lobby      *)
(* starts with the latest message received.                                *)
LoadLogin(c) ==
  /\ stage[c] = "login.js"
  /\ stage' = [stage EXCEPT ![c] = "login"]
  /\ UNCHANGED <<vars, seen, typed, list, dialog, challenged, answers>>

LoadLobby(c) ==
  /\ stage[c] = "lobby.js"
  /\ LobbySync(c, outbox[c][seen[c]])
  /\ UNCHANGED <<vars, seen, typed, challenged, answers>>

LoadPrepare(c) ==
  /\ stage[c] = "prepare.js"
  /\ stage' = [stage EXCEPT ![c] = "prepare"]
  /\ UNCHANGED <<vars, seen, typed, list, dialog, challenged, answers>>

LoadStage(c) == LoadLogin(c) \/ LoadLobby(c) \/ LoadPrepare(c)

(* onmessage runs when no dialog blocks the page. *)
Receives(c) ==
  /\ stage[c] \notin {"none", "gone"}
  /\ dialog[c] = {}
  /\ seen[c] < Len(outbox[c])
  /\ seen' = [seen EXCEPT ![c] = @ + 1]

Incoming(c) == outbox[c][seen[c] + 1]

(* An error is shown and the page reloads: its socket goes with it. *)
ReceiveError(c) ==
  /\ Receives(c)
  /\ Incoming(c).kind = "error"
  /\ IF link[c] = "up" THEN Hangup(c) ELSE UNCHANGED vars
  /\ stage' = [stage EXCEPT ![c] = "gone"]
  /\ UNCHANGED <<typed, list, dialog, challenged, answers>>

(* No stage yet, or the prepare stage, which has no sync. *)
ReceiveIgnored(c) ==
  /\ Receives(c)
  /\ Incoming(c).kind # "error"
  /\ stage[c] \in Loading \cup {"prepare"}
  /\ UNCHANGED <<vars, stage, typed, list, dialog, challenged, answers>>

(* sync of stages/login.js: whatever the message, on to the lobby. *)
ReceiveInLogin(c) ==
  /\ Receives(c)
  /\ Incoming(c).kind # "error"
  /\ stage[c] = "login"
  /\ stage' = [stage EXCEPT ![c] = "lobby.js"]
  /\ UNCHANGED <<vars, typed, list, dialog, challenged, answers>>

ReceiveInLobby(c) ==
  /\ Receives(c)
  /\ Incoming(c).kind # "error"
  /\ stage[c] = "lobby"
  /\ LobbySync(c, Incoming(c))
  /\ UNCHANGED <<vars, typed, challenged, answers>>

Receive(c) ==
  ReceiveError(c) \/ ReceiveIgnored(c) \/ ReceiveInLogin(c) \/ ReceiveInLobby(c)

(* network.send: a dead socket swallows what it is given. *)
Send(c, cmd) == IF link[c] = "up" THEN Submit(c, cmd) ELSE UNCHANGED vars

(* The login button with an empty field: an alert, nothing is sent, but    *)
(* the login field has been read.                                          *)
ClickIncomplete(c, n) ==
  /\ stage[c] = "login"
  /\ typed' = [typed EXCEPT ![c] = n]
  /\ UNCHANGED <<vars, stage, seen, list, dialog, challenged, answers>>

(* The login button, with both fields filled in. *)
ClickLogin(c, n) ==
  /\ stage[c] = "login"
  /\ Send(c, LogIn(n))
  /\ typed' = [typed EXCEPT ![c] = n]
  /\ UNCHANGED <<stage, seen, list, dialog, challenged, answers>>

(* The play button beside another player of the list. *)
ClickPlay(c, n) ==
  /\ stage[c] = "lobby"
  /\ dialog[c] = {}
  /\ n \in list[c] \ {typed[c]}
  /\ Send(c, PvpRequest(n))
  /\ challenged' = [challenged EXCEPT ![c] = @ \cup {n}]
  /\ UNCHANGED <<stage, seen, typed, list, dialog, answers>>

(* The user answers the confirm dialog. *)
Answer(c, go) ==
  /\ stage[c] = "lobby"
  /\ \E n \in dialog[c] :
       answers' = [answers EXCEPT ![c] = Append(@, [from |-> n, go |-> go])]
  /\ Send(c, PvpAccept(go))
  /\ dialog' = [dialog EXCEPT ![c] = {}]
  /\ UNCHANGED <<stage, seen, typed, list, challenged>>

ClosePage(c) ==
  /\ Hangup(c)
  /\ stage' = [stage EXCEPT ![c] = "gone"]
  /\ dialog' = [dialog EXCEPT ![c] = {}]
  /\ UNCHANGED <<seen, typed, list, challenged, answers>>

LoseNetwork(c) == Abort(c) /\ UNCHANGED browserVars

-----------------------------------------------------------------------------
Page(c) ==
  \/ OpenPage(c)
  \/ LoadStage(c)
  \/ Receive(c)
  \/ \E n \in Login : ClickIncomplete(c, n)
  \/ \E n \in Names : ClickLogin(c, n) \/ ClickPlay(c, n)
  \/ \E go \in BOOLEAN : Answer(c, go)

Departure(c) == ClosePage(c) \/ LoseNetwork(c)

Server == Goroutines /\ UNCHANGED browserVars

LobbyNext == Server \/ \E c \in Conns : Page(c) \/ Departure(c)

LobbySpec == LobbyInit /\ [][LobbyNext]_lobbyVars

(* The event loop of a page loads its scripts and handles its messages;    *)
(* its user owes nothing.  (Nothing that is promised here waits for the    *)
(* goroutines of SendError, which get no fairness.)                        *)
LobbyFairness ==
  /\ \A c \in Conns : WF_lobbyVars(Handler(c) /\ UNCHANGED browserVars)
  /\ \A i \in Notifiers : WF_lobbyVars(NotifyClients(i) /\ UNCHANGED browserVars)
  /\ \A c \in Conns : WF_lobbyVars(LoadStage(c))
  /\ \A c \in Conns : WF_lobbyVars(Receive(c))

FairLobbySpec == LobbySpec /\ LobbyFairness

(* Users who send their credentials once at most: nobody changes his name. *)
NoLoginYet(c) ==
  auth[c] = NoName /\ \A k \in 1 .. Len(inbox[c]) : inbox[c][k].op # "login"

LoginsOnce == \A c \in Conns, n \in Names : ClickLogin(c, n) => NoLoginYet(c)

OnceSpec == LobbyInit /\ [][LobbyNext /\ LoginsOnce]_lobbyVars

-----------------------------------------------------------------------------
(* Properties. *)

InPreparation(c) == stage[c] \in {"prepare.js", "prepare"}

(* Nobody is taken to the preparation of a battle without having clicked   *)
(* "play" at somebody or answered "Go" in a dialog: enemy pointers and     *)
(* pvp-start messages go astray, but only among those who asked for it.    *)
PreparesByConsent ==
  \A c \in Conns :
    InPreparation(c) =>
      \/ challenged[c] # {}
      \/ \E k \in 1 .. Len(answers[c]) : answers[c][k].go

(* A game is only ever started with a player who clicked "play" at the one  *)
(* who accepts: the enemy pointer always comes from a request to its owner, *)
(* however many requests overwrote it.  (Of players who logged in once, as *)
(* in OnceSpec: a second login gives the challenger another name.)         *)
StartsWithChallenger ==
  \A c \in Conns : pc[c] = "start" => name[c] \in challenged[target[c]]

(* A handler panics on a pvp-accept only after its user has denied an      *)
(* earlier request: the denial cleared the enemy a later request had set.  *)
PanicNeedsDenial ==
  \A c \in Conns :
    pc[c] = "panicked" =>
      \E j, k \in 1 .. Len(answers[c]) : j < k /\ ~answers[c][j].go

(* "X is requesting pvp with you. Go?" (stages/lobby.js:41): the game that *)
(* begins after "Go" is with a player the user said "Go" to.               *)
StartsWithConfirmed ==
  \A c \in Conns :
    pc[c] = "start" =>
      \E k \in 1 .. Len(answers[c]) :
        answers[c][k] = [from |-> name[target[c]], go |-> TRUE]


(* Once the server starts a game, both players get to the preparation, or  *)
(* one of them is cut off or keeps a dialog open.                          *)
Excused(c) == link[c] # "up" \/ dialog[c] # {} \/ stage[c] = "gone"

BothPrepare ==
  \A c, d \in Conns :
    pc[c] = "start" /\ target[c] = d ~>
      (InPreparation(c) \/ Excused(c)) /\ (InPreparation(d) \/ Excused(d))

=============================================================================
