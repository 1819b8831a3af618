------------------------------ MODULE LobbyServer ------------------------------
(***************************************************************************)
(* The Go server of the game (server/src/server): one goroutine per        *)
(* WebSocket connection runs NanoServer, which reads commands in a loop    *)
(* and works on two global tables, connections and players, and on the     *)
(* enemy pointers of the Player structs.  No lock protects any of them.    *)
(* After a handled command and after a disconnection a further goroutine   *)
(* runs notifyClients; failed commands are answered by goroutines of their *)
(* own too.                                                                *)
(*                                                                         *)
(* A Player struct lives in the stack frame of one NanoServer call, so it  *)
(* is identified with its connection: name[c], auth[c], ws[c] and enemy[c] *)
(* are the fields of the player of connection c.  One step of a handler    *)
(* reaches up to its next write to a socket or its next access to a table  *)
(* that depends on an earlier one; between two steps any other goroutine   *)
(* may run.                                                                *)
(*                                                                         *)
(* The browsers at the other end are free here: Dial, Submit, Hangup and   *)
(* Abort let them do anything the wire allows.  Module Lobby replaces them *)
(* by the client's JavaScript.                                             *)
(***************************************************************************)
EXTENDS Integers, Sequences, FiniteSets

CONSTANTS
  Conns,         \* the connections (remote addresses) of a run
  Names,         \* the non-empty logins
  NoName,        \* the empty string
  NoConn,        \* the nil *Player
  MaxClients,    \* MAX_CLIENTS
  MaxNotifiers,  \* bound: notifyClients goroutines alive at once
  MaxInbox,      \* bound: unread commands of one connection
  MaxCommands,   \* bound: commands submitted in a behaviour
  Submittable    \* bound: the commands submitted in a behaviour are of these

ASSUME ConnsAssumption == IsFiniteSet(Conns) /\ NoConn \notin Conns
ASSUME NamesAssumption == NoName \notin Names
ASSUME BoundsAssumption ==
  /\ MaxClients \in Nat \ {0}
  /\ MaxNotifiers \in Nat
  /\ MaxInbox \in Nat
  /\ MaxCommands \in Nat

VARIABLES
  connections,  \* keys of the table of connections
  players,      \* table of players: login -> connection, or NoConn if absent
  name,         \* Player.Name
  auth,         \* Player.auth.Login
  ws,           \* Player.ws # nil
  enemy,        \* Player.enemy
  pc,           \* where the NanoServer call of each connection stands
  target,       \* the Player a handler is about to write to
  link,         \* the TCP connection, as the server's end of it sees it
  inbox,        \* commands sent by the browser and not read yet
  outbox,       \* all that was ever delivered to the browser, in order
  notifier,     \* the notifyClients goroutines
  errors,       \* error goroutines started and not run yet
  submitted     \* number of commands submitted so far

handlerVars == <<name, auth, ws, enemy, pc, target>>
tableVars   == <<connections, players>>
wireVars    == <<link, inbox, outbox, submitted>>
taskVars    == <<notifier, errors>>
vars == <<handlerVars, tableVars, wireVars, taskVars>>

-----------------------------------------------------------------------------
(* Data. *)

Login == Names \cup {NoName}

Command ==
       [op : {"login"}, login : Login, password : BOOLEAN]
  \cup [op : {"pvp-request"}, name : Login]
  \cup [op : {"pvp-accept"}, accepted : BOOLEAN]
  \cup [op : {"unknown"}]

ASSUME SubmittableAssumption == Submittable \subseteq Command

Message ==
       [kind : {"players"}, names : SUBSET Names]
  \cup [kind : {"pvp-request"}, from : Login]
  \cup [kind : {"pvp-start", "pvp-deny", "error"}]

Registered == {n \in Names : players[n] # NoConn}

PlayersPacket == [kind |-> "players", names |-> Registered]

(* What a notifyClients goroutine knows: the packet it marshalled (names), *)
(* the keys of the table when its range loop started (first), the keys     *)
(* visited so far, and the connection it fetched and will write to.        *)
Notifiers == 1 .. MaxNotifiers

NoTask  == [at |-> "idle",    names |-> {}, first |-> {}, visited |-> {}, to |-> NoConn]
NewTask == [at |-> "spawned", names |-> {}, first |-> {}, visited |-> {}, to |-> NoConn]

Task == [at : {"idle", "spawned", "ranging", "writing"}, names : SUBSET Names,
         first : SUBSET Conns, visited : SUBSET Conns, to : Conns \cup {NoConn}]

(* "accept": NanoServer entered; "admit": the capacity test passed;         *)
(* "read": in ws.Read; "register": login() found the name free; "ask",     *)
(* "start", "begin", "deny", "clear": the calls of the pvp commands;       *)
(* "closing": returning; "done": returned; "panicked": unwound by a panic. *)
Location == {"none", "accept", "admit", "read", "register", "ask", "start",
             "begin", "deny", "clear", "closing", "done", "panicked"}

TypeOK ==
  /\ connections \subseteq Conns
  /\ players \in [Names -> Conns \cup {NoConn}]
  /\ name \in [Conns -> Login]
  /\ auth \in [Conns -> Login]
  /\ ws \in [Conns -> BOOLEAN]
  /\ enemy \in [Conns -> Conns \cup {NoConn}]
  /\ pc \in [Conns -> Location]
  /\ target \in [Conns -> Conns \cup {NoConn}]
  /\ link \in [Conns -> {"none", "up", "reset", "eof", "down"}]
  /\ inbox \in [Conns -> Seq(Command)]
  /\ outbox \in [Conns -> Seq(Message)]
  /\ \A c \in Conns : pc[c] \in {"ask", "start", "deny"} => target[c] # NoConn
  /\ notifier \in [Notifiers -> Task]
  /\ \A i \in Notifiers : notifier[i].at = "writing" => notifier[i].to # NoConn
  /\ errors \in [Conns -> [socket : Nat, player : Nat]]
  /\ submitted \in 0 .. MaxCommands

Init ==
  /\ connections = {}
  /\ players = [n \in Names |-> NoConn]
  /\ name = [c \in Conns |-> NoName]
  /\ auth = [c \in Conns |-> NoName]
  /\ ws = [c \in Conns |-> FALSE]
  /\ enemy = [c \in Conns |-> NoConn]
  /\ pc = [c \in Conns |-> "none"]
  /\ target = [c \in Conns |-> NoConn]
  /\ link = [c \in Conns |-> "none"]
  /\ inbox = [c \in Conns |-> << >>]
  /\ outbox = [c \in Conns |-> << >>]
  /\ notifier = [i \in Notifiers |-> NoTask]
  /\ errors = [c \in Conns |-> [socket |-> 0, player |-> 0]]
  /\ submitted = 0

-----------------------------------------------------------------------------
(* Helpers of the actions. *)

Goto(c, where) == pc' = [pc EXCEPT ![c] = where]

(* go notifyClients() *)
SpawnNotify ==
  \E i \in Notifiers :
    /\ notifier[i] = NoTask
    /\ \A j \in Notifiers : j < i => notifier[j] # NoTask
    /\ notifier' = [notifier EXCEPT ![i] = NewTask]

(* go sendError(ws, ...) and go player.sendError(...) *)
SpawnNoError(c, how) == UNCHANGED errors  \* mutant of SpawnError
SpawnError(c, how) == errors' = [errors EXCEPT ![c][how] = @ + 1]

(* Conn.Write: the peer gets the frame while the connection is up.  Once   *)
(* the peer is gone nobody gets it, whatever the call returns.             *)
Write(c, m) ==
  outbox' = [outbox EXCEPT ![c] = IF link[c] = "up" THEN Append(@, m) ELSE @]

(* Player.sendMsg: logs and returns if the player has no socket.  An error *)
(* of the write is logged only.                                            *)
sendMsg(p, m) == IF ws[p] THEN Write(p, m) ELSE UNCHANGED outbox

(* ws.Read returned the next command of c. *)
Reads(c, op) ==
  /\ pc[c] = "read"
  /\ inbox[c] # << >>
  /\ Head(inbox[c]).op = op
  /\ link[c] \in {"up", "eof"}
  /\ inbox' = [inbox EXCEPT ![c] = Tail(@)]

-----------------------------------------------------------------------------
(* The browsers and the network. *)

Dial(c) ==
  /\ link[c] = "none"
  /\ link' = [link EXCEPT ![c] = "up"]
  /\ Goto(c, "accept")
  /\ UNCHANGED <<name, auth, ws, enemy, target, tableVars, inbox, outbox,
                 submitted, taskVars>>

Submit(c, cmd) ==
  /\ link[c] = "up"
  /\ Len(inbox[c]) < MaxInbox
  /\ submitted < MaxCommands
  /\ inbox' = [inbox EXCEPT ![c] = Append(@, cmd)]
  /\ submitted' = submitted + 1
  /\ UNCHANGED <<handlerVars, tableVars, link, outbox, taskVars>>

(* The browser closes the socket: what it sent before is still read. *)
Hangup(c) ==
  /\ link[c] = "up"
  /\ link' = [link EXCEPT ![c] = "eof"]
  /\ UNCHANGED <<handlerVars, tableVars, inbox, outbox, submitted, taskVars>>

(* The connection is reset: what the server has not read yet is lost. *)
Abort(c) ==
  /\ link[c] = "up"
  /\ link' = [link EXCEPT ![c] = "reset"]
  /\ inbox' = [inbox EXCEPT ![c] = << >>]
  /\ UNCHANGED <<handlerVars, tableVars, outbox, submitted, taskVars>>

-----------------------------------------------------------------------------
(* NanoServer: a connection comes and goes. *)

Full == Cardinality(connections) >= MaxClients

(* The test against MAX_CLIENTS; a refused handler returns at once. *)
Accept(c) ==
  /\ pc[c] = "accept"
  /\ Goto(c, IF Full THEN "closing" ELSE "admit")
  /\ UNCHANGED <<name, auth, ws, enemy, target, tableVars, wireVars, taskVars>>

Admit(c) ==
  /\ pc[c] = "admit"
  /\ connections' = connections \cup {c}
  /\ Goto(c, "read")
  /\ UNCHANGED <<name, auth, ws, enemy, target, players, wireVars, taskVars>>

(* A read error other than EOF is logged and the loop continues.  A reset  *)
(* connection reports its error once and end-of-file from then on.         *)
ReadError(c) ==
  /\ pc[c] = "read"
  /\ link[c] = "reset"
  /\ link' = [link EXCEPT ![c] = "eof"]
  /\ UNCHANGED <<handlerVars, tableVars, inbox, outbox, submitted, taskVars>>

(* Mutants of ForgetPlayer: no entry goes; the entry of the credentials    *)
(* given last goes, granted or not.                                        *)
KeepPlayer(c) == UNCHANGED players
ForgetLogin(c) ==
  players' = [n \in Names |-> IF n = auth[c] THEN NoConn ELSE players[n]]

ForgetPlayer(c) ==
  players' = [n \in Names |-> IF n = name[c] THEN NoConn ELSE players[n]]

KeepConnection(c) == UNCHANGED connections  \* mutant of ForgetConnection
ForgetConnection(c) == connections' = connections \ {c}

(* Mutant of ReadEOF: nobody is notified. *)
ReadEOFSilently(c) ==
  /\ pc[c] = "read" /\ link[c] = "eof" /\ inbox[c] = << >>
  /\ ForgetPlayer(c)
  /\ ForgetConnection(c)
  /\ Goto(c, "closing")
  /\ UNCHANGED <<name, auth, ws, enemy, target, wireVars, taskVars>>

(* io.EOF: both tables forget the client and the others are notified. *)
ReadEOF(c) ==
  /\ pc[c] = "read"
  /\ link[c] = "eof"
  /\ inbox[c] = << >>
  /\ ForgetPlayer(c)
  /\ ForgetConnection(c)
  /\ SpawnNotify
  /\ Goto(c, "closing")
  /\ UNCHANGED <<name, auth, ws, enemy, target, wireVars, errors>>

(* NanoServer has returned: the WebSocket server closes the TCP connection. *)
Close(c) ==
  /\ pc[c] = "closing"
  /\ link' = [link EXCEPT ![c] = "down"]
  /\ Goto(c, "done")
  /\ UNCHANGED <<name, auth, ws, enemy, target, tableVars, inbox, outbox,
                 submitted, taskVars>>

-----------------------------------------------------------------------------
(* NanoServer: the commands. *)

Granted(cmd) == cmd.password /\ cmd.login \in Names \ Registered

(* player.ws = ws *)
GiveNoSocket(c) == UNCHANGED ws  \* mutant of GiveSocket
GiveSocket(c) == ws' = [ws EXCEPT ![c] = TRUE]

(* login: the credentials are decoded into the player, the player gets its *)
(* socket, and Player.login tests the credentials and the table.           *)
ReadLogin(c) ==
  LET cmd == Head(inbox[c])
  IN  /\ Reads(c, "login")
      /\ auth' = [auth EXCEPT ![c] = cmd.login]
      /\ GiveSocket(c)
      /\ \/ /\ ~Granted(cmd)
            /\ SpawnError(c, "socket")
            /\ UNCHANGED pc
         \/ /\ Granted(cmd)
            /\ Goto(c, "register")
            /\ UNCHANGED errors
      /\ UNCHANGED <<name, enemy, target, tableVars, link, outbox, submitted,
                     notifier>>

(* Mutant of Register: nobody is told. *)
RegisterSilently(c) ==
  /\ pc[c] = "register"
  /\ name' = [name EXCEPT ![c] = auth[c]]
  /\ players' = [players EXCEPT ![auth[c]] = c]
  /\ Goto(c, "read")
  /\ UNCHANGED <<auth, ws, enemy, target, connections, wireVars, taskVars>>

(* The rest of Player.login. *)
Register(c) ==
  /\ pc[c] = "register"
  /\ name' = [name EXCEPT ![c] = auth[c]]
  /\ players' = [players EXCEPT ![auth[c]] = c]
  /\ SpawnNotify
  /\ Goto(c, "read")
  /\ UNCHANGED <<auth, ws, enemy, target, connections, wireVars, errors>>

FoundUnchecked(n) == n \in Names  \* mutant of Found
Found(n) == n \in Registered

(* p.enemy = e *)
SetEnemySwapped(p, e) == enemy' = [enemy EXCEPT ![e] = p]  \* mutant of SetEnemy
SetEnemy(p, e) == enemy' = [enemy EXCEPT ![p] = e]

(* pvp-request: the requested player is looked up and its enemy set; an    *)
(* empty or an unknown name is answered by an error.                       *)
ReadRequest(c) ==
  LET cmd == Head(inbox[c])
  IN  /\ Reads(c, "pvp-request")
      /\ \/ /\ cmd.name = NoName
            /\ sendMsg(c, [kind |-> "error"])
            /\ UNCHANGED <<enemy, pc, target, errors>>
         \/ /\ cmd.name # NoName
            /\ ~Found(cmd.name)
            /\ SpawnError(c, "player")
            /\ UNCHANGED <<enemy, pc, target, outbox>>
         \/ /\ Found(cmd.name)
            /\ target' = [target EXCEPT ![c] = players[cmd.name]]
            /\ SetEnemy(players[cmd.name], c)
            /\ Goto(c, "ask")
            /\ UNCHANGED <<outbox, errors>>
      /\ UNCHANGED <<name, auth, ws, tableVars, link, submitted, notifier>>

(* The write of Player.pvpRequest. *)
Ask(c) ==
  /\ pc[c] = "ask"
  /\ sendMsg(target[c], [kind |-> "pvp-request", from |-> name[c]])
  /\ target' = [target EXCEPT ![c] = NoConn]
  /\ SpawnNotify
  /\ Goto(c, "read")
  /\ UNCHANGED <<name, auth, ws, enemy, tableVars, link, inbox, submitted,
                 errors>>

(* pvp-accept: startPvp and denyPvpRequest begin with a call on p.enemy.   *)
(* A nil enemy panics there: net/http recovers, the TCP connection is      *)
(* closed by the deferred call, and nothing is removed from the tables.    *)
ReadAccept(c) ==
  LET cmd == Head(inbox[c])
  IN  /\ Reads(c, "pvp-accept")
      /\ \/ /\ enemy[c] = NoConn
            /\ Goto(c, "panicked")
            /\ link' = [link EXCEPT ![c] = "down"]
            /\ UNCHANGED target
         \/ /\ enemy[c] # NoConn
            /\ target' = [target EXCEPT ![c] = enemy[c]]
            /\ Goto(c, IF cmd.accepted THEN "start" ELSE "deny")
            /\ UNCHANGED link
      /\ UNCHANGED <<name, auth, ws, enemy, tableVars, outbox, submitted,
                     taskVars>>

(* startPvp: the enemy is told first, then the player itself. *)
StartEnemy(c) ==
  /\ pc[c] = "start"
  /\ sendMsg(target[c], [kind |-> "pvp-start"])
  /\ target' = [target EXCEPT ![c] = NoConn]
  /\ Goto(c, "begin")
  /\ UNCHANGED <<name, auth, ws, enemy, tableVars, link, inbox, submitted,
                 taskVars>>

(* Mutants of StartSelf: the enemy is forgotten as in a denial; the player *)
(* itself is not told.                                                     *)
StartSelfForgets(c) ==
  /\ pc[c] = "begin"
  /\ sendMsg(c, [kind |-> "pvp-start"])
  /\ enemy' = [enemy EXCEPT ![c] = NoConn]
  /\ SpawnNotify
  /\ Goto(c, "read")
  /\ UNCHANGED <<name, auth, ws, target, tableVars, link, inbox, submitted, errors>>

StartSelfSilently(c) ==
  /\ pc[c] = "begin"
  /\ SpawnNotify
  /\ Goto(c, "read")
  /\ UNCHANGED <<name, auth, ws, enemy, target, tableVars, wireVars, errors>>

StartSelf(c) ==
  /\ pc[c] = "begin"
  /\ sendMsg(c, [kind |-> "pvp-start"])
  /\ SpawnNotify
  /\ Goto(c, "read")
  /\ UNCHANGED <<name, auth, ws, enemy, target, tableVars, link, inbox,
                 submitted, errors>>

(* denyPvpRequest: the enemy is told, then forgotten. *)
Deny(c) ==
  /\ pc[c] = "deny"
  /\ sendMsg(target[c], [kind |-> "pvp-deny"])
  /\ target' = [target EXCEPT ![c] = NoConn]
  /\ Goto(c, "clear")
  /\ UNCHANGED <<name, auth, ws, enemy, tableVars, link, inbox, submitted,
                 taskVars>>

ClearEnemy(c) ==
  /\ pc[c] = "clear"
  /\ SetEnemy(c, NoConn)
  /\ SpawnNotify
  /\ Goto(c, "read")
  /\ UNCHANGED <<name, auth, ws, target, tableVars, wireVars, errors>>

(* A malformed command or an unknown operation: logged, nobody notified. *)
ReadUnknown(c) ==
  /\ Reads(c, "unknown")
  /\ UNCHANGED <<handlerVars, tableVars, link, outbox, submitted, taskVars>>

-----------------------------------------------------------------------------
(* The other goroutines. *)

(* notifyClients marshals the table of players and enters its range loop. *)
NotifyMarshal(i) ==
  /\ notifier[i].at = "spawned"
  /\ notifier' = [notifier EXCEPT ![i] =
       [@ EXCEPT !.at = "ranging", !.names = Registered, !.first = connections]]
  /\ UNCHANGED <<handlerVars, tableVars, wireVars, errors>>

(* One turn of a Go range over a map: any key not visited yet.  A key that *)
(* is removed before its turn does not come up; a key added meanwhile may. *)
NotifyPick(i, c) ==
  /\ notifier[i].at = "ranging"
  /\ c \in connections \ notifier[i].visited
  /\ notifier' = [notifier EXCEPT ![i] =
       [@ EXCEPT !.at = "writing", !.to = c,
                 !.visited = notifier[i].visited \cup {c}]]
  /\ UNCHANGED <<handlerVars, tableVars, wireVars, errors>>

(* The write of the loop body.  If it fails notifyClients returns. *)
NotifyWrite(i) ==
  LET to == notifier[i].to
  IN      /\ notifier[i].at = "writing"
      /\ Write(to, [kind |-> "players", names |-> notifier[i].names])
      /\ \/ /\ link[to] # "down"
            /\ notifier' = [notifier EXCEPT ![i] =
                 [@ EXCEPT !.at = "ranging", !.to = NoConn]]
         \/ /\ link[to] # "up"
            /\ notifier' = [notifier EXCEPT ![i] = NoTask]
      /\ UNCHANGED <<handlerVars, tableVars, link, inbox, submitted, errors>>

NotifyReturn(i) ==
  /\ notifier[i].at = "ranging"
  /\ notifier[i].first \cap connections \subseteq notifier[i].visited
  /\ notifier' = [notifier EXCEPT ![i] = NoTask]
  /\ UNCHANGED <<handlerVars, tableVars, wireVars, errors>>

(* sendError writes to the socket it was given, Player.sendError to the    *)
(* socket of the player, if there is one.                                  *)
SendError(c, how) ==
  /\ errors[c][how] > 0
  /\ errors' = [errors EXCEPT ![c][how] = @ - 1]
  /\ IF how = "socket" THEN Write(c, [kind |-> "error"])
                       ELSE sendMsg(c, [kind |-> "error"])
  /\ UNCHANGED <<handlerVars, tableVars, link, inbox, submitted, notifier>>

-----------------------------------------------------------------------------
Handler(c) ==
  \/ Accept(c) \/ Admit(c) \/ ReadError(c) \/ ReadEOF(c) \/ Close(c)
  \/ ReadLogin(c) \/ Register(c)
  \/ ReadRequest(c) \/ Ask(c)
  \/ ReadAccept(c) \/ StartEnemy(c) \/ StartSelf(c) \/ Deny(c) \/ ClearEnemy(c)
  \/ ReadUnknown(c)

NotifyClients(i) ==
  \/ NotifyMarshal(i)
  \/ \E c \in Conns : NotifyPick(i, c)
  \/ NotifyWrite(i)
  \/ NotifyReturn(i)

Goroutines ==
  \/ \E c \in Conns : Handler(c)
  \/ \E i \in Notifiers : NotifyClients(i)
  \/ \E c \in Conns, how \in {"socket", "player"} : SendError(c, how)

Network ==
  \E c \in Conns :
    \/ Dial(c)
    \/ \E cmd \in Submittable : Submit(c, cmd)
    \/ Hangup(c)
    \/ Abort(c)

Next == Goroutines \/ Network

Spec == Init /\ [][Next]_vars

(* The Go scheduler runs every runnable goroutine sooner or later.  The    *)
(* browsers owe nothing.                                                   *)
Fairness ==
  /\ \A c \in Conns : WF_vars(Handler(c))
  /\ \A i \in Notifiers : WF_vars(NotifyClients(i))
  /\ \A c \in Conns, how \in {"socket", "player"} : WF_vars(SendError(c, how))

FairSpec == Spec /\ Fairness

-----------------------------------------------------------------------------
(* Properties. *)

Serving == {"read", "register", "ask", "start", "begin", "deny", "clear"}

(* NanoServer enters the client in the table of connections before the     *)
(* first read and removes it at end-of-file only: the broadcasts of        *)
(* notifyClients range over exactly the clients being served, plus those   *)
(* whose handler panicked.                                                 *)
ConnectedIffServed ==
  \A c \in Conns : c \in connections <=> pc[c] \in Serving \cup {"panicked"}

(* login sets the socket of the player before it enters the player in the  *)
(* table: whoever can be looked up by a pvp-request can be written to.     *)
RegisteredHasSocket ==
  \A n \in Names : players[n] # NoConn => ws[players[n]]

(* login() tests the table of players and writes it without a lock, so two *)
(* clients may take one name (player.go:37-41), and the delete at the      *)
(* end-of-file of either removes the entry of both.  Nothing else costs a  *)
(* player his entry: whoever serves a client that has logged in and is not *)
(* in the table has lost it to a namesake that has left.                   *)
LostToNamesake ==
  \A c \in Conns :
    pc[c] \in Serving /\ name[c] # NoName /\ players[name[c]] = NoConn =>
      \E d \in Conns \ {c} : name[d] = name[c] /\ pc[d] \in {"closing", "done"}

(* At end-of-file the client is removed from the tables (websocket.go:59). *)
DoneIsUnlisted ==
  \A c \in Conns : pc[c] = "done" => \A n \in Names : players[n] # c

(* notifyClients sends the list of the connected players (websocket.go:154): *)
(* with nothing under way and everybody reachable, the list a client was   *)
(* sent last is the present one.                                           *)
Settled ==
  /\ \A i \in Notifiers : notifier[i] = NoTask
  /\ \A c \in connections : link[c] = "up"

Lists(c) == {k \in 1 .. Len(outbox[c]) : outbox[c][k].kind = "players"}

LastListIsCurrent ==
  Settled =>
    \A c \in connections :
      \A k \in Lists(c) :
        (\A j \in Lists(c) : j <= k) => outbox[c][k] = PlayersPacket

(* A client that hung up or was cut off is forgotten by both tables, unless *)
(* its handler panics on a command it had sent before.                     *)
GoneIsForgotten ==
  \A c \in Conns :
    link[c] \in {"reset", "eof"} ~>
      \/ c \notin connections /\ (name[c] = NoName \/ players[name[c]] # c)
      \/ pc[c] = "panicked"

=============================================================================
