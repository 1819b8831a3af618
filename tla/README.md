# Dull of War: TLA+ models, checks and proofs

Dull of War is a turn-based game on a hexagonal map. Its pages (JavaScript)
find each other in a lobby kept by a small Go server over WebSockets; the
battle itself runs in the page. This directory holds TLA+ modules that model
the system from its source, TLC configurations that check them on small
instances, and proofs that TLAPS checks for every instance.

## 1. The system

| Part | Source | State | Operations | What is hard |
|---|---|---|---|---|
| Lobby server | `server/src/server/{main,player,websocket}.go` | tables `connections` and `players`, one `Player` per connection (`Name`, `auth`, `ws`, `enemy`) | `NanoServer` (capacity test, read loop, `login`, `pvp-request`, `pvp-accept`, end-of-file), `notifyClients`, `sendError` | no lock on any table; a goroutine per connection, per notification and per error; panics on a nil enemy; read errors; failing writes |
| WebSocket library | `server/src/code.google.com/p/go.net/websocket` (vendored) | the frame being read and the place in its masking key, two locks, the TCP connection | `Conn.Read` with `HandleFrame`, `Conn.Write`, pongs and close frames, opening handshake, close on return or panic | payloads that arrive in portions; the reader writes pongs beside other writers; resets; control frames of odd lengths |
| Lobby client | `network.js`, `stages/login.js`, `stages/lobby.js`, `player.js` (`cmd`), `game.js` (`setStage`) | stage, latest message, login, list of players | `onmessage`, `send`, `sync` of each stage, asynchronous script load, buttons, `confirm` | messages that arrive while a script loads or a dialog is open |
| Preparation | `stages/prepare.js`, `units.js`, `events.js`, `unit.js` (`setHex`, `remove`, ...) | units chosen, their hexagons, the selected unit | mouse down, draw, Start | a hexagon and its unit point at each other |
| Units and fight | `unit.js`, `stages/fight.js`, `game.js` (`switchPlayer`, `over`), `player.js` (`ai`, turns) | action points, hit points, destinations, locks, current player, timers | move, fire, destroy, end of turn, AI | animation against timers against user input |
| Hexagon map | `map.js`, `hexagon.js` | hexagons and the units on them | `neighbors`, `range`, `reachable`, `line`, `global`, `Cube.round` | rounding, boundaries |
| Path search | `astar.js` | open and closed sets | `astar` | keys, order of expansion |
| Scaffolding | `main.js`, `config.js`, `util.js`, `index.html`, `point.go` | - | script loading, DOM helpers | - |

Interaction: a page opens one WebSocket. The server runs one `NanoServer` call
for it, which reads commands `login|{..}`, `pvp-request|{..}` and
`pvp-accept|true` and works on two global tables and on other players' structs
directly. After each handled command, and after an end-of-file, it starts a
goroutine that sends everybody the table of players. The page hands each
message to `sync` of the present stage. A `pvp-start` moves a page from the
lobby to the preparation, after which nothing is exchanged any more.

At this commit the battle cannot begin. `units.js` runs when the page loads,
before anybody has logged in, so every unit gets a null owner and the first
click on a unit throws in `remove` (`units.js:4`, `unit.js:46`). `draw` of
`game.js`, where the preparation moves the selected unit, returns while
`currentPlayer` is null, which it stays until a fight starts (`game.js:94`).
And whatever the Start button does first, the stage it would go to,
`game.stages.fight`, is not defined (`stages/prepare.js:12`); in the states that
can be reached it finds that the player has no unit and returns before that
(`stages/prepare.js:7-9`).

What makes each part correct:

* server: the tables agree with the handlers, whoever leaves is forgotten and
  nobody else, every change is announced to every client, every login is
  answered, a game starts among players who asked for it;
* WebSocket library: the bytes come out in order and unmasked, frames go out
  whole, the reader keeps its place, pings are answered, writes return, both
  ends agree on whether they are connected;
* commands: what is taken from the buffer is what the page sent;
* client: no stage without what the earlier one should have provided; no
  message lost that matters;
* preparation: a unit is on at most one hexagon and a hexagon knows its unit;
* fight: action points per turn, no two units on a hexagon, locks balanced,
  turns alternate, a battle can end;
* map and path search: the results equal their set-theoretic definitions.

The hazards behind these are listed in `PROJECT.json`, each at its line.

## 2. Modules

| Module | Models | Extends |
|---|---|---|
| `LobbyServer` | the Go server, with browsers that may send and do anything | - |
| `LobbyServerNews` | the same with history variables: what the clients still wait for | `LobbyServer` |
| `Lobby` | the server composed with the pages of the game | `LobbyServer` |
| `FrameStream` | abstract: what `Conn.Read` promises its caller | - |
| `WebSocket` | one end of a connection: `Read`, `Write`, control frames, locks; implements `FrameStream` | - |
| `Handshake` | the checks of the opening handshake at both ends | - |
| `FrameHeader` | the length in a frame's header, written and read | - |
| `CommandQueue` | abstract: commands come in whole and in order, which `LobbyServer` takes for granted | - |
| `CommandWire` | the buffer of `NanoServer` on top of `FrameStream`; implements `CommandQueue` while every read returns a whole command | `FrameStream` |
| `HexMap` | the operators of the map: coordinates, distances, neighbours, `range`, `reachable`, `line`, rounding | - |
| `Astar` | the path search, a turn of its loop at a time | `HexMap` |
| `MCLobbyServer` (of `LobbyServerNews`), `MCLobby`, `MCWebSocket`, `MCCommandWire`, `MCAstar` | constants, symmetry, views and initial states for TLC; `MCWebSocket` also extends `Handshake` and `FrameHeader`, `MCAstar` has the map of the game as an instance of `HexMap` with `FieldSize` `MapSize`, which is 5 in the run | the above |
| `LobbyServer_proofs`, `LobbyServerNews_proofs`, `Lobby_proofs`, `WebSocket_proofs`, `CommandWire_proofs`, `HexMap_proofs` | theorems about the module each is named after | that module |
| `Handshake_proofs` | theorems about `Handshake` and `FrameHeader`, as `MCWebSocket` states their properties | `MCWebSocket` |
| `Astar_proofs` | theorems about `Astar`, and those of `HexMap_proofs` for the map of `MCAstar` | `MCAstar` |

The layers: `WebSocket` implements `FrameStream`, on which `CommandWire` is
built, which implements `CommandQueue`; that is the `inbox` of `LobbyServer`,
with which `Lobby` composes the pages. At each border the promise ends where
the code's does: after a pong with a payload (`FrameStream`), after a read that
did not return one whole command (`CommandQueue`). That each layer implements
the one above is checked by a run and proved (section 4).

### LobbyServer

A `Player` struct lives in the frame of one `NanoServer` call, so it is
identified with its connection: `name[c]`, `auth[c]`, `ws[c]` and `enemy[c]`
are fields of the player of connection `c`, and a pointer to a player is a
connection or `NoConn` (nil). `connections` holds the keys of the Go map of
that name; `players` maps every login to a player, `NoConn` standing for an
absent key.

`pc[c]` is where the handler stands. An action of a handler reaches up to its
next write to a socket, or up to its next access to a table that depends on an
earlier one:

| Code | Actions |
|---|---|
| entry of `NanoServer`, capacity test, insertion | `Accept`, `Admit` |
| `ws.Read` returns an error, `continue` | `ReadError` |
| `ws.Read` returns `io.EOF`, both `delete`s, `go notifyClients()`, `break`; then the library closes the connection | `ReadEOF`, `Close` |
| `login`: decode, `player.ws = ws`, tests of `Player.login`; its assignments | `ReadLogin`, `Register` |
| `pvp-request`: decode, lookup, `p.enemy = from`; the write | `ReadRequest`, `Ask` |
| `pvp-accept`: a nil `enemy` panics, else `startPvp` or `denyPvpRequest` with their writes and the assignment between or after them | `ReadAccept`, `StartEnemy`, `StartSelf`, `Deny`, `ClearEnemy` |
| malformed or unknown command | `ReadUnknown` |
| `notifyClients`: marshal and start of the range, one turn of the range, the write (success, or failure and `return`), return | `NotifyMarshal`, `NotifyPick`, `NotifyWrite`, `NotifyReturn` |
| `go sendError(...)` | `SendError` |

`Dial`, `Submit`, `Hangup` and `Abort` are the environment. A panicking handler
is unwound by `net/http`, which keeps the server running; the deferred close of
the WebSocket server closes the connection, and neither table is cleaned.

A range over a Go map visits keys in any order, does not visit a key deleted
before its turn and may visit one inserted meanwhile; `NotifyPick` and
`NotifyReturn` say exactly that.

A write to a peer that is gone may fail or be swallowed by the kernel
(`NotifyWrite` has both outcomes); to a connection the server has closed it
fails. A reset connection gives one error and then end-of-file.

Between any two actions any other goroutine may run: the code has no lock, and
nothing keeps the Go runtime from switching between a test of a table and the
update that relies on it. So two handlers may find the last place free
(`Accept`, `Admit`) and two logins the same name (`ReadLogin`, `Register`); what
comes of that is in section 3.

Abstracted: passwords (empty or not), the text of messages, the bytes of a
command (it arrives whole, and its operation is found: see `CommandWire`), JSON
(decoding gives the fields that were sent). Logging is left out.

### Lobby

Each page owns one connection. `stage[c]` is the stage, or `"x.js"` while the
script of stage x loads and `game.stage` is undefined. `seen[c]` counts the
messages handled by `onmessage`, so `outbox[c][seen[c]]` is `network.data`.
`LoadLobby` is `start` of the lobby, which syncs with that latest message.
`dialog[c]` holds the name in an open `confirm`; nothing is received while it
is open. An error reloads the page, which is the end of this connection. The
user may click Login several times before the first answer, Play beside
everybody but himself, and answer a dialog either way.
`challenged` and `answers` are history variables.

The Login button with an empty field sends nothing, but it has read the login
field (`ClickIncomplete`).

### LobbyServerNews

Three history variables say what the clients still wait for. `owed` is the set
of clients that were connected when the set of registered logins changed last
and have not been sent the new list since. `refused[c]` counts the logins of `c`
that were refused and have not had an error of their own yet: an error for
something else, and an earlier one, does not count. `granted[c]` are the names
`c` has registered and has not been sent in a list since.

### WebSocket, FrameStream

One goroutine calls `Conn.Read` in a loop that ends at end-of-file, as
`NanoServer` does; others call `Conn.Write`. The payload bytes of the peer's
data frames are numbered in the order he sends them, so that a payload is an
interval of numbers and the order of the bytes can be spoken of. `frame` is
`Conn.frameReader` with the limit of its reader (`left`) and the position in
the masking key (`pos`); `here` counts the bytes that will arrive at all.

| Code | Actions |
|---|---|
| `Conn.Read`: entry, `NewFrameReader` and its errors | `CallRead`, `ReadEnd`, `ReadReset` |
| `HandleFrame`: masking, data, close, ping, pong | `RefuseFrame`, `OpenFrame`, `ReadClose`, `ReadPing`, `ReadPong` |
| `hybiFrameReader.Read`; end of the frame, `goto again` | `ReadPayload`, `EndFrame` |
| header read at a place where there is none | `Misread` |
| `Conn.Write`, `WritePong`, `WriteClose`: lock, pieces, unlock or failure; once the peer is gone a piece may fail or be swallowed | `CallWrite`, `Lock`, `Push`, `PushLost`, `Written`, `WriteFails` |
| `serveWebSocket` closes the connection | `Hangup` |

`PeerSends`, `PeerReads` and `Down` are the environment. `Down` loses any end
of what was under way: whole frames and any end of a payload. A frame is
written in `Pieces` pieces because `bufio.Writer` may flush within one; at most
`Window` of them wait for the peer. Text, binary, continuation and reserved
opcodes are all data to `Read`, and fragmentation is no concern of it: it
returns the payload of each frame on its own. A header is read in one step: a
connection that ends within one is one that ends before it.

`Pending` is the refinement mapping to `FrameStream`: what is left of the frame
being read (`Left`) and, of the frames that have arrived, the payloads up to the
first frame Read stops at (`PayloadsOf`, `Stops`); nothing once end-of-file has
been reported or a frame refused. `Chunk` is what the latest call returned.

### Handshake and FrameHeader

Each end of a handshake performs a list of checks, and the first that fails
gives the verdict; `FirstFailure` is that list. `NonceAccept`, the SHA-1 of a
key and the GUID of the protocol, is a pair of the two: not the key itself, and
different for different keys. `FrameHeader` writes and reads the length as
numbers in base 256.

### CommandWire, CommandQueue

`cmd` is the buffer, `n` what the latest read returned. Bytes are tokens, the
parts of words: an operation or the delimiter is a word of one or more parts, so
a command can be torn at any part. The JSON of an argument (`ArgBytes`) is any
sequence of tokens, those of the delimiter and of operations included, and data
decode if they are exactly the JSON of an argument. `ReadCommand` is `ws.Read(cmd)`; what lies beyond `n` is
left from earlier reads. The actions that follow it are the search for the
delimiter (`Malformed`), the slice (`SlicePanic`), and the operations
(`HandleLogin`, `HandleRequest`, `HandleAccept`, `UnknownOp`). `handled` records
which command was carried out; what it does is in `LobbyServer`.

### HexMap and Astar

A hexagon is its pair of axial coordinates, and `FieldSize` is `FIELD_SIZE`.
Lists of hexagons whose order nobody uses are sets; `hex.unit` is membership in
a set. Positions between hexagons are integers over a common denominator:
`Round` is `Cube.round`, with `Math.round` rounding halves up, and `Global` is
`Map.global` without the linear factor from pixels to axial coordinates. `Line`
samples the way between two hexagons as the code does, nudge included; nothing
calls `Map.line` at this commit.

`Astar` has one action per turn of the loop: `Expand`, `Found`, `Fail`. A
`Node` does not change once it is in the open set, so it is identified with its
`path()`. Every neighbour is a new `Node` with `f = g = 0`; hence the tests of
`g` never decide anything, `f` is the distance to the goal, and a hexagon that
is open or closed is never opened again. The search is a greedy one, not A*. In
which order `for .. in` visits the open set is left open.

## 3. Runs

| Run | Question | Bounds |
|---|---|---|
| `lobbyserver_operations` | do the tables agree with the handlers, for all commands and all interleavings (`TypeOK`, `ConnectedIffServed`, `RegisteredHasSocket`)? does everybody hear of every last change unless a handler panics, in spite of failed writes (`NewsDelivered`), and is no answer to a login lost (`NoAnswerLost`)? is whoever leaves forgotten, and a login answered in the end (`GoneIsForgotten`, `LoginAnswered`)? | 2 connections, 1 name, 1 notification at a time, 2 commands of every kind, departures at any time: counted from the start, and from the states in which everybody is connected and somebody has logged in, so that starting, denying and panicking all happen |
| `lobby_arrive` | is everything well typed from the first connection on (`LobbyTypeOK`)? what costs a player his entry in the table (`LostToNamesake`)? | 2 pages, 2 names, 2 commands, departures at any time |
| `lobby_pair` | when does a handler panic (`PanicNeedsDenial`)? does a started game take both players to the preparation (`BothPrepare`)? | 2 players in the lobby, of whom one may have been asked, 3 further commands, fairness |
| `lobby_three` | who ends up in a game (`PreparesByConsent`, `StartsWithChallenger`)? | 3 players in the lobby, 3 commands |
| `websocket` | do the bytes come in order (`InOrder`), and nothing else than `FrameStream` promises (`ImplementsStream`)? do frames go out whole (`WholeFrames`)? what ends a connection that is up (`NotTakenForGone`)? are pings answered, none passed over and each in its turn (`PingAnswered`, `PongsMatchPings`), and do writes return (`WriteReturns`)? do both ends agree on handshakes (`Handshakes`) and lengths (`LengthsSurvive`)? | the server's end; any 3 frames of six kinds, one after a frame that ends the reading; payloads of at most 3 bytes (`MaxSize`); 1 write of 2 pieces, a window of 1, a buffer of 2 bytes; every request and every choice of the server, with 2 keys and up to 2 protocols; the lengths around every change of the form |
| `commandwire` | do commands come out of the buffer as they went in (`ImplementsQueue`)? what can noise do (`PanicNeedsNoise`), and where do acceptances come from (`ConsentWasWritten`)? is everything read (`FramesConsumed`)? | any 3 frames, torn anywhere; a buffer of 4 parts of which 3 are searched, one command longer than it, one whose operation may be torn, a login whose name holds the delimiter and the bytes of an acceptance |
| `astar` | is what the search returns a walk, does it return one if there is one, does it end (`TypeOK`, `PathIsFreeWalk`, `FailsOnlyIfWalled`, `SearchEnds`)? do ranges, walks, lines and rounding on the map give what they should (`FieldRange`, `FieldReachable`, `FieldLines`, `FieldRounding`)? | searches on 19 hexagons (`FieldSize` 3) from the centre and from a corner, units on any of the 7 hexagons around the centre, ties broken in any way; the map with its 61 hexagons, positions in sixths of a hexagon |

The bounds let the interesting cases happen: two commands suffice for the
races of two logins, three commands for a request that redirects the answer to
another one (two requests and an answer), four for a panic (two requests, a
denial and a further answer; `lobby_pair` begins after the first), two
notifications for one to overtake the other, three players for an enemy pointer
that is redirected. Two connections are enough for a broadcast that fails
with somebody still to visit. Three frames are a frame that is torn,
one in between and one that shows whether the reader kept its place; three
reads leave something in the buffer, search it, and go on after it.
`lobbyserver_operations` has one notification at a time, which a liveness check
can bear; that `NewsDelivered` and `NoAnswerLost` hold for any number of
notifications that overtake each other, and of clients, is proved (section 4).
`MaxNotifiers` and `MaxInbox` delay a handler or a browser that would exceed
them. The runs that begin with everybody in the lobby (`ReadyInit`, `AskedInit`)
keep the pages there: they ask about requests and answers, which `lobby_arrive`
combines with departures. `Worthwhile` of `MCWebSocket` lets the peer send
nothing more after a frame that ends or derails the reading, but for one frame
after a first such one. `CHECK_DEADLOCK FALSE` in all: everybody may have left,
and the bounds end every behaviour. Symmetry is used in runs without liveness;
connections and names are interchangeable, and every constant expression treats
them so. The view `Present` leaves out messages that a page has handled: no
action and no property checked with it looks at them. `Handshakes` and
`LengthsSurvive` are about operators and evaluated in the initial state.

Five runs state what a comment or a dialog of the code promises and find it
broken:

| Run | Promise | What happens |
|---|---|---|
| `lobby_second_login` | a client that leaves is removed from the tables (`websocket.go:59`) | two clicks on Login under two names leave the first entry behind for ever; nobody can use that name again |
| `lobby_overtaking` | the packet is the list of all connected players (`websocket.go:154`) | the older of two notifications is delivered last; the stale list stays until the next command of anybody |
| `lobby_no_login` | "Login must be present" (`stages/login.js:16`) | somebody else's login is broadcast to a page that has not logged in; it takes this for its answer and enters the lobby without a login |
| `lobby_astray` | "X is requesting pvp with you. Go?" (`stages/lobby.js:41`) | a second request arrives while the dialog of the first is open; "Go" starts the game with the second player |
| `lobbyserver_dead_entry` | `notifyClients` "notifies all connected clients" (`websocket.go:152`) | a handler panics on an answer to no request and its connection stays in the table; a broadcast that comes to it ends there (`websocket.go:171`), before a client that can be reached and is not told of the change; there is no end-of-file to make up for it. `NewsDelivered` says that this takes a panic |

In `astar` units around the centre give every kind of obstacle: a start that is
walled in, a goal that is, a wall across the way, single units to walk around.
The map is symmetric, so a start at one corner stands for all.

Observations without a run of their own:

* `MAX_CLIENTS` is "how many clients we are ready to serve at once" (`main.go:9`),
  but two handlers may pass the test of `websocket.go:36` before either is in
  the table (`websocket.go:45`), and then one more is served. In the model two
  connections that are in `admit` together do so.
* Two clients that log in under one name at the same time may both find it free
  (`player.go:37`); the table then has the later of them, both are served under
  that name, and the one who leaves first deletes the entry of the other, who
  can no longer be found, and whose list does not name him. `LostToNamesake`
  says that nothing else costs a player his entry.
* Logins and names are sent as users type them, so the delimiter may stand in the
  JSON of an argument (`network.js:8`, `login.js:13-22`, `lobby.js:7-9`). A frame
  that is longer than the buffer or arrives in portions is read in parts; if a
  part begins with the bytes of an acceptance and ends with them, an acceptance
  is carried out that no dialog gave. `ConsentWasWritten` says that this is the
  only way: an acceptance is never put together from what is not one.
* The path need not be a shortest one. With a single unit on (0, 1) the search
  from (2, 0) to (-1, 1) may return the walk over (1, 1), (0, 2) and (-1, 2),
  four steps where three do; which it is depends on the order of the open set.
  `Unit.moveTo` admits a move by the shortest walk, so a unit may walk farther
  than its speed.
* `Map.line` may leave gaps: between (-2, 2) and (-4, 0), along the edges of
  hexagons, it lists four hexagons, two of which are no neighbours. Both ends
  are always in the list (`FieldLines`).
* An empty ping ends the connection: `io.ReadFull` reports end-of-file for it
  (`hybi.go:293`) and `NanoServer` forgets a client that is still there. Browsers
  of the kind the game is played with send no pings of their own.
* A pong with a payload is answered by an error only, and its payload is read
  as the next header (`hybi.go:304`).
* A frame without delimiter that is shorter than an earlier command can find the
  earlier one's delimiter beyond its end; the slice panics
  (`websocket.go:87`) and the client stays in both tables. Commands of the
  game's pages that arrive whole never do this (`PanicNeedsNoise`).
* An acceptance of which the end is lost counts as a denial, since the error of
  `JSON.Unmarshal` is ignored (`websocket.go:117`).

Fairness: weak fairness for each handler and each notification (the Go scheduler
runs every runnable goroutine); for the goroutines of `SendError` in
`LobbyServer`, where `LoginAnswered` waits for them, but not in `Lobby`, where
nothing does; and in `Lobby` for the script loads and the message loop of each
page (the browser's event loop).
Users and the network owe nothing: they need not click, answer, leave or stay.
The loop of a search is fair: JavaScript runs it to its end. In `WebSocket` the
reader and every writer are fair, and so is the peer's reading: the network
process of a browser empties the socket whatever the page does. On that
`WriteReturns` depends, since no write has a deadline. Nobody owes a frame.

## 4. Proofs

`LobbyServer_proofs` proves, for any finite set of connections, any names,
bounds and commands:

* `TypeCorrect`: `TypeOK` is inductive as it stands. Lemmas state what a write
  does to the outboxes and a read to the inboxes.
* `ServedAreConnected`, `RegisteredCanBeAsked`, for every interleaving, from
  the inductive invariant `Consistent`. `RegisteredHasSocket` is not
  inductive: `Register` enters a player in the table on the strength of what
  `ReadLogin` did before, hence `RegisteringHasSocket`. `ConnectedIffServed`
  needs `HandledSinceDialled`, or a second `Dial` could reset a handler.
* `EntriesAreLostToNamesakes`: `LostToNamesake`, for every interleaving. It
  is inductive together with `Anonymous`, that a handler has no name before it
  is in the table; that whoever has left under a name has left for good, and
  keeps that name, is `ServedOnce`.

`LobbyServerNews_proofs` proves, for every interleaving as well:

* `NobodyMissesNews`: `NewsDelivered`. The invariant `NewsInv` says why somebody
  who is owed the present list will get it: a notification has been started and
  not marshalled yet, or one with the present list has him still before it, or
  some client in the table is unreachable (`NewsComes`): the end-of-file of one
  who is served starts another notification, and one whose handler has panicked
  is what `NewsDelivered` excludes. It needs that whoever is
  owed something is served (`OwedServed`), and that a new notification has
  visited nobody (`SpawnedAfresh`).
* `LoginsAreAnswered`: `NoAnswerLost`. While a client can be reached, the refusals it has
  not been told of are as many as the errors that goroutines have still to write
  to it (`RefusedInv`); names that are granted are followed to a notification that has
  them still to send (`NameComes`).

`Lobby_proofs` proves that every step of the lobby is a step of the server
(`LobbyImplementsServer`, a lemma, which makes the invariants of the server hold
of it); `LobbyTypeCorrect`; and `NobodyDraftedUnasked`: `PreparesByConsent` for any
number of players. Consent is
followed from the click through inbox (`AsksByConsent`), enemy pointer
(`EnemyByConsent`), the handler that starts a game (`StartsByConsent`) and outbox
(`ToldByConsent`) to the stage; each of them is what the next rests on.

`OnlyDenialsMakePanic`: an answer finds no enemy only if a denial has cleared it,
and the answers still in the inbox were given after it (`DenialsClear`);
`UnsetByDenial` says that somebody who was asked and has no enemy has denied
before, `DenialsQueue` that what is in the inbox was answered.

`OpponentsAreChallengers`: `StartsWithChallenger` under `OnceSpec`, the lobby in
which every page sends credentials once at most (`LoginsOnce`), for any number of
players who come, go and ask. The assumption is needed: a player who logs in
under a second name is still found under the first one. The click at Play is
followed to the request in the inbox (`RequestsAreClicks`), from the name in it
to the player it finds in the table (`EntriesBearNames`), to the enemy pointer
(`EnemiesChallenged`), which later requests may overwrite, but only with other
clicks.

`WebSocket_proofs` proves, for any frames of the peer, any number of writers, any
buffer and window: `TypeCorrect`; `FramesGoOutWhole`, from `OneWrites`: who does
not hold `wio` has a whole frame or nothing before him, and what its holder has
still to write continues what is on the wire; `BytesComeInOrder`, from
`FrameKept` (the frame reader exists exactly within a payload, its position in
the key is the place in the payload, and the next byte of it is the next one
expected) and `InLine` (the frames that have arrived follow each other);
`UpIsNotGone`, from `PeerInv`.

`PingsAreAnswered`: `PongsMatchPings`, the safety half of `PingAnswered`: while the
connection is up, of the pings whose header has been read only the latest can be
without its pong, and then the reader is at it; and every pong on the wire
answers a ping, in order. That the pong follows at all is liveness and stays with
TLC. `AnswerInv` keeps what a step needs of the others: that the frames in line are
the last that were sent (`Counted`), that what the reader has still to write is the
end of the pong for the frame it took last (`Answering`), and that no writer has
a pong before him (`NoPong`).

`ReadKeepsItsPromise`: `Spec => ImplementsStream`, the refinement of
`FrameStream`. `PayloadsOf` is a recursive function, and the lemmas about it say
what the refinement needs: the first frame in line comes off the front
(`FirstThenRest`), nothing comes from beyond a frame Read stops at
(`NothingBeyond`), fewer frames carry the first of the payloads
(`FewerFrames`), a new frame goes to the end (`PayloadsUnfold`). Then every step
is a step of `FrameStream` or none: a call that returns bytes is `Return`
(`PayloadIsReturned`), an error or end-of-file `Fail` (`FailIsStep`), a frame
sent `Arrive` if it carries something Read will come to (`SendIsStep`), the end
of the connection `Lose` (`CutInLine`, `CutInFrame`), everything else, headers
and control frames included, no step. It takes `InLine` once more: only the last
frame of all can be cut, so an error within a ping leaves nothing behind it.

`Handshake_proofs` proves the two properties that `MCWebSocket` states of what
is decided before the first frame, for any keys and protocols: `BothEndsOpen`,
by the cases of the first check that fails, of any request that carries the
client's key and offer; and `LengthsAreReadBack`, for every length an `int` of
the code can hold (`LengthsAssumption`): dividing by 256 eight times and
multiplying again gives the number back.

`CommandWire_proofs` proves, for any sizes and payloads, `WireTypeCorrect` and
`CommandsDoNotPanic`: while a command is handled the first `n` tokens of the
buffer are what was read (`InHand`), every command contains a delimiter, so the
first delimiter of the buffer is not beyond `n`. `WireImplementsQueue`:
`ImplementsQueue`, while the connection is clean: a read takes one whole command
out of what is waiting, and handling it is `Take`. `ConsentIsWritten`:
`ConsentWasWritten`, of any payloads. The places where an acceptance stands in
what was sent (`Found`) cover those in what has yet to be read, the acceptance in
the buffer and those carried out: the part of a frame that is taken by a read
takes the place at its beginning with it (`FoundTail`, `FoundRest`), and what is
lost adds none (`FoundFewer`). No assumption is made about the bytes of an
argument but that no JSON of one is the beginning of another's
(`ArgsAssumption`), which holds of objects, `true` and `false`.

`HexMap_proofs` proves, for a map of any size: `DistanceIsMetric`;
`NeighborsAreAdjacent` (the neighbours are exactly the hexagons at distance 1);
that ranges and what is reachable without obstacles are balls
(`RangesAreBalls`, `ReachablesAreBalls`); that `Global` finds the hexagon
nearest to a position within the rim, on a grid of any fineness
(`RoundingIsNearest`); and that a line has both its ends and stays on the map
(`LinesHaveBothEnds`). The triangle inequality rests on `LengthBounds` and
`LengthLeast`: the length of a difference is the least bound of its three
coordinates. For the line the map may have 30000 hexagons from centre to rim: the
code nudges its samples by a millionth, and the proof that this moves neither end
to another hexagon needs such a bound.

`Astar_proofs` has these for the map of `MCAstar`, of any `MapSize` and `Grain`,
as the invariants that the run checks: `FieldRangesAreBalls`,
`FieldReachablesAreBalls`, `FieldRoundingIsNearest`, `FieldLinesHaveBothEnds`.

`Astar_proofs` proves, for a map of any size up to 10 and units anywhere:
`TypeCorrect`, `PathsAreWalks` and `FailsOnlyIfCutOff`. The inductive invariant
`SearchInv` says that every open node is a free walk back to the start over
closed hexagons and the only one with its first hexagon (`Trees`), and that
free neighbours of closed hexagons are closed or open (`Frontier`). Hence a new
node cannot meet itself, and when nothing is open the closed hexagons are a set
that holds the start, not the goal, and that no free neighbour leaves
(`CutOff`). `ReachableStaysInside` says that `Reachable` does not leave such a
set, whence `FailsOnlyIfUnreachable`.

Induction: the provers cannot use a rule whose predicate is a parameter, but they
can use that a nonempty set of numbers has a least element (`LeastNumber`, from
the theorems on well-founded relations). `UpTo` is induction with a set in the
place of the predicate; lemmas like `FringesExist` and `ListsExist` show that
there is a function that satisfies a recursion, and with these two what
`Reachable`, `Line` and `PayloadsOf` compute is proved for every input.

Assumptions on the constants are in the modules that declare them and evaluated
by TLC in every run. Beyond these the theorems assume only what their statements
say: `OnceSpec`, `MapSize <= 30000`.

Only model-checked:

* Liveness: `GoneIsForgotten`, `LoginAnswered`, `BothPrepare`, `PingAnswered`,
  `WriteReturns`, `FramesConsumed`, `SearchEnds`. They rest on fairness, hence on
  ENABLED, which is out of the provers' reach.
* The five promises that the code breaks: a theorem cannot state them.

Every invariant and every action property of the other runs, and each of the
refinements, is proved.

## 5. Not modelled, and the plan

What is left out, and why:

* The preparation (`stages/prepare.js`, `units.js`, `events.js`) and the fight
  (`unit.js`, `stages/fight.js`, turns and AI in `game.js` and `player.js`). At
  this commit they have no behaviour to check: the first click on a unit throws,
  `draw` returns at once, and Start finds no units
  (section 1). A model of the fight would begin in states the program is never
  in. What of them can be seen at this commit is among the hazards of
  `PROJECT.json`.
* Of the WebSocket library, what the server never calls: `Conn.Close`, the
  `Send` and `Receive` of `Codec`, deadlines, addresses; and `JSON.Unmarshal`
  beyond success and failure.
* The other packages of go.net (`html`, `publicsuffix`, `spdy`, `ipv4`, ...):
  vendored, never imported, and most of the Go code of the repository by far.
* Drawing, assets, the voice and map demos, `point.go` (never called),
  `util.js` and the page's markup.

Open, in the order in which it would be done:

1. The safety half of the other liveness properties, as `PongsMatchPings` is that
   of `PingAnswered` and `NoAnswerLost` that of `LoginAnswered`: what can be said
   of every state of a client that has left and is still in the table, and why
   nobody else can be waited for.
2. `Unit`, `Prepare` and `Fight`, once a fight can be started.
