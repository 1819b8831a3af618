--------------------------- MODULE LobbyServer_proofs ---------------------------
(***************************************************************************)
(* Theorems about LobbyServer, for every set of connections and of names   *)
(* and every value of the bounds.                                          *)
(***************************************************************************)
EXTENDS LobbyServer, FiniteSetTheorems, TLAPS

-----------------------------------------------------------------------------
(* Typing. *)

(* What Player.sendMsg and the broadcast write keeps the outboxes typed.   *)
LEMMA WriteTyped ==
  ASSUME TypeOK, NEW c \in Conns, NEW m \in Message, Write(c, m)
  PROVE  outbox' \in [Conns -> Seq(Message)]
<1>1. outbox[c] \in Seq(Message)
  BY DEF TypeOK
<1>2. Append(outbox[c], m) \in Seq(Message)
  BY <1>1
<1> QED
  BY <1>1, <1>2 DEF Write, TypeOK

LEMMA SendMsgTyped ==
  ASSUME TypeOK, NEW c \in Conns, NEW m \in Message, sendMsg(c, m)
  PROVE  outbox' \in [Conns -> Seq(Message)]
<1>1. CASE ws[c]
  BY <1>1, WriteTyped DEF sendMsg
<1>2. CASE ~ws[c]
  BY <1>2 DEF sendMsg, TypeOK
<1> QED
  BY <1>1, <1>2

(* The commands are read and the tasks started as typed values. *)
LEMMA ReadsTyped ==
  ASSUME TypeOK, NEW c \in Conns, NEW op, Reads(c, op)
  PROVE  /\ inbox' \in [Conns -> Seq(Command)]
         /\ Head(inbox[c]) \in Command
         /\ Head(inbox[c]).op = op
         /\ pc[c] = "read"
<1>1. inbox[c] \in Seq(Command) /\ inbox[c] # << >>
  BY DEF TypeOK, Reads
<1>2. Tail(inbox[c]) \in Seq(Command) /\ Head(inbox[c]) \in Command
  BY <1>1
<1> QED
  BY <1>1, <1>2 DEF Reads, TypeOK

LEMMA TasksTyped == NoTask \in Task /\ NewTask \in Task
  BY DEF NoTask, NewTask, Task

LEMMA SpawnTyped ==
  ASSUME TypeOK, SpawnNotify
  PROVE  /\ notifier' \in [Notifiers -> Task]
         /\ \A i \in Notifiers : notifier'[i].at = "writing" => notifier'[i].to # NoConn
<1>1. PICK i \in Notifiers : notifier' = [notifier EXCEPT ![i] = NewTask]
  BY DEF SpawnNotify
<1>2. NewTask \in Task /\ NewTask.at # "writing"
  BY DEF NewTask, Task
<1> QED
  BY <1>1, <1>2 DEF TypeOK

(* One of the two counters of errors[c] is set. *)
LEMMA ErrorsTyped ==
  ASSUME TypeOK, NEW c \in Conns, NEW how \in {"socket", "player"}, NEW k \in Nat,
         errors' = [errors EXCEPT ![c][how] = k]
  PROVE  errors' \in [Conns -> [socket : Nat, player : Nat]]
<1> DEFINE e == [errors[c] EXCEPT ![how] = k]
<1>1. e \in [socket : Nat, player : Nat]
  <2>1. CASE how = "socket"
    BY <2>1 DEF TypeOK
  <2>2. CASE how = "player"
    BY <2>2 DEF TypeOK
  <2> QED
    BY <2>1, <2>2
<1>2. errors' = [errors EXCEPT ![c] = e]
  OBVIOUS
<1> HIDE DEF e
<1> QED
  BY <1>1, <1>2 DEF TypeOK

LEMMA SpawnErrorTyped ==
  ASSUME TypeOK, NEW c \in Conns, NEW how \in {"socket", "player"}, SpawnError(c, how)
  PROVE  errors' \in [Conns -> [socket : Nat, player : Nat]]
<1>1. errors[c][how] + 1 \in Nat
  BY DEF TypeOK
<1> QED
  BY <1>1, ErrorsTyped DEF SpawnError

LEMMA InitTyped == Init => TypeOK
<1> SUFFICES ASSUME Init PROVE TypeOK
  OBVIOUS
<1>1. \A c \in Conns : inbox[c] = << >> /\ outbox[c] = << >>
  BY DEF Init
<1>2. inbox \in [Conns -> Seq(Command)] /\ outbox \in [Conns -> Seq(Message)]
  BY <1>1 DEF Init
<1>3. submitted \in 0 .. MaxCommands
  BY BoundsAssumption DEF Init
<1>4. /\ notifier \in [Notifiers -> Task]
      /\ \A i \in Notifiers : notifier[i].at # "writing"
  BY TasksTyped DEF Init, NoTask
<1> QED
  BY <1>2, <1>3, <1>4 DEF Init, TypeOK, Login, Location

(* The environment: only link, inbox and submitted move, and pc when a     *)
(* browser dials.                                                          *)
LEMMA NetworkTyped == TypeOK /\ Network => TypeOK'
<1> SUFFICES ASSUME TypeOK, NEW c \in Conns,
                    \/ Dial(c)
                    \/ \E cmd \in Submittable : Submit(c, cmd)
                    \/ Hangup(c)
                    \/ Abort(c)
             PROVE  TypeOK'
  BY DEF Network
<1> USE DEF TypeOK, handlerVars, tableVars, wireVars, taskVars
<1>1. CASE Dial(c)
  BY <1>1 DEF Dial, Goto, Location
<1>2. ASSUME NEW cmd \in Submittable, Submit(c, cmd) PROVE TypeOK'
  <2>1. Append(inbox[c], cmd) \in Seq(Command)
    BY SubmittableAssumption
  <2>2. inbox' \in [Conns -> Seq(Command)]
    BY <1>2, <2>1 DEF Submit
  <2>3. submitted' \in 0 .. MaxCommands
    BY <1>2, BoundsAssumption DEF Submit
  <2> QED
    BY <1>2, <2>2, <2>3 DEF Submit
<1>3. CASE Hangup(c)
  BY <1>3 DEF Hangup
<1>4. CASE Abort(c)
  <2>1. << >> \in Seq(Command)
    OBVIOUS
  <2>2. inbox' \in [Conns -> Seq(Command)]
    BY <1>4, <2>1 DEF Abort
  <2> QED
    BY <1>4, <2>2 DEF Abort
<1> QED
  BY <1>1, <1>2, <1>3, <1>4

LEMMA HandlerTyped ==
  ASSUME TypeOK, NEW c \in Conns, Handler(c)
  PROVE  TypeOK'
<1> USE DEF TypeOK, handlerVars, tableVars, wireVars, taskVars, Location
<1>1. CASE Accept(c)
  BY <1>1 DEF Accept, Goto
<1>2. CASE Admit(c)
  BY <1>2 DEF Admit, Goto
<1>3. CASE ReadError(c)
  BY <1>3 DEF ReadError
<1>4. CASE ReadEOF(c)
  BY <1>4, SpawnTyped DEF ReadEOF, ForgetPlayer, ForgetConnection, Goto
<1>5. CASE Close(c)
  BY <1>5 DEF Close, Goto
<1>6. CASE ReadLogin(c)
  <2>1. /\ inbox' \in [Conns -> Seq(Command)]
        /\ Head(inbox[c]) \in Command
        /\ Head(inbox[c]).op = "login"
        /\ pc[c] = "read"
    BY <1>6, ReadsTyped DEF ReadLogin
  <2>2. Head(inbox[c]).login \in Login
    BY <2>1 DEF Command
  <2>3. errors' \in [Conns -> [socket : Nat, player : Nat]]
    BY <1>6, SpawnErrorTyped DEF ReadLogin
  <2> QED
    BY <1>6, <2>1, <2>2, <2>3 DEF ReadLogin, GiveSocket, Goto
<1>7. CASE Register(c)
  BY <1>7, SpawnTyped DEF Register, Goto
<1>8. CASE ReadRequest(c)
  <2>1. /\ inbox' \in [Conns -> Seq(Command)]
        /\ Head(inbox[c]) \in Command
        /\ Head(inbox[c]).op = "pvp-request"
        /\ pc[c] = "read"
    BY <1>8, ReadsTyped DEF ReadRequest
  <2> DEFINE n == Head(inbox[c]).name
  <2>2. CASE n = NoName /\ sendMsg(c, [kind |-> "error"])
                       /\ UNCHANGED <<enemy, pc, target, errors>>
    <3>1. [kind |-> "error"] \in Message
      BY DEF Message
    <3>2. outbox' \in [Conns -> Seq(Message)]
      BY <2>2, <3>1, SendMsgTyped
    <3> QED
      BY <1>8, <2>1, <2>2, <3>2 DEF ReadRequest
  <2>3. CASE SpawnError(c, "player") /\ UNCHANGED <<enemy, pc, target, outbox>>
    BY <1>8, <2>1, <2>3, SpawnErrorTyped DEF ReadRequest
  <2>4. CASE /\ Found(n)
             /\ target' = [target EXCEPT ![c] = players[n]]
             /\ SetEnemy(players[n], c)
             /\ Goto(c, "ask")
             /\ UNCHANGED <<outbox, errors>>
    <3>1. players[n] \in Conns
      BY <2>4 DEF Found, Registered
    <3> QED
      BY <1>8, <2>1, <2>4, <3>1, ConnsAssumption DEF ReadRequest, SetEnemy, Goto
  <2> QED
    BY <1>8, <2>2, <2>3, <2>4 DEF ReadRequest
<1>9. CASE Ask(c)
  <2>1. [kind |-> "pvp-request", from |-> name[c]] \in Message
    BY DEF Message
  <2>2. target[c] \in Conns
    BY <1>9 DEF Ask
  <2>3. outbox' \in [Conns -> Seq(Message)]
    BY <1>9, <2>1, <2>2, SendMsgTyped DEF Ask
  <2> QED
    BY <1>9, <2>3, SpawnTyped DEF Ask, Goto
<1>10. CASE ReadAccept(c)
  <2>1. inbox' \in [Conns -> Seq(Command)] /\ pc[c] = "read"
    BY <1>10, ReadsTyped DEF ReadAccept
  <2> QED
    BY <1>10, <2>1 DEF ReadAccept, Goto
<1>11. CASE StartEnemy(c)
  <2>1. [kind |-> "pvp-start"] \in Message
    BY DEF Message
  <2>2. target[c] \in Conns
    BY <1>11 DEF StartEnemy
  <2>3. outbox' \in [Conns -> Seq(Message)]
    BY <1>11, <2>1, <2>2, SendMsgTyped DEF StartEnemy
  <2> QED
    BY <1>11, <2>3 DEF StartEnemy, Goto
<1>12. CASE StartSelf(c)
  <2>1. [kind |-> "pvp-start"] \in Message
    BY DEF Message
  <2>2. outbox' \in [Conns -> Seq(Message)]
    BY <1>12, <2>1, SendMsgTyped DEF StartSelf
  <2> QED
    BY <1>12, <2>2, SpawnTyped DEF StartSelf, Goto
<1>13. CASE Deny(c)
  <2>1. [kind |-> "pvp-deny"] \in Message
    BY DEF Message
  <2>2. target[c] \in Conns
    BY <1>13 DEF Deny
  <2>3. outbox' \in [Conns -> Seq(Message)]
    BY <1>13, <2>1, <2>2, SendMsgTyped DEF Deny
  <2> QED
    BY <1>13, <2>3 DEF Deny, Goto
<1>14. CASE ClearEnemy(c)
  BY <1>14, SpawnTyped DEF ClearEnemy, SetEnemy, Goto
<1>15. CASE ReadUnknown(c)
  <2>1. inbox' \in [Conns -> Seq(Command)]
    BY <1>15, ReadsTyped DEF ReadUnknown
  <2> QED
    BY <1>15, <2>1 DEF ReadUnknown
<1> QED
  BY <1>1, <1>2, <1>3, <1>4, <1>5, <1>6, <1>7, <1>8, <1>9, <1>10, <1>11, <1>12,
     <1>13, <1>14, <1>15 DEF Handler

LEMMA NotifyTyped ==
  ASSUME TypeOK, NEW i \in Notifiers, NotifyClients(i)
  PROVE  TypeOK'
<1> USE DEF TypeOK, handlerVars, tableVars, wireVars, taskVars
<1>1. CASE NotifyMarshal(i)
  <2> DEFINE t == [notifier[i] EXCEPT !.at = "ranging", !.names = Registered,
                                      !.first = connections]
  <2>1. t \in Task /\ t.at = "ranging"
    BY DEF Task, Registered
  <2>2. notifier' = [notifier EXCEPT ![i] = t]
    BY <1>1 DEF NotifyMarshal
  <2> HIDE DEF t
  <2> QED
    BY <1>1, <2>1, <2>2 DEF NotifyMarshal
<1>2. ASSUME NEW c \in Conns, NotifyPick(i, c) PROVE TypeOK'
  <2> DEFINE t == [notifier[i] EXCEPT !.at = "writing", !.to = c,
                                      !.visited = notifier[i].visited \cup {c}]
  <2>1. t \in Task /\ t.to # NoConn
    BY ConnsAssumption DEF Task
  <2>2. notifier' = [notifier EXCEPT ![i] = t]
    BY <1>2 DEF NotifyPick
  <2> HIDE DEF t
  <2> QED
    BY <1>2, <2>1, <2>2 DEF NotifyPick
<1>3. CASE NotifyWrite(i)
  <2> DEFINE m == [kind |-> "players", names |-> notifier[i].names]
  <2>1. m \in Message
    BY DEF Message, Task
  <2>2. notifier[i].to \in Conns
    BY <1>3 DEF NotifyWrite, Task
  <2>3. outbox' \in [Conns -> Seq(Message)]
    BY <1>3, <2>1, <2>2, WriteTyped DEF NotifyWrite
  <2>4. /\ notifier' \in [Notifiers -> Task]
        /\ \A j \in Notifiers : notifier'[j].at = "writing" => notifier'[j].to # NoConn
    <3> DEFINE t == [notifier[i] EXCEPT !.at = "ranging", !.to = NoConn]
    <3>1. t \in Task /\ t.at = "ranging"
      BY DEF Task
    <3>2. NoTask \in Task /\ NoTask.at = "idle"
      BY TasksTyped DEF NoTask
    <3>3. notifier' = [notifier EXCEPT ![i] = t] \/ notifier' = [notifier EXCEPT ![i] = NoTask]
      BY <1>3 DEF NotifyWrite
    <3> HIDE DEF t
    <3> QED
      BY <3>1, <3>2, <3>3
  <2> QED
    BY <1>3, <2>3, <2>4 DEF NotifyWrite
<1>4. CASE NotifyReturn(i)
  BY <1>4, TasksTyped DEF NotifyReturn, NoTask
<1> QED
  BY <1>1, <1>2, <1>3, <1>4 DEF NotifyClients

LEMMA SendErrorTyped ==
  ASSUME TypeOK, NEW c \in Conns, NEW how \in {"socket", "player"}, SendError(c, how)
  PROVE  TypeOK'
<1>1. [kind |-> "error"] \in Message
  BY DEF Message
<1>2. outbox' \in [Conns -> Seq(Message)]
  BY <1>1, WriteTyped, SendMsgTyped DEF SendError
<1>3. errors' \in [Conns -> [socket : Nat, player : Nat]]
  <2>1. errors[c][how] - 1 \in Nat
    BY DEF SendError, TypeOK
  <2> QED
    BY <2>1, ErrorsTyped DEF SendError
<1> QED
  BY <1>2, <1>3 DEF SendError, TypeOK, handlerVars, tableVars

LEMMA StepTyped == TypeOK /\ [Next]_vars => TypeOK'
<1> SUFFICES ASSUME TypeOK, [Next]_vars PROVE TypeOK'
  OBVIOUS
<1>1. CASE Goroutines
  BY <1>1, HandlerTyped, NotifyTyped, SendErrorTyped DEF Goroutines
<1>2. CASE Network
  BY <1>2, NetworkTyped
<1>3. CASE UNCHANGED vars
  BY <1>3 DEF vars, handlerVars, tableVars, wireVars, taskVars, TypeOK
<1> QED
  BY <1>1, <1>2, <1>3 DEF Next

(* The type invariant of the server, for any number of clients, whatever   *)
(* they send.                                                              *)
THEOREM TypeCorrect == Spec => []TypeOK
<1> QED
  BY InitTyped, StepTyped, PTL DEF Spec

-----------------------------------------------------------------------------
(* The tables and the handlers agree, wherever goroutines are switched.    *)

(* A handler is past the test of login() only with a non-empty login and   *)
(* with the socket already given to its player.                            *)
RegisteringHasSocket ==
  \A c \in Conns : pc[c] = "register" => auth[c] \in Names /\ ws[c]

(* No handler before the browser dials, one from then on: a connection is  *)
(* never dialled twice.                                                    *)
HandledSinceDialled ==
  \A c \in Conns : pc[c] = "none" <=> link[c] = "none"

Consistent ==
  /\ HandledSinceDialled
  /\ ConnectedIffServed
  /\ RegisteringHasSocket
  /\ RegisteredHasSocket

LEMMA InitConsistent == Init => Consistent
  BY DEF Init, Consistent, HandledSinceDialled, ConnectedIffServed, Serving,
         RegisteringHasSocket, RegisteredHasSocket

LEMMA NetworkConsistent == TypeOK /\ Consistent /\ Network => Consistent'
<1> SUFFICES ASSUME TypeOK, Consistent, NEW c \in Conns,
                    \/ Dial(c)
                    \/ \E cmd \in Submittable : Submit(c, cmd)
                    \/ Hangup(c)
                    \/ Abort(c)
             PROVE  Consistent'
  BY DEF Network
<1> USE DEF TypeOK, Consistent, HandledSinceDialled, ConnectedIffServed, Serving,
            RegisteringHasSocket, RegisteredHasSocket, handlerVars, tableVars
<1>1. CASE Dial(c)
  BY <1>1 DEF Dial, Goto
<1>2. ASSUME NEW cmd \in Submittable, Submit(c, cmd) PROVE Consistent'
  BY <1>2 DEF Submit
<1>3. CASE Hangup(c)
  BY <1>3 DEF Hangup
<1>4. CASE Abort(c)
  BY <1>4 DEF Abort
<1> QED
  BY <1>1, <1>2, <1>3, <1>4

LEMMA HandlerConsistent ==
  ASSUME TypeOK, Consistent, NEW c \in Conns, Handler(c)
  PROVE  Consistent'
<1> USE DEF TypeOK, Consistent, HandledSinceDialled, ConnectedIffServed, Serving,
            RegisteringHasSocket, RegisteredHasSocket, handlerVars, tableVars, wireVars,
            Goto
<1>1. CASE Accept(c)
  BY <1>1 DEF Accept
<1>2. CASE Admit(c)
  BY <1>2 DEF Admit
<1>3. CASE ReadError(c)
  BY <1>3 DEF ReadError
<1>4. CASE ReadEOF(c)
  <2>1. /\ connections' = connections \ {c}
        /\ pc[c] = "read" /\ pc' = [pc EXCEPT ![c] = "closing"]
        /\ UNCHANGED <<auth, ws, link>>
        /\ \A n \in Names : players'[n] = NoConn \/ players'[n] = players[n]
    BY <1>4 DEF ReadEOF, ForgetPlayer, ForgetConnection
  <2>2. HandledSinceDialled' /\ ConnectedIffServed' /\ RegisteringHasSocket'
    BY <2>1
  <2>3. RegisteredHasSocket'
    BY <2>1
  <2> QED
    BY <2>2, <2>3
<1>5. CASE Close(c)
  BY <1>5 DEF Close
<1>6. CASE ReadLogin(c)
  <2>1. /\ pc[c] = "read"
        /\ ws' = [ws EXCEPT ![c] = TRUE]
        /\ auth' = [auth EXCEPT ![c] = Head(inbox[c]).login]
        /\ UNCHANGED <<connections, players, link>>
    BY <1>6 DEF ReadLogin, Reads, GiveSocket
  <2>2. \/ pc' = pc
        \/ Head(inbox[c]).login \in Names /\ pc' = [pc EXCEPT ![c] = "register"]
    BY <1>6 DEF ReadLogin, Granted
  <2>3. HandledSinceDialled' /\ ConnectedIffServed'
    BY <2>1, <2>2
  <2>4. RegisteringHasSocket'
    BY <2>1, <2>2
  <2>5. RegisteredHasSocket'
    BY <2>1
  <2> QED
    BY <2>3, <2>4, <2>5
<1>7. CASE Register(c)
  BY <1>7 DEF Register
<1>8. CASE ReadRequest(c)
  <2>1. /\ pc[c] = "read" /\ pc' \in {pc, [pc EXCEPT ![c] = "ask"]}
        /\ UNCHANGED <<connections, players, auth, ws, link>>
    BY <1>8 DEF ReadRequest, Reads
  <2> QED
    BY <2>1
<1>9. CASE Ask(c)
  BY <1>9 DEF Ask
<1>10. CASE ReadAccept(c)
  <2>1. /\ pc[c] = "read"
        /\ UNCHANGED <<connections, players, auth, ws>>
        /\ \/ pc' = [pc EXCEPT ![c] = "panicked"] /\ link' = [link EXCEPT ![c] = "down"]
           \/ pc' = [pc EXCEPT ![c] = "start"] /\ link' = link
           \/ pc' = [pc EXCEPT ![c] = "deny"] /\ link' = link
    BY <1>10 DEF ReadAccept, Reads
  <2>2. link[c] # "none"
    BY <2>1
  <2>3. HandledSinceDialled'
    BY <2>1, <2>2
  <2>4. ConnectedIffServed'
    BY <2>1
  <2>5. RegisteringHasSocket' /\ RegisteredHasSocket'
    BY <2>1
  <2> QED
    BY <2>3, <2>4, <2>5
<1>11. CASE StartEnemy(c)
  BY <1>11 DEF StartEnemy
<1>12. CASE StartSelf(c)
  BY <1>12 DEF StartSelf
<1>13. CASE Deny(c)
  BY <1>13 DEF Deny
<1>14. CASE ClearEnemy(c)
  BY <1>14 DEF ClearEnemy
<1>15. CASE ReadUnknown(c)
  BY <1>15 DEF ReadUnknown
<1> QED
  BY <1>1, <1>2, <1>3, <1>4, <1>5, <1>6, <1>7, <1>8, <1>9, <1>10, <1>11, <1>12,
     <1>13, <1>14, <1>15 DEF Handler

(* The goroutines that only write touch neither the tables nor a handler.  *)
LEMMA WritersChangeNothing ==
  ASSUME \/ \E i \in Notifiers : NotifyClients(i)
         \/ \E c \in Conns, how \in {"socket", "player"} : SendError(c, how)
  PROVE  UNCHANGED <<connections, players, name, auth, ws, enemy, pc, target, link, inbox>>
<1> USE DEF handlerVars, tableVars, wireVars
<1>1. ASSUME NEW i \in Notifiers, NotifyClients(i)
      PROVE  UNCHANGED <<connections, players, name, auth, ws, enemy, pc, target, link, inbox>>
  BY <1>1 DEF NotifyClients, NotifyMarshal, NotifyPick, NotifyWrite, NotifyReturn
<1>2. ASSUME NEW c \in Conns, NEW how \in {"socket", "player"}, SendError(c, how)
      PROVE  UNCHANGED <<connections, players, name, auth, ws, enemy, pc, target, link, inbox>>
  BY <1>2 DEF SendError
<1> QED
  BY <1>1, <1>2

LEMMA StepConsistent == TypeOK /\ Consistent /\ [Next]_vars => Consistent'
<1> SUFFICES ASSUME TypeOK, Consistent, [Next]_vars PROVE Consistent'
  OBVIOUS
<1> USE DEF Consistent, HandledSinceDialled, ConnectedIffServed, Serving,
            RegisteringHasSocket, RegisteredHasSocket
<1>1. ASSUME NEW c \in Conns, Handler(c) PROVE Consistent'
  BY <1>1, HandlerConsistent
<1>2. CASE \/ \E i \in Notifiers : NotifyClients(i)
           \/ \E c \in Conns, how \in {"socket", "player"} : SendError(c, how)
  BY <1>2, WritersChangeNothing
<1>3. CASE Network
  BY <1>3, NetworkConsistent
<1>4. CASE UNCHANGED vars
  BY <1>4 DEF vars, handlerVars, tableVars, wireVars
<1> QED
  BY <1>1, <1>2, <1>3, <1>4 DEF Next, Goroutines

(* The broadcasts range over exactly the clients being served and those    *)
(* whose handler panicked: the table of connections never loses or keeps   *)
(* anybody else.                                                           *)
THEOREM ServedAreConnected == Spec => []ConnectedIffServed
<1>1. Consistent => ConnectedIffServed
  BY DEF Consistent
<1> QED
  BY <1>1, InitTyped, StepTyped, InitConsistent, StepConsistent, PTL DEF Spec

(* Whoever the table of players holds can be written to: a pvp-request     *)
(* never meets a player without a socket.                                  *)
THEOREM RegisteredCanBeAsked == Spec => []RegisteredHasSocket
<1>1. Consistent => RegisteredHasSocket
  BY DEF Consistent
<1> QED
  BY <1>1, InitTyped, StepTyped, InitConsistent, StepConsistent, PTL DEF Spec

-----------------------------------------------------------------------------
(* The entries of the table of players. *)

(* Only a login adds to the table of players, only an end-of-file removes, *)
(* and only the login of a client gives it its name.                       *)
LEMMA PlayersStep ==
  ASSUME TypeOK, [Next]_vars
  PROVE  \/ UNCHANGED <<players, name>>
         \/ \E c \in Conns :
              /\ pc[c] = "register" /\ pc' = [pc EXCEPT ![c] = "read"]
              /\ name' = [name EXCEPT ![c] = auth[c]]
              /\ players' = [players EXCEPT ![auth[c]] = c]
         \/ \E c \in Conns :
              /\ pc[c] = "read" /\ pc' = [pc EXCEPT ![c] = "closing"]
              /\ players' = [n \in Names |-> IF n = name[c] THEN NoConn ELSE players[n]]
              /\ name' = name
<1> USE DEF tableVars, handlerVars
<1>1. ASSUME NEW c \in Conns, Handler(c), ~Register(c), ~ReadEOF(c)
      PROVE  UNCHANGED <<players, name>>
  BY <1>1 DEF Handler, Accept, Admit, ReadError, Close, ReadLogin, ReadRequest, Ask,
              ReadAccept, StartEnemy, StartSelf, Deny, ClearEnemy, ReadUnknown
<1>2. CASE Network \/ UNCHANGED vars
  BY <1>2 DEF Network, Dial, Submit, Hangup, Abort, vars
<1>3. CASE \E c \in Conns : Register(c) \/ ReadEOF(c)
  BY <1>3 DEF Register, ReadEOF, ForgetPlayer, Goto
<1> QED
  BY <1>1, <1>2, <1>3, WritersChangeNothing DEF Next, Goroutines

Early == {"none", "accept", "admit"}

Left == {"closing", "done"}

(* Who is being served was not before that, and who has left has left for  *)
(* good.                                                                   *)
LEMMA ServedOnce ==
  ASSUME TypeOK, Consistent, [Next]_vars, NEW d \in Conns
  PROVE  /\ pc'[d] \in Serving => pc[d] \in Serving \cup Early
         /\ pc[d] \in Left => pc'[d] \in Left
         /\ pc'[d] \in Early => pc[d] \in Early
<1> USE DEF Early, Left, Serving, Goto, TypeOK, handlerVars
<1>1. ASSUME NEW c \in Conns, Handler(c)
      PROVE  /\ pc'[d] \in Serving => pc[d] \in Serving \cup Early
             /\ pc[d] \in Left => pc'[d] \in Left
             /\ pc'[d] \in Early => pc[d] \in Early
  BY <1>1 DEF Handler, Accept, Admit, ReadError, ReadEOF, Close, ReadLogin, Register,
              ReadRequest, Ask, ReadAccept, StartEnemy, StartSelf, Deny, ClearEnemy,
              ReadUnknown, Reads
<1>2. CASE \/ \E i \in Notifiers : NotifyClients(i)
           \/ \E c \in Conns, how \in {"socket", "player"} : SendError(c, how)
  BY <1>2, WritersChangeNothing
<1>3. CASE Network
  <2>1. link[d] = "none" <=> pc[d] = "none"
    BY DEF Consistent, HandledSinceDialled
  <2> QED
    BY <1>3, <2>1 DEF Network, Dial, Submit, Hangup, Abort
<1>4. CASE UNCHANGED vars
  BY <1>4 DEF vars
<1> QED
  BY <1>1, <1>2, <1>3, <1>4 DEF Next, Goroutines

(* A handler that has not admitted its client yet has no name for it. *)
Anonymous == \A c \in Conns : pc[c] \in Early => name[c] = NoName

EntriesInv == Anonymous /\ LostToNamesake

LEMMA InitEntries == Init => EntriesInv
  BY DEF Init, EntriesInv, Anonymous, LostToNamesake, Serving

LEMMA StepEntries ==
  ASSUME TypeOK, Consistent, EntriesInv, [Next]_vars
  PROVE  EntriesInv'
<1>1. ASSUME NEW c \in Conns, NEW d \in Conns \ {c}, name[d] = name[c], pc[d] \in Left,
             name'[c] = name[c], name'[d] = name[d]
      PROVE  \E e \in Conns \ {c} : name'[e] = name'[c] /\ pc'[e] \in Left
  BY <1>1, ServedOnce
<1>2. ASSUME NEW c \in Conns, pc'[c] \in Serving, name[c] # NoName, name'[c] = name[c]
      PROVE  pc[c] \in Serving
  BY <1>2, ServedOnce DEF EntriesInv, Anonymous
<1>3. CASE UNCHANGED <<players, name>>
  <2>1. Anonymous'
    BY <1>3, ServedOnce DEF EntriesInv, Anonymous
  <2>2. LostToNamesake'
    <3> SUFFICES ASSUME NEW c \in Conns, pc'[c] \in Serving, name[c] # NoName,
                        players[name[c]] = NoConn
                 PROVE  \E d \in Conns \ {c} : name'[d] = name'[c] /\ pc'[d] \in Left
      BY <1>3 DEF LostToNamesake, Left
    <3>1. \E d \in Conns \ {c} : name[d] = name[c] /\ pc[d] \in Left
      BY <1>2, <1>3 DEF EntriesInv, LostToNamesake, Left
    <3> QED
      BY <1>1, <1>3, <3>1
  <2> QED
    BY <2>1, <2>2 DEF EntriesInv
(* A login gives an entry to the client, and takes none from anybody.      *)
<1>4. ASSUME NEW b \in Conns, pc[b] = "register", pc' = [pc EXCEPT ![b] = "read"],
             name' = [name EXCEPT ![b] = auth[b]], players' = [players EXCEPT ![auth[b]] = b]
      PROVE  EntriesInv'
  <2>1. /\ b # NoConn /\ auth[b] \in Names /\ pc \in [Conns -> Location]
        /\ name \in [Conns -> Login] /\ players \in [Names -> Conns \cup {NoConn}]
    BY <1>4, ConnsAssumption DEF TypeOK, Consistent, RegisteringHasSocket
  <2>2. Anonymous'
    BY <1>4, <2>1, ServedOnce DEF EntriesInv, Anonymous, Early
  <2>3. LostToNamesake'
    <3> SUFFICES ASSUME NEW c \in Conns, pc'[c] \in Serving, name'[c] # NoName,
                        players'[name'[c]] = NoConn
                 PROVE  \E d \in Conns \ {c} : name'[d] = name'[c] /\ pc'[d] \in Left
      BY DEF LostToNamesake, Left
    <3>1. c # b /\ name'[c] = name[c] /\ name[c] \in Names
      BY <1>4, <2>1 DEF Login
    <3>2. players[name[c]] = NoConn
      BY <1>4, <2>1, <3>1
    <3>3. PICK d \in Conns \ {c} : name[d] = name[c] /\ pc[d] \in Left
      BY <1>2, <3>1, <3>2 DEF EntriesInv, LostToNamesake, Left
    <3>4. d # b
      BY <1>4, <3>3 DEF Left
    <3> QED
      BY <1>1, <1>4, <2>1, <3>1, <3>3, <3>4
  <2> QED
    BY <2>2, <2>3 DEF EntriesInv
(* An end-of-file takes an entry away: the client is a namesake of whoever *)
(* loses it.                                                               *)
<1>5. ASSUME NEW b \in Conns, pc[b] = "read", pc' = [pc EXCEPT ![b] = "closing"],
             players' = [n \in Names |-> IF n = name[b] THEN NoConn ELSE players[n]],
             name' = name
      PROVE  EntriesInv'
  <2>1. /\ pc \in [Conns -> Location] /\ name \in [Conns -> Login]
        /\ players \in [Names -> Conns \cup {NoConn}]
    BY DEF TypeOK
  <2>2. Anonymous'
    BY <1>5, <2>1 DEF EntriesInv, Anonymous, Early
  <2>3. LostToNamesake'
    <3> SUFFICES ASSUME NEW c \in Conns, pc'[c] \in Serving, name[c] # NoName,
                        players'[name[c]] = NoConn
                 PROVE  \E d \in Conns \ {c} : name'[d] = name'[c] /\ pc'[d] \in Left
      BY <1>5 DEF LostToNamesake, Left
    <3>1. c # b /\ name[c] \in Names
      BY <1>5, <2>1 DEF Serving, Login
    <3>2. CASE name[c] = name[b]
      BY <1>5, <2>1, <3>1, <3>2 DEF Left
    <3>3. CASE name[c] # name[b]
      <4>1. players[name[c]] = NoConn
        BY <1>5, <3>1, <3>3
      <4>2. \E d \in Conns \ {c} : name[d] = name[c] /\ pc[d] \in Left
        BY <1>2, <1>5, <4>1 DEF EntriesInv, LostToNamesake, Left
      <4> QED
        BY <1>1, <1>5, <4>2
    <3> QED
      BY <3>2, <3>3
  <2> QED
    BY <2>2, <2>3 DEF EntriesInv
<1> QED
  BY <1>3, <1>4, <1>5, PlayersStep

(* A player who is served and not in the table has lost the entry to a     *)
(* namesake that has left: for any number of clients that come, log in,    *)
(* under several names too, and go, wherever goroutines are switched       *)
(* between the test of login() and its assignments (player.go:37-41).      *)
THEOREM EntriesAreLostToNamesakes == Spec => []LostToNamesake
<1>1. Init => TypeOK /\ Consistent /\ EntriesInv
  BY InitTyped, InitConsistent, InitEntries
<1>2. TypeOK /\ Consistent /\ EntriesInv /\ [Next]_vars
        => TypeOK' /\ Consistent' /\ EntriesInv'
  BY StepTyped, StepConsistent, StepEntries
<1>3. EntriesInv => LostToNamesake
  BY DEF EntriesInv
<1> QED
  BY <1>1, <1>2, <1>3, PTL DEF Spec

=============================================================================
