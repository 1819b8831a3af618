------------------------------ MODULE Lobby_proofs ------------------------------
(***************************************************************************)
(* Theorems about Lobby, for every set of pages and of names: the server   *)
(* with the game's pages is a server as module LobbyServer has it, so that *)
(* all that is proved there holds here.                                    *)
(***************************************************************************)
EXTENDS Lobby, LobbyServer_proofs

LEMMA CommandsOfPages ==
  /\ \A n \in Names : LogIn(n) \in Submittable /\ PvpRequest(n) \in Submittable
  /\ \A go \in BOOLEAN : PvpAccept(go) \in Submittable
  BY BrowserAssumption DEF BrowserCommand

LEMMA SendIsSubmit ==
  ASSUME NEW c \in Conns, NEW cmd \in Submittable, Send(c, cmd)
  PROVE  Network \/ UNCHANGED vars
  BY DEF Send, Network

LEMMA PageIsNetwork ==
  ASSUME NEW c \in Conns, Page(c)
  PROVE  Network \/ UNCHANGED vars
<1>1. CASE OpenPage(c)
  BY <1>1 DEF OpenPage, Network
<1>2. CASE LoadStage(c)
  BY <1>2 DEF LoadStage, LoadLogin, LoadLobby, LoadPrepare
<1>3. CASE Receive(c)
  BY <1>3 DEF Receive, ReceiveError, ReceiveIgnored, ReceiveInLogin, ReceiveInLobby, Network
<1>4. ASSUME NEW n \in Names, ClickLogin(c, n) \/ ClickPlay(c, n)
      PROVE  Network \/ UNCHANGED vars
  BY <1>4, CommandsOfPages, SendIsSubmit DEF ClickLogin, ClickPlay
<1>5. ASSUME NEW go \in BOOLEAN, Answer(c, go)
      PROVE  Network \/ UNCHANGED vars
  BY <1>5, CommandsOfPages, SendIsSubmit DEF Answer
<1>6. ASSUME NEW n \in Login, ClickIncomplete(c, n)
      PROVE  Network \/ UNCHANGED vars
  BY <1>6 DEF ClickIncomplete
<1> QED
  BY <1>1, <1>2, <1>3, <1>4, <1>5, <1>6 DEF Page

LEMMA LobbyStep == [LobbyNext]_lobbyVars => [Next]_vars
<1>1. Server => Next
  BY DEF Server, Next
<1>2. ASSUME NEW c \in Conns, Departure(c) PROVE Network
  BY <1>2 DEF Departure, ClosePage, LoseNetwork, Network
<1>3. UNCHANGED lobbyVars => UNCHANGED vars
  BY DEF lobbyVars
<1> QED
  BY <1>1, <1>2, <1>3, PageIsNetwork DEF LobbyNext, Next

(* What is proved of the server alone holds here. *)
LEMMA LobbyImplementsServer == LobbySpec => Spec
<1>1. LobbyInit => Init
  BY DEF LobbyInit
<1> QED
  BY <1>1, LobbyStep, PTL DEF LobbySpec, Spec

-----------------------------------------------------------------------------
(* What the server delivers and what it reads. *)

(* All messages in the outboxes are old ones, but for messages m to c. *)
Delivers(c, m) ==
  \A d \in Conns :
    /\ Len(outbox[d]) <= Len(outbox'[d])
    /\ \A k \in 1 .. Len(outbox'[d]) :
         \/ k \in 1 .. Len(outbox[d]) /\ outbox'[d][k] = outbox[d][k]
         \/ d = c /\ outbox'[d][k] = m

LEMMA WriteDelivers ==
  ASSUME TypeOK, NEW c \in Conns, NEW m \in Message, Write(c, m) \/ sendMsg(c, m)
  PROVE  Delivers(c, m)
<1>1. outbox' = outbox \/ outbox' = [outbox EXCEPT ![c] = Append(@, m)]
  <2>1. outbox = [outbox EXCEPT ![c] = outbox[c]]
    BY DEF TypeOK
  <2> QED
    BY <2>1 DEF Write, sendMsg
<1>2. ASSUME NEW d \in Conns
      PROVE  /\ Len(outbox[d]) <= Len(outbox'[d])
             /\ \A k \in 1 .. Len(outbox'[d]) :
                  \/ k \in 1 .. Len(outbox[d]) /\ outbox'[d][k] = outbox[d][k]
                  \/ d = c /\ outbox'[d][k] = m
  <2>1. outbox[d] \in Seq(Message)
    BY DEF TypeOK
  <2>2. CASE outbox'[d] = outbox[d]
    BY <2>1, <2>2
  <2>3. CASE d = c /\ outbox'[d] = Append(outbox[d], m)
    BY <2>1, <2>3
  <2> QED
    BY <1>1, <2>2, <2>3 DEF TypeOK
<1> QED
  BY <1>2 DEF Delivers

LEMMA NothingDelivered ==
  ASSUME TypeOK, outbox' = outbox, NEW c, NEW m
  PROVE  Delivers(c, m)
<1>1. \A d \in Conns : Len(outbox[d]) \in Nat
  BY DEF TypeOK
<1> QED
  BY <1>1 DEF Delivers

(* Every unread command was unread before. *)
ReadsOn ==
  \A d \in Conns : \A k \in 1 .. Len(inbox'[d]) :
    \E j \in 1 .. Len(inbox[d]) : inbox'[d][k] = inbox[d][j]

LEMMA ReadsTakesHead ==
  ASSUME TypeOK, NEW c \in Conns, NEW op, Reads(c, op)
  PROVE  /\ ReadsOn
         /\ 1 \in 1 .. Len(inbox[c]) /\ Head(inbox[c]) = inbox[c][1]
         /\ inbox[c][1] \in Command /\ inbox[c][1].op = op
<1>1. inbox[c] \in Seq(Command) /\ inbox[c] # << >> /\ inbox' = [inbox EXCEPT ![c] = Tail(@)]
      /\ Head(inbox[c]).op = op
  BY DEF Reads, TypeOK
<1>2. \A k \in 1 .. Len(Tail(inbox[c])) : Tail(inbox[c])[k] = inbox[c][k + 1]
                                          /\ k + 1 \in 1 .. Len(inbox[c])
  BY <1>1
<1>3. ReadsOn
  BY <1>1, <1>2 DEF ReadsOn, TypeOK
<1> QED
  BY <1>1, <1>3

LEMMA NothingRead == inbox' = inbox => ReadsOn
  BY DEF ReadsOn

-----------------------------------------------------------------------------
(* Typing of the pages. *)

LobbyTyped ==
  /\ LobbyTypeOK
  /\ \A c \in Conns : stage[c] = "lobby.js" => seen[c] # 0

LEMMA InitLobbyTyped == LobbyInit => LobbyTyped
<1> SUFFICES ASSUME LobbyInit PROVE LobbyTyped
  OBVIOUS
<1>1. \A c \in Conns : outbox[c] = << >> /\ Len(outbox[c]) = 0
  BY DEF LobbyInit, Init
<1>2. answers \in [Conns -> Seq([from : Login, go : BOOLEAN])]
  BY DEF LobbyInit
<1> QED
  BY <1>1, <1>2 DEF LobbyInit, LobbyTyped, LobbyTypeOK, Stage, Login

(* The server only ever adds to what a page has still to see.              *)
LEMMA ServerDelivers ==
  ASSUME TypeOK, Goroutines
  PROVE  \A d \in Conns : Len(outbox[d]) <= Len(outbox'[d])
<1>1. ASSUME NEW c \in Conns, Handler(c)
      PROVE  outbox' = outbox \/ \E d \in Conns, m \in Message : sendMsg(d, m)
  <2> USE DEF wireVars
  <2>1. CASE ReadRequest(c)
    <3>1. [kind |-> "error"] \in Message
      BY DEF Message
    <3> QED
      BY <2>1, <3>1 DEF ReadRequest
  <2>2. CASE Ask(c)
    <3>1. [kind |-> "pvp-request", from |-> name[c]] \in Message /\ target[c] \in Conns
      BY <2>2 DEF Message, Ask, TypeOK
    <3> QED
      BY <2>2, <3>1 DEF Ask
  <2>3. CASE StartEnemy(c) \/ StartSelf(c) \/ Deny(c)
    <3>1. [kind |-> "pvp-start"] \in Message /\ [kind |-> "pvp-deny"] \in Message
      BY DEF Message
    <3>2. pc[c] \in {"start", "deny"} => target[c] \in Conns
      BY DEF TypeOK
    <3> QED
      BY <2>3, <3>1, <3>2 DEF StartEnemy, StartSelf, Deny
  <2> QED
    BY <1>1, <2>1, <2>2, <2>3
       DEF Handler, Accept, Admit, ReadError, ReadEOF, Close, ReadLogin, Register, ReadAccept,
           ClearEnemy, ReadUnknown
<1>2. ASSUME NEW i \in Notifiers, NotifyClients(i)
      PROVE  outbox' = outbox \/ \E d \in Conns, m \in Message : Write(d, m)
  <2>1. CASE NotifyWrite(i)
    <3>1. /\ [kind |-> "players", names |-> notifier[i].names] \in Message
          /\ notifier[i].to \in Conns
      BY <2>1 DEF NotifyWrite, TypeOK, Task, Message
    <3> QED
      BY <2>1, <3>1 DEF NotifyWrite
  <2> QED
    BY <1>2, <2>1 DEF NotifyClients, NotifyMarshal, NotifyPick, NotifyReturn, wireVars
<1>3. ASSUME NEW c \in Conns, NEW how \in {"socket", "player"}, SendError(c, how)
      PROVE  \E d \in Conns, m \in Message : Write(d, m) \/ sendMsg(d, m)
  <2>1. [kind |-> "error"] \in Message
    BY DEF Message
  <2> QED
    BY <1>3, <2>1 DEF SendError
<1>4. outbox' = outbox \/ \E d \in Conns, m \in Message : Write(d, m) \/ sendMsg(d, m)
  BY <1>1, <1>2, <1>3 DEF Goroutines
<1> QED
  BY <1>4, WriteDelivers, NothingDelivered DEF Delivers

LEMMA NetworkDeliversNothing == Network \/ UNCHANGED vars => outbox' = outbox
  BY DEF Network, Dial, Submit, Hangup, Abort, vars, wireVars

(* The message a page looks at next, or looked at last. *)
LEMMA MessageTyped ==
  ASSUME TypeOK, NEW c \in Conns, NEW k \in 1 .. Len(outbox[c])
  PROVE  /\ outbox[c][k] \in Message
         /\ outbox[c][k].kind = "pvp-request" => outbox[c][k].from \in Login
         /\ outbox[c][k].kind = "players" => outbox[c][k].names \subseteq Names
<1>1. outbox[c][k] \in Message
  BY DEF TypeOK
<1> QED
  BY <1>1 DEF Message

LEMMA LobbySyncTyped ==
  ASSUME TypeOK, LobbyTypeOK, NEW c \in Conns, NEW k \in 1 .. Len(outbox[c]),
         LobbySync(c, outbox[c][k])
  PROVE  /\ stage' \in [Conns -> Stage] /\ stage'[c] \in {"prepare.js", "lobby"}
         /\ \A d \in Conns \ {c} : stage'[d] = stage[d]
         /\ stage'[c] = "prepare.js" => outbox[c][k].kind = "pvp-start"
         /\ list' \in [Conns -> SUBSET Names]
         /\ dialog' \in [Conns -> {{}} \cup {{n} : n \in Login}]
<1>1. /\ outbox[c][k].kind = "pvp-request" => outbox[c][k].from \in Login
      /\ outbox[c][k].kind = "players" => outbox[c][k].names \subseteq Names
  BY MessageTyped
<1>2. /\ stage \in [Conns -> Stage]
      /\ list \in [Conns -> SUBSET Names]
      /\ dialog \in [Conns -> {{}} \cup {{n} : n \in Login}]
  BY DEF LobbyTypeOK
<1>3. /\ stage' \in [Conns -> Stage] /\ stage'[c] \in {"prepare.js", "lobby"}
      /\ \A d \in Conns \ {c} : stage'[d] = stage[d]
      /\ stage'[c] = "prepare.js" => outbox[c][k].kind = "pvp-start"
  BY <1>2 DEF LobbySync, Stage, Loading
<1>4. list' \in [Conns -> SUBSET Names]
  BY <1>1, <1>2 DEF LobbySync
<1>5. dialog' \in [Conns -> {{}} \cup {{n} : n \in Login}]
  BY <1>1, <1>2 DEF LobbySync
<1> QED
  BY <1>3, <1>4, <1>5

LEMMA ReceivesTyped ==
  ASSUME TypeOK, LobbyTyped, NEW c \in Conns, Receives(c)
  PROVE  /\ seen' \in [Conns -> Nat] /\ \A d \in Conns : seen'[d] \in 0 .. Len(outbox[d])
         /\ seen[c] + 1 \in 1 .. Len(outbox[c]) /\ seen'[c] = seen[c] + 1
         /\ \A d \in Conns \ {c} : seen'[d] = seen[d]
<1>1. /\ seen \in [Conns -> Nat] /\ \A d \in Conns : seen[d] \in 0 .. Len(outbox[d])
      /\ \A d \in Conns : Len(outbox[d]) \in Nat
  BY DEF LobbyTyped, LobbyTypeOK, TypeOK
<1> QED
  BY <1>1 DEF Receives

LEMMA PageTyped ==
  ASSUME TypeOK, LobbyTyped, NEW c \in Conns, Page(c) \/ Departure(c)
  PROVE  LobbyTyped'
<1> USE DEF LobbyTyped, LobbyTypeOK, browserVars
<1>0. outbox' = outbox
  <2>1. Departure(c) => Network
    BY DEF Departure, ClosePage, LoseNetwork, Network
  <2> QED
    BY <2>1, PageIsNetwork, NetworkDeliversNothing
<1>1. CASE OpenPage(c)
  BY <1>0, <1>1 DEF OpenPage, Stage, Loading
<1>2. CASE LoadLogin(c) \/ LoadPrepare(c)
  BY <1>0, <1>2 DEF LoadLogin, LoadPrepare, Stage, Loading
<1>3. CASE LoadLobby(c)
  <2>1. seen[c] \in 1 .. Len(outbox[c])
    BY <1>3 DEF LoadLobby
  <2>2. LobbySync(c, outbox[c][seen[c]])
    BY <1>3 DEF LoadLobby
  <2> QED
    BY <1>0, <1>3, <2>1, <2>2, LobbySyncTyped DEF LoadLobby
<1>4. CASE ReceiveError(c) \/ ReceiveIgnored(c) \/ ReceiveInLogin(c)
  <2>1. Receives(c)
    BY <1>4 DEF ReceiveError, ReceiveIgnored, ReceiveInLogin
  <2>2. /\ UNCHANGED <<typed, list, dialog, challenged, answers>>
        /\ stage' \in {stage, [stage EXCEPT ![c] = "gone"], [stage EXCEPT ![c] = "lobby.js"]}
    BY <1>4 DEF ReceiveError, ReceiveIgnored, ReceiveInLogin
  <2>3. /\ seen' \in [Conns -> Nat] /\ \A d \in Conns : seen'[d] \in 0 .. Len(outbox[d])
        /\ seen'[c] # 0 /\ \A d \in Conns \ {c} : seen'[d] = seen[d]
    <3>1. /\ seen' \in [Conns -> Nat] /\ \A d \in Conns : seen'[d] \in 0 .. Len(outbox[d])
          /\ seen'[c] \in 1 .. Len(outbox[c]) /\ \A d \in Conns \ {c} : seen'[d] = seen[d]
      BY <2>1, ReceivesTyped
    <3> QED
      BY <3>1
  <2>4. stage' \in [Conns -> Stage] /\ \A d \in Conns \ {c} : stage'[d] = stage[d]
    BY <2>2 DEF Stage, Loading
  <2>5. \A d \in Conns : stage'[d] = "lobby.js" => seen'[d] # 0
    BY <2>3, <2>4
  <2> QED
    BY <1>0, <2>2, <2>3, <2>4, <2>5
<1>5. CASE ReceiveInLobby(c)
  <2>1. Receives(c) /\ LobbySync(c, outbox[c][seen[c] + 1])
    BY <1>5 DEF ReceiveInLobby, Incoming
  <2> QED
    BY <1>0, <1>5, <2>1, ReceivesTyped, LobbySyncTyped DEF ReceiveInLobby
<1>6. ASSUME NEW n \in Names, ClickLogin(c, n) PROVE LobbyTyped'
  BY <1>0, <1>6 DEF ClickLogin, Login
<1>7. ASSUME NEW n \in Names, ClickPlay(c, n) PROVE LobbyTyped'
  BY <1>0, <1>7 DEF ClickPlay
<1>8. ASSUME NEW go \in BOOLEAN, Answer(c, go) PROVE LobbyTyped'
  <2>1. PICK n \in dialog[c] : answers' = [answers EXCEPT ![c] = Append(@, [from |-> n, go |-> go])]
    BY <1>8 DEF Answer
  <2>2. n \in Login
    <3>1. dialog[c] \in {{}} \cup {{l} : l \in Login}
      OBVIOUS
    <3> QED
      BY <3>1
  <2>3. Append(answers[c], [from |-> n, go |-> go]) \in Seq([from : Login, go : BOOLEAN])
    <3>1. [from |-> n, go |-> go] \in [from : Login, go : BOOLEAN]
      BY <2>2
    <3>2. answers[c] \in Seq([from : Login, go : BOOLEAN])
      OBVIOUS
    <3> QED
      BY <3>1, <3>2
  <2>4. answers' \in [Conns -> Seq([from : Login, go : BOOLEAN])]
    BY <2>1, <2>3
  <2> QED
    BY <1>0, <1>8, <2>4 DEF Answer
<1>9. CASE Departure(c)
  BY <1>0, <1>9 DEF Departure, ClosePage, LoseNetwork, Stage
<1>10. ASSUME NEW n \in Login, ClickIncomplete(c, n) PROVE LobbyTyped'
  BY <1>0, <1>10 DEF ClickIncomplete
<1> QED
  BY <1>1, <1>2, <1>3, <1>4, <1>5, <1>6, <1>7, <1>8, <1>9, <1>10 DEF Page, LoadStage, Receive

LEMMA LobbyStepTyped == TypeOK /\ LobbyTyped /\ [LobbyNext]_lobbyVars => LobbyTyped'
<1> SUFFICES ASSUME TypeOK, LobbyTyped, [LobbyNext]_lobbyVars PROVE LobbyTyped'
  OBVIOUS
<1>1. CASE Server
  <2>1. \A c \in Conns : seen'[c] \in 0 .. Len(outbox'[c])
    <3>1. TypeOK'
      BY StepTyped, LobbyStep
    <3>2. \A c \in Conns : Len(outbox[c]) \in Nat /\ Len(outbox'[c]) \in Nat
      BY <3>1 DEF TypeOK
    <3>3. \A c \in Conns : Len(outbox[c]) <= Len(outbox'[c])
      BY <1>1, ServerDelivers DEF Server
    <3>4. seen' = seen /\ \A c \in Conns : seen[c] \in 0 .. Len(outbox[c])
      BY <1>1 DEF Server, browserVars, LobbyTyped, LobbyTypeOK
    <3> QED
      BY <3>2, <3>3, <3>4
  <2> QED
    BY <1>1, <2>1 DEF Server, browserVars, LobbyTyped, LobbyTypeOK
<1>2. CASE UNCHANGED lobbyVars
  BY <1>2 DEF lobbyVars, vars, wireVars, browserVars, LobbyTyped, LobbyTypeOK
<1> QED
  BY <1>1, <1>2, PageTyped DEF LobbyNext

(* The type invariant of the pages and the server: above all, a page never *)
(* claims to have seen more messages than were sent to it.                 *)
THEOREM LobbyTypeCorrect == LobbySpec => []LobbyTypeOK
<1>1. LobbyInit => TypeOK /\ LobbyTyped
  BY InitTyped, InitLobbyTyped DEF LobbyInit
<1>2. TypeOK /\ LobbyTyped /\ [LobbyNext]_lobbyVars => TypeOK' /\ LobbyTyped'
  BY StepTyped, LobbyStep, LobbyStepTyped
<1>3. LobbyTyped => LobbyTypeOK
  BY DEF LobbyTyped
<1> QED
  BY <1>1, <1>2, <1>3, PTL DEF LobbySpec

-----------------------------------------------------------------------------
(* Who is taken to a preparation. *)

(* The user of page c has asked for a battle or agreed to one. *)
Consent(c) ==
  \/ challenged[c] # {}
  \/ \E k \in 1 .. Len(answers[c]) : answers[c][k].go

Asks(cmd) == cmd.op = "pvp-request" \/ (cmd.op = "pvp-accept" /\ cmd.accepted)

(* A request or an acceptance under way, an enemy pointer that a request    *)
(* set, a game the server is about to start and the start it has announced *)
(* all go back to somebody's consent.                                      *)
AsksByConsent ==
  \A c \in Conns : \A k \in 1 .. Len(inbox[c]) : Asks(inbox[c][k]) => Consent(c)

EnemyByConsent == \A c \in Conns : enemy[c] # NoConn => Consent(enemy[c])

StartsByConsent ==
  \A c \in Conns : /\ pc[c] \in {"start", "begin"} => Consent(c)
                   /\ pc[c] = "start" => Consent(target[c])

ToldByConsent ==
  \A c \in Conns : \A k \in 1 .. Len(outbox[c]) : outbox[c][k].kind = "pvp-start" => Consent(c)

ConsentInv ==
  /\ AsksByConsent
  /\ EnemyByConsent
  /\ StartsByConsent
  /\ ToldByConsent
  /\ PreparesByConsent

LEMMA InitConsent == LobbyInit => ConsentInv
<1> SUFFICES ASSUME LobbyInit PROVE ConsentInv
  OBVIOUS
<1>1. \A c \in Conns : Len(outbox[c]) = 0 /\ Len(inbox[c]) = 0
  BY DEF LobbyInit, Init
<1> QED
  BY <1>1 DEF LobbyInit, Init, ConsentInv, AsksByConsent, EnemyByConsent, StartsByConsent,
              ToldByConsent, PreparesByConsent, InPreparation

(* The parts of the invariant, for steps of the server. *)
LEMMA AsksKept ==
  ASSUME AsksByConsent, UNCHANGED browserVars, ReadsOn
  PROVE  AsksByConsent'
  BY DEF AsksByConsent, Asks, Consent, browserVars, ReadsOn

LEMMA ToldKept ==
  ASSUME ToldByConsent, UNCHANGED browserVars, NEW c, NEW m, Delivers(c, m),
         m.kind = "pvp-start" => Consent(c)
  PROVE  ToldByConsent'
  BY DEF ToldByConsent, Consent, browserVars, Delivers

LEMMA PreparesKept ==
  ASSUME PreparesByConsent, UNCHANGED browserVars
  PROVE  PreparesByConsent'
  BY DEF PreparesByConsent, InPreparation, browserVars

LEMMA ConsentSame ==
  ASSUME UNCHANGED browserVars, NEW c
  PROVE  Consent(c)' <=> Consent(c)
  BY DEF Consent, browserVars

(* A step of a handler that sends nothing and reads no pvp command. *)
LEMMA HandlerKeepsConsent ==
  ASSUME TypeOK, ConsentInv, NEW c \in Conns, Handler(c), UNCHANGED browserVars
  PROVE  ConsentInv'
<1>0. /\ enemy \in [Conns -> Conns \cup {NoConn}] /\ pc \in [Conns -> Location]
      /\ target \in [Conns -> Conns \cup {NoConn}]
      /\ EnemyByConsent /\ StartsByConsent
      /\ \A d : Consent(d)' <=> Consent(d)
  BY ConsentSame DEF TypeOK, ConsentInv
<1> USE DEF wireVars, handlerVars, tableVars
<1>1. ASSUME ReadsOn, EnemyByConsent', StartsByConsent', NEW d, NEW m, Delivers(d, m),
             m.kind = "pvp-start" => Consent(d)
      PROVE  ConsentInv'
  BY <1>1, AsksKept, ToldKept, PreparesKept DEF ConsentInv
<1>2. ASSUME ReadsOn, outbox' = outbox, EnemyByConsent', StartsByConsent' PROVE ConsentInv'
  <2> DEFINE m == [kind |-> "error"]
  <2>1. Delivers(c, m) /\ m.kind # "pvp-start"
    BY <1>2, NothingDelivered
  <2> HIDE DEF m
  <2> QED
    BY <1>1, <1>2, <2>1
<1>3. CASE \/ Accept(c) \/ Admit(c) \/ ReadError(c) \/ ReadEOF(c) \/ Close(c)
           \/ Register(c) \/ ClearEnemy(c)
  <2>1. /\ UNCHANGED <<inbox, outbox, target>>
        /\ enemy' = enemy \/ enemy' = [enemy EXCEPT ![c] = NoConn]
        /\ \E where \in {"closing", "admit", "read", "done"} :
             pc' = [pc EXCEPT ![c] = where] \/ pc' = pc
    BY <1>3 DEF Accept, Admit, ReadError, ReadEOF, Close, Register, ClearEnemy, SetEnemy, Goto
  <2>2. EnemyByConsent'
    BY <1>0, <2>1 DEF EnemyByConsent
  <2>3. StartsByConsent'
    BY <1>0, <2>1 DEF StartsByConsent
  <2> QED
    BY <1>2, <2>1, <2>2, <2>3, NothingRead
<1>4. CASE ReadLogin(c) \/ ReadUnknown(c)
  <2>1. /\ UNCHANGED <<outbox, target, enemy>> /\ \E op : Reads(c, op)
        /\ pc' = pc \/ pc' = [pc EXCEPT ![c] = "register"]
    BY <1>4 DEF ReadLogin, ReadUnknown, Goto
  <2>2. EnemyByConsent' /\ StartsByConsent'
    BY <1>0, <2>1 DEF EnemyByConsent, StartsByConsent
  <2> QED
    BY <1>2, <2>1, <2>2, ReadsTakesHead
<1>5. CASE ReadRequest(c)
  <2> DEFINE cmd == Head(inbox[c])
             m == [kind |-> "error"]
  <2>1. ReadsOn /\ Consent(c)
    <3>1. Reads(c, "pvp-request")
      BY <1>5 DEF ReadRequest
    <3> QED
      BY <3>1, ReadsTakesHead DEF ConsentInv, AsksByConsent, Asks
  <2>2. /\ enemy' = enemy \/ \E e \in Conns : enemy' = [enemy EXCEPT ![e] = c]
        /\ pc' = pc \/ pc' = [pc EXCEPT ![c] = "ask"]
        /\ \/ target' = target
           \/ pc'[c] = "ask" /\ \E e : target' = [target EXCEPT ![c] = e]
        /\ outbox' = outbox \/ sendMsg(c, m)
    <3>1. CASE cmd.name = NoName /\ sendMsg(c, m) /\ UNCHANGED <<enemy, pc, target, errors>>
      BY <3>1
    <3>2. CASE UNCHANGED <<enemy, pc, target, outbox>>
      BY <3>2
    <3>3. CASE /\ Found(cmd.name)
               /\ target' = [target EXCEPT ![c] = players[cmd.name]]
               /\ SetEnemy(players[cmd.name], c)
               /\ Goto(c, "ask")
               /\ UNCHANGED <<outbox, errors>>
      <4>1. players[cmd.name] \in Conns
        BY <3>3 DEF Found, Registered, TypeOK
      <4> QED
        BY <1>0, <3>3, <4>1 DEF SetEnemy, Goto
    <3> QED
      BY <1>5, <3>1, <3>2, <3>3 DEF ReadRequest
  <2>3. EnemyByConsent'
    BY <1>0, <2>1, <2>2 DEF EnemyByConsent
  <2>4. StartsByConsent'
    BY <1>0, <2>2 DEF StartsByConsent
  <2>5. Delivers(c, m) /\ m.kind # "pvp-start"
    <3>1. m \in Message
      BY DEF Message
    <3> QED
      BY <2>2, <3>1, NothingDelivered, WriteDelivers
  <2> HIDE DEF m
  <2> QED
    BY <1>1, <2>1, <2>3, <2>4, <2>5
<1>6. CASE Ask(c)
  <2> DEFINE m == [kind |-> "pvp-request", from |-> name[c]]
  <2>1. /\ sendMsg(target[c], m) /\ target[c] \in Conns
        /\ target' = [target EXCEPT ![c] = NoConn] /\ pc' = [pc EXCEPT ![c] = "read"]
        /\ UNCHANGED <<enemy, inbox>>
    BY <1>6 DEF Ask, Goto, TypeOK
  <2>2. m \in Message /\ m.kind # "pvp-start"
    BY DEF Message, TypeOK
  <2>3. EnemyByConsent' /\ StartsByConsent'
    BY <1>0, <2>1 DEF EnemyByConsent, StartsByConsent
  <2> HIDE DEF m
  <2> QED
    BY <1>1, <2>1, <2>2, <2>3, WriteDelivers, NothingRead
<1>7. CASE ReadAccept(c)
  <2> DEFINE cmd == Head(inbox[c])
  <2>1. ReadsOn /\ (cmd.accepted => Consent(c))
    <3>1. Reads(c, "pvp-accept")
      BY <1>7 DEF ReadAccept
    <3> QED
      BY <3>1, ReadsTakesHead DEF ConsentInv, AsksByConsent, Asks
  <2>2. /\ UNCHANGED <<outbox, enemy>>
        /\ \/ pc' = [pc EXCEPT ![c] = "panicked"] /\ target' = target
           \/ /\ enemy[c] # NoConn /\ target' = [target EXCEPT ![c] = enemy[c]]
              /\ \/ pc' = [pc EXCEPT ![c] = "deny"]
                 \/ cmd.accepted /\ pc' = [pc EXCEPT ![c] = "start"]
    BY <1>7 DEF ReadAccept, Goto
  <2>3. EnemyByConsent'
    BY <1>0, <2>2 DEF EnemyByConsent
  <2>4. enemy[c] # NoConn => Consent(enemy[c])
    BY <1>0 DEF EnemyByConsent
  <2>5. StartsByConsent'
    BY <1>0, <2>1, <2>2, <2>4 DEF StartsByConsent
  <2> QED
    BY <1>2, <2>1, <2>2, <2>3, <2>5
<1>8. CASE StartEnemy(c)
  <2> DEFINE m == [kind |-> "pvp-start"]
  <2>1. /\ sendMsg(target[c], m) /\ target[c] \in Conns /\ pc[c] = "start"
        /\ target' = [target EXCEPT ![c] = NoConn] /\ pc' = [pc EXCEPT ![c] = "begin"]
        /\ UNCHANGED <<enemy, inbox>>
    BY <1>8 DEF StartEnemy, Goto, TypeOK
  <2>2. m \in Message
    BY DEF Message
  <2>3. Consent(target[c]) /\ Consent(c)
    BY <1>0, <2>1 DEF StartsByConsent
  <2>4. EnemyByConsent'
    BY <1>0, <2>1 DEF EnemyByConsent
  <2>5. StartsByConsent'
    BY <1>0, <2>1, <2>3 DEF StartsByConsent
  <2> HIDE DEF m
  <2> QED
    BY <1>1, <2>1, <2>2, <2>3, <2>4, <2>5, WriteDelivers, NothingRead
<1>9. CASE StartSelf(c)
  <2> DEFINE m == [kind |-> "pvp-start"]
  <2>1. /\ sendMsg(c, m) /\ pc[c] = "begin"
        /\ pc' = [pc EXCEPT ![c] = "read"] /\ UNCHANGED <<enemy, inbox, target>>
    BY <1>9 DEF StartSelf, Goto
  <2>2. m \in Message
    BY DEF Message
  <2>3. Consent(c)
    BY <1>0, <2>1 DEF StartsByConsent
  <2>4. EnemyByConsent' /\ StartsByConsent'
    BY <1>0, <2>1 DEF EnemyByConsent, StartsByConsent
  <2> HIDE DEF m
  <2> QED
    BY <1>1, <2>1, <2>2, <2>3, <2>4, WriteDelivers, NothingRead
<1>10. CASE Deny(c)
  <2> DEFINE m == [kind |-> "pvp-deny"]
  <2>1. /\ sendMsg(target[c], m) /\ target[c] \in Conns
        /\ target' = [target EXCEPT ![c] = NoConn] /\ pc' = [pc EXCEPT ![c] = "clear"]
        /\ UNCHANGED <<enemy, inbox>>
    BY <1>10 DEF Deny, Goto, TypeOK
  <2>2. m \in Message /\ m.kind # "pvp-start"
    BY DEF Message
  <2>3. EnemyByConsent' /\ StartsByConsent'
    BY <1>0, <2>1 DEF EnemyByConsent, StartsByConsent
  <2> HIDE DEF m
  <2> QED
    BY <1>1, <2>1, <2>2, <2>3, WriteDelivers, NothingRead
<1> QED
  BY <1>3, <1>4, <1>5, <1>6, <1>7, <1>8, <1>9, <1>10 DEF Handler

LEMMA ServerKeepsConsent == TypeOK /\ ConsentInv /\ Server => ConsentInv'
<1> SUFFICES ASSUME TypeOK, ConsentInv, Server PROVE ConsentInv'
  OBVIOUS
<1>0. UNCHANGED browserVars
  BY DEF Server
<1>1. ASSUME UNCHANGED <<inbox, enemy, pc, target>>, NEW d, NEW m, Delivers(d, m),
             m.kind # "pvp-start"
      PROVE  ConsentInv'
  <2>1. EnemyByConsent' /\ StartsByConsent'
    BY <1>0, <1>1 DEF ConsentInv, EnemyByConsent, StartsByConsent, Consent, browserVars
  <2> QED
    BY <1>0, <1>1, <2>1, AsksKept, ToldKept, PreparesKept, NothingRead DEF ConsentInv
<1>2. ASSUME NEW i \in Notifiers, NotifyClients(i) PROVE ConsentInv'
  <2> DEFINE m == [kind |-> "players", names |-> notifier[i].names]
  <2>1. m.kind # "pvp-start"
    OBVIOUS
  <2>2. \E d : Delivers(d, m)
    <3>1. CASE NotifyWrite(i)
      <4>1. m \in Message /\ notifier[i].to \in Conns /\ Write(notifier[i].to, m)
        BY <3>1 DEF NotifyWrite, TypeOK, Task, Message
      <4> QED
        BY <4>1, WriteDelivers
    <3>2. CASE ~NotifyWrite(i)
      <4>1. outbox' = outbox
        BY <1>2, <3>2 DEF NotifyClients, NotifyMarshal, NotifyPick, NotifyReturn, wireVars
      <4> QED
        BY <4>1, NothingDelivered
    <3> QED
      BY <3>1, <3>2
  <2> HIDE DEF m
  <2> QED
    BY <1>1, <1>2, <2>1, <2>2, WritersChangeNothing
<1>3. ASSUME NEW c \in Conns, NEW how \in {"socket", "player"}, SendError(c, how)
      PROVE  ConsentInv'
  <2> DEFINE m == [kind |-> "error"]
  <2>1. m \in Message /\ m.kind # "pvp-start"
    BY DEF Message
  <2>2. Delivers(c, m)
    BY <1>3, <2>1, WriteDelivers DEF SendError
  <2> HIDE DEF m
  <2> QED
    BY <1>1, <1>3, <2>1, <2>2, WritersChangeNothing
<1> QED
  BY <1>0, <1>2, <1>3, HandlerKeepsConsent DEF Server, Goroutines

(* Consent is never withdrawn. *)
LEMMA PageKeepsConsent ==
  ASSUME TypeOK, LobbyTyped, ConsentInv, NEW c \in Conns, Page(c) \/ Departure(c)
  PROVE  ConsentInv'
<1> USE DEF browserVars
<1>1. /\ enemy' = enemy /\ target' = target
      /\ \A d \in Conns : pc'[d] = pc[d] \/ pc'[d] = "accept"
      /\ outbox' = outbox
  <2>1. Network \/ UNCHANGED vars
    <3>1. Departure(c) => Network
      BY DEF Departure, ClosePage, LoseNetwork, Network
    <3> QED
      BY <3>1, PageIsNetwork
  <2> QED
    BY <2>1, NetworkDeliversNothing
       DEF Network, Dial, Submit, Hangup, Abort, vars, handlerVars, Goto, TypeOK
<1>2. ASSUME \A d \in Conns : Consent(d) => Consent(d)',
             \A d \in Conns : \A k \in 1 .. Len(inbox'[d]) : Asks(inbox'[d][k]) =>
               Consent(d)' \/ \E j \in 1 .. Len(inbox[d]) : Asks(inbox[d][j]),
             \A d \in Conns : InPreparation(d)' => InPreparation(d) \/ Consent(d)
      PROVE  ConsentInv'
  <2>1. AsksByConsent'
    BY <1>2 DEF ConsentInv, AsksByConsent, Asks
  <2>2. EnemyByConsent'
    BY <1>1, <1>2 DEF ConsentInv, EnemyByConsent, TypeOK
  <2>3. StartsByConsent'
    BY <1>1, <1>2 DEF ConsentInv, StartsByConsent, TypeOK
  <2>4. ToldByConsent'
    BY <1>1, <1>2 DEF ConsentInv, ToldByConsent
  <2>5. PreparesByConsent'
    BY <1>2 DEF ConsentInv, PreparesByConsent, Consent
  <2> QED
    BY <2>1, <2>2, <2>3, <2>4, <2>5 DEF ConsentInv
<1>3. inbox \in [Conns -> Seq(Command)] /\ stage \in [Conns -> Stage]
  BY DEF TypeOK, LobbyTyped, LobbyTypeOK
(* What is sent is what was sent before and perhaps one command more. *)
<1>4. ASSUME NEW cmd \in Submittable, Send(c, cmd), Asks(cmd) => Consent(c)'
      PROVE  \A d \in Conns : \A k \in 1 .. Len(inbox'[d]) : Asks(inbox'[d][k]) =>
               Consent(d)' \/ \E j \in 1 .. Len(inbox[d]) : Asks(inbox[d][j])
  <2>1. inbox' = inbox \/ inbox' = [inbox EXCEPT ![c] = Append(@, cmd)]
    BY <1>4 DEF Send, Submit, vars, wireVars
  <2>2. \A k \in 1 .. Len(Append(inbox[c], cmd)) :
          Append(inbox[c], cmd)[k] = cmd
            \/ \E j \in 1 .. Len(inbox[c]) : Append(inbox[c], cmd)[k] = inbox[c][j]
    <3>1. inbox[c] \in Seq(Command) /\ cmd \in Command
      BY <1>3, SubmittableAssumption
    <3> QED
      BY <3>1
  <2> QED
    BY <1>3, <1>4, <2>1, <2>2
<1>5. CASE \/ OpenPage(c) \/ LoadLogin(c) \/ LoadPrepare(c)
           \/ \E n \in Login : ClickIncomplete(c, n)
  <2>1. /\ UNCHANGED <<inbox, challenged, answers>>
        /\ \A d \in Conns : InPreparation(d)' => InPreparation(d)
    BY <1>3, <1>5 DEF OpenPage, Dial, LoadLogin, LoadPrepare, ClickIncomplete, vars, wireVars,
                     InPreparation
  <2> QED
    BY <1>2, <2>1 DEF Consent, Asks
<1>6. ASSUME NEW k \in 1 .. Len(outbox[c]), LobbySync(c, outbox[c][k]),
             UNCHANGED <<inbox, challenged, answers>>
      PROVE  ConsentInv'
  <2>1. /\ stage'[c] = "prepare.js" => outbox[c][k].kind = "pvp-start"
        /\ stage'[c] \in {"prepare.js", "lobby"}
        /\ \A d \in Conns \ {c} : stage'[d] = stage[d]
    BY <1>6, LobbySyncTyped DEF LobbyTyped
  <2>2. stage'[c] = "prepare.js" => Consent(c)
    BY <1>6, <2>1 DEF ConsentInv, ToldByConsent
  <2>3. \A d \in Conns : InPreparation(d)' => InPreparation(d) \/ Consent(d)
    BY <2>1, <2>2 DEF InPreparation
  <2> QED
    BY <1>2, <1>6, <2>3 DEF Consent, Asks
<1>7. CASE LoadLobby(c)
  <2>1. seen[c] \in 1 .. Len(outbox[c])
    BY <1>7 DEF LoadLobby, LobbyTyped, LobbyTypeOK
  <2> QED
    BY <1>6, <1>7, <2>1 DEF LoadLobby, vars, wireVars
<1>8. CASE ReceiveInLobby(c)
  <2>1. seen[c] + 1 \in 1 .. Len(outbox[c]) /\ LobbySync(c, outbox[c][seen[c] + 1])
    BY <1>8, ReceivesTyped DEF ReceiveInLobby, Incoming
  <2> QED
    BY <1>6, <1>8, <2>1 DEF ReceiveInLobby, vars, wireVars
<1>9. CASE ReceiveError(c) \/ ReceiveIgnored(c) \/ ReceiveInLogin(c) \/ Departure(c)
  <2>1. /\ UNCHANGED <<challenged, answers>>
        /\ inbox' = inbox \/ inbox' = [inbox EXCEPT ![c] = << >>]
        /\ stage' = stage \/ \E s \in {"gone", "lobby.js"} : stage' = [stage EXCEPT ![c] = s]
    BY <1>9 DEF ReceiveError, ReceiveIgnored, ReceiveInLogin, Departure, ClosePage, LoseNetwork,
                Hangup, Abort, vars, wireVars
  <2>2. \A d \in Conns : InPreparation(d)' => InPreparation(d)
    BY <1>3, <2>1 DEF InPreparation
  <2>3. \A d \in Conns : \A k \in 1 .. Len(inbox'[d]) : k \in 1 .. Len(inbox[d]) /\ inbox'[d][k] = inbox[d][k]
    <3>1. Len(<< >>) = 0
      OBVIOUS
    <3> QED
      BY <1>3, <2>1, <3>1
  <2> QED
    BY <1>2, <2>1, <2>2, <2>3 DEF Consent
<1>10. ASSUME NEW n \in Names, ClickLogin(c, n) PROVE ConsentInv'
  <2>1. Send(c, LogIn(n)) /\ UNCHANGED <<challenged, answers, stage>> /\ ~Asks(LogIn(n))
    BY <1>10 DEF ClickLogin, LogIn, Asks
  <2> QED
    BY <1>2, <1>4, <2>1, CommandsOfPages DEF Consent, InPreparation
<1>11. ASSUME NEW n \in Names, ClickPlay(c, n) PROVE ConsentInv'
  <2>1. /\ Send(c, PvpRequest(n)) /\ UNCHANGED <<answers, stage>>
        /\ challenged' = [challenged EXCEPT ![c] = @ \cup {n}]
    BY <1>11 DEF ClickPlay
  <2>2. \A d \in Conns : (Consent(d) => Consent(d)') /\ (d = c => Consent(d)')
    BY <2>1 DEF Consent, LobbyTyped, LobbyTypeOK
  <2> QED
    BY <1>2, <1>4, <2>1, <2>2, CommandsOfPages DEF InPreparation
<1>12. ASSUME NEW go \in BOOLEAN, Answer(c, go) PROVE ConsentInv'
  <2>1. PICK n \in dialog[c] : answers' = [answers EXCEPT ![c] = Append(@, [from |-> n, go |-> go])]
    BY <1>12 DEF Answer
  <2>2. Send(c, PvpAccept(go)) /\ UNCHANGED <<challenged, stage>>
    BY <1>12 DEF Answer
  <2> DEFINE a == [from |-> n, go |-> go]
  <2>3. answers[c] \in Seq([from : Login, go : BOOLEAN]) /\ a \in [from : Login, go : BOOLEAN]
    <3>1. dialog[c] \in {{}} \cup {{l} : l \in Login}
      BY DEF LobbyTyped, LobbyTypeOK
    <3>2. n \in Login
      BY <3>1
    <3>3. answers[c] \in Seq([from : Login, go : BOOLEAN])
      BY DEF LobbyTyped, LobbyTypeOK
    <3>4. a \in [from : Login, go : BOOLEAN]
      BY <3>2
    <3> QED
      BY <3>3, <3>4
  <2>4. a.go = go
    OBVIOUS
  <2> HIDE DEF a
  <2>5. /\ \A k \in 1 .. Len(answers[c]) :
              k \in 1 .. Len(Append(answers[c], a)) /\ Append(answers[c], a)[k] = answers[c][k]
        /\ Len(answers[c]) + 1 \in 1 .. Len(Append(answers[c], a))
        /\ Append(answers[c], a)[Len(answers[c]) + 1] = a
    BY <2>3
  <2>6. answers' = [answers EXCEPT ![c] = Append(answers[c], a)]
    BY <2>1 DEF a
  <2>7. \A d \in Conns : (Consent(d) => Consent(d)') /\ (d = c /\ go => Consent(d)')
    BY <2>2, <2>4, <2>5, <2>6 DEF Consent, LobbyTyped, LobbyTypeOK
  <2>8. Asks(PvpAccept(go)) => go
    BY DEF Asks, PvpAccept
  <2> QED
    BY <1>2, <1>4, <2>2, <2>7, <2>8, CommandsOfPages DEF InPreparation
<1> QED
  BY <1>5, <1>7, <1>8, <1>9, <1>10, <1>11, <1>12 DEF Page, LoadStage, Receive

LEMMA StepConsent ==
  TypeOK /\ LobbyTyped /\ ConsentInv /\ [LobbyNext]_lobbyVars => ConsentInv'
<1> SUFFICES ASSUME TypeOK, LobbyTyped, ConsentInv, UNCHANGED lobbyVars PROVE ConsentInv'
  BY ServerKeepsConsent, PageKeepsConsent DEF LobbyNext
<1> QED
  BY DEF lobbyVars, vars, handlerVars, wireVars, browserVars, ConsentInv, AsksByConsent,
         EnemyByConsent, StartsByConsent, ToldByConsent, PreparesByConsent, Consent, InPreparation

(* Nobody gets into the preparation of a battle without having asked for   *)
(* one or agreed to one, whatever requests cross and whoever comes and     *)
(* goes, for any number of pages.                                          *)
THEOREM NobodyDraftedUnasked == LobbySpec => []PreparesByConsent
<1>1. LobbyInit => TypeOK /\ LobbyTyped /\ ConsentInv
  BY InitTyped, InitLobbyTyped, InitConsent DEF LobbyInit
<1>2. TypeOK /\ LobbyTyped /\ ConsentInv /\ [LobbyNext]_lobbyVars
        => TypeOK' /\ LobbyTyped' /\ ConsentInv'
  BY StepTyped, LobbyStep, LobbyStepTyped, StepConsent
<1>3. ConsentInv => PreparesByConsent
  BY DEF ConsentInv
<1> QED
  BY <1>1, <1>2, <1>3, PTL DEF LobbySpec

-----------------------------------------------------------------------------
(* Why a handler panics.  What has to be followed is an answer on its way  *)
(* from the dialog of a page, through its socket, to the handler.          *)

(* The user of page c has denied a request; has denied one and answered    *)
(* again since.                                                            *)
Denied(c) == \E j \in 1 .. Len(answers[c]) : ~answers[c][j].go

DeniedBefore(c) == \E j, k \in 1 .. Len(answers[c]) : j < k /\ ~answers[c][j].go

(* The commands s hold an answer, a denial, a denial and a later answer.   *)
IsAnswer(cmd) == cmd.op = "pvp-accept"
IsDenial(cmd) == cmd.op = "pvp-accept" /\ ~cmd.accepted

HasAnswer(s) == \E k \in 1 .. Len(s) : IsAnswer(s[k])
HasDenial(s) == \E k \in 1 .. Len(s) : IsDenial(s[k])
DeniesFirst(s) == \E j, k \in 1 .. Len(s) : j < k /\ IsDenial(s[j]) /\ IsAnswer(s[k])

(* Somebody's request has been sent to c, or is about to be. *)
AskedBy(c) == \E d \in Conns : pc[d] = "ask" /\ target[d] = c
AskedOf(c) == \E k \in 1 .. Len(outbox[c]) : outbox[c][k].kind = "pvp-request"

(* The answers under way are the last ones given.                          *)
DenialsQueue ==
  \A c \in Conns : /\ HasDenial(inbox[c]) => Denied(c)
                   /\ DeniesFirst(inbox[c]) => DeniedBefore(c)

(* An enemy is forgotten because of a denial; whatever is still to be read *)
(* was answered after it.                                                  *)
Cleared(c) == Denied(c) /\ (HasAnswer(inbox[c]) => DeniedBefore(c))

DenialsClear == \A c \in Conns : pc[c] \in {"deny", "clear"} => Cleared(c)

(* Somebody who was asked and has no enemy has denied; if there is an      *)
(* answer still to be read, then one before it.                            *)
UnsetByDenial ==
  \A c \in Conns :
    enemy[c] = NoConn =>
      /\ HasAnswer(inbox[c]) => DeniedBefore(c)
      /\ dialog[c] # {} \/ AskedBy(c) \/ AskedOf(c) => Denied(c)

DenialInv == DenialsQueue /\ DenialsClear /\ UnsetByDenial /\ PanicNeedsDenial

LEMMA TailOfAnswers ==
  ASSUME NEW s \in Seq(Command), s # << >>
  PROVE  /\ HasAnswer(Tail(s)) => HasAnswer(s)
         /\ HasDenial(Tail(s)) => HasDenial(s)
         /\ DeniesFirst(Tail(s)) => DeniesFirst(s)
         /\ IsAnswer(Head(s)) => HasAnswer(s)
         /\ IsDenial(Head(s)) => HasDenial(s)
         /\ IsDenial(Head(s)) /\ HasAnswer(Tail(s)) => DeniesFirst(s)
<1>1. /\ Len(Tail(s)) = Len(s) - 1 /\ Len(s) \in Nat \ {0} /\ Head(s) = s[1]
      /\ \A k \in 1 .. Len(Tail(s)) : Tail(s)[k] = s[k + 1] /\ k + 1 \in 1 .. Len(s)
  OBVIOUS
<1>2. HasAnswer(Tail(s)) => HasAnswer(s)
  BY <1>1 DEF HasAnswer
<1>3. HasDenial(Tail(s)) => HasDenial(s)
  BY <1>1 DEF HasDenial
<1>4. DeniesFirst(Tail(s)) => DeniesFirst(s)
  <2> SUFFICES ASSUME NEW j \in 1 .. Len(Tail(s)), NEW k \in 1 .. Len(Tail(s)), j < k,
                      IsDenial(Tail(s)[j]), IsAnswer(Tail(s)[k])
               PROVE  DeniesFirst(s)
    BY DEF DeniesFirst
  <2>1. j + 1 < k + 1 /\ IsDenial(s[j + 1]) /\ IsAnswer(s[k + 1])
    BY <1>1
  <2> QED
    BY <1>1, <2>1 DEF DeniesFirst
<1>5. /\ IsAnswer(Head(s)) => HasAnswer(s)
      /\ IsDenial(Head(s)) => HasDenial(s)
  BY <1>1 DEF HasAnswer, HasDenial
<1>6. IsDenial(Head(s)) /\ HasAnswer(Tail(s)) => DeniesFirst(s)
  <2> SUFFICES ASSUME IsDenial(Head(s)), NEW k \in 1 .. Len(Tail(s)), IsAnswer(Tail(s)[k])
               PROVE  DeniesFirst(s)
    BY DEF HasAnswer
  <2>1. 1 < k + 1 /\ 1 \in 1 .. Len(s) /\ IsDenial(s[1]) /\ IsAnswer(s[k + 1])
    BY <1>1
  <2> QED
    BY <1>1, <2>1 DEF DeniesFirst
<1> QED
  BY <1>2, <1>3, <1>4, <1>5, <1>6

LEMMA OneMoreAnswer ==
  ASSUME NEW s \in Seq(Command), NEW cmd \in Command
  PROVE  /\ HasAnswer(Append(s, cmd)) => HasAnswer(s) \/ IsAnswer(cmd)
         /\ HasDenial(Append(s, cmd)) => HasDenial(s) \/ IsDenial(cmd)
         /\ DeniesFirst(Append(s, cmd)) => DeniesFirst(s) \/ (HasDenial(s) /\ IsAnswer(cmd))
<1>1. /\ Len(Append(s, cmd)) = Len(s) + 1 /\ Len(s) \in Nat
      /\ \A k \in 1 .. Len(s) : Append(s, cmd)[k] = s[k]
      /\ Append(s, cmd)[Len(s) + 1] = cmd
  OBVIOUS
<1>2. \A k \in 1 .. Len(Append(s, cmd)) : k \in 1 .. Len(s) \/ k = Len(s) + 1
  BY <1>1
<1>3. HasAnswer(Append(s, cmd)) => HasAnswer(s) \/ IsAnswer(cmd)
  BY <1>1, <1>2 DEF HasAnswer
<1>4. HasDenial(Append(s, cmd)) => HasDenial(s) \/ IsDenial(cmd)
  BY <1>1, <1>2 DEF HasDenial
<1>5. DeniesFirst(Append(s, cmd)) => DeniesFirst(s) \/ (HasDenial(s) /\ IsAnswer(cmd))
  <2> SUFFICES ASSUME NEW j \in 1 .. Len(Append(s, cmd)), NEW k \in 1 .. Len(Append(s, cmd)), j < k,
                      IsDenial(Append(s, cmd)[j]), IsAnswer(Append(s, cmd)[k])
               PROVE  DeniesFirst(s) \/ (HasDenial(s) /\ IsAnswer(cmd))
    BY DEF DeniesFirst
  <2>1. j \in 1 .. Len(s) /\ IsDenial(s[j])
    BY <1>1
  <2>2. (k \in 1 .. Len(s) /\ IsAnswer(s[k])) \/ IsAnswer(cmd)
    BY <1>1, <1>2
  <2> QED
    BY <2>1, <2>2 DEF DeniesFirst, HasDenial
<1> QED
  BY <1>3, <1>4, <1>5

LEMMA NoAnswers == ~HasAnswer(<< >>) /\ ~HasDenial(<< >>) /\ ~DeniesFirst(<< >>)
<1>1. Len(<< >>) = 0
  OBVIOUS
<1> QED
  BY <1>1 DEF HasAnswer, HasDenial, DeniesFirst

LEMMA InitDenial == LobbyInit => DenialInv
<1> SUFFICES ASSUME LobbyInit PROVE DenialInv
  OBVIOUS
<1>1. \A c \in Conns : inbox[c] = << >> /\ Len(outbox[c]) = 0 /\ pc[c] = "none" /\ dialog[c] = {}
  BY DEF LobbyInit, Init
<1>2. DenialsQueue /\ DenialsClear /\ PanicNeedsDenial
  BY <1>1, NoAnswers DEF DenialsQueue, DenialsClear, PanicNeedsDenial
<1>3. UnsetByDenial
  BY <1>1, NoAnswers DEF UnsetByDenial, AskedBy, AskedOf
<1> QED
  BY <1>2, <1>3 DEF DenialInv

-----------------------------------------------------------------------------
(* What a step does to the commands still to be read, and to the requests. *)

(* Nothing is added to what is to be read. *)
ReadsOff ==
  \A d \in Conns : /\ HasAnswer(inbox'[d]) => HasAnswer(inbox[d])
                   /\ HasDenial(inbox'[d]) => HasDenial(inbox[d])
                   /\ DeniesFirst(inbox'[d]) => DeniesFirst(inbox[d])

LEMMA ReadingReadsOff ==
  ASSUME TypeOK, NEW c \in Conns, NEW op, Reads(c, op)
  PROVE  /\ ReadsOff
         /\ inbox[c] \in Seq(Command) /\ inbox[c] # << >> /\ inbox'[c] = Tail(inbox[c])
         /\ Head(inbox[c]).op = op
<1>1. inbox[c] \in Seq(Command) /\ inbox[c] # << >> /\ inbox' = [inbox EXCEPT ![c] = Tail(@)]
      /\ Head(inbox[c]).op = op /\ inbox \in [Conns -> Seq(Command)]
  BY DEF Reads, TypeOK
<1>2. ASSUME NEW d \in Conns
      PROVE  /\ HasAnswer(inbox'[d]) => HasAnswer(inbox[d])
             /\ HasDenial(inbox'[d]) => HasDenial(inbox[d])
             /\ DeniesFirst(inbox'[d]) => DeniesFirst(inbox[d])
  <2>1. CASE d = c
    <3>1. inbox'[d] = Tail(inbox[d])
      BY <1>1, <2>1
    <3> QED
      BY <1>1, <2>1, <3>1, TailOfAnswers
  <2>2. CASE d # c
    <3>1. inbox'[d] = inbox[d]
      BY <1>1, <2>2
    <3> QED
      BY <3>1
  <2> QED
    BY <2>1, <2>2
<1> QED
  BY <1>1, <1>2 DEF ReadsOff

LEMMA NothingReadOff == inbox' = inbox => ReadsOff
  BY DEF ReadsOff

LEMMA NoRequestDelivered ==
  ASSUME NEW d, NEW m, Delivers(d, m), m.kind # "pvp-request"
  PROVE  \A e \in Conns : AskedOf(e)' => AskedOf(e)
  BY DEF AskedOf, Delivers

(* A step of the server, by what it does to each page. *)
LEMMA ServerStepDenies ==
  ASSUME DenialInv, UNCHANGED browserVars, ReadsOff,
         \A d \in Conns :
           /\ pc'[d] \in {"deny", "clear"} =>
                pc[d] \in {"deny", "clear"}
                  \/ (Denied(d) /\ (HasAnswer(inbox'[d]) => DeniedBefore(d)))
           /\ enemy'[d] = NoConn => enemy[d] = NoConn \/ Cleared(d)
           /\ enemy'[d] = NoConn /\ (AskedBy(d)' \/ AskedOf(d)') => AskedBy(d) \/ AskedOf(d) \/ Denied(d)
           /\ pc'[d] = "panicked" => pc[d] = "panicked" \/ DeniedBefore(d)
  PROVE  DenialInv'
<1>1. \A d \in Conns : (Denied(d)' <=> Denied(d)) /\ (DeniedBefore(d)' <=> DeniedBefore(d))
  BY DEF Denied, DeniedBefore, browserVars
<1>2. DenialsQueue'
  BY <1>1 DEF DenialInv, DenialsQueue, ReadsOff
<1>3. DenialsClear'
  BY <1>1 DEF DenialInv, DenialsClear, Cleared, ReadsOff
<1>4. UnsetByDenial'
  BY <1>1 DEF DenialInv, UnsetByDenial, Cleared, ReadsOff, browserVars
<1>5. PanicNeedsDenial'
  BY DEF DenialInv, PanicNeedsDenial, DeniedBefore, browserVars
<1> QED
  BY <1>2, <1>3, <1>4, <1>5 DEF DenialInv

LEMMA HandlerKeepsDenials ==
  ASSUME TypeOK, DenialInv, NEW c \in Conns, Handler(c), UNCHANGED browserVars
  PROVE  DenialInv'
<1>0. /\ enemy \in [Conns -> Conns \cup {NoConn}] /\ pc \in [Conns -> Location]
      /\ target \in [Conns -> Conns \cup {NoConn}]
  BY DEF TypeOK
<1> USE DEF wireVars, handlerVars, tableVars
(* Steps after which nobody new is being asked. *)
<1>1. ASSUME \A d \in Conns : pc'[d] = "ask" => pc[d] = "ask" /\ target'[d] = target[d]
      PROVE  \A d \in Conns : AskedBy(d)' => AskedBy(d)
  BY <1>1 DEF AskedBy
<1>2. ASSUME ReadsOff, UNCHANGED enemy, NEW d, NEW m, Delivers(d, m), m.kind # "pvp-request",
             NEW where \in {"read", "closing", "admit", "done", "register", "begin", "start"},
             pc' = pc \/ pc' = [pc EXCEPT ![c] = where],
             \A e \in Conns : pc'[e] = "ask" => target'[e] = target[e]
      PROVE  DenialInv'
  <2>1. \A e \in Conns : pc'[e] = pc[e] \/ pc'[e] = where
    BY <1>0, <1>2
  <2>2. \A e \in Conns : (AskedBy(e)' => AskedBy(e)) /\ (AskedOf(e)' => AskedOf(e))
    BY <1>1, <1>2, <2>1, NoRequestDelivered
  <2> QED
    BY <1>2, <2>1, <2>2, ServerStepDenies
<1>3. CASE \/ Accept(c) \/ Admit(c) \/ ReadError(c) \/ ReadEOF(c) \/ Close(c)
           \/ Register(c)
  <2> DEFINE m == [kind |-> "error"]
  <2>1. /\ UNCHANGED <<inbox, outbox, target, enemy>>
        /\ \E where \in {"closing", "admit", "read", "done"} :
             pc' = [pc EXCEPT ![c] = where] \/ pc' = pc
    BY <1>3 DEF Accept, Admit, ReadError, ReadEOF, Close, Register, Goto
  <2>2. Delivers(c, m) /\ m.kind # "pvp-request"
    BY <2>1, NothingDelivered
  <2> HIDE DEF m
  <2> QED
    BY <1>2, <2>1, <2>2, NothingReadOff
<1>4. CASE ReadLogin(c) \/ ReadUnknown(c)
  <2> DEFINE m == [kind |-> "error"]
  <2>1. /\ UNCHANGED <<outbox, target, enemy>> /\ \E op : Reads(c, op)
        /\ pc' = pc \/ pc' = [pc EXCEPT ![c] = "register"]
    BY <1>4 DEF ReadLogin, ReadUnknown, Goto
  <2>2. Delivers(c, m) /\ m.kind # "pvp-request"
    BY <2>1, NothingDelivered
  <2> HIDE DEF m
  <2> QED
    BY <1>2, <2>1, <2>2, ReadingReadsOff
<1>5. CASE ReadRequest(c)
  <2> DEFINE cmd == Head(inbox[c])
             m == [kind |-> "error"]
  <2>1. ReadsOff /\ Reads(c, "pvp-request") /\ pc[c] = "read"
    BY <1>5, ReadingReadsOff DEF ReadRequest, Reads
  <2>2. \/ UNCHANGED <<enemy, pc, target>> /\ (outbox' = outbox \/ sendMsg(c, m))
        \/ \E e \in Conns : /\ enemy' = [enemy EXCEPT ![e] = c]
                            /\ target' = [target EXCEPT ![c] = e]
                            /\ pc' = [pc EXCEPT ![c] = "ask"]
                            /\ outbox' = outbox
    <3>1. CASE Found(cmd.name) /\ target' = [target EXCEPT ![c] = players[cmd.name]]
               /\ SetEnemy(players[cmd.name], c) /\ Goto(c, "ask") /\ UNCHANGED <<outbox, errors>>
      <4>1. players[cmd.name] \in Conns
        BY <3>1 DEF Found, Registered, TypeOK
      <4> QED
        BY <3>1, <4>1 DEF SetEnemy, Goto
    <3> QED
      BY <1>5, <3>1 DEF ReadRequest
  <2>3. Delivers(c, m) /\ m.kind # "pvp-request"
    <3>1. m \in Message
      BY DEF Message
    <3> QED
      BY <2>2, <3>1, NothingDelivered, WriteDelivers
  <2> HIDE DEF m
  <2>4. CASE UNCHANGED <<enemy, pc, target>>
    BY <1>2, <2>1, <2>3, <2>4
  <2>5. ASSUME NEW e \in Conns, enemy' = [enemy EXCEPT ![e] = c],
               target' = [target EXCEPT ![c] = e], pc' = [pc EXCEPT ![c] = "ask"],
               outbox' = outbox
        PROVE  DenialInv'
    <3>1. \A d \in Conns : enemy'[d] = NoConn => enemy[d] = NoConn /\ d # e
      BY <1>0, <2>5, ConnsAssumption
    <3>2. \A d \in Conns \ {e} : (AskedBy(d)' => AskedBy(d)) /\ (AskedOf(d)' => AskedOf(d))
      BY <1>0, <2>5 DEF AskedBy, AskedOf
    <3>3. \A d \in Conns : pc'[d] = pc[d] \/ pc'[d] = "ask"
      BY <1>0, <2>5
    <3> QED
      BY <2>1, <3>1, <3>2, <3>3, ServerStepDenies
  <2> QED
    BY <2>2, <2>4, <2>5
<1>6. CASE Ask(c)
  <2> DEFINE m == [kind |-> "pvp-request", from |-> name[c]]
             to == target[c]
  <2>1. /\ sendMsg(to, m) /\ to \in Conns /\ AskedBy(to)
        /\ target' = [target EXCEPT ![c] = NoConn] /\ pc' = [pc EXCEPT ![c] = "read"]
        /\ UNCHANGED <<enemy, inbox>>
    BY <1>6 DEF Ask, Goto, TypeOK, AskedBy
  <2>2. m \in Message
    BY DEF Message, TypeOK
  <2> HIDE DEF m, to
  <2>3. Delivers(to, m)
    BY <2>1, <2>2, WriteDelivers
  <2>4. \A d \in Conns : pc'[d] = pc[d] \/ pc'[d] = "read"
    BY <1>0, <2>1
  <2>5. \A d \in Conns : pc'[d] = "ask" => target'[d] = target[d]
    BY <1>0, <2>1
  <2>6. \A d \in Conns : AskedBy(d)' => AskedBy(d)
    BY <1>1, <2>4, <2>5
  <2>7. \A d \in Conns : AskedOf(d)' => AskedOf(d) \/ AskedBy(d)
    BY <2>1, <2>3 DEF AskedOf, Delivers
  <2> QED
    BY <2>1, <2>4, <2>6, <2>7, NothingReadOff, ServerStepDenies
<1>7. CASE ReadAccept(c)
  <2> DEFINE cmd == Head(inbox[c])
  <2>1. /\ ReadsOff /\ inbox[c] \in Seq(Command) /\ inbox[c] # << >>
        /\ inbox'[c] = Tail(inbox[c]) /\ IsAnswer(cmd)
    BY <1>7, ReadingReadsOff DEF ReadAccept, IsAnswer
  <2>2. /\ UNCHANGED <<outbox, enemy>>
        /\ \/ enemy[c] = NoConn /\ pc' = [pc EXCEPT ![c] = "panicked"]
           \/ cmd.accepted /\ pc' = [pc EXCEPT ![c] = "start"]
           \/ ~cmd.accepted /\ pc' = [pc EXCEPT ![c] = "deny"]
        /\ pc[c] = "read" /\ (target' = target \/ \E e : target' = [target EXCEPT ![c] = e])
    BY <1>7 DEF ReadAccept, Goto, Reads
  <2>3. /\ HasAnswer(inbox[c])
        /\ ~cmd.accepted => HasDenial(inbox[c])
        /\ ~cmd.accepted /\ HasAnswer(Tail(inbox[c])) => DeniesFirst(inbox[c])
    BY <2>1, TailOfAnswers DEF IsDenial, IsAnswer
  <2>4. /\ enemy[c] = NoConn => DeniedBefore(c)
        /\ ~cmd.accepted => Denied(c) /\ (HasAnswer(inbox'[c]) => DeniedBefore(c))
    BY <2>1, <2>3 DEF DenialInv, DenialsQueue, UnsetByDenial
  <2> HIDE DEF cmd
  <2>5. \A d \in Conns : /\ d # c => pc'[d] = pc[d]
                         /\ pc'[d] = "ask" => pc[d] = "ask" /\ target'[d] = target[d]
    BY <1>0, <2>2
  <2>6. /\ pc'[c] = "panicked" => DeniedBefore(c)
        /\ pc'[c] \in {"deny", "clear"} => Denied(c) /\ (HasAnswer(inbox'[c]) => DeniedBefore(c))
    BY <1>0, <2>2, <2>4
  <2>7. \A d \in Conns : (AskedBy(d)' => AskedBy(d)) /\ (AskedOf(d)' => AskedOf(d))
    BY <1>1, <2>2, <2>5 DEF AskedOf
  <2> QED
    BY <2>1, <2>2, <2>5, <2>6, <2>7, ServerStepDenies
<1>8. CASE StartEnemy(c) \/ StartSelf(c)
  <2> DEFINE m == [kind |-> "pvp-start"]
  <2>1. /\ UNCHANGED <<enemy, inbox>>
        /\ \E d \in Conns : sendMsg(d, m)
        /\ \E where \in {"begin", "read"} : pc' = [pc EXCEPT ![c] = where]
        /\ target' = target \/ target' = [target EXCEPT ![c] = NoConn]
    BY <1>8 DEF StartEnemy, StartSelf, Goto, TypeOK
  <2>2. m \in Message /\ m.kind # "pvp-request"
    BY DEF Message
  <2>3. \A e \in Conns : pc'[e] = "ask" => target'[e] = target[e]
    BY <1>0, <2>1
  <2> HIDE DEF m
  <2> QED
    BY <1>2, <2>1, <2>2, <2>3, WriteDelivers, NothingReadOff
<1>9. CASE Deny(c)
  <2> DEFINE m == [kind |-> "pvp-deny"]
  <2>1. /\ UNCHANGED <<enemy, inbox>> /\ sendMsg(target[c], m) /\ target[c] \in Conns
        /\ pc[c] = "deny" /\ pc' = [pc EXCEPT ![c] = "clear"]
        /\ target' = [target EXCEPT ![c] = NoConn]
    BY <1>9 DEF Deny, Goto, TypeOK
  <2>2. m \in Message /\ m.kind # "pvp-request"
    BY DEF Message
  <2> HIDE DEF m
  <2>3. \A d \in Conns : AskedOf(d)' => AskedOf(d)
    BY <2>1, <2>2, WriteDelivers, NoRequestDelivered
  <2>4. \A d \in Conns : /\ pc'[d] = "ask" => pc[d] = "ask" /\ target'[d] = target[d]
                         /\ pc'[d] \in {"deny", "clear"} => pc[d] \in {"deny", "clear"}
                         /\ pc'[d] = "panicked" => pc[d] = "panicked"
    BY <1>0, <2>1
  <2> QED
    BY <1>1, <2>1, <2>3, <2>4, NothingReadOff, ServerStepDenies
<1>10. CASE ClearEnemy(c)
  <2>1. /\ enemy' = [enemy EXCEPT ![c] = NoConn] /\ UNCHANGED <<inbox, outbox, target>>
        /\ pc[c] = "clear" /\ pc' = [pc EXCEPT ![c] = "read"]
    BY <1>10 DEF ClearEnemy, SetEnemy, Goto
  <2>2. Cleared(c)
    BY <2>1 DEF DenialInv, DenialsClear
  <2>3. \A d \in Conns : /\ pc'[d] = "ask" => pc[d] = "ask" /\ target'[d] = target[d]
                         /\ pc'[d] = pc[d] \/ pc'[d] = "read"
                         /\ enemy'[d] = enemy[d] \/ d = c
    BY <1>0, <2>1
  <2>4. \A d \in Conns : (AskedBy(d)' => AskedBy(d)) /\ (AskedOf(d)' => AskedOf(d))
    BY <1>1, <2>1, <2>3 DEF AskedOf
  <2> QED
    BY <2>1, <2>2, <2>3, <2>4, NothingReadOff, ServerStepDenies
<1> QED
  BY <1>3, <1>4, <1>5, <1>6, <1>7, <1>8, <1>9, <1>10 DEF Handler

LEMMA ServerKeepsDenials == TypeOK /\ DenialInv /\ Server => DenialInv'
<1> SUFFICES ASSUME TypeOK, DenialInv, Server PROVE DenialInv'
  OBVIOUS
<1>0. UNCHANGED browserVars
  BY DEF Server
<1>1. ASSUME UNCHANGED <<inbox, enemy, pc, target>>, NEW d, NEW m, Delivers(d, m),
             m.kind # "pvp-request"
      PROVE  DenialInv'
  <2>1. \A e \in Conns : (AskedBy(e)' => AskedBy(e)) /\ (AskedOf(e)' => AskedOf(e))
    BY <1>1, NoRequestDelivered DEF AskedBy
  <2> QED
    BY <1>0, <1>1, <2>1, NothingReadOff, ServerStepDenies
<1>2. ASSUME NEW i \in Notifiers, NotifyClients(i) PROVE DenialInv'
  <2> DEFINE m == [kind |-> "players", names |-> notifier[i].names]
  <2>1. m.kind # "pvp-request"
    OBVIOUS
  <2>2. \E d : Delivers(d, m)
    <3>1. CASE NotifyWrite(i)
      <4>1. m \in Message /\ notifier[i].to \in Conns /\ Write(notifier[i].to, m)
        BY <3>1 DEF NotifyWrite, TypeOK, Task, Message
      <4> QED
        BY <4>1, WriteDelivers
    <3>2. CASE ~NotifyWrite(i)
      <4>1. outbox' = outbox
        BY <1>2, <3>2 DEF NotifyClients, NotifyMarshal, NotifyPick, NotifyReturn, wireVars
      <4> QED
        BY <4>1, NothingDelivered
    <3> QED
      BY <3>1, <3>2
  <2> HIDE DEF m
  <2> QED
    BY <1>1, <1>2, <2>1, <2>2, WritersChangeNothing
<1>3. ASSUME NEW c \in Conns, NEW how \in {"socket", "player"}, SendError(c, how)
      PROVE  DenialInv'
  <2> DEFINE m == [kind |-> "error"]
  <2>1. m \in Message /\ m.kind # "pvp-request"
    BY DEF Message
  <2>2. Delivers(c, m)
    BY <1>3, <2>1, WriteDelivers DEF SendError
  <2> HIDE DEF m
  <2> QED
    BY <1>1, <1>3, <2>1, <2>2, WritersChangeNothing
<1> QED
  BY <1>0, <1>2, <1>3, HandlerKeepsDenials DEF Server, Goroutines

-----------------------------------------------------------------------------
(* The pages. *)

LEMMA PageKeepsDenials ==
  ASSUME TypeOK, LobbyTyped, DenialInv, NEW c \in Conns, Page(c) \/ Departure(c)
  PROVE  DenialInv'
<1> USE DEF browserVars
<1>0. /\ inbox \in [Conns -> Seq(Command)] /\ pc \in [Conns -> Location]
      /\ dialog \in [Conns -> {{}} \cup {{n} : n \in Login}]
      /\ answers \in [Conns -> Seq([from : Login, go : BOOLEAN])]
  BY DEF TypeOK, LobbyTyped, LobbyTypeOK
<1>1. /\ enemy' = enemy /\ target' = target
      /\ \A d \in Conns : pc'[d] = pc[d] \/ pc'[d] = "accept"
      /\ outbox' = outbox
  <2>1. Network \/ UNCHANGED vars
    <3>1. Departure(c) => Network
      BY DEF Departure, ClosePage, LoseNetwork, Network
    <3> QED
      BY <3>1, PageIsNetwork
  <2> QED
    BY <2>1, NetworkDeliversNothing
       DEF Network, Dial, Submit, Hangup, Abort, vars, handlerVars, Goto, TypeOK
<1>2. \A d \in Conns : (AskedBy(d)' => AskedBy(d)) /\ (AskedOf(d)' => AskedOf(d))
  BY <1>1 DEF AskedBy, AskedOf
(* The clicks that send no answer, and what is not a click. *)
<1>3. ASSUME UNCHANGED answers, ReadsOff,
             \A d \in Conns : dialog'[d] # {} => dialog[d] # {} \/ AskedOf(d)
      PROVE  DenialInv'
  <2>1. \A d \in Conns : (Denied(d)' <=> Denied(d)) /\ (DeniedBefore(d)' <=> DeniedBefore(d))
    BY <1>3 DEF Denied, DeniedBefore
  <2>2. DenialsQueue'
    BY <1>3, <2>1 DEF DenialInv, DenialsQueue, ReadsOff
  <2>3. DenialsClear'
    BY <1>1, <1>3, <2>1 DEF DenialInv, DenialsClear, Cleared, ReadsOff
  <2>4. UnsetByDenial'
    BY <1>1, <1>2, <1>3, <2>1 DEF DenialInv, UnsetByDenial, ReadsOff
  <2>5. PanicNeedsDenial'
    BY <1>1, <1>3 DEF DenialInv, PanicNeedsDenial
  <2> QED
    BY <2>2, <2>3, <2>4, <2>5 DEF DenialInv
(* Sending a command that is no answer adds none. *)
<1>4. ASSUME NEW cmd \in Submittable, Send(c, cmd), ~IsAnswer(cmd) PROVE ReadsOff
  <2>1. inbox' = inbox \/ inbox' = [inbox EXCEPT ![c] = Append(@, cmd)]
    BY <1>4 DEF Send, Submit, vars, wireVars
  <2>2. ASSUME inbox' = [inbox EXCEPT ![c] = Append(@, cmd)] PROVE ReadsOff
    <3>1. ASSUME NEW d \in Conns
          PROVE  /\ HasAnswer(inbox'[d]) => HasAnswer(inbox[d])
                 /\ HasDenial(inbox'[d]) => HasDenial(inbox[d])
                 /\ DeniesFirst(inbox'[d]) => DeniesFirst(inbox[d])
      <4>1. CASE d = c
        <5>1. inbox'[d] = Append(inbox[d], cmd) /\ inbox[d] \in Seq(Command) /\ cmd \in Command
          BY <1>0, <2>2, <4>1, SubmittableAssumption
        <5>2. ~IsDenial(cmd)
          BY <1>4 DEF IsDenial, IsAnswer
        <5> QED
          BY <1>4, <5>1, <5>2, OneMoreAnswer
      <4>2. CASE d # c
        <5>1. inbox'[d] = inbox[d]
          BY <1>0, <2>2, <4>2
        <5> QED
          BY <5>1
      <4> QED
        BY <4>1, <4>2
    <3> QED
      BY <3>1 DEF ReadsOff
  <2> QED
    BY <2>1, <2>2, NothingReadOff
<1>5. CASE \/ OpenPage(c) \/ LoadLogin(c) \/ LoadPrepare(c)
           \/ \E n \in Login : ClickIncomplete(c, n)
  <2>1. UNCHANGED <<inbox, answers, dialog>>
    BY <1>5 DEF OpenPage, Dial, LoadLogin, LoadPrepare, ClickIncomplete, vars, wireVars
  <2> QED
    BY <1>3, <2>1, NothingReadOff
<1>6. ASSUME NEW k \in 1 .. Len(outbox[c]), LobbySync(c, outbox[c][k]), UNCHANGED <<inbox, answers>>
      PROVE  DenialInv'
  <2>1. /\ dialog' = [dialog EXCEPT ![c] = dialog'[c]]
        /\ dialog'[c] # {} => outbox[c][k].kind = "pvp-request"
    BY <1>0, <1>6 DEF LobbySync
  <2>2. \A d \in Conns : dialog'[d] # {} => dialog[d] # {} \/ AskedOf(d)
    BY <1>0, <2>1 DEF AskedOf
  <2> QED
    BY <1>3, <1>6, <2>2, NothingReadOff
<1>7. CASE LoadLobby(c)
  <2>1. seen[c] \in 1 .. Len(outbox[c])
    BY <1>7 DEF LoadLobby, LobbyTyped, LobbyTypeOK
  <2> QED
    BY <1>6, <1>7, <2>1 DEF LoadLobby, vars, wireVars
<1>8. CASE ReceiveInLobby(c)
  <2>1. seen[c] + 1 \in 1 .. Len(outbox[c]) /\ LobbySync(c, outbox[c][seen[c] + 1])
    BY <1>8, ReceivesTyped DEF ReceiveInLobby, Incoming
  <2> QED
    BY <1>6, <1>8, <2>1 DEF ReceiveInLobby, vars, wireVars
<1>9. CASE ReceiveError(c) \/ ReceiveIgnored(c) \/ ReceiveInLogin(c) \/ Departure(c)
  <2>1. /\ UNCHANGED answers
        /\ inbox' = inbox \/ inbox' = [inbox EXCEPT ![c] = << >>]
        /\ dialog' = dialog \/ dialog' = [dialog EXCEPT ![c] = {}]
    BY <1>9 DEF ReceiveError, ReceiveIgnored, ReceiveInLogin, Departure, ClosePage, LoseNetwork,
                Hangup, Abort, vars, wireVars
  <2>2. \A d \in Conns : inbox'[d] = inbox[d] \/ inbox'[d] = << >>
    BY <1>0, <2>1
  <2>3. ReadsOff
    BY <2>2, NoAnswers DEF ReadsOff
  <2>4. \A d \in Conns : dialog'[d] # {} => dialog[d] # {}
    BY <1>0, <2>1
  <2> QED
    BY <1>3, <2>1, <2>3, <2>4
<1>10. ASSUME NEW n \in Names, ClickLogin(c, n) PROVE DenialInv'
  <2>1. Send(c, LogIn(n)) /\ UNCHANGED <<answers, dialog>> /\ ~IsAnswer(LogIn(n))
    BY <1>10 DEF ClickLogin, LogIn, IsAnswer
  <2> QED
    BY <1>3, <1>4, <2>1, CommandsOfPages
<1>11. ASSUME NEW n \in Names, ClickPlay(c, n) PROVE DenialInv'
  <2>1. Send(c, PvpRequest(n)) /\ UNCHANGED <<answers, dialog>> /\ ~IsAnswer(PvpRequest(n))
    BY <1>11 DEF ClickPlay, PvpRequest, IsAnswer
  <2> QED
    BY <1>3, <1>4, <2>1, CommandsOfPages
<1>12. ASSUME NEW go \in BOOLEAN, Answer(c, go) PROVE DenialInv'
  <2>1. PICK n \in dialog[c] : answers' = [answers EXCEPT ![c] = Append(@, [from |-> n, go |-> go])]
    BY <1>12 DEF Answer
  <2> DEFINE a == [from |-> n, go |-> go]
             cmd == PvpAccept(go)
  <2>2. /\ Send(c, cmd) /\ dialog' = [dialog EXCEPT ![c] = {}] /\ dialog[c] # {}
        /\ cmd \in Command /\ (IsDenial(cmd) => ~go)
    <3>1. cmd \in Command
      BY CommandsOfPages, SubmittableAssumption
    <3>2. IsDenial(cmd) => ~go
      BY DEF IsDenial, PvpAccept
    <3> QED
      BY <1>12, <2>1, <3>1, <3>2 DEF Answer
  <2> HIDE DEF cmd
  <2>3. answers[c] \in Seq([from : Login, go : BOOLEAN]) /\ a \in [from : Login, go : BOOLEAN]
    <3>1. n \in Login
      <4>1. dialog[c] \in {{}} \cup {{l} : l \in Login}
        BY <1>0
      <4> QED
        BY <4>1
    <3>2. a \in [from : Login, go : BOOLEAN]
      BY <3>1
    <3> QED
      BY <1>0, <3>2
  <2>4. a.go = go
    OBVIOUS
  <2>5. answers' = [answers EXCEPT ![c] = Append(answers[c], a)]
    BY <2>1
  <2> HIDE DEF a
  <2>6. /\ answers'[c] = Append(answers[c], a)
        /\ Len(answers'[c]) = Len(answers[c]) + 1 /\ Len(answers[c]) \in Nat
        /\ \A k \in 1 .. Len(answers[c]) : answers'[c][k] = answers[c][k]
        /\ answers'[c][Len(answers[c]) + 1] = a
        /\ \A d \in Conns \ {c} : answers'[d] = answers[d]
    <3>1. answers'[c] = Append(answers[c], a) /\ \A d \in Conns \ {c} : answers'[d] = answers[d]
      BY <1>0, <2>5
    <3> QED
      BY <2>3, <3>1
  (* The history of the other pages stays; that of c grows. *)
  <2>7. \A d \in Conns \ {c} : (Denied(d)' <=> Denied(d)) /\ (DeniedBefore(d)' <=> DeniedBefore(d))
    BY <2>6 DEF Denied, DeniedBefore
  <2>8. Denied(c) => Denied(c)' /\ DeniedBefore(c)'
    <3> SUFFICES ASSUME NEW j \in 1 .. Len(answers[c]), ~answers[c][j].go
                 PROVE  Denied(c)' /\ DeniedBefore(c)'
      BY DEF Denied
    <3>1. /\ j \in 1 .. Len(answers'[c]) /\ Len(answers[c]) + 1 \in 1 .. Len(answers'[c])
          /\ j < Len(answers[c]) + 1 /\ ~answers'[c][j].go
      BY <2>6
    <3> QED
      BY <3>1 DEF Denied, DeniedBefore
  <2>9. DeniedBefore(c) => Denied(c)
    BY DEF Denied, DeniedBefore
  <2>10. ~go => Denied(c)'
    <3>1. ~go => Len(answers[c]) + 1 \in 1 .. Len(answers'[c]) /\ ~answers'[c][Len(answers[c]) + 1].go
      BY <2>4, <2>6
    <3> QED
      BY <3>1 DEF Denied
  (* The commands to be read. *)
  <2>11. \A d \in Conns \ {c} : inbox'[d] = inbox[d]
    BY <1>0, <2>2 DEF Send, Submit, vars, wireVars
  <2>12. inbox'[c] = inbox[c] \/ inbox'[c] = Append(inbox[c], cmd)
    BY <1>0, <2>2 DEF Send, Submit, vars, wireVars
  <2>13. inbox[c] \in Seq(Command)
    BY <1>0
  <2>14. /\ HasDenial(inbox'[c]) => HasDenial(inbox[c]) \/ ~go
         /\ DeniesFirst(inbox'[c]) => DeniesFirst(inbox[c]) \/ HasDenial(inbox[c])
    BY <2>2, <2>12, <2>13, OneMoreAnswer
  <2>15. DenialsQueue'
    <3>1. /\ HasDenial(inbox'[c]) => Denied(c)'
          /\ DeniesFirst(inbox'[c]) => DeniedBefore(c)'
      BY <2>8, <2>9, <2>10, <2>14 DEF DenialInv, DenialsQueue
    <3> QED
      BY <2>7, <2>11, <3>1 DEF DenialInv, DenialsQueue
  <2>16. DenialsClear'
    <3>1. pc'[c] \in {"deny", "clear"} => Denied(c)
      BY <1>1 DEF DenialInv, DenialsClear, Cleared
    <3> QED
      BY <1>1, <2>7, <2>8, <2>11, <3>1 DEF DenialInv, DenialsClear, Cleared
  <2>17. UnsetByDenial'
    <3>1. enemy[c] = NoConn => Denied(c)
      BY <2>2 DEF DenialInv, UnsetByDenial
    <3>2. \A d \in Conns : dialog'[d] # {} => dialog[d] # {}
      BY <1>0, <2>2
    <3>3. ASSUME NEW d \in Conns, enemy'[d] = NoConn
          PROVE  /\ HasAnswer(inbox'[d]) => DeniedBefore(d)'
                 /\ dialog'[d] # {} \/ AskedBy(d)' \/ AskedOf(d)' => Denied(d)'
      <4>1. CASE d = c
        BY <1>1, <2>8, <3>1, <3>3, <4>1
      <4>2. CASE d # c
        BY <1>1, <1>2, <2>7, <2>11, <3>2, <3>3, <4>2 DEF DenialInv, UnsetByDenial
      <4> QED
        BY <4>1, <4>2
    <3> QED
      BY <3>3 DEF UnsetByDenial
  <2>18. PanicNeedsDenial'
    <3>1. \A d \in Conns : pc'[d] = "panicked" => DeniedBefore(d)
      BY <1>1 DEF DenialInv, PanicNeedsDenial, DeniedBefore
    <3>2. \A d \in Conns : DeniedBefore(d) => DeniedBefore(d)'
      BY <2>7, <2>8, <2>9
    <3> QED
      BY <3>1, <3>2 DEF PanicNeedsDenial, DeniedBefore
  <2> QED
    BY <2>15, <2>16, <2>17, <2>18 DEF DenialInv
<1> QED
  BY <1>5, <1>7, <1>8, <1>9, <1>10, <1>11, <1>12 DEF Page, LoadStage, Receive

LEMMA StepDenial ==
  TypeOK /\ LobbyTyped /\ DenialInv /\ [LobbyNext]_lobbyVars => DenialInv'
<1> SUFFICES ASSUME TypeOK, LobbyTyped, DenialInv, UNCHANGED lobbyVars PROVE DenialInv'
  BY ServerKeepsDenials, PageKeepsDenials DEF LobbyNext
<1>1. UNCHANGED <<browserVars, inbox, outbox, enemy, pc, target>>
  BY DEF lobbyVars, vars, handlerVars, wireVars
<1>2. \A e \in Conns : (AskedBy(e)' => AskedBy(e)) /\ (AskedOf(e)' => AskedOf(e))
  BY <1>1 DEF AskedBy, AskedOf
<1> QED
  BY <1>1, <1>2, NothingReadOff, ServerStepDenies

(* The handler of a client panics on a pvp-accept only if its user denied  *)
(* an earlier request: without denials nothing the pages do takes the      *)
(* server down on a client, for any number of pages and requests.          *)
THEOREM OnlyDenialsMakePanic == LobbySpec => []PanicNeedsDenial
<1>1. LobbyInit => TypeOK /\ LobbyTyped /\ DenialInv
  BY InitTyped, InitLobbyTyped, InitDenial DEF LobbyInit
<1>2. TypeOK /\ LobbyTyped /\ DenialInv /\ [LobbyNext]_lobbyVars
        => TypeOK' /\ LobbyTyped' /\ DenialInv'
  BY StepTyped, LobbyStep, LobbyStepTyped, StepDenial
<1>3. DenialInv => PanicNeedsDenial
  BY DEF DenialInv
<1> QED
  BY <1>1, <1>2, <1>3, PTL DEF LobbySpec

-----------------------------------------------------------------------------
(* Whom a game is started with, of users who log in once.  A user who has  *)
(* not clicked yet is nobody; his one login command, and then his handler  *)
(* at "register", find him so.                                             *)

HasLogin(s) == \E k \in 1 .. Len(s) : s[k].op = "login"
OneLogin(s) == \A j, k \in 1 .. Len(s) : s[j].op = "login" /\ s[k].op = "login" => j = k

OneLoginInv ==
  \A c \in Conns :
    /\ auth[c] = NoName => pc[c] # "register" /\ name[c] = NoName
    /\ pc[c] = "register" => name[c] = NoName /\ ~HasLogin(inbox[c])
    /\ HasLogin(inbox[c]) => name[c] = NoName
    /\ OneLogin(inbox[c])

(* Requests on their way are among the clicks of their page; an entry of   *)
(* the table of players has the name it stands under; so an enemy pointer, *)
(* and the game that is about to start, go back to a click at its owner.   *)
RequestsAreClicks ==
  \A c \in Conns : \A k \in 1 .. Len(inbox[c]) :
    inbox[c][k].op = "pvp-request" => inbox[c][k].name \in challenged[c]

EntriesBearNames == \A n \in Names : players[n] # NoConn => name[players[n]] = n

EnemiesChallenged ==
  \A e \in Conns : enemy[e] # NoConn => name[e] \in challenged[enemy[e]]

ChallengeInv ==
  /\ OneLoginInv
  /\ RequestsAreClicks
  /\ EntriesBearNames
  /\ EnemiesChallenged
  /\ StartsWithChallenger

LEMMA InitChallenge == LobbyInit => ChallengeInv
<1> SUFFICES ASSUME LobbyInit PROVE ChallengeInv
  OBVIOUS
<1>1. \A c \in Conns : inbox[c] = << >> /\ Len(inbox[c]) = 0 /\ pc[c] = "none"
                       /\ name[c] = NoName /\ enemy[c] = NoConn
  BY DEF LobbyInit, Init
<1>2. \A n \in Names : players[n] = NoConn
  BY DEF LobbyInit, Init
<1>3. OneLoginInv /\ RequestsAreClicks
  BY <1>1 DEF OneLoginInv, HasLogin, OneLogin, RequestsAreClicks
<1> QED
  BY <1>1, <1>2, <1>3
     DEF ChallengeInv, EntriesBearNames, EnemiesChallenged, StartsWithChallenger

(* The commands that remain when the first is read. *)
LEMMA TailOfLogins ==
  ASSUME NEW s \in Seq(Command), s # << >>
  PROVE  /\ HasLogin(Tail(s)) => HasLogin(s)
         /\ OneLogin(s) => OneLogin(Tail(s))
         /\ Head(s).op = "login" => HasLogin(s)
         /\ Head(s).op = "login" /\ OneLogin(s) => ~HasLogin(Tail(s))
<1>1. /\ Len(Tail(s)) = Len(s) - 1 /\ Len(s) \in Nat \ {0} /\ Head(s) = s[1]
      /\ \A k \in 1 .. Len(Tail(s)) : Tail(s)[k] = s[k + 1] /\ k + 1 \in 1 .. Len(s)
      /\ 1 \in 1 .. Len(s)
  OBVIOUS
<1>2. HasLogin(Tail(s)) => HasLogin(s)
  BY <1>1 DEF HasLogin
<1>3. OneLogin(s) => OneLogin(Tail(s))
  <2> SUFFICES ASSUME OneLogin(s), NEW j \in 1 .. Len(Tail(s)), NEW k \in 1 .. Len(Tail(s)),
                      Tail(s)[j].op = "login", Tail(s)[k].op = "login"
               PROVE  j = k
    BY DEF OneLogin
  <2>1. j + 1 = k + 1
    BY <1>1 DEF OneLogin
  <2> QED
    BY <2>1
<1>4. Head(s).op = "login" => HasLogin(s)
  BY <1>1 DEF HasLogin
<1>5. Head(s).op = "login" /\ OneLogin(s) => ~HasLogin(Tail(s))
  <2> SUFFICES ASSUME s[1].op = "login", OneLogin(s),
                      NEW k \in 1 .. Len(Tail(s)), Tail(s)[k].op = "login"
               PROVE  FALSE
    BY <1>1 DEF HasLogin
  <2>1. 1 = k + 1
    BY <1>1 DEF OneLogin
  <2> QED
    BY <2>1
<1> QED
  BY <1>2, <1>3, <1>4, <1>5

(* What the handler of c does to the logins, with what it reads. *)
LEMMA HandlerKeepsLogins ==
  ASSUME TypeOK, ChallengeInv, NEW c \in Conns, Handler(c), UNCHANGED browserVars
  PROVE  OneLoginInv'
<1>0. /\ inbox \in [Conns -> Seq(Command)] /\ pc \in [Conns -> Location]
      /\ name \in [Conns -> Login] /\ auth \in [Conns -> Login] /\ OneLoginInv
  BY DEF TypeOK, ChallengeInv
<1> USE DEF browserVars, handlerVars, wireVars
<1>1. CASE Register(c)
  <2>1. /\ pc[c] = "register" /\ UNCHANGED <<inbox, auth>>
        /\ pc' = [pc EXCEPT ![c] = "read"] /\ \A d \in Conns \ {c} : name'[d] = name[d]
    BY <1>0, <1>1 DEF Register, Goto
  <2>2. auth[c] # NoName /\ ~HasLogin(inbox[c]) /\ OneLogin(inbox[c])
    BY <1>0, <2>1 DEF OneLoginInv
  <2> QED
    BY <1>0, <2>1, <2>2 DEF OneLoginInv
<1>2. CASE ReadLogin(c)
  <2>1. /\ Reads(c, "login") /\ name' = name
        /\ auth' = [auth EXCEPT ![c] = Head(inbox[c]).login]
        /\ \/ pc' = pc
           \/ pc' = [pc EXCEPT ![c] = "register"] /\ Head(inbox[c]).login \in Names
    BY <1>2 DEF ReadLogin, Granted, Goto
  <2>2. inbox[c] \in Seq(Command) /\ inbox[c] # << >> /\ Head(inbox[c]).op = "login"
        /\ inbox' = [inbox EXCEPT ![c] = Tail(inbox[c])]
    BY <1>0, <2>1 DEF Reads
  <2>3. HasLogin(inbox[c]) /\ OneLogin(Tail(inbox[c])) /\ ~HasLogin(Tail(inbox[c]))
    BY <1>0, <2>2, TailOfLogins DEF OneLoginInv
  <2>4. name[c] = NoName /\ pc[c] = "read"
    BY <1>0, <2>1, <2>3 DEF OneLoginInv, Reads
  <2>5. auth'[c] = NoName => pc'[c] # "register"
    BY <1>0, <2>1, <2>4, NamesAssumption
  <2> QED
    BY <1>0, <2>1, <2>2, <2>3, <2>4, <2>5 DEF OneLoginInv
<1>3. CASE ReadRequest(c) \/ ReadAccept(c) \/ ReadUnknown(c)
  <2>1. /\ UNCHANGED <<name, auth>> /\ \E op : Reads(c, op)
        /\ \A d \in Conns : pc'[d] = "register" => pc[d] = "register"
    BY <1>0, <1>3 DEF ReadRequest, ReadAccept, ReadUnknown, Goto
  <2>2. inbox[c] \in Seq(Command) /\ inbox[c] # << >>
        /\ inbox' = [inbox EXCEPT ![c] = Tail(inbox[c])]
    BY <1>0, <2>1 DEF Reads
  <2>3. /\ HasLogin(Tail(inbox[c])) => HasLogin(inbox[c])
        /\ OneLogin(Tail(inbox[c]))
    BY <1>0, <2>2, TailOfLogins DEF OneLoginInv
  <2> QED
    BY <1>0, <2>1, <2>2, <2>3 DEF OneLoginInv
<1>4. CASE \/ Accept(c) \/ Admit(c) \/ ReadError(c) \/ ReadEOF(c) \/ Close(c)
           \/ Ask(c) \/ StartEnemy(c) \/ StartSelf(c) \/ Deny(c) \/ ClearEnemy(c)
  <2>1. /\ UNCHANGED <<name, auth, inbox>>
        /\ \A d \in Conns : pc'[d] = "register" => pc[d] = "register"
    BY <1>0, <1>4 DEF Accept, Admit, ReadError, ReadEOF, Close, Ask, StartEnemy, StartSelf, Deny,
                      ClearEnemy, Goto
  <2> QED
    BY <1>0, <2>1 DEF OneLoginInv
<1> QED
  BY <1>1, <1>2, <1>3, <1>4 DEF Handler

LEMMA HandlerKeepsChallenges ==
  ASSUME TypeOK, LobbyTyped, ChallengeInv, NEW c \in Conns, Handler(c), UNCHANGED browserVars
  PROVE  ChallengeInv'
<1>0. /\ enemy \in [Conns -> Conns \cup {NoConn}] /\ pc \in [Conns -> Location]
      /\ target \in [Conns -> Conns \cup {NoConn}] /\ name \in [Conns -> Login]
      /\ players \in [Names -> Conns \cup {NoConn}]
      /\ challenged \in [Conns -> SUBSET Names] /\ NoName \notin Names /\ NoConn \notin Conns
      /\ RequestsAreClicks /\ EntriesBearNames /\ EnemiesChallenged /\ StartsWithChallenger
  BY NamesAssumption, ConnsAssumption DEF TypeOK, LobbyTyped, LobbyTypeOK, ChallengeInv
<1>00. OneLoginInv' /\ challenged' = challenged
  BY HandlerKeepsLogins DEF browserVars
<1> USE DEF handlerVars, tableVars, wireVars
<1>1. ASSUME ReadsOn PROVE RequestsAreClicks'
  <2> SUFFICES ASSUME NEW d \in Conns, NEW k \in 1 .. Len(inbox'[d]),
                      inbox'[d][k].op = "pvp-request"
               PROVE  inbox'[d][k].name \in challenged'[d]
    BY DEF RequestsAreClicks
  <2>1. PICK j \in 1 .. Len(inbox[d]) : inbox'[d][k] = inbox[d][j]
    BY <1>1 DEF ReadsOn
  <2>2. inbox[d][j].name \in challenged[d]
    BY <1>0, <2>1 DEF RequestsAreClicks
  <2> QED
    BY <1>00, <2>1, <2>2
<1>2. CASE Register(c)
  <2>1. /\ name' = [name EXCEPT ![c] = auth[c]] /\ players' = [players EXCEPT ![auth[c]] = c]
        /\ pc[c] = "register" /\ pc' = [pc EXCEPT ![c] = "read"]
        /\ UNCHANGED <<enemy, target, inbox>>
    BY <1>2 DEF Register, Goto
  <2>2. name[c] = NoName
    BY <2>1 DEF ChallengeInv, OneLoginInv
  <2>3. EntriesBearNames'
    <3> SUFFICES ASSUME NEW n \in Names, players'[n] # NoConn PROVE name'[players'[n]] = n
      BY DEF EntriesBearNames
    <3>1. CASE n = auth[c]
      BY <1>0, <2>1, <3>1
    <3>2. CASE n # auth[c]
      <4>1. players'[n] = players[n] /\ players[n] \in Conns /\ name[players[n]] = n
        BY <1>0, <2>1, <3>2 DEF EntriesBearNames
      <4>2. players[n] # c
        BY <1>0, <2>2, <4>1
      <4> QED
        BY <1>0, <2>1, <4>1, <4>2
    <3> QED
      BY <3>1, <3>2
  <2>4. EnemiesChallenged'
    <3> SUFFICES ASSUME NEW e \in Conns, enemy[e] # NoConn PROVE name'[e] \in challenged[enemy[e]]
      BY <1>00, <2>1 DEF EnemiesChallenged
    <3>1. enemy[e] \in Conns /\ name[e] \in challenged[enemy[e]] /\ name[e] \in Names
      BY <1>0 DEF EnemiesChallenged
    <3> QED
      BY <1>0, <2>1, <2>2, <3>1
  <2>5. StartsWithChallenger'
    BY <1>0, <1>00, <2>1 DEF StartsWithChallenger
  <2> QED
    BY <1>00, <1>1, <2>1, <2>3, <2>4, <2>5, NothingRead DEF ChallengeInv
<1>3. CASE ReadLogin(c) \/ ReadUnknown(c)
  <2>1. /\ UNCHANGED <<name, players, target, enemy>> /\ \E op : Reads(c, op)
        /\ \A d \in Conns : pc'[d] = "start" => pc[d] = "start"
    BY <1>0, <1>3 DEF ReadLogin, ReadUnknown, Goto
  <2> QED
    BY <1>0, <1>00, <1>1, <2>1, ReadsTakesHead
       DEF ChallengeInv, EntriesBearNames, EnemiesChallenged, StartsWithChallenger
<1>4. CASE ReadRequest(c)
  <2> DEFINE cmd == Head(inbox[c])
  <2>1. ReadsOn /\ cmd.name \in challenged[c]
    <3>1. Reads(c, "pvp-request")
      BY <1>4 DEF ReadRequest
    <3> QED
      BY <1>0, <3>1, ReadsTakesHead DEF RequestsAreClicks
  <2>2. UNCHANGED <<name, players>>
    BY <1>4 DEF ReadRequest
  <2>3. CASE UNCHANGED <<enemy, pc, target>>
    BY <1>0, <1>00, <1>1, <2>1, <2>2, <2>3
       DEF ChallengeInv, EntriesBearNames, EnemiesChallenged, StartsWithChallenger
  <2>4. CASE /\ Found(cmd.name)
             /\ target' = [target EXCEPT ![c] = players[cmd.name]]
             /\ SetEnemy(players[cmd.name], c)
             /\ Goto(c, "ask")
    <3>1. /\ players[cmd.name] \in Conns /\ name[players[cmd.name]] = cmd.name
          /\ enemy' = [enemy EXCEPT ![players[cmd.name]] = c]
          /\ pc' = [pc EXCEPT ![c] = "ask"]
      BY <1>0, <2>4 DEF Found, Registered, EntriesBearNames, SetEnemy, Goto
    <3>2. EnemiesChallenged'
      BY <1>0, <1>00, <2>1, <2>2, <3>1 DEF EnemiesChallenged
    <3>3. StartsWithChallenger' /\ EntriesBearNames'
      BY <1>0, <1>00, <2>2, <2>4, <3>1 DEF StartsWithChallenger, EntriesBearNames
    <3> QED
      BY <1>00, <1>1, <2>1, <3>2, <3>3 DEF ChallengeInv
  <2> QED
    BY <1>4, <2>3, <2>4 DEF ReadRequest
<1>5. CASE ReadAccept(c)
  <2>1. /\ \E op : Reads(c, op) /\ UNCHANGED <<name, players, enemy>>
        /\ \/ pc' = [pc EXCEPT ![c] = "panicked"] /\ target' = target
           \/ /\ enemy[c] # NoConn /\ target' = [target EXCEPT ![c] = enemy[c]]
              /\ \E where : pc' = [pc EXCEPT ![c] = where]
    BY <1>5 DEF ReadAccept, Goto
  <2>2. enemy[c] # NoConn => name[c] \in challenged[enemy[c]]
    BY <1>0 DEF EnemiesChallenged
  <2>3. StartsWithChallenger'
    BY <1>0, <1>00, <2>1, <2>2 DEF StartsWithChallenger
  <2> QED
    BY <1>0, <1>00, <1>1, <2>1, <2>3, ReadsTakesHead
       DEF ChallengeInv, EntriesBearNames, EnemiesChallenged
<1>6. CASE \/ Accept(c) \/ Admit(c) \/ ReadError(c) \/ ReadEOF(c) \/ Close(c)
           \/ Ask(c) \/ StartEnemy(c) \/ StartSelf(c) \/ Deny(c) \/ ClearEnemy(c)
  <2>1. /\ UNCHANGED <<name, inbox>>
        /\ \A n \in Names : players'[n] = players[n] \/ players'[n] = NoConn
        /\ enemy' = enemy \/ enemy' = [enemy EXCEPT ![c] = NoConn]
        /\ pc'[c] # "start" /\ \A d \in Conns \ {c} : pc'[d] = pc[d] /\ target'[d] = target[d]
    <3>1. CASE ReadEOF(c)
      BY <1>0, <3>1 DEF ReadEOF, ForgetPlayer, Goto
    <3>2. CASE \/ Accept(c) \/ Admit(c) \/ ReadError(c) \/ Close(c)
               \/ Ask(c) \/ StartEnemy(c) \/ StartSelf(c) \/ Deny(c) \/ ClearEnemy(c)
      BY <1>0, <3>2 DEF Accept, Admit, ReadError, Close, Ask, StartEnemy, StartSelf, Deny,
                        ClearEnemy, SetEnemy, Goto
    <3> QED
      BY <1>6, <3>1, <3>2
  <2>2. EntriesBearNames'
    BY <1>0, <2>1 DEF EntriesBearNames
  <2>3. EnemiesChallenged'
    BY <1>0, <1>00, <2>1 DEF EnemiesChallenged
  <2>4. StartsWithChallenger'
    BY <1>0, <1>00, <2>1 DEF StartsWithChallenger
  <2> QED
    BY <1>00, <1>1, <2>1, <2>2, <2>3, <2>4, NothingRead DEF ChallengeInv
<1> QED
  BY <1>2, <1>3, <1>4, <1>5, <1>6 DEF Handler

LEMMA ServerKeepsChallenges == TypeOK /\ LobbyTyped /\ ChallengeInv /\ Server => ChallengeInv'
<1> SUFFICES ASSUME TypeOK, LobbyTyped, ChallengeInv, Server PROVE ChallengeInv'
  OBVIOUS
<1>0. UNCHANGED browserVars
  BY DEF Server
<1>1. CASE \/ \E i \in Notifiers : NotifyClients(i)
           \/ \E c \in Conns, how \in {"socket", "player"} : SendError(c, how)
  <2>1. UNCHANGED <<inbox, enemy, pc, target, name, auth, players>>
    BY <1>1, WritersChangeNothing
  <2> QED
    BY <1>0, <2>1 DEF browserVars, ChallengeInv, OneLoginInv, RequestsAreClicks, EntriesBearNames,
                      EnemiesChallenged, StartsWithChallenger
<1> QED
  BY <1>0, <1>1, HandlerKeepsChallenges DEF Server, Goroutines

(* The commands once another has been sent. *)
LEMMA OneMoreLogin ==
  ASSUME NEW s \in Seq(Command), NEW cmd \in Command
  PROVE  /\ HasLogin(Append(s, cmd)) => HasLogin(s) \/ cmd.op = "login"
         /\ OneLogin(s) /\ (cmd.op = "login" => ~HasLogin(s)) => OneLogin(Append(s, cmd))
<1>1. /\ Len(Append(s, cmd)) = Len(s) + 1 /\ Len(s) \in Nat
      /\ \A k \in 1 .. Len(s) : Append(s, cmd)[k] = s[k]
      /\ Append(s, cmd)[Len(s) + 1] = cmd
  OBVIOUS
<1>2. \A k \in 1 .. Len(Append(s, cmd)) : k \in 1 .. Len(s) \/ k = Len(s) + 1
  BY <1>1
<1>3. HasLogin(Append(s, cmd)) => HasLogin(s) \/ cmd.op = "login"
  BY <1>1, <1>2 DEF HasLogin
<1>4. OneLogin(s) /\ (cmd.op = "login" => ~HasLogin(s)) => OneLogin(Append(s, cmd))
  <2> SUFFICES ASSUME OneLogin(s), cmd.op = "login" => ~HasLogin(s),
                      NEW j \in 1 .. Len(Append(s, cmd)), NEW k \in 1 .. Len(Append(s, cmd)),
                      Append(s, cmd)[j].op = "login", Append(s, cmd)[k].op = "login"
               PROVE  j = k
    BY DEF OneLogin
  <2>1. CASE j \in 1 .. Len(s) /\ k \in 1 .. Len(s)
    BY <1>1, <2>1 DEF OneLogin
  <2>2. CASE j = Len(s) + 1 \/ k = Len(s) + 1
    BY <1>1, <1>2, <2>2 DEF HasLogin
  <2> QED
    BY <1>2, <2>1, <2>2
<1> QED
  BY <1>3, <1>4

LEMMA PageKeepsChallenges ==
  ASSUME TypeOK, LobbyTyped, ChallengeInv, LoginsOnce, NEW c \in Conns, Page(c) \/ Departure(c)
  PROVE  ChallengeInv'
<1> USE DEF browserVars
<1>1. /\ UNCHANGED <<enemy, target, name, auth, players>>
      /\ \A d \in Conns : pc'[d] = pc[d] \/ pc'[d] = "accept"
  <2>1. Network \/ UNCHANGED vars
    <3>1. Departure(c) => Network
      BY DEF Departure, ClosePage, LoseNetwork, Network
    <3> QED
      BY <3>1, PageIsNetwork
  <2> QED
    BY <2>1 DEF Network, Dial, Submit, Hangup, Abort, vars, handlerVars, tableVars, Goto, TypeOK
<1>2. /\ inbox \in [Conns -> Seq(Command)]
      /\ challenged \in [Conns -> SUBSET Names] /\ NoName \notin Names
      /\ enemy \in [Conns -> Conns \cup {NoConn}] /\ target \in [Conns -> Conns \cup {NoConn}]
      /\ \A d \in Conns : pc[d] = "start" => target[d] # NoConn
  BY NamesAssumption DEF TypeOK, LobbyTyped, LobbyTypeOK
<1>3. ASSUME \A d \in Conns : challenged[d] \subseteq challenged'[d], OneLoginInv',
             RequestsAreClicks'
      PROVE  ChallengeInv'
  <2>1. EntriesBearNames' /\ EnemiesChallenged'
    BY <1>1, <1>2, <1>3 DEF ChallengeInv, EntriesBearNames, EnemiesChallenged
  <2>2. StartsWithChallenger'
    <3> SUFFICES ASSUME NEW d \in Conns, pc'[d] = "start"
                 PROVE  name[d] \in challenged'[target[d]]
      BY <1>1 DEF StartsWithChallenger
    <3>1. pc[d] = "start" /\ target[d] \in Conns
      BY <1>1, <1>2
    <3> QED
      BY <1>3, <3>1 DEF ChallengeInv, StartsWithChallenger
  <2> QED
    BY <1>3, <2>1, <2>2 DEF ChallengeInv
(* What is sent is what was sent before and perhaps one command more. *)
<1>4. ASSUME NEW cmd \in Submittable, Send(c, cmd)
      PROVE  cmd \in Command /\ (inbox' = inbox \/ inbox' = [inbox EXCEPT ![c] = Append(@, cmd)])
  BY <1>4, SubmittableAssumption DEF Send, Submit, vars, wireVars
<1>5. ASSUME NEW cmd \in Submittable, Send(c, cmd), cmd.op # "login"
      PROVE  OneLoginInv'
  <2>1. /\ HasLogin(Append(inbox[c], cmd)) => HasLogin(inbox[c])
        /\ OneLogin(Append(inbox[c], cmd))
    BY <1>2, <1>4, <1>5, OneMoreLogin DEF ChallengeInv, OneLoginInv
  <2> QED
    BY <1>1, <1>2, <1>4, <1>5, <2>1 DEF ChallengeInv, OneLoginInv
<1>6. ASSUME NEW cmd \in Submittable, Send(c, cmd),
             \A d \in Conns : challenged[d] \subseteq challenged'[d],
             cmd.op = "pvp-request" => cmd.name \in challenged'[c]
      PROVE  RequestsAreClicks'
  <2>1. \A k \in 1 .. Len(Append(inbox[c], cmd)) :
          Append(inbox[c], cmd)[k] = cmd
            \/ (k \in 1 .. Len(inbox[c]) /\ Append(inbox[c], cmd)[k] = inbox[c][k])
    <3>1. inbox[c] \in Seq(Command) /\ cmd \in Command
      BY <1>2, <1>4, <1>6
    <3> QED
      BY <3>1
  <2>2. \A d \in Conns : \A k \in 1 .. Len(inbox'[d]) :
          \/ k \in 1 .. Len(inbox[d]) /\ inbox'[d][k] = inbox[d][k]
          \/ d = c /\ inbox'[d][k] = cmd
    BY <1>2, <1>4, <1>6, <2>1
  <2> QED
    BY <1>6, <2>2 DEF ChallengeInv, RequestsAreClicks
<1>7. ASSUME NEW n \in Names, ClickLogin(c, n) PROVE ChallengeInv'
  <2> DEFINE cmd == LogIn(n)
  <2>1. /\ Send(c, cmd) /\ challenged' = challenged
        /\ NoLoginYet(c) /\ cmd.op = "login" /\ cmd \in Submittable
    BY <1>7, CommandsOfPages DEF ClickLogin, LoginsOnce, LogIn
  <2> HIDE DEF cmd
  <2>2. ~HasLogin(inbox[c]) /\ pc[c] # "register" /\ name[c] = NoName /\ OneLogin(inbox[c])
    BY <2>1 DEF ChallengeInv, OneLoginInv, NoLoginYet, HasLogin
  <2>3. OneLogin(Append(inbox[c], cmd))
    BY <1>2, <1>4, <2>1, <2>2, OneMoreLogin
  <2>4. OneLoginInv'
    BY <1>1, <1>2, <1>4, <2>1, <2>2, <2>3 DEF ChallengeInv, OneLoginInv
  <2> QED
    BY <1>3, <1>6, <2>1, <2>4
<1>8. ASSUME NEW n \in Names, ClickPlay(c, n) PROVE ChallengeInv'
  <2> DEFINE cmd == PvpRequest(n)
  <2>1. /\ Send(c, cmd) /\ challenged' = [challenged EXCEPT ![c] = @ \cup {n}]
        /\ cmd.op = "pvp-request" /\ cmd.name = n /\ cmd \in Submittable
    BY <1>8, CommandsOfPages DEF ClickPlay, PvpRequest
  <2> HIDE DEF cmd
  <2>2. (\A d \in Conns : challenged[d] \subseteq challenged'[d]) /\ n \in challenged'[c]
    BY <1>2, <2>1
  <2> QED
    BY <1>3, <1>5, <1>6, <2>1, <2>2
<1>9. ASSUME NEW go \in BOOLEAN, Answer(c, go) PROVE ChallengeInv'
  <2> DEFINE cmd == PvpAccept(go)
  <2>1. /\ Send(c, cmd) /\ challenged' = challenged
        /\ cmd.op = "pvp-accept" /\ cmd \in Submittable
    BY <1>9, CommandsOfPages DEF Answer, PvpAccept
  <2> HIDE DEF cmd
  <2> QED
    BY <1>3, <1>5, <1>6, <2>1
<1>10. CASE \/ OpenPage(c) \/ LoadStage(c) \/ Receive(c) \/ Departure(c)
            \/ \E n \in Login : ClickIncomplete(c, n)
  <2>1. /\ challenged' = challenged
        /\ inbox' = inbox \/ inbox' = [inbox EXCEPT ![c] = << >>]
    BY <1>10 DEF OpenPage, Dial, LoadStage, LoadLogin, LoadLobby, LoadPrepare, Receive,
                 ReceiveError, ReceiveIgnored, ReceiveInLogin, ReceiveInLobby, Departure,
                 ClosePage, LoseNetwork, ClickIncomplete, Hangup, Abort, vars, wireVars
  <2>2. Len(<< >>) = 0 /\ ~HasLogin(<< >>) /\ OneLogin(<< >>)
    BY DEF HasLogin, OneLogin
  <2>3. OneLoginInv'
    BY <1>1, <1>2, <2>1, <2>2 DEF ChallengeInv, OneLoginInv
  <2>4. RequestsAreClicks'
    <3> SUFFICES ASSUME NEW d \in Conns, NEW k \in 1 .. Len(inbox'[d]),
                        inbox'[d][k].op = "pvp-request"
                 PROVE  inbox'[d][k].name \in challenged'[d]
      BY DEF RequestsAreClicks
    <3>1. inbox'[d] = inbox[d]
      BY <1>2, <2>1, <2>2
    <3>2. inbox[d][k].name \in challenged[d]
      BY <3>1 DEF ChallengeInv, RequestsAreClicks
    <3> QED
      BY <2>1, <3>1, <3>2
  <2> QED
    BY <1>3, <2>1, <2>3, <2>4
<1> QED
  BY <1>7, <1>8, <1>9, <1>10 DEF Page

LEMMA StepChallenge ==
  TypeOK /\ LobbyTyped /\ ChallengeInv /\ [LobbyNext /\ LoginsOnce]_lobbyVars => ChallengeInv'
<1> SUFFICES ASSUME TypeOK, LobbyTyped, ChallengeInv, UNCHANGED lobbyVars PROVE ChallengeInv'
  BY ServerKeepsChallenges, PageKeepsChallenges DEF LobbyNext
<1> QED
  BY DEF lobbyVars, vars, handlerVars, tableVars, wireVars, browserVars, ChallengeInv, OneLoginInv,
         RequestsAreClicks, EntriesBearNames, EnemiesChallenged, StartsWithChallenger

(* Whoever a game is started with has clicked "play" at the one who        *)
(* accepts, however requests overwrote each other in the enemy pointer     *)
(* (player.go:57): for any number of players who come, go and ask, even    *)
(* if two of them get the same name.                                       *)
THEOREM OpponentsAreChallengers == OnceSpec => []StartsWithChallenger
<1>1. LobbyInit => TypeOK /\ LobbyTyped /\ ChallengeInv
  BY InitTyped, InitLobbyTyped, InitChallenge DEF LobbyInit
<1>2. [LobbyNext /\ LoginsOnce]_lobbyVars => [LobbyNext]_lobbyVars
  OBVIOUS
<1>3. TypeOK /\ LobbyTyped /\ ChallengeInv /\ [LobbyNext /\ LoginsOnce]_lobbyVars
        => TypeOK' /\ LobbyTyped' /\ ChallengeInv'
  BY <1>2, StepTyped, LobbyStep, LobbyStepTyped, StepChallenge
<1>4. ChallengeInv => StartsWithChallenger
  BY DEF ChallengeInv
<1> QED
  BY <1>1, <1>3, <1>4, PTL DEF OnceSpec

=============================================================================
