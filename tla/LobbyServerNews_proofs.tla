------------------------- MODULE LobbyServerNews_proofs -------------------------
(***************************************************************************)
(* NewsDelivered and NoAnswerLost for every number of clients and of       *)
(* notifications at once.                                                  *)
(*                                                                         *)
(* The argument: as long as a client waits for a list (the present one if  *)
(* it is owed that, one with its name if it has been granted a login),     *)
(* either a notification has just been started, or one that carries such a *)
(* list has this client still before it and is not writing to a client     *)
(* that has gone, or some client in the table is unreachable.  The end of  *)
(* that client starts another notification, unless its handler panicked.   *)
(***************************************************************************)
EXTENDS LobbyServerNews, LobbyServer_proofs

(* Notification i will yet come by client c with a list of S. *)
Comes(i, c, S) ==
  \/ notifier[i].at = "spawned"
  \/ /\ notifier[i].at \in {"ranging", "writing"}
     /\ notifier[i].names \in S
     /\ notifier[i].at = "writing" => notifier[i].to \in connections
     /\ \/ c \in notifier[i].first \ notifier[i].visited
        \/ notifier[i].at = "writing" /\ notifier[i].to = c

SomebodyGone == \E d \in connections : link[d] # "up"

Naming(n) == {N \in SUBSET Names : n \in N}

NewsComes ==
  \A c \in owed \cap connections :
    (\E i \in Notifiers : Comes(i, c, {Registered})) \/ SomebodyGone

NameComes ==
  \A c \in connections : \A n \in granted[c] :
    \/ players[n] = NoConn
    \/ \E i \in Notifiers : Comes(i, c, Naming(n))
    \/ SomebodyGone

OwedServed == owed \subseteq {c \in Conns : pc[c] \notin Early}

GrantedServed ==
  /\ granted \in [Conns -> SUBSET Names]
  /\ \A c \in Conns : pc[c] \in Early => granted[c] = {}

SpawnedAfresh ==
  \A i \in Notifiers : notifier[i].at = "spawned" => notifier[i].visited = {}

NewsInv == NewsComes /\ NameComes /\ OwedServed /\ GrantedServed /\ SpawnedAfresh

Coming == NewsComes /\ NameComes /\ SpawnedAfresh

LEMMA InitNews == NewsInit => NewsInv
  BY DEF NewsInit, Init, NewsInv, NewsComes, NameComes, OwedServed, GrantedServed,
         SpawnedAfresh, NoTask

(* A step that starts a notification. *)
LEMMA SpawnBringsNews ==
  ASSUME TypeOK, SpawnedAfresh, SpawnNotify
  PROVE  Coming'
<1>1. PICK i \in Notifiers : notifier' = [notifier EXCEPT ![i] = NewTask]
  BY DEF SpawnNotify
<1>2. notifier'[i] = NewTask /\ \A j \in Notifiers \ {i} : notifier'[j] = notifier[j]
  BY <1>1 DEF TypeOK
<1>3. SpawnedAfresh'
  BY <1>2 DEF SpawnedAfresh, NewTask
<1>4. notifier'[i].at = "spawned"
  BY <1>2 DEF NewTask
<1>5. NewsComes' /\ NameComes'
  BY <1>4 DEF NewsComes, NameComes, Comes
<1> QED
  BY <1>3, <1>5 DEF Coming

(* Nobody is granted a name without a notification. *)
LEMMA GrantedShrinks ==
  ASSUME NewsInv, Answer, NEW c \in Conns, ~(pc[c] = "register" /\ pc'[c] = "read")
  PROVE  /\ granted'[c] \subseteq granted[c]
         /\ Gets(c) /\ Sent(c).kind = "players" =>
              granted'[c] \cap Sent(c).names = {}
  BY DEF Answer, NewsInv, GrantedServed

(* A step that leaves the notifications, and what they depend on, alone.   *)
LEMMA QuietKeepsNews ==
  ASSUME TypeOK, NewsInv, Owe, Answer,
         players' = players, notifier' = notifier,
         connections \subseteq connections', connections' \subseteq Conns,
         \A d \in connections' \ connections : pc[d] \in Early,
         \A d \in connections : link[d] # "up" => link'[d] # "up",
         \A d \in Conns : ~(pc[d] = "register" /\ pc'[d] = "read")
  PROVE  Coming'
<1>1. Registered' = Registered
  BY DEF Registered
<1>2. owed' \subseteq owed
  BY <1>1 DEF Owe
<1>3. owed' \cap connections' \subseteq owed \cap connections
  BY <1>2 DEF NewsInv, OwedServed
<1>4. \A i \in Notifiers : \A c, S : Comes(i, c, S) => Comes(i, c, S)'
  BY DEF Comes
<1>5. SomebodyGone => SomebodyGone'
  BY DEF SomebodyGone
<1>6. NewsComes'
  BY <1>1, <1>3, <1>4, <1>5 DEF NewsComes, NewsInv, Comes
<1>7. ASSUME NEW c \in connections', NEW n \in granted'[c]
      PROVE  c \in connections /\ n \in granted[c]
  BY <1>7, GrantedShrinks DEF NewsInv, GrantedServed
<1>8. NameComes'
  BY <1>4, <1>5, <1>7 DEF NameComes, NewsInv, Comes
<1> QED
  BY <1>6, <1>8 DEF Coming, NewsInv, SpawnedAfresh

(* The write to a client that is up delivers the packet of notification i. *)
LEMMA WriteTells ==
  ASSUME TypeOK, NEW i \in Notifiers, NEW c \in Conns, notifier[i].to = c,
         link[c] = "up", NotifyWrite(i)
  PROVE  Gets(c) /\ Sent(c) = [kind |-> "players", names |-> notifier[i].names]
<1> DEFINE m == [kind |-> "players", names |-> notifier[i].names]
<1>1. outbox[c] \in Seq(Message)
  BY DEF TypeOK
<1>2. m \in Message
  BY DEF TypeOK, Task, Message
<1>3. outbox'[c] = Append(outbox[c], m)
  BY DEF NotifyWrite, Write, TypeOK
<1> HIDE DEF m
<1>4. Len(outbox'[c]) = Len(outbox[c]) + 1 /\ outbox'[c][Len(outbox'[c])] = m
  BY <1>1, <1>2, <1>3
<1>5. Len(outbox[c]) \in Nat
  BY <1>1
<1>6. Gets(c) /\ Sent(c) = m
  BY <1>4, <1>5 DEF Gets, Sent
<1> QED
  BY <1>6 DEF m

(* A notification goes on: it still comes by whomever it was to come by    *)
(* with a list of S, unless it has just told that client, or somebody is   *)
(* gone.                                                                   *)
LEMMA NotifyGoesOn ==
  ASSUME TypeOK, SpawnedAfresh, NEW i \in Notifiers, NotifyClients(i),
         NEW c \in connections, NEW S, Registered \in S, Comes(i, c, S)
  PROVE  \/ Comes(i, c, S)'
         \/ SomebodyGone
         \/ Gets(c) /\ \E N \in S : Sent(c) = [kind |-> "players", names |-> N]
<1>1. connections' = connections
  BY WritersChangeNothing
<1>2. c \in Conns
  BY DEF TypeOK
<1>3. CASE NotifyMarshal(i)
  <2>1. notifier[i].visited = {}
    BY <1>3 DEF NotifyMarshal, SpawnedAfresh
  <2>2. /\ notifier'[i].at = "ranging" /\ notifier'[i].names = Registered
        /\ notifier'[i].first = connections /\ notifier'[i].visited = {}
    BY <1>3, <2>1 DEF NotifyMarshal, TypeOK, Task
  <2> QED
    BY <1>1, <2>2 DEF Comes
<1>4. ASSUME NEW d \in Conns, NotifyPick(i, d) PROVE Comes(i, c, S)'
  <2>1. /\ notifier'[i].at = "writing" /\ notifier'[i].names = notifier[i].names
        /\ notifier'[i].first = notifier[i].first /\ notifier'[i].to = d
        /\ notifier'[i].visited = notifier[i].visited \cup {d}
        /\ d \in connections /\ notifier[i].at = "ranging"
    BY <1>4 DEF NotifyPick, TypeOK, Task
  <2> QED
    BY <1>1, <2>1 DEF Comes
<1>5. CASE NotifyWrite(i)
  <2> DEFINE d == notifier[i].to
  <2>1. notifier[i].at = "writing" /\ notifier[i].names \in S /\ d \in connections
    BY <1>5 DEF NotifyWrite, Comes
  <2>2. CASE link[d] # "up"
    BY <2>1, <2>2 DEF SomebodyGone
  <2>3. CASE link[d] = "up" /\ c = d
    BY <1>2, <1>5, <2>1, <2>3, WriteTells
  <2>4. CASE link[d] = "up" /\ c # d
    <3>1. notifier' = [notifier EXCEPT ![i] = [@ EXCEPT !.at = "ranging", !.to = NoConn]]
      BY <1>5, <2>4 DEF NotifyWrite
    <3>2. notifier \in [Notifiers -> Task]
      BY DEF TypeOK
    <3>3. /\ notifier'[i].at = "ranging" /\ notifier'[i].names = notifier[i].names
          /\ notifier'[i].first = notifier[i].first
          /\ notifier'[i].visited = notifier[i].visited
      BY <3>1, <3>2 DEF Task
    <3> QED
      BY <1>1, <2>1, <2>4, <3>3 DEF Comes
  <2> QED
    BY <2>2, <2>3, <2>4
<1>6. CASE NotifyReturn(i)
  BY <1>6 DEF NotifyReturn, Comes
<1> QED
  BY <1>3, <1>4, <1>5, <1>6 DEF NotifyClients

LEMMA NotifyKeepsNews ==
  ASSUME TypeOK, NewsInv, Owe, Answer, NEW i \in Notifiers, NotifyClients(i)
  PROVE  Coming'
<1>1. /\ connections' = connections /\ players' = players /\ link' = link
      /\ pc' = pc /\ Registered' = Registered
  BY WritersChangeNothing DEF Registered
<1>2. \A j \in Notifiers \ {i} : notifier'[j] = notifier[j]
  BY DEF NotifyClients, NotifyMarshal, NotifyPick, NotifyWrite, NotifyReturn, TypeOK
<1>3. SpawnedAfresh'
  <2>1. notifier \in [Notifiers -> Task]
    BY DEF TypeOK
  <2>2. notifier'[i].at # "spawned"
    <3>1. CASE NotifyMarshal(i)
      BY <2>1, <3>1 DEF NotifyMarshal, Task
    <3>2. CASE \E d \in Conns : NotifyPick(i, d)
      BY <2>1, <3>2 DEF NotifyPick, Task
    <3>3. CASE NotifyWrite(i)
      <4> DEFINE t == [notifier[i] EXCEPT !.at = "ranging", !.to = NoConn]
      <4>1. t.at = "ranging" /\ NoTask.at = "idle"
        BY <2>1 DEF Task, NoTask
      <4>2. notifier' = [notifier EXCEPT ![i] = t] \/ notifier' = [notifier EXCEPT ![i] = NoTask]
        BY <3>3 DEF NotifyWrite
      <4> HIDE DEF t
      <4> QED
        BY <2>1, <4>1, <4>2
    <3>4. CASE NotifyReturn(i)
      BY <2>1, <3>4 DEF NotifyReturn, NoTask, Task
    <3> QED
      BY <3>1, <3>2, <3>3, <3>4 DEF NotifyClients
  <2> QED
    BY <1>2, <2>2 DEF NewsInv, SpawnedAfresh
<1>4. \A j \in Notifiers \ {i} : \A c, S : Comes(j, c, S) => Comes(j, c, S)'
  BY <1>1, <1>2 DEF Comes
<1>5. SomebodyGone => SomebodyGone'
  BY <1>1 DEF SomebodyGone
<1>6. NewsComes'
  <2> SUFFICES ASSUME NEW c \in owed' \cap connections', ~SomebodyGone
               PROVE  \E j \in Notifiers : Comes(j, c, {Registered})'
    BY <1>5 DEF NewsComes
  <2>1. PICK R : R = {Registered}
    OBVIOUS
  <2>2. R = {Registered'}
    BY <1>1, <2>1
  <2>3. c \in owed \cap connections /\ ~Told(c)
    BY <1>1 DEF Owe
  <2>4. PICK j \in Notifiers : Comes(j, c, R)
    BY <2>1, <2>3 DEF NewsInv, NewsComes
  <2>5. Comes(j, c, R)'
    <3>1. CASE j # i
      BY <1>4, <2>4, <3>1
    <3>2. CASE j = i
      <4>1. Gets(c) /\ (\E N \in R : Sent(c) = [kind |-> "players", names |-> N]) => Told(c)
        BY <1>1, <2>1 DEF Told, PlayersPacket
      <4> QED
        BY <2>1, <2>3, <2>4, <3>2, <4>1, NotifyGoesOn DEF NewsInv
    <3> QED
      BY <3>1, <3>2
  <2> QED
    BY <2>2, <2>5 DEF Comes
<1>7. NameComes'
  <2> SUFFICES ASSUME NEW c \in connections', NEW n \in granted'[c], ~SomebodyGone,
                      players[n] # NoConn
               PROVE  \E j \in Notifiers : Comes(j, c, Naming(n))'
    BY <1>1, <1>5 DEF NameComes
  <2>1. c \in connections /\ c \in Conns
    BY <1>1 DEF TypeOK
  <2>2. /\ n \in granted[c] /\ n \in Names
        /\ Gets(c) /\ Sent(c).kind = "players" => n \notin Sent(c).names
    BY <1>1, <2>1, GrantedShrinks DEF NewsInv, GrantedServed
  <2>3. PICK j \in Notifiers : Comes(j, c, Naming(n))
    BY <2>1, <2>2 DEF NewsInv, NameComes
  <2>4. Comes(j, c, Naming(n))'
    <3>1. CASE j # i
      BY <1>4, <2>3, <3>1
    <3>2. CASE j = i
      <4>1. Registered \in Naming(n)
        BY <2>2 DEF Naming, Registered
      <4>2. ~(Gets(c) /\ \E N \in Naming(n) : Sent(c) = [kind |-> "players", names |-> N])
        BY <2>2 DEF Naming
      <4> QED
        BY <2>1, <2>3, <3>2, <4>1, <4>2, NotifyGoesOn DEF NewsInv
    <3> QED
      BY <3>1, <3>2
  <2> QED
    BY <2>4
<1> QED
  BY <1>3, <1>6, <1>7 DEF Coming

LEMMA HandlerKeepsNews ==
  ASSUME TypeOK, TypeOK', Consistent, NewsInv, Owe, Answer, NEW c \in Conns, Handler(c)
  PROVE  Coming'
<1> USE DEF handlerVars, tableVars, wireVars, taskVars
<1>1. CASE Register(c) \/ Ask(c) \/ ReadEOF(c) \/ StartSelf(c) \/ ClearEnemy(c)
  BY <1>1, SpawnBringsNews DEF NewsInv, Register, Ask, ReadEOF, StartSelf, ClearEnemy
<1>2. ASSUME pc[c] # "register", \A d \in Conns \ {c} : pc'[d] = pc[d]
      PROVE  \A d \in Conns : ~(pc[d] = "register" /\ pc'[d] = "read")
  BY <1>2
<1>3. CASE ReadError(c) \/ Close(c) \/ ReadAccept(c)
  <2>1. /\ players' = players /\ notifier' = notifier /\ connections' = connections
        /\ \E l \in {"eof", "down"} : link' = [link EXCEPT ![c] = l] \/ link' = link
        /\ pc[c] # "register" /\ \A d \in Conns \ {c} : pc'[d] = pc[d]
    BY <1>3 DEF ReadError, Close, ReadAccept, Goto, Reads, TypeOK
  <2>2. \A d \in connections : link[d] # "up" => link'[d] # "up"
    BY <2>1 DEF TypeOK
  <2>3. connections' \subseteq Conns
    BY DEF TypeOK
  <2> QED
    BY <1>2, <2>1, <2>2, <2>3, QuietKeepsNews
<1>4. CASE Admit(c)
  <2>1. /\ players' = players /\ notifier' = notifier /\ link' = link
        /\ connections' = connections \cup {c} /\ pc[c] = "admit"
        /\ \A d \in Conns \ {c} : pc'[d] = pc[d]
    BY <1>4 DEF Admit, Goto, TypeOK
  <2>2. \A d \in connections' \ connections : pc[d] \in Early
    BY <2>1 DEF Early
  <2>3. connections \subseteq connections' /\ connections' \subseteq Conns
    BY <2>1 DEF TypeOK
  <2>4. \A d \in connections : link[d] # "up" => link'[d] # "up"
    BY <2>1
  <2> QED
    BY <1>2, <2>1, <2>2, <2>3, <2>4, QuietKeepsNews
<1>5. CASE \/ Accept(c) \/ ReadLogin(c) \/ ReadRequest(c)
           \/ StartEnemy(c) \/ Deny(c) \/ ReadUnknown(c)
  <2>1. /\ players' = players /\ notifier' = notifier
        /\ connections' = connections /\ link' = link
        /\ pc[c] # "register" /\ \A d \in Conns \ {c} : pc'[d] = pc[d]
    BY <1>5 DEF Accept, ReadLogin, ReadRequest, StartEnemy, Deny, ReadUnknown, Goto,
                Reads, TypeOK
  <2>2. connections' \subseteq Conns
    BY DEF TypeOK
  <2> QED
    BY <1>2, <2>1, <2>2, QuietKeepsNews
<1> QED
  BY <1>1, <1>3, <1>4, <1>5 DEF Handler

LEMMA NetworkKeepsNews ==
  ASSUME TypeOK, TypeOK', Consistent, NewsInv, Owe, Answer, Network
  PROVE  Coming'
<1>1. /\ players' = players /\ notifier' = notifier /\ connections' = connections
      /\ connections' \subseteq Conns
  BY DEF Network, Dial, Submit, Hangup, Abort, tableVars, taskVars, TypeOK
<1>2. \A d \in connections : link[d] # "up" => link'[d] # "up"
  <2>1. PICK c \in Conns : \/ Dial(c)
                           \/ \E cmd \in Submittable : Submit(c, cmd)
                           \/ Hangup(c)
                           \/ Abort(c)
    BY DEF Network
  <2>2. CASE Dial(c)
    <3>1. c \notin connections
      BY <2>2 DEF Dial, Consistent, HandledSinceDialled, ConnectedIffServed, Serving
    <3> QED
      BY <2>2, <3>1 DEF Dial, TypeOK
  <2>3. CASE ~Dial(c)
    BY <2>1, <2>3 DEF Submit, Hangup, Abort, TypeOK
  <2> QED
    BY <2>2, <2>3
<1>3. \A d \in Conns : ~(pc[d] = "register" /\ pc'[d] = "read")
  BY DEF Network, Dial, Submit, Hangup, Abort, Goto, TypeOK, handlerVars
<1> QED
  BY <1>1, <1>2, <1>3, QuietKeepsNews

LEMMA OwedStaysServed ==
  ASSUME TypeOK, Consistent, OwedServed, [Next]_vars, Owe
  PROVE  OwedServed'
<1>1. CASE Registered' # Registered
  <2>1. owed' = connections'
    BY <1>1 DEF Owe
  <2>2. ConnectedIffServed' /\ connections' \subseteq Conns
    BY StepTyped, StepConsistent DEF TypeOK, Consistent
  <2> QED
    BY <2>1, <2>2 DEF OwedServed, ConnectedIffServed, Serving, Early
<1>2. CASE Registered' = Registered
  <2>1. owed' \subseteq owed
    BY <1>2 DEF Owe
  <2> QED
    BY <2>1, ServedOnce DEF OwedServed
<1> QED
  BY <1>1, <1>2

(* A name is granted by Register only. *)
LEMMA GrantedStaysServed ==
  ASSUME TypeOK, Consistent, GrantedServed, [Next]_vars, Answer
  PROVE  GrantedServed'
<1> SUFFICES ASSUME NEW c \in Conns
             PROVE  /\ granted'[c] \subseteq Names
                    /\ pc'[c] \in Early => granted'[c] = {}
  BY DEF GrantedServed, Answer
<1>1. CASE pc[c] = "register" /\ pc'[c] = "read"
  <2>1. granted'[c] = granted[c] \cup {name'[c]}
    BY <1>1 DEF Answer
  <2>2. name'[c] = auth[c]
    <3>1. ASSUME NEW d \in Conns, Handler(d) PROVE name'[c] = auth[c]
      <4>1. c = d /\ Register(c)
        BY <1>1, <3>1 DEF Handler, Accept, Admit, ReadError, ReadEOF, Close, ReadLogin,
           ReadRequest, Ask, ReadAccept, StartEnemy, StartSelf, Deny, ClearEnemy,
           ReadUnknown, Register, Reads, Goto, TypeOK, handlerVars
      <4> QED
        BY <4>1 DEF Register, TypeOK
    <3>2. CASE Network \/ UNCHANGED vars
      BY <1>1, <3>2 DEF Network, Dial, Submit, Hangup, Abort, Goto, TypeOK, handlerVars, vars
    <3> QED
      BY <1>1, <3>1, <3>2, WritersChangeNothing DEF Next, Goroutines
  <2>3. auth[c] \in Names
    BY <1>1 DEF Consistent, RegisteringHasSocket
  <2> QED
    BY <1>1, <2>1, <2>2, <2>3 DEF GrantedServed, Early
<1>2. CASE ~(pc[c] = "register" /\ pc'[c] = "read")
  <2>1. granted'[c] \subseteq granted[c]
    BY <1>2 DEF Answer, GrantedServed
  <2> QED
    BY <2>1, ServedOnce DEF GrantedServed
<1> QED
  BY <1>1, <1>2

LEMMA StepNews ==
  ASSUME TypeOK, Consistent, NewsInv, [NewsNext]_newsVars
  PROVE  NewsInv'
<1>1. CASE UNCHANGED newsVars
  BY <1>1 DEF newsVars, historyVars, vars, handlerVars, tableVars, wireVars, taskVars,
              NewsInv, NewsComes, NameComes, OwedServed, GrantedServed, SpawnedAfresh,
              Comes, SomebodyGone, Registered
<1>2. CASE NewsNext
  <2>1. Next /\ Owe /\ Answer /\ TypeOK'
    BY <1>2, StepTyped DEF NewsNext
  <2>2. OwedServed' /\ GrantedServed'
    BY <2>1, OwedStaysServed, GrantedStaysServed DEF NewsInv
  <2>3. Coming'
    <3>1. ASSUME NEW c \in Conns, Handler(c) PROVE Coming'
      BY <2>1, <3>1, HandlerKeepsNews
    <3>2. ASSUME NEW i \in Notifiers, NotifyClients(i) PROVE Coming'
      BY <2>1, <3>2, NotifyKeepsNews
    <3>3. ASSUME NEW c \in Conns, NEW how \in {"socket", "player"}, SendError(c, how)
          PROVE  Coming'
      <4>1. /\ players' = players /\ connections' = connections /\ link' = link
            /\ pc' = pc /\ connections' \subseteq Conns
        BY <3>3, WritersChangeNothing DEF TypeOK
      <4>2. notifier' = notifier
        BY <3>3 DEF SendError
      <4> QED
        BY <2>1, <4>1, <4>2, QuietKeepsNews
    <3>4. CASE Network
      BY <2>1, <3>4, NetworkKeepsNews
    <3> QED
      BY <2>1, <3>1, <3>2, <3>3, <3>4 DEF Next, Goroutines
  <2> QED
    BY <2>2, <2>3 DEF NewsInv, Coming
<1> QED
  BY <1>1, <1>2

(* Once all is quiet and no handler has panicked, whoever is connected is  *)
(* served and can be reached, and nothing comes by anybody any more.       *)
LEMMA QuietEnd ==
  ASSUME TypeOK, Consistent, Quiet, Panicked = {}
  PROVE  /\ ~SomebodyGone
         /\ \A i \in Notifiers : \A c, S : ~Comes(i, c, S)
         /\ Served \subseteq connections
<1>1. connections = Served
  BY DEF Consistent, ConnectedIffServed, Served, Panicked, TypeOK
<1> QED
  BY <1>1 DEF Quiet, SomebodyGone, Comes, NoTask

LEMMA AlwaysNews ==
  NewsSpec => [](TypeOK /\ Consistent /\ NewsInv)
<1>1. NewsInit => TypeOK /\ Consistent /\ NewsInv
  BY InitTyped, InitConsistent, InitNews DEF NewsInit
<1>2. TypeOK /\ Consistent /\ NewsInv /\ [NewsNext]_newsVars
        => TypeOK' /\ Consistent' /\ NewsInv'
  <2>1. [NewsNext]_newsVars => [Next]_vars
    BY DEF NewsNext, newsVars
  <2> QED
    BY <2>1, StepTyped, StepConsistent, StepNews
<1> QED
  BY <1>1, <1>2, PTL DEF NewsSpec

(* As long as no handler has panicked nobody misses a change of the list   *)
(* of players, for any number of clients and of notifications at once.     *)
THEOREM NobodyMissesNews == NewsSpec => []NewsDelivered
<1>1. TypeOK /\ Consistent /\ NewsInv => NewsDelivered
  BY QuietEnd DEF NewsDelivered, NewsInv, NewsComes
<1> QED
  BY <1>1, AlwaysNews, PTL

-----------------------------------------------------------------------------
(* The errors a client waits for are those under way. *)

RefusedInv ==
  \A c \in Conns :
    /\ link[c] = "up" => refused[c] = errors[c].socket
    /\ link[c] = "none" => refused[c] = 0 /\ errors[c].socket = 0

(* A refusal starts an error, and an error that is written reaches the     *)
(* client.                                                                 *)
Counts(c) ==
  \/ Refuses(c) /\ errors'[c].socket = errors[c].socket + 1
  \/ ~Refuses(c) /\ Errs(c) /\ errors'[c].socket = errors[c].socket - 1
  \/ ~Refuses(c) /\ ~Errs(c) /\ errors'[c].socket = errors[c].socket

LEMMA LoginCounts ==
  ASSUME TypeOK, NEW c \in Conns, ReadLogin(c), link'[c] = "up"
  PROVE  Counts(c)
<1>1. /\ inbox[c] \in Seq(Command) /\ inbox[c] # << >> /\ inbox'[c] = Tail(inbox[c])
      /\ Head(inbox[c]).op = "login" /\ pc[c] = "read"
      /\ pc \in [Conns -> Location] /\ outbox' = outbox
      /\ errors \in [Conns -> [socket : Nat, player : Nat]]
  BY DEF ReadLogin, Reads, TypeOK
<1>2. Len(inbox'[c]) < Len(inbox[c]) /\ inbox'[c] # inbox[c]
  <2>1. Len(Tail(inbox[c])) = Len(inbox[c]) - 1 /\ Len(inbox[c]) \in Nat
    BY <1>1
  <2>2. Len(inbox'[c]) = Len(inbox[c]) - 1
    BY <1>1, <2>1
  <2>3. inbox'[c] = inbox[c] => Len(inbox'[c]) = Len(inbox[c])
    OBVIOUS
  <2> QED
    BY <2>1, <2>2, <2>3
<1>3. CASE SpawnError(c, "socket") /\ pc' = pc
  <2>1. Refuses(c)
    BY <1>1, <1>2, <1>3 DEF Refuses
  <2>2. errors'[c].socket = errors[c].socket + 1
    BY <1>1, <1>3 DEF SpawnError
  <2> QED
    BY <2>1, <2>2 DEF Counts
<1>4. CASE pc' = [pc EXCEPT ![c] = "register"] /\ errors' = errors
  <2>1. ~Refuses(c)
    BY <1>1, <1>4 DEF Refuses
  <2>2. ~Errs(c)
    BY <1>1 DEF Errs, Gets
  <2> QED
    BY <1>4, <2>1, <2>2 DEF Counts
<1> QED
  BY <1>3, <1>4 DEF ReadLogin, Goto

LEMMA ErrorCounts ==
  ASSUME TypeOK, NEW c \in Conns, NEW d \in Conns, NEW how \in {"socket", "player"},
         SendError(d, how), link[c] = "up"
  PROVE  Counts(c)
<1>1. errors \in [Conns -> [socket : Nat, player : Nat]]
  BY DEF TypeOK
<1>2. ~Refuses(c)
  BY DEF SendError, Refuses
<1>3. CASE d = c /\ how = "socket"
  <2> DEFINE m == [kind |-> "error"]
  <2>1. errors[c].socket > 0 /\ errors'[c].socket = errors[c].socket - 1
    BY <1>1, <1>3 DEF SendError
  <2>2. outbox[c] \in Seq(Message) /\ m \in Message
    BY DEF TypeOK, Message
  <2>3. outbox'[c] = Append(outbox[c], m)
    BY <1>3 DEF SendError, Write, TypeOK
  <2> HIDE DEF m
  <2>4. Len(outbox'[c]) = Len(outbox[c]) + 1 /\ outbox'[c][Len(outbox'[c])] = m
    BY <2>2, <2>3
  <2>5. Len(outbox[c]) \in Nat
    BY <2>2
  <2>6. Gets(c) /\ Sent(c) = m
    BY <2>4, <2>5 DEF Gets, Sent
  <2>7. Errs(c)
    BY <1>1, <2>1, <2>6 DEF Errs, m
  <2> QED
    BY <1>2, <2>1, <2>7 DEF Counts
<1>4. CASE ~(d = c /\ how = "socket")
  <2>1. errors'[c].socket = errors[c].socket
    <3>1. CASE d # c
      BY <1>1, <3>1 DEF SendError
    <3>2. CASE how = "player"
      BY <1>1, <3>2 DEF SendError
    <3> QED
      BY <1>4, <3>1, <3>2
  <2>2. ~Errs(c)
    BY <1>1, <2>1 DEF Errs
  <2> QED
    BY <1>2, <2>1, <2>2 DEF Counts
<1> QED
  BY <1>3, <1>4

(* Nothing else refuses a login of c, or starts or ends an error of it. *)
LEMMA OthersCount ==
  ASSUME TypeOK, NEW c \in Conns, errors'[c].socket = errors[c].socket,
         \/ inbox'[c] = inbox[c] \/ pc[c] # "read" \/ pc'[c] # "read"
         \/ link'[c] = "reset" \/ Head(inbox[c]).op # "login"
         \/ Len(inbox'[c]) > Len(inbox[c])
  PROVE  Counts(c)
<1>1. errors[c].socket \in Nat /\ Len(inbox[c]) \in Nat
  BY DEF TypeOK
<1>2. ~Refuses(c)
  BY <1>1 DEF Refuses
<1>3. ~Errs(c)
  BY <1>1 DEF Errs
<1> QED
  BY <1>2, <1>3 DEF Counts

(* A connection that was dialled is not undialled, and one that is down    *)
(* stays so.                                                               *)
LEMMA LinksFall ==
  ASSUME TypeOK, [Next]_vars, NEW c \in Conns, link[c] # "none"
  PROVE  link'[c] # "none" /\ (link'[c] = "up" => link[c] = "up")
<1> USE DEF handlerVars, tableVars, wireVars, taskVars
<1>1. ASSUME NEW d \in Conns, Handler(d)
      PROVE  \/ link' = link
             \/ link' = [link EXCEPT ![d] = "eof"]
             \/ link' = [link EXCEPT ![d] = "down"]
  BY <1>1 DEF Handler, Accept, Admit, ReadError, ReadEOF, Close, ReadLogin, Register,
              ReadRequest, Ask, ReadAccept, StartEnemy, StartSelf, Deny, ClearEnemy,
              ReadUnknown
<1>2. CASE Network
  BY <1>2 DEF Network, Dial, Submit, Hangup, Abort, TypeOK
<1>3. CASE UNCHANGED vars
  BY <1>3 DEF vars
<1> QED
  BY <1>1, <1>2, <1>3, WritersChangeNothing DEF Next, Goroutines, TypeOK

LEMMA StepCounts ==
  ASSUME TypeOK, [Next]_vars, NEW c \in Conns, link'[c] = "up", link[c] # "none"
  PROVE  Counts(c) /\ link[c] = "up"
<1> USE DEF handlerVars, tableVars, wireVars, taskVars
<1>1. link[c] = "up"
  BY LinksFall
<1>7. inbox'[c] = inbox[c] /\ errors'[c].socket = errors[c].socket => Counts(c)
  BY OthersCount
<1>2. ASSUME NEW d \in Conns, Handler(d) PROVE Counts(c)
  <2>1. CASE ReadLogin(d) /\ d = c
    BY <2>1, LoginCounts
  <2>2. CASE ReadLogin(d) /\ d # c
    <3>1. inbox'[c] = inbox[c] /\ errors'[c] = errors[c]
      BY <2>2 DEF ReadLogin, Reads, SpawnError, TypeOK
    <3> QED
      BY <3>1, OthersCount
  <2>3. CASE ReadRequest(d)
    <3>1. errors'[c].socket = errors[c].socket
      BY <2>3 DEF ReadRequest, SpawnError, TypeOK
    <3>2. d # c => inbox'[c] = inbox[c]
      BY <2>3 DEF ReadRequest, Reads, TypeOK
    <3>3. d = c => Head(inbox[c]).op # "login"
      BY <2>3 DEF ReadRequest, Reads
    <3> QED
      BY <3>1, <3>2, <3>3, OthersCount
  <2>4. CASE ReadAccept(d) \/ ReadUnknown(d)
    <3>1. errors' = errors
      BY <2>4 DEF ReadAccept, ReadUnknown
    <3>2. d # c => inbox'[c] = inbox[c]
      BY <2>4 DEF ReadAccept, ReadUnknown, Reads, TypeOK
    <3>3. d = c => Head(inbox[c]).op # "login"
      BY <2>4 DEF ReadAccept, ReadUnknown, Reads
    <3> QED
      BY <3>1, <3>2, <3>3, OthersCount
  <2>5. CASE \/ Accept(d) \/ Admit(d) \/ ReadError(d) \/ ReadEOF(d) \/ Close(d)
             \/ Register(d) \/ Ask(d) \/ StartEnemy(d) \/ StartSelf(d) \/ Deny(d)
             \/ ClearEnemy(d)
    <3>1. errors' = errors /\ inbox' = inbox
      BY <2>5 DEF Accept, Admit, ReadError, ReadEOF, Close, Register, Ask, StartEnemy,
                  StartSelf, Deny, ClearEnemy
    <3> QED
      BY <3>1, OthersCount
  <2> QED
    BY <1>2, <2>1, <2>2, <2>3, <2>4, <2>5 DEF Handler
<1>3. ASSUME NEW i \in Notifiers, NotifyClients(i) PROVE Counts(c)
  <2>1. errors' = errors
    BY <1>3 DEF NotifyClients, NotifyMarshal, NotifyPick, NotifyWrite, NotifyReturn
  <2>2. inbox' = inbox
    BY <1>3, WritersChangeNothing
  <2> QED
    BY <2>1, <2>2, OthersCount
<1>4. ASSUME NEW d \in Conns, NEW how \in {"socket", "player"}, SendError(d, how)
      PROVE  Counts(c)
  BY <1>1, <1>4, ErrorCounts
<1>5. CASE Network
  <2>1. errors' = errors
    BY <1>5 DEF Network, Dial, Submit, Hangup, Abort
  <2>2. PICK d \in Conns : \/ Dial(d)
                           \/ \E cmd \in Submittable : Submit(d, cmd)
                           \/ Hangup(d)
                           \/ Abort(d)
    BY <1>5 DEF Network
  <2>3. CASE Dial(d) \/ Hangup(d)
    <3>1. inbox'[c] = inbox[c] /\ errors'[c].socket = errors[c].socket
      BY <2>1, <2>3 DEF Dial, Hangup
    <3> QED
      BY <1>1, <1>7, <3>1
  <2>4. ASSUME NEW cmd \in Submittable, Submit(d, cmd) PROVE Counts(c)
    <3>1. inbox'[c] = inbox[c] \/ inbox'[c] = Append(inbox[c], cmd)
      BY <2>4 DEF Submit, TypeOK
    <3>2. inbox[c] \in Seq(Command) /\ cmd \in Command
      BY SubmittableAssumption DEF TypeOK
    <3>3. Len(Append(inbox[c], cmd)) > Len(inbox[c])
      BY <3>2
    <3> QED
      BY <2>1, <3>1, <3>3, OthersCount
  <2>5. CASE Abort(d)
    <3>1. d # c
      BY <2>5 DEF Abort, TypeOK
    <3>2. inbox'[c] = inbox[c] /\ errors'[c].socket = errors[c].socket
      BY <2>1, <2>5, <3>1 DEF Abort, TypeOK
    <3> QED
      BY <1>1, <1>7, <3>2
  <2> QED
    BY <1>1, <2>2, <2>3, <2>4, <2>5
<1>6. CASE UNCHANGED vars
  BY <1>6, OthersCount DEF vars
<1> QED
  BY <1>1, <1>2, <1>3, <1>4, <1>5, <1>6 DEF Next, Goroutines

(* Before a client has connected there is nothing to refuse. *)
LEMMA NothingRefusedYet ==
  ASSUME TypeOK, Consistent, [Next]_vars, NEW c \in Conns, link[c] = "none",
         errors[c].socket = 0
  PROVE  errors'[c].socket = 0 /\ ~Refuses(c) /\ ~Errs(c)
<1> USE DEF handlerVars, tableVars, wireVars, taskVars
<1>1. pc[c] = "none" /\ errors \in [Conns -> [socket : Nat, player : Nat]]
  BY DEF Consistent, HandledSinceDialled, TypeOK
<1>2. errors'[c].socket = 0
  <2>1. ASSUME NEW d \in Conns, Handler(d) PROVE errors'[c].socket = errors[c].socket
    BY <1>1, <2>1 DEF Handler, Accept, Admit, ReadError, ReadEOF, Close, ReadLogin,
       Register, ReadRequest, Ask, ReadAccept, StartEnemy, StartSelf, Deny, ClearEnemy,
       ReadUnknown, Reads, SpawnError
  <2>2. CASE Network \/ \E i \in Notifiers : NotifyClients(i)
    BY <2>2 DEF Network, Dial, Submit, Hangup, Abort, NotifyClients, NotifyMarshal,
                NotifyPick, NotifyWrite, NotifyReturn
  <2>3. ASSUME NEW d \in Conns, SendError(d, "socket") PROVE errors'[c].socket = 0
    BY <1>1, <2>3 DEF SendError
  <2>4. ASSUME NEW d \in Conns, SendError(d, "player") PROVE errors'[c].socket = 0
    BY <1>1, <2>4 DEF SendError
  <2>5. CASE UNCHANGED vars
    BY <2>5 DEF vars
  <2> QED
    BY <2>1, <2>2, <2>3, <2>4, <2>5 DEF Next, Goroutines
<1> QED
  BY <1>1, <1>2 DEF Refuses, Errs

LEMMA StepRefused ==
  ASSUME TypeOK, Consistent, RefusedInv, [NewsNext]_newsVars
  PROVE  RefusedInv'
<1>1. CASE UNCHANGED newsVars
  BY <1>1 DEF newsVars, historyVars, vars, wireVars, taskVars, RefusedInv
<1>2. CASE NewsNext
  <2> SUFFICES ASSUME NEW c \in Conns
               PROVE  /\ link'[c] = "up" => refused'[c] = errors'[c].socket
                      /\ link'[c] = "none" => refused'[c] = 0 /\ errors'[c].socket = 0
    BY DEF RefusedInv
  <2>1. /\ [Next]_vars /\ TypeOK' /\ Consistent'
        /\ refused'[c] = IF Refuses(c) THEN refused[c] + 1
                         ELSE IF Errs(c) THEN refused[c] - 1 ELSE refused[c]
    BY <1>2, StepTyped, StepConsistent DEF NewsNext, Answer
  <2>2. errors[c].socket \in Nat
    BY DEF TypeOK
  <2>3. CASE link[c] = "none"
    BY <2>1, <2>3, NothingRefusedYet DEF RefusedInv
  <2>4. CASE link[c] # "none"
    <3>1. link'[c] # "none"
      BY <2>1, <2>4, LinksFall
    <3>2. CASE link'[c] = "up"
      BY <2>1, <2>2, <2>4, <3>2, StepCounts DEF RefusedInv, Counts
    <3> QED
      BY <3>1, <3>2
  <2> QED
    BY <2>3, <2>4
<1> QED
  BY <1>1, <1>2

(* No answer to a login is lost, for any number of clients and of          *)
(* notifications at once: a refused login gets its error, a granted one a  *)
(* list that names the player, although the first list that is due may be  *)
(* overtaken, cut short by a client that has gone, or out of date.         *)
THEOREM LoginsAreAnswered == NewsSpec => []NoAnswerLost
<1>1. NewsInit => RefusedInv
  BY DEF NewsInit, Init, RefusedInv
<1>2. TypeOK /\ Consistent /\ RefusedInv /\ [NewsNext]_newsVars => RefusedInv'
  BY StepRefused
<1>3. TypeOK /\ Consistent /\ NewsInv /\ RefusedInv => NoAnswerLost
  <2> SUFFICES ASSUME TypeOK, Consistent, NewsInv, RefusedInv, NEW c \in Served
               PROVE  /\ errors[c].socket = 0 /\ link[c] = "up" => refused[c] = 0
                      /\ Quiet /\ Panicked = {} =>
                           \A n \in granted[c] : players[n] = NoConn
    BY DEF NoAnswerLost
  <2>1. errors[c].socket = 0 /\ link[c] = "up" => refused[c] = 0
    BY DEF RefusedInv, Served
  <2>2. Quiet /\ Panicked = {} => \A n \in granted[c] : players[n] = NoConn
    BY QuietEnd DEF NewsInv, NameComes
  <2> QED
    BY <2>1, <2>2
<1> QED
  BY <1>1, <1>2, <1>3, AlwaysNews, PTL DEF NewsSpec
=============================================================================
