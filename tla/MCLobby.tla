-------------------------------- MODULE MCLobby --------------------------------
(* Constants, symmetry and initial states for the runs of Lobby. *)
EXTENDS Lobby, TLC

Symmetry == Permutations(Conns) \cup Permutations(Names)

(* Everybody in the lobby, all logged in before the first notification was  *)
(* marshalled, nothing under way.  asker and asked: nobody, or one who has  *)
(* clicked "play" and one who has not answered the dialog yet.  The bound   *)
(* on commands counts from here.                                           *)
InLobby(login, asker, asked) ==
  LET logins == {login[c] : c \in Conns}
      news == [kind |-> "players", names |-> logins]
      lists == [k \in 1 .. Cardinality(Conns) |-> news]
      request == [kind |-> "pvp-request", from |-> IF asker = NoConn THEN NoName ELSE login[asker]]
  IN  /\ connections = Conns
      /\ players = [n \in Names |->
           IF n \in logins THEN CHOOSE c \in Conns : login[c] = n ELSE NoConn]
      /\ name = login
      /\ auth = login
      /\ ws = [c \in Conns |-> TRUE]
      /\ enemy = [c \in Conns |-> IF c = asked THEN asker ELSE NoConn]
      /\ pc = [c \in Conns |-> "read"]
      /\ target = [c \in Conns |-> NoConn]
      /\ link = [c \in Conns |-> "up"]
      /\ inbox = [c \in Conns |-> << >>]
      /\ outbox = [c \in Conns |->
           lists \o (IF c = asked THEN <<request>> ELSE << >>)
                 \o (IF asker = NoConn THEN << >> ELSE <<news>>)]
      /\ notifier = [i \in Notifiers |-> NoTask]
      /\ errors = [c \in Conns |-> [socket |-> 0, player |-> 0]]
      /\ submitted = 0
      /\ stage = [c \in Conns |-> "lobby"]
      /\ seen = [c \in Conns |-> IF asker = NoConn THEN Len(lists) ELSE Len(lists) + 1]
      /\ typed = login
      /\ list = [c \in Conns |-> logins]
      /\ dialog = [c \in Conns |-> IF c = asked THEN {request.from} ELSE {}]
      /\ challenged = [c \in Conns |-> IF c = asker THEN {login[asked]} ELSE {}]
      /\ answers = [c \in Conns |-> << >>]

LoginOfEach == {f \in [Conns -> Names] : \A c, d \in Conns : f[c] = f[d] => c = d}

ReadyInit == \E login \in LoginOfEach : InLobby(login, NoConn, NoConn)

AskedInit ==
  \E login \in LoginOfEach, asker, asked \in Conns :
    asker # asked /\ InLobby(login, asker, asked)

(* What a page has received and handled cannot matter any more, except the *)
(* last message of all, with which the lobby starts.                       *)
Present ==
  LET kept(c) == SubSeq(outbox[c], IF stage[c] = "lobby.js" THEN seen[c] ELSE seen[c] + 1,
                        Len(outbox[c]))
  IN  <<handlerVars, tableVars, link, inbox, submitted, taskVars, stage, typed, list,
        dialog, challenged, answers, [c \in Conns |-> kept(c)]>>

(* Bound: nobody leaves of his own accord, nobody is cut off. *)
StayNext == Server \/ \E c \in Conns : Page(c)

ReadySpec == ReadyInit /\ [][StayNext]_lobbyVars

FairAskedSpec ==
  (ReadyInit \/ AskedInit) /\ [][StayNext]_lobbyVars /\ LobbyFairness
=============================================================================
