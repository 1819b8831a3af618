----------------------------- MODULE MCLobbyServer -----------------------------
(* Constants and initial states for the runs of LobbyServer and its histories. *)
EXTENDS LobbyServerNews, TLC

LogIn(n) == [op |-> "login", login |-> n, password |-> TRUE]

(* Every operation; the second login is refused for its empty password.  On *)
(* an answer to no request the handler panics.                             *)
AllOps ==
  {LogIn(n) : n \in Names}
    \cup {[op |-> "login", login |-> NoName, password |-> FALSE]}
    \cup [op : {"pvp-request"}, name : Login]
    \cup [op : {"pvp-accept"}, accepted : BOOLEAN]
    \cup [op : {"unknown"}]

(* The ways to change the table of players, and to panic. *)
LoginsAndPanics ==
  {LogIn(n) : n \in Names} \cup [op : {"pvp-accept"}, accepted : {TRUE}]

(* Everybody connected, one client logged in, the notification delivered:   *)
(* the commands of a behaviour that starts here all come after the login.  *)
LoggedIn ==
  \E c \in Conns, n \in Names :
    /\ connections = Conns
    /\ players = [m \in Names |-> IF m = n THEN c ELSE NoConn]
    /\ name = [d \in Conns |-> IF d = c THEN n ELSE NoName]
    /\ auth = name
    /\ ws = [d \in Conns |-> d = c]
    /\ enemy = [d \in Conns |-> NoConn]
    /\ pc = [d \in Conns |-> "read"]
    /\ target = [d \in Conns |-> NoConn]
    /\ link = [d \in Conns |-> "up"]
    /\ inbox = [d \in Conns |-> << >>]
    /\ outbox = [d \in Conns |-> <<[kind |-> "players", names |-> {n}]>>]
    /\ notifier = [i \in Notifiers |-> NoTask]
    /\ errors = [d \in Conns |-> [socket |-> 0, player |-> 0]]
    /\ submitted = 0
    /\ owed = {}
    /\ refused = [d \in Conns |-> 0]
    /\ granted = [d \in Conns |-> {}]

OperationsSpec == (NewsInit \/ LoggedIn) /\ [][NewsNext]_newsVars /\ Fairness

Symmetry == Permutations(Conns) \cup Permutations(Names)
=============================================================================
