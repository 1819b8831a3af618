----------------------------- MODULE MCCommandWire -----------------------------
(* Constants for the runs of CommandWire. *)
EXTENDS CommandWire, TLC

(* "pvp-accept" may be torn. *)
Parts == ("login" :> 1) @@ ("pvp-request" :> 1) @@ ("pvp-accept" :> 2) @@ ("bye" :> 1)

(* An odd name holds the delimiter and what looks like an acceptance; its  *)
(* login is longer than the buffer of four parts.                          *)
OddName ==
  Word("open", 1) \o Word("pvp-accept", 2) \o Delimiter \o Word("true", 1) \o Word("close", 1)

Args ==
  [arg \in {"Ann", "true", "false"} |-> Word(arg, 1)] @@ ("Odd" :> OddName)

AllWords ==
  {"", "|", "hello", "open", "close", "Ann", "true", "false"} \cup DOMAIN Parts

PageCommands ==
  {[op |-> "login", arg |-> "Ann"], [op |-> "login", arg |-> "Odd"],
   [op |-> "pvp-request", arg |-> "Ann"],
   [op |-> "pvp-accept", arg |-> "true"], [op |-> "pvp-accept", arg |-> "false"]}

(* What pages send, an unknown operation, and a message with no delimiter. *)
AllPayloads ==
  {Encode(c) : c \in PageCommands \cup {[op |-> "bye", arg |-> "Ann"]}} \cup {Word("hello", 1)}
=============================================================================
