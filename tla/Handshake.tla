------------------------------- MODULE Handshake -------------------------------
(***************************************************************************)
(* The opening handshake of the WebSocket library: what DialConfig and     *)
(* hybiClientHandshake send and accept, and how newServerConn answers.     *)
(* Each end performs a list of checks in order; the first that fails       *)
(* decides the error.  The digest of a key (SHA-1) is the pair of a tag     *)
(* and the key: not the key itself, and no two keys have the same.         *)
(***************************************************************************)
EXTENDS Integers, Sequences

CONSTANTS
  Protocols,  \* names of subprotocols
  Keys,       \* nonces
  NoProtocol  \* no Sec-WebSocket-Protocol header

ASSUME NoProtocolAssumption == NoProtocol \notin Protocols

(* A list of checks: the verdict of the first that fails, or else of none. *)
FirstFailure(checks, passed) ==
  LET failed == {i \in 1 .. Len(checks) : ~checks[i].holds}
  IN  IF failed = {} THEN passed
      ELSE checks[CHOOSE i \in failed : \A j \in failed : i <= j].verdict

Check(holds, verdict) == [holds |-> holds, verdict |-> verdict]

(* getNonceAccept: the digest of the key and the protocol's own GUID. *)
NonceAccept(key) == <<"258EAFA5", key>>

-----------------------------------------------------------------------------
(* The client. *)

Config == [location : BOOLEAN, origin : BOOLEAN, scheme : {"ws", "wss", "http"},
           version : {8, 13}, protocols : UNION {[1 .. n -> Protocols] : n \in 0 .. 2},
           key : Keys]

(* DialConfig and the beginning of hybiClientHandshake. *)
Dialled(config) ==
  FirstFailure(
    << Check(config.location, "ErrBadWebSocketLocation"),
       Check(config.origin, "ErrBadWebSocketOrigin"),
       Check(config.scheme \in {"ws", "wss"}, "ErrBadScheme"),
       Check(config.version = 13, "ErrBadProtocolVersion") >>, "sent")

RequestOf(config) ==
  [method |-> "GET", upgrade |-> TRUE, connection |-> TRUE, key |-> {config.key},
   version |-> config.version, uri |-> TRUE, protocols |-> config.protocols,
   origin |-> "url"]

(* hybiClientHandshake on a response. *)
ClientVerdict(config, response) ==
  FirstFailure(
    << Check(response.code = 101, "ErrBadStatus"),
       Check(response.upgrade, "ErrBadUpgrade"),
       Check(response.accept = {NonceAccept(config.key)}, "ErrChallengeResponse"),
       Check(~response.extensions, "ErrUnsupportedExtensions"),
       Check(response.protocol = NoProtocol
               \/ \E i \in 1 .. Len(config.protocols) : config.protocols[i] = response.protocol,
             "ErrBadWebSocketProtocol") >>, "open")

-----------------------------------------------------------------------------
(* The server. *)

Request == [method : {"GET", "POST"}, upgrade : BOOLEAN, connection : BOOLEAN,
            key : {{}} \cup {{k} : k \in Keys}, version : {8, 13}, uri : BOOLEAN,
            protocols : UNION {[1 .. n -> Protocols] : n \in 0 .. 2},
            origin : {"url", "null", "bad"}]

(* ReadHandshake. *)
Requested(req) ==
  FirstFailure(
    << Check(req.method = "GET", 405),
       Check(req.upgrade /\ req.connection, 400),
       Check(req.key # {}, 400),
       Check(req.version = 13, 400),
       Check(req.uri, 400) >>, 101)

(* checkOrigin, the handshake function of websocket.Handler. *)
OriginAccepted(req) == req.origin = "url"

(* newServerConn.  The server answers with the protocol it was offered; it *)
(* refuses more than one, of which a handshake function should have chosen *)
(* (chosen = NoProtocol: it did not).                                      *)
OfferIgnored(req, chosen) == req.protocols  \* mutant of Offer
Offer(req, chosen) == IF chosen = NoProtocol THEN req.protocols ELSE <<chosen>>

Answered(req, chosen) ==
  IF Requested(req) # 101 THEN Requested(req)
  ELSE FirstFailure(
    << Check(OriginAccepted(req), 403),
       Check(Len(Offer(req, chosen)) <= 1, 400) >>, 101)

Response(req, chosen) ==
  LET code == Answered(req, chosen)
  IN  [code |-> code,
       upgrade |-> code = 101,
       accept |-> IF code = 101 THEN {NonceAccept(key) : key \in req.key} ELSE {},
       extensions |-> FALSE,
       protocol |-> IF code = 101 /\ Offer(req, chosen) # << >>
                    THEN Offer(req, chosen)[1] ELSE NoProtocol]

ServerOpen(req, chosen) == Answered(req, chosen) = 101

-----------------------------------------------------------------------------
(* Nobody is left with half a connection: on any request that carries the  *)
(* client's key and offer, whatever else was made of it on the way, the    *)
(* client takes the connection for open if and only if the server does,    *)
(* provided that the server's handshake function chooses among the         *)
(* protocols it was offered.  On the request the client itself makes both  *)
(* do so unless it offers several protocols and none is chosen.            *)
Fair(config, chosen) ==
  chosen = NoProtocol \/ \E i \in 1 .. Len(config.protocols) : config.protocols[i] = chosen

Delivers(req, config) == req.key = {config.key} /\ req.protocols = config.protocols

SameVerdict(config, req, chosen) ==
  ServerOpen(req, chosen) <=> ClientVerdict(config, Response(req, chosen)) = "open"

HandshakeAgrees ==
  \A config \in Config, chosen \in Protocols \cup {NoProtocol} :
    Dialled(config) = "sent" /\ Fair(config, chosen) =>
      /\ \A req \in Request : Delivers(req, config) => SameVerdict(config, req, chosen)
      /\ SameVerdict(config, RequestOf(config), chosen)
      /\ ServerOpen(RequestOf(config), chosen)
           <=> chosen # NoProtocol \/ Len(config.protocols) <= 1
=============================================================================
