---------------------------- MODULE Handshake_proofs ----------------------------
(***************************************************************************)
(* Theorems about what is decided before the first frame: the opening      *)
(* handshake, for any names of protocols and any keys, and the lengths of  *)
(* frames, for every length the type of the code can hold.                 *)
(***************************************************************************)
EXTENDS MCWebSocket, SequenceTheorems, TLAPS

-----------------------------------------------------------------------------
(* A list of checks is passed if and only if every check holds. *)

(* A set of positions in a list has a first one. *)
LEMMA FirstPosition ==
  ASSUME NEW n \in Nat, NEW S \in SUBSET (1 .. n), S # {}, n <= 5
  PROVE  \E i \in S : \A j \in S : i <= j
<1>1. n \in {0, 1, 2, 3, 4, 5}
  OBVIOUS
<1>2. \A i \in S : i \in {1, 2, 3, 4, 5}
  BY <1>1
<1>3. PICK x \in S : TRUE
  OBVIOUS
<1>4. CASE 1 \in S
  BY <1>2, <1>4
<1>5. CASE 1 \notin S /\ 2 \in S
  BY <1>2, <1>5
<1>6. CASE 1 \notin S /\ 2 \notin S /\ 3 \in S
  BY <1>2, <1>6
<1>7. CASE 1 \notin S /\ 2 \notin S /\ 3 \notin S /\ 4 \in S
  BY <1>2, <1>7
<1>8. CASE 1 \notin S /\ 2 \notin S /\ 3 \notin S /\ 4 \notin S
  BY <1>2, <1>3, <1>8
<1> QED
  BY <1>4, <1>5, <1>6, <1>7, <1>8

LEMMA Passed ==
  ASSUME NEW checks, NEW passed, NEW n \in 0 .. 5, Len(checks) = n,
         \A i \in 1 .. n : checks[i].verdict # passed
  PROVE  FirstFailure(checks, passed) = passed <=> \A i \in 1 .. n : checks[i].holds
<1> DEFINE failed == {i \in 1 .. n : ~checks[i].holds}
<1>1. FirstFailure(checks, passed)
        = IF failed = {} THEN passed
          ELSE checks[CHOOSE i \in failed : \A j \in failed : i <= j].verdict
  BY DEF FirstFailure
<1>2. CASE failed = {}
  BY <1>1, <1>2
<1>3. CASE failed # {}
  <2>1. failed \in SUBSET (1 .. n) /\ n \in Nat /\ n <= 5
    OBVIOUS
  <2>2. \E i \in failed : \A j \in failed : i <= j
    <3> HIDE DEF failed
    <3> QED
      BY <1>3, <2>1, FirstPosition
  <2> DEFINE first == CHOOSE i \in failed : \A j \in failed : i <= j
  <2>3. first \in failed
    BY <2>2
  <2>4. FirstFailure(checks, passed) = checks[first].verdict
    BY <1>1, <1>3
  <2> HIDE DEF first
  <2>5. first \in 1 .. n /\ ~checks[first].holds
    BY <2>3
  <2> QED
    BY <2>4, <2>5
<1> QED
  BY <1>2, <1>3

LEMMA DialPasses ==
  ASSUME NEW config \in Config
  PROVE  Dialled(config) = "sent"
           <=> /\ config.location /\ config.origin
               /\ config.scheme \in {"ws", "wss"} /\ config.version = 13
<1> DEFINE checks == << Check(config.location, "ErrBadWebSocketLocation"),
                        Check(config.origin, "ErrBadWebSocketOrigin"),
                        Check(config.scheme \in {"ws", "wss"}, "ErrBadScheme"),
                        Check(config.version = 13, "ErrBadProtocolVersion") >>
<1>1. Len(checks) = 4 /\ \A i \in 1 .. 4 : checks[i].verdict # "sent"
  BY DEF Check
<1>2. (\A i \in 1 .. 4 : checks[i].holds)
        <=> /\ config.location /\ config.origin
            /\ config.scheme \in {"ws", "wss"} /\ config.version = 13
  <2>1. /\ checks[1].holds = config.location /\ checks[2].holds = config.origin
        /\ checks[3].holds = (config.scheme \in {"ws", "wss"})
        /\ checks[4].holds = (config.version = 13)
    BY DEF Check
  <2> HIDE DEF checks
  <2>2. \A i \in 1 .. 4 : i \in {1, 2, 3, 4}
    OBVIOUS
  <2>3. {1, 2, 3, 4} \subseteq 1 .. 4
    OBVIOUS
  <2> QED
    BY <2>1, <2>2, <2>3
<1>3. Dialled(config) = FirstFailure(checks, "sent")
  BY DEF Dialled
<1> HIDE DEF checks
<1> QED
  BY <1>1, <1>2, <1>3, Passed

LEMMA ClientOpens ==
  ASSUME NEW config \in Config, NEW response
  PROVE  ClientVerdict(config, response) = "open"
           <=> /\ response.code = 101
               /\ response.upgrade
               /\ response.accept = {NonceAccept(config.key)}
               /\ ~response.extensions
               /\ \/ response.protocol = NoProtocol
                  \/ \E i \in 1 .. Len(config.protocols) :
                       config.protocols[i] = response.protocol
<1> DEFINE offered == \/ response.protocol = NoProtocol
                      \/ \E i \in 1 .. Len(config.protocols) :
                           config.protocols[i] = response.protocol
           checks == << Check(response.code = 101, "ErrBadStatus"),
                        Check(response.upgrade, "ErrBadUpgrade"),
                        Check(response.accept = {NonceAccept(config.key)}, "ErrChallengeResponse"),
                        Check(~response.extensions, "ErrUnsupportedExtensions"),
                        Check(offered, "ErrBadWebSocketProtocol") >>
<1>3. ClientVerdict(config, response) = FirstFailure(checks, "open")
  BY DEF ClientVerdict
<1> HIDE DEF offered
<1>1. Len(checks) = 5 /\ \A i \in 1 .. 5 : checks[i].verdict # "open"
  BY DEF Check
<1>2. (\A i \in 1 .. 5 : checks[i].holds)
        <=> /\ response.code = 101 /\ response.upgrade /\ response.accept = {NonceAccept(config.key)}
            /\ ~response.extensions /\ offered
  <2>1. /\ checks[1].holds = (response.code = 101) /\ checks[2].holds = response.upgrade
        /\ checks[3].holds = (response.accept = {NonceAccept(config.key)})
        /\ checks[4].holds = ~response.extensions /\ checks[5].holds = offered
    BY DEF Check
  <2> HIDE DEF checks
  <2>2. \A i \in 1 .. 5 : i \in {1, 2, 3, 4, 5}
    OBVIOUS
  <2>3. {1, 2, 3, 4, 5} \subseteq 1 .. 5
    OBVIOUS
  <2> QED
    BY <2>1, <2>2, <2>3
<1> HIDE DEF checks
<1>4. FirstFailure(checks, "open") = "open" <=> \A i \in 1 .. 5 : checks[i].holds
  BY <1>1, Passed
<1> QED
  BY <1>2, <1>3, <1>4, Zenon DEF offered

LEMMA RequestPasses ==
  ASSUME NEW req
  PROVE  Requested(req) = 101
           <=> /\ req.method = "GET" /\ req.upgrade /\ req.connection /\ req.key # {}
               /\ req.version = 13 /\ req.uri
<1> DEFINE checks == << Check(req.method = "GET", 405),
                        Check(req.upgrade /\ req.connection, 400),
                        Check(req.key # {}, 400),
                        Check(req.version = 13, 400),
                        Check(req.uri, 400) >>
<1>3. Requested(req) = FirstFailure(checks, 101)
  BY DEF Requested
<1>1. Len(checks) = 5 /\ \A i \in 1 .. 5 : checks[i].verdict # 101
  BY DEF Check
<1>2. (\A i \in 1 .. 5 : checks[i].holds)
        <=> /\ req.method = "GET" /\ req.upgrade /\ req.connection /\ req.key # {}
            /\ req.version = 13 /\ req.uri
  <2>1. /\ checks[1].holds = (req.method = "GET")
        /\ checks[2].holds = (req.upgrade /\ req.connection)
        /\ checks[3].holds = (req.key # {})
        /\ checks[4].holds = (req.version = 13) /\ checks[5].holds = req.uri
    BY DEF Check
  <2> HIDE DEF checks
  <2>2. \A i \in 1 .. 5 : i \in {1, 2, 3, 4, 5}
    OBVIOUS
  <2>3. {1, 2, 3, 4, 5} \subseteq 1 .. 5
    OBVIOUS
  <2> QED
    BY <2>1, <2>2, <2>3
<1> HIDE DEF checks
<1>4. FirstFailure(checks, 101) = 101 <=> \A i \in 1 .. 5 : checks[i].holds
  BY <1>1, Passed
<1> QED
  BY <1>2, <1>3, <1>4, Zenon

LEMMA ServerOpens ==
  ASSUME NEW req, NEW chosen
  PROVE  ServerOpen(req, chosen)
           <=> /\ req.method = "GET" /\ req.upgrade /\ req.connection /\ req.key # {}
               /\ req.version = 13 /\ req.uri
               /\ req.origin = "url" /\ Len(Offer(req, chosen)) <= 1
<1> DEFINE few == Len(Offer(req, chosen)) <= 1
           checks == << Check(OriginAccepted(req), 403), Check(few, 400) >>
<1>3. Answered(req, chosen)
        = IF Requested(req) # 101 THEN Requested(req) ELSE FirstFailure(checks, 101)
  BY DEF Answered
<1> HIDE DEF few
<1>1. Len(checks) = 2 /\ \A i \in 1 .. 2 : checks[i].verdict # 101
  BY DEF Check
<1>2. (\A i \in 1 .. 2 : checks[i].holds) <=> OriginAccepted(req) /\ few
  <2>1. checks[1].holds = OriginAccepted(req) /\ checks[2].holds = few
    BY DEF Check
  <2> HIDE DEF checks
  <2>2. \A i \in 1 .. 2 : i \in {1, 2}
    OBVIOUS
  <2>3. {1, 2} \subseteq 1 .. 2
    OBVIOUS
  <2> QED
    BY <2>1, <2>2, <2>3
<1> HIDE DEF checks
<1>4. FirstFailure(checks, 101) = 101 <=> \A i \in 1 .. 2 : checks[i].holds
  BY <1>1, Passed
<1>5. Answered(req, chosen) = 101 <=> Requested(req) = 101 /\ OriginAccepted(req) /\ few
  BY <1>2, <1>3, <1>4, Zenon
<1> QED
  BY <1>5, RequestPasses, Zenon DEF ServerOpen, OriginAccepted, few

-----------------------------------------------------------------------------
(* Both ends. *)

LEMMA VerdictsAgree ==
  ASSUME NEW config \in Config, NEW chosen \in Protocols \cup {NoProtocol},
         Fair(config, chosen), NEW req, Delivers(req, config)
  PROVE  SameVerdict(config, req, chosen)
<1> DEFINE response == Response(req, chosen)
           offer == Offer(req, chosen)
<1>1. req.key = {config.key} /\ req.protocols = config.protocols
  BY DEF Delivers
<1>2. /\ response.code = Answered(req, chosen) /\ ~response.extensions
      /\ response.upgrade = (Answered(req, chosen) = 101)
      /\ response.accept = IF Answered(req, chosen) = 101
                           THEN {NonceAccept(key) : key \in req.key} ELSE {}
      /\ response.protocol = IF Answered(req, chosen) = 101 /\ offer # << >>
                             THEN offer[1] ELSE NoProtocol
  BY DEF Response
<1>3. offer = IF chosen = NoProtocol THEN config.protocols ELSE <<chosen>>
  BY <1>1 DEF Offer
<1> HIDE DEF response, offer
<1>4. ASSUME ServerOpen(req, chosen)
      PROVE  \/ response.protocol = NoProtocol
             \/ \E i \in 1 .. Len(config.protocols) : config.protocols[i] = response.protocol
  <2>1. Answered(req, chosen) = 101
    BY <1>4 DEF ServerOpen
  <2>2. CASE chosen # NoProtocol
    <3>1. offer[1] = chosen /\ offer # << >>
      BY <1>3, <2>2
    <3> QED
      BY <1>2, <2>1, <2>2, <3>1 DEF Fair
  <2>3. CASE chosen = NoProtocol /\ offer # << >>
    <3>1. offer = config.protocols /\ response.protocol = config.protocols[1]
      BY <1>2, <1>3, <2>1, <2>3
    <3>2. PICK n \in 0 .. 2 : config.protocols \in [1 .. n -> Protocols]
      BY DEF Config
    <3>3. n # 0
      <4>1. ASSUME n = 0 PROVE FALSE
        <5>1. config.protocols \in [{} -> Protocols]
          BY <3>2, <4>1
        <5>2. config.protocols = << >>
          BY <5>1
        <5> QED
          BY <2>3, <3>1, <5>2
      <4> QED
        BY <4>1
    <3>4. 1 \in 1 .. Len(config.protocols)
      BY <3>2, <3>3
    <3> QED
      BY <3>1, <3>4
  <2>4. CASE offer = << >>
    BY <1>2, <2>1, <2>4
  <2> QED
    BY <2>2, <2>3, <2>4
<1>5. ServerOpen(req, chosen) <=> ClientVerdict(config, response) = "open"
  <2>1. ASSUME ServerOpen(req, chosen) PROVE ClientVerdict(config, response) = "open"
    <3>1. Answered(req, chosen) = 101
      BY <2>1 DEF ServerOpen
    <3>2. /\ response.code = 101 /\ response.upgrade /\ response.accept = {NonceAccept(config.key)}
          /\ ~response.extensions
      BY <1>1, <1>2, <3>1
    <3> QED
      BY <1>4, <2>1, <3>2, ClientOpens
  <2>2. ASSUME ClientVerdict(config, response) = "open" PROVE ServerOpen(req, chosen)
    BY <1>2, <2>2, ClientOpens DEF ServerOpen
  <2> QED
    BY <2>1, <2>2
<1> QED
  BY <1>5 DEF response, SameVerdict

LEMMA EndsAgree == HandshakeAgrees
<1> SUFFICES ASSUME NEW config \in Config, NEW chosen \in Protocols \cup {NoProtocol},
                    Dialled(config) = "sent", Fair(config, chosen)
             PROVE  /\ \A req \in Request : Delivers(req, config) => SameVerdict(config, req, chosen)
                    /\ SameVerdict(config, RequestOf(config), chosen)
                    /\ ServerOpen(RequestOf(config), chosen)
                         <=> chosen # NoProtocol \/ Len(config.protocols) <= 1
  BY DEF HandshakeAgrees
<1> DEFINE req == RequestOf(config)
           offer == Offer(req, chosen)
<1>1. /\ req.method = "GET" /\ req.upgrade /\ req.connection /\ req.key = {config.key}
      /\ req.uri /\ req.origin = "url" /\ req.version = config.version
      /\ req.protocols = config.protocols
  BY DEF RequestOf
<1>2. config.version = 13
  BY DialPasses
<1>3. Delivers(req, config)
  BY <1>1 DEF Delivers
<1>4. offer = IF chosen = NoProtocol THEN config.protocols ELSE <<chosen>>
  BY <1>1 DEF Offer
<1> HIDE DEF req, offer
<1>5. ServerOpen(req, chosen) <=> Len(offer) <= 1
  BY <1>1, <1>2, ServerOpens DEF offer
<1>6. ServerOpen(req, chosen) <=> chosen # NoProtocol \/ Len(config.protocols) <= 1
  BY <1>4, <1>5
<1> QED
  BY <1>3, <1>6, VerdictsAgree DEF req

(* On a request with its own key and offer, whatever else it says, a client *)
(* of the library is open if and only if the server is; on its own request *)
(* both are unless several protocols were offered and none chosen.  This   *)
(* is for a server that chooses among what it was offered, for any names   *)
(* of protocols and any keys (hybiClientHandshake, hybi.go:389, against    *)
(* newServerConn).                                                         *)
THEOREM BothEndsOpen == Spec => []Handshakes
<1>1. Handshakes
  BY EndsAgree DEF Handshakes
<1> QED
  BY <1>1, PTL

-----------------------------------------------------------------------------
(* The lengths of frames. *)

LEMMA Digit ==
  ASSUME NEW x \in Nat
  PROVE  /\ x \div 256 \in Nat /\ x % 256 \in 0 .. 255
         /\ x = (x \div 256) * 256 + (x % 256)
         /\ x \div 65536 = (x \div 256) \div 256
         /\ (x < 256 => x % 256 = x)
<1>1. x \div 256 \in Nat /\ x % 256 \in 0 .. 255 /\ x = (x \div 256) * 256 + (x % 256)
  <2>1. x \div 256 \in Nat /\ x % 256 \in 0 .. 255
    OBVIOUS
  <2>2. x = (x \div 256) * 256 + (x % 256)
    OBVIOUS
  <2> QED
    BY <2>1, <2>2
<1>2. x < 256 => x % 256 = x
  OBVIOUS
<1>3. x \div 65536 = (x \div 256) \div 256
  <2> DEFINE y == x \div 256
             z == y \div 256
             a == x % 256
             b == y % 256
             w == x \div 65536
             c == x % 65536
  <2>1. x \in Nat /\ y \in Nat /\ z \in Nat /\ w \in Nat /\ a \in Nat /\ b \in Nat /\ c \in Nat
    OBVIOUS
  <2>2. a <= 255 /\ b <= 255 /\ c <= 65535
    OBVIOUS
  <2>3. x = y * 256 + a
    OBVIOUS
  <2>4. y = z * 256 + b
    BY <2>1
  <2>5. x = w * 65536 + c
    OBVIOUS
  <2> HIDE DEF y, z, a, b, w, c
  <2>6. x = z * 65536 + b * 256 + a
    BY <2>1, <2>3, <2>4
  <2>7. ~(w < z)
    BY <2>1, <2>2, <2>5, <2>6
  <2>8. ~(z < w)
    BY <2>1, <2>2, <2>5, <2>6
  <2>9. w = z
    BY <2>1, <2>7, <2>8
  <2> QED
    BY <2>9 DEF w, z, y
<1> QED
  BY <1>1, <1>2, <1>3

(* length >> 8 * j, one byte after the other. *)
LEMMA ShiftedByBytes ==
  ASSUME NEW length \in Nat
  PROVE  /\ Shifted(length)[0] = length
         /\ \A j \in 1 .. 8 : Shifted(length)[j] = Shifted(length)[j - 1] \div 256
<1> DEFINE body(f) == [j \in 0 .. 8 |-> IF j = 0 THEN length ELSE f[j - 1] \div 256]
<1>1. \E f : f = body(f)
  <2> DEFINE s1 == length \div 256
             s2 == s1 \div 256
             s3 == s2 \div 256
             s4 == s3 \div 256
             s5 == s4 \div 256
             s6 == s5 \div 256
             s7 == s6 \div 256
             s8 == s7 \div 256
             f == [j \in 0 .. 8 |->
                    CASE j = 0 -> length [] j = 1 -> s1 [] j = 2 -> s2 [] j = 3 -> s3
                      [] j = 4 -> s4 [] j = 5 -> s5 [] j = 6 -> s6 [] j = 7 -> s7
                      [] j = 8 -> s8]
  <2>0. \A j \in 0 .. 8 : j \in {0, 1, 2, 3, 4, 5, 6, 7, 8}
    OBVIOUS
  <2>1. /\ f[0] = length /\ f[1] = s1 /\ f[2] = s2 /\ f[3] = s3 /\ f[4] = s4 /\ f[5] = s5
        /\ f[6] = s6 /\ f[7] = s7 /\ f[8] = s8
    <3> HIDE DEF s1, s2, s3, s4, s5, s6, s7, s8
    <3> QED
      OBVIOUS
  <2>2. f = [j \in 0 .. 8 |-> f[j]]
    OBVIOUS
  <2> HIDE DEF f
  <2> DEFINE shift(x) == x \div 256
  <2>a. /\ f[1] = shift(f[0]) /\ f[2] = shift(f[1]) /\ f[3] = shift(f[2])
        /\ f[4] = shift(f[3]) /\ f[5] = shift(f[4]) /\ f[6] = shift(f[5])
        /\ f[7] = shift(f[6]) /\ f[8] = shift(f[7])
    BY <2>1
  <2>b. f[0] = length
    BY <2>1
  <2>3. ASSUME NEW j \in 0 .. 8 PROVE f[j] = IF j = 0 THEN length ELSE f[j - 1] \div 256
    <3>1. j \in {0, 1, 2, 3, 4, 5, 6, 7, 8}
      BY <2>0
    <3> HIDE DEF shift, s1, s2, s3, s4, s5, s6, s7, s8
    <3>2. f[j] = IF j = 0 THEN length ELSE shift(f[j - 1])
      BY <2>a, <2>b, <3>1
    <3> QED
      BY <3>2 DEF shift
  <2>4. body(f) = [j \in 0 .. 8 |-> f[j]]
    BY <2>3
  <2> QED
    BY <2>2, <2>4
<1>2. Shifted(length) = CHOOSE f : f = body(f)
  BY DEF Shifted
<1>3. Shifted(length) = body(Shifted(length))
  BY <1>1, <1>2
<1>4. \A j \in 0 .. 8 :
        Shifted(length)[j] = IF j = 0 THEN length ELSE Shifted(length)[j - 1] \div 256
  <2> DEFINE f == Shifted(length)
  <2>1. f = [j \in 0 .. 8 |-> IF j = 0 THEN length ELSE f[j - 1] \div 256]
    BY <1>3
  <2> HIDE DEF f
  <2>2. \A j \in 0 .. 8 : f[j] = IF j = 0 THEN length ELSE f[j - 1] \div 256
    BY <2>1
  <2> QED
    BY <2>2 DEF f
<1> QED
  <2> DEFINE f == Shifted(length)
  <2>1. \A j \in 0 .. 8 : f[j] = IF j = 0 THEN length ELSE f[j - 1] \div 256
    BY <1>4
  <2> HIDE DEF f
  <2>2. f[0] = length /\ \A j \in 1 .. 8 : f[j] = f[j - 1] \div 256
    BY <2>1
  <2> QED
    BY <2>2 DEF f

(* The reader adds up the bytes one after the other. *)
LEMMA DecodedByBytes ==
  ASSUME NEW bytes, NEW n \in {2, 8}, FieldsAfter(bytes[1]) = n,
         NEW v \in [0 .. n -> Nat], v[0] = 0,
         \A i \in 1 .. n : v[i] = v[i - 1] * 256 + bytes[i + 1]
  PROVE  DecodeLength(bytes) = v[n]
<1> DEFINE body(f) == [i \in 0 .. n |-> IF i = 0 THEN 0 ELSE f[i - 1] * 256 + bytes[i + 1]]
           value == CHOOSE f : f = body(f)
<1>1. v = body(v)
  <2>1. \A i \in 0 .. n : v[i] = IF i = 0 THEN 0 ELSE v[i - 1] * 256 + bytes[i + 1]
    <3>1. \A i \in 0 .. n : i = 0 \/ i \in 1 .. n
      OBVIOUS
    <3> QED
      BY <3>1
  <2>2. [i \in 0 .. n |-> v[i]] = body(v)
    BY <2>1
  <2> QED
    BY <2>2
<1>2. value = body(value)
  BY <1>1
<1>3. DecodeLength(bytes) = value[n]
  BY DEF DecodeLength
<1> HIDE DEF value
<1>4. value = [i \in 0 .. n |-> IF i = 0 THEN 0 ELSE value[i - 1] * 256 + bytes[i + 1]]
  BY <1>2
<1> HIDE DEF body
<1>5. 0 \in 0 .. n /\ n \in Nat
  OBVIOUS
<1>11. value[0] = v[0]
  BY <1>4, <1>5
<1>6. ASSUME NEW i \in 1 .. n, value[i - 1] = v[i - 1] PROVE value[i] = v[i]
  <2>1. i \in 0 .. n /\ i # 0
    BY <1>5
  <2>2. value[i] = value[i - 1] * 256 + bytes[i + 1]
    BY <1>4, <2>1
  <2> QED
    BY <1>6, <2>2, Zenon
<1>7. value[1] = v[1]
  <2>1. 1 \in 1 .. n /\ 1 - 1 = 0
    OBVIOUS
  <2> QED
    BY <1>6, <1>11, <2>1
<1>8. value[2] = v[2]
  <2>1. 2 \in 1 .. n /\ 2 - 1 = 1
    OBVIOUS
  <2> QED
    BY <1>6, <1>7, <2>1
<1>9. CASE n = 2
  BY <1>3, <1>8, <1>9
<1>10. CASE n = 8
  <2>1. value[3] = v[3]
    BY <1>6, <1>8, <1>10
  <2>2. value[4] = v[4]
    BY <1>6, <1>10, <2>1
  <2>3. value[5] = v[5]
    BY <1>6, <1>10, <2>2
  <2>4. value[6] = v[6]
    BY <1>6, <1>10, <2>3
  <2>5. value[7] = v[7]
    BY <1>6, <1>10, <2>4
  <2>6. value[8] = v[8]
    BY <1>6, <1>10, <2>5
  <2> QED
    BY <1>3, <1>10, <2>6
<1> QED
  BY <1>9, <1>10

(* The bytes of a length below 2^63 leave nothing over. *)
LEMMA NothingLeft ==
  ASSUME NEW length \in Nat
  PROVE  /\ \A j \in 0 .. 8 : Shifted(length)[j] \in Nat
         /\ length < 65536 => Shifted(length)[2] = 0
         /\ FitsInt(length) => Shifted(length)[8] = 0
<1> DEFINE s == Shifted(length)
<1>1. s[0] = length /\ \A j \in 1 .. 8 : s[j] = s[j - 1] \div 256
  BY ShiftedByBytes
<1> HIDE DEF s
<1>2. ASSUME NEW j \in 1 .. 8, s[j - 1] \in Nat PROVE s[j] \in Nat
  BY <1>1, <1>2, Digit
<1>3. s[0] \in Nat /\ s[1] \in Nat /\ s[2] \in Nat
  BY <1>1, <1>2
<1>4. s[3] \in Nat /\ s[4] \in Nat
  BY <1>2, <1>3
<1>5. s[5] \in Nat /\ s[6] \in Nat
  BY <1>2, <1>4
<1>6. s[7] \in Nat /\ s[8] \in Nat
  BY <1>2, <1>5
<1>7. ASSUME NEW j \in 0 .. 8 PROVE s[j] \in Nat
  <2>1. j \in {0, 1, 2, 3, 4, 5, 6, 7, 8}
    OBVIOUS
  <2> QED
    BY <1>3, <1>4, <1>5, <1>6, <2>1
<1>8. ASSUME NEW j \in 0 .. 6 PROVE s[j + 2] = s[j] \div 65536
  <2>1. s[j + 1] = s[j] \div 256 /\ s[j + 2] = s[j + 1] \div 256 /\ s[j] \in Nat
    <3>1. j + 1 \in 1 .. 8 /\ j + 2 \in 1 .. 8 /\ (j + 1) - 1 = j /\ (j + 2) - 1 = j + 1
          /\ j \in 0 .. 8
      OBVIOUS
    <3> QED
      BY <1>1, <1>7, <3>1
  <2> QED
    BY <2>1, Digit
<1>9. length < 65536 => s[2] = 0
  <2>1. s[2] = s[0] \div 65536
    BY <1>8
  <2> QED
    BY <1>1, <2>1
<1>10. FitsInt(length) => s[8] = 0
  <2>1. s[2] = length \div 65536 /\ s[4] = s[2] \div 65536 /\ s[6] = s[4] \div 65536
        /\ s[8] = s[6] \div 65536
    BY <1>1, <1>8
  <2>2. FitsInt(length) => s[6] < 32768
    BY <2>1 DEF FitsInt
  <2> QED
    BY <1>5, <2>1, <2>2
<1> QED
  BY <1>7, <1>9, <1>10 DEF s

LEMMA LengthReadBack ==
  ASSUME NEW length \in Nat, FitsInt(length)
  PROVE  LengthSurvives(length)
<1> DEFINE n == LengthFields(length)
           code == LengthCode(length)
           s == Shifted(length)
           digits == [i \in 1 .. n |-> s[n - i] % 256]
           bytes == EncodeLength(length)
<1>1. /\ n \in {0, 2, 8}
      /\ n = 0 => code = length /\ length <= 125
      /\ n = 2 => code = 126 /\ length < 65536
      /\ n = 8 => code = 127
  BY DEF LengthFields, LengthCode
<1>2. bytes = <<code>> \o digits
  BY DEF EncodeLength
<1>3. /\ s[0] = length /\ \A j \in 1 .. 8 : s[j] = s[j - 1] \div 256
      /\ \A j \in 0 .. 8 : s[j] \in Nat
      /\ n # 0 => s[n] = 0
  BY <1>1, ShiftedByBytes, NothingLeft
<1> HIDE DEF n, code, s
<1>4. digits \in Seq(Int) /\ Len(digits) = n
  <2>1. ASSUME NEW i \in 1 .. n PROVE s[n - i] % 256 \in Int
    <3>1. n - i \in 0 .. 8
      BY <1>1
    <3> QED
      BY <1>3, <3>1, Digit
  <2> QED
    BY <1>1, <2>1
<1>5. \A i \in 1 .. n : digits[i] = s[n - i] % 256
  OBVIOUS
<1>6. code \in Int
  BY <1>1
<1> HIDE DEF digits, bytes
<1>7. Len(bytes) = 1 + n /\ bytes[1] = code /\ \A i \in 1 .. n : bytes[i + 1] = digits[i]
  BY <1>1, <1>2, <1>4, <1>6
<1>8. FieldsAfter(bytes[1]) = n
  BY <1>1, <1>6, <1>7 DEF FieldsAfter
<1>9. DecodeLength(bytes) = length
  <2>1. CASE n = 0
    BY <1>1, <1>7, <1>8, <2>1 DEF DecodeLength
  <2>2. CASE n # 0
    <3> DEFINE v == [i \in 0 .. n |-> s[n - i]]
    <3>1. n \in {2, 8} /\ 0 \in 0 .. n /\ n \in 0 .. n /\ n - 0 = n /\ n - n = 0
      BY <1>1, <2>2
    <3>2. v[0] = 0 /\ v[n] = length
      BY <1>3, <2>2, <3>1
    <3>3. ASSUME NEW i \in 1 .. n PROVE v[i] = v[i - 1] * 256 + bytes[i + 1]
      <4>1. /\ i \in 0 .. n /\ i - 1 \in 0 .. n /\ n - (i - 1) = (n - i) + 1
            /\ n - i \in 0 .. 8 /\ (n - i) + 1 \in 1 .. 8 /\ ((n - i) + 1) - 1 = n - i
        BY <3>1
      <4>2. v[i] = s[n - i] /\ v[i - 1] = s[(n - i) + 1]
        BY <4>1
      <4>3. s[(n - i) + 1] = s[n - i] \div 256 /\ s[n - i] \in Nat
        BY <1>3, <4>1
      <4>4. bytes[i + 1] = s[n - i] % 256
        BY <1>5, <1>7
      <4>5. s[n - i] = (s[n - i] \div 256) * 256 + (s[n - i] % 256)
        BY <4>3, Digit
      <4> HIDE DEF v
      <4> QED
        BY <4>2, <4>3, <4>4, <4>5, Zenon
    <3>4. v \in [0 .. n -> Nat]
      <4>1. \A i \in 0 .. n : n - i \in 0 .. 8
        BY <3>1
      <4> QED
        BY <1>3, <4>1
    <3> HIDE DEF v
    <3>5. DecodeLength(bytes) = v[n]
      <4>1. \A i \in 1 .. n : v[i] = v[i - 1] * 256 + bytes[i + 1]
        BY <3>3
      <4> QED
        <5>1. n \in {2, 8}
          BY <3>1
        <5>2. FieldsAfter(bytes[1]) = n
          BY <1>8
        <5>3. v[0] = 0
          BY <3>2
        <5> HIDE DEF v, n, bytes
        <5> QED
          BY <3>4, <4>1, <5>1, <5>2, <5>3, DecodedByBytes
    <3> QED
      BY <3>2, <3>5
  <2> QED
    BY <2>1, <2>2
<1> QED
  BY <1>7, <1>8, <1>9 DEF LengthSurvives, bytes

(* The reader takes the bytes the writer wrote for the length of a frame   *)
(* and reads the same number, for every length an int of 64 bits can hold: *)
(* each of the three forms is read back, the bytes in the same order       *)
(* (hybiFrameWriter.Write, hybi.go:209, against NewFrameReader).           *)
THEOREM LengthsAreReadBack == Spec => []LengthsSurvive
<1>1. EveryLengthSurvives
  BY LengthsAssumption, LengthReadBack DEF EveryLengthSurvives, FitsInt
<1>2. LengthsSurvive
  BY <1>1 DEF LengthsSurvive
<1> QED
  BY <1>2, PTL
=============================================================================
