--------------------------- MODULE TraversalProofs ---------------------------
(***************************************************************************)
(* Proofs about Traversal for every set of nodes and any number of packets *)
(* through the relay.  The inductive invariant is IInv: the types, what    *)
(* each datagram in the network looks like, where each address that is     *)
(* kept comes from, and ConfirmedWorksBothWays.                            *)
(***************************************************************************)
EXTENDS Traversal, TLAPS

Kinds == {"request", "answer", "probe", "frame"}
Packets == [sock : Sockets, to : Once, src : Ends \cup {None}, dst : Ends \cup {None},
            kind : Kinds]

Public(a) == a.for # Lan

\* A node punches at most once, after its exchanges.
Early == \A e \in Ends : at[e] \in {"start", "ready"} \cup Exchanges => punch[e] = None

PunchSocket == \A e \in Ends : punch[e] \in {None, <<e, "tunnel">>, <<e, "punch">>}

\* The candidates of h: none is the mapping of a socket behind a NAT that punches.
CandidateOf(h, a) ==
    \/ a.sock = <<h, "harvest">>
    \/ a.sock = <<h, "tunnel">> /\ (nat[h] = Open \/ a.for = Lan)

CandidatesOK == \A e \in Ends : \A c \in cand[e] : CandidateOf(e, c)

\* Frame q was sent by d from its socket for use u of the relay.
SentBy(q, d, u) ==
    q.kind = "frame" /\ q.src = d /\ q.sock = <<d, u>> /\ q.to = Server(Relay)

\* a is the mapping toward the relay of a socket that d has used for it.
Relayed(d, a) ==
    \E u \in RelayUses : /\ a = Address(<<d, u>>, Server(Relay))
                         /\ \E q \in sent : SentBy(q, d, u)

TableOK == \A d \in Ends : table[d] # None => Relayed(d, table[d])

RequestOK(p) ==
    p.kind = "request" =>
        \E e \in Ends, x \in Exchanges : p.sock = <<e, x>> /\ p.to = ServerOf(x)
AnswerOK(p) == p.kind = "answer" => p.sock \in Servers \X {"port"} /\ Public(p.to)
ProbeOK(p) ==
    p.kind = "probe" =>
        \E f, h \in Ends : /\ f # h /\ punch[f] # None /\ p.sock = punch[f]
                           /\ CandidateOf(h, p.to)
FrameOK(p) ==
    p.kind = "frame" =>
        /\ p.src \in Ends /\ p.dst \in Ends
        /\ \/ \E u \in RelayUses : SentBy(p, p.src, u)
           \/ p.sock = <<Relay, "port">> /\ Relayed(p.dst, p.to)

PacketOK(p) == RequestOK(p) /\ AnswerOK(p) /\ ProbeOK(p) /\ FrameOK(p)
SentOK == \A p \in sent : PacketOK(p)

Shape == Early /\ PunchSocket /\ CandidatesOK /\ TableOK /\ SentOK

IInv ==
    TypeOK /\ Shape /\ OwnMapping /\ ConfirmedWorksBothWays /\ NoHoleIsPunched

(***************************************************************************)
(* Addresses.                                                              *)
(***************************************************************************)
LEMMA ServerFacts ==
    \A h \in Servers : /\ Server(h) \in Plain /\ Public(Server(h))
                       /\ \A dest : Public(dest) => Address(<<h, "port">>, dest) = Server(h)
BY TraversalAssumption DEF Server, Address, Plain, Sockets, Public

LEMMA ServerOfFacts ==
    \A x \in Exchanges : \E h \in Servers :
        ServerOf(x) = Server(h) /\ ServerOf(x).sock = <<h, "port">>
BY DEF ServerOf, Server, Servers

LEMMA AddressTypes ==
    ASSUME NEW s \in Sockets
    PROVE  /\ \A d \in Plain : Address(s, d) \in Once
           /\ \A d \in Once : Address(s, d) \in Twice
           /\ \A d : Address(s, d).sock = s
           /\ \A d \in Plain : Public(d) => Public(Address(s, d))
BY TraversalAssumption DEF Address, Plain, Once, Twice, Public

LEMMA SocketTypes ==
    ASSUME NEW e \in Ends
    PROVE  /\ \A x \in Exchanges : <<e, x>> \in Sockets
           /\ \A u \in RelayUses : <<e, u>> \in Sockets
           /\ <<e, "tunnel">> \in Sockets /\ <<e, "punch">> \in Sockets
           /\ \A h \in Servers : <<h, "port">> \in Sockets
BY DEF Sockets, Uses

LEMMA PacketType ==
    ASSUME NEW s \in Sockets, NEW a \in Once
    PROVE  /\ \A k \in Kinds : Datagram(s, a, k) \in Packets
           /\ \A c, d \in Ends : Frame(s, a, c, d) \in Packets
BY DEF Datagram, Frame, Packets, Kinds

\* What reaches a server's socket was sent to its only address.
LEMMA AtServer ==
    ASSUME NEW p, NEW h \in Servers, Arrives(p, <<h, "port">>)
    PROVE  p.to = Server(h)
<1>1. p.to = Address(<<h, "port">>, From(p))
  BY DEF Arrives
<1>2. p.to.for # Lan
  BY TraversalAssumption DEF Arrives, SameLan
<1>3. Public(From(p))
  BY <1>1, <1>2 DEF Address, Public
<1>. QED
  BY <1>1, <1>3, ServerFacts

(***************************************************************************)
(* Steps.                                                                  *)
(***************************************************************************)
LEMMA Initially == Init => IInv
BY DEF Init, IInv, TypeOK, Shape, Early, PunchSocket, CandidatesOK, TableOK, SentOK,
       OwnMapping, ConfirmedWorksBothWays, NoHoleIsPunched

\* The exchange that e begins: the network afterwards.
LEMMA AskFacts ==
    ASSUME TypeOK, NEW e \in Ends, NEW x \in Exchanges, Ask(e, x)
    PROVE  /\ at' \in [Ends -> {"start", "ready", "punching", "done"} \cup Exchanges]
           /\ sent \subseteq sent' /\ sent' \subseteq Packets
           /\ \A f \in Ends : at'[f] = IF f = e THEN x ELSE at[f]
           /\ \A p \in sent' \ sent :
                \/ p = Datagram(<<e, x>>, ServerOf(x), "request")
                \/ \E h \in Servers, a \in Once : Public(a) /\ p = Datagram(<<h, "port">>, a, "answer")
<1>. DEFINE request == Datagram(<<e, x>>, ServerOf(x), "request")
            answer == Datagram(ServerOf(x).sock, From(request), "answer")
<1>1. PICK h \in Servers : ServerOf(x) = Server(h) /\ ServerOf(x).sock = <<h, "port">>
  BY ServerOfFacts
<1>2. Server(h) \in Plain /\ Plain \subseteq Once
  BY ServerFacts DEF Once
<1>3. From(request) = Address(<<e, x>>, Server(h))
  BY <1>1 DEF From, Datagram
<1>4. From(request) \in Once /\ Public(From(request))
  BY <1>2, <1>3, ServerFacts, AddressTypes, SocketTypes
<1>5. request \in Packets
  BY <1>1, <1>2, PacketType, SocketTypes DEF Kinds
<1>6. answer = Datagram(<<h, "port">>, From(request), "answer")
  BY <1>1
<1>7. answer \in Packets
  BY <1>4, <1>6, PacketType, SocketTypes DEF Kinds
<1>8. sent' = sent \cup {request, answer} /\ at' = [at EXCEPT ![e] = x]
  BY DEF Ask, SocketFor
<1>9. sent \subseteq Packets
  BY DEF TypeOK, Packets, Kinds
<1>. HIDE DEF request, answer
<1>10. \A p \in sent' \ sent :
         \/ p = request
         \/ \E g \in Servers, a \in Once : Public(a) /\ p = Datagram(<<g, "port">>, a, "answer")
  BY <1>4, <1>6, <1>8
<1>11. sent \subseteq sent' /\ sent' \subseteq Packets
  BY <1>5, <1>7, <1>8, <1>9
<1>. QED
  BY <1>8, <1>10, <1>11 DEF TypeOK, request

\* A step forgets no datagram and no punch, and no node moves to another NAT.
Grows ==
    /\ nat' = nat /\ sent \subseteq sent'
    /\ \A f \in Ends : punch[f] # None => punch'[f] = punch[f]

LEMMA SameAddress == ASSUME nat' = nat PROVE \A s, d : Address(s, d)' = Address(s, d)
BY DEF Address

LEMMA KeepsRelayed ==
    ASSUME Grows, NEW d \in Ends, NEW a, Relayed(d, a)
    PROVE  Relayed(d, a)'
BY SameAddress DEF Grows, Relayed, Server

LEMMA KeepsArriving ==
    ASSUME Grows, NEW p, NEW s, Arrives(p, s)
    PROVE  Arrives(p, s)'
BY SameAddress DEF Grows, Arrives, From, SameLan, IsOpen

LEMMA KeepsPackets ==
    ASSUME Grows, SentOK, NEW p \in sent
    PROVE  PacketOK(p)'
<1>1. PacketOK(p)
  BY DEF SentOK
<1>2. RequestOK(p)' /\ AnswerOK(p)'
  BY <1>1 DEF PacketOK, RequestOK, AnswerOK, ServerOf, Server
<1>3. ProbeOK(p)'
  BY <1>1 DEF PacketOK, ProbeOK, CandidateOf, Grows
<1>4. FrameOK(p)'
  BY <1>1, KeepsRelayed DEF PacketOK, FrameOK, Server
<1>. QED
  BY <1>2, <1>3, <1>4 DEF PacketOK

\* From where e punched, what it returned leads to where f punched.
TwoWay(e, f) ==
    /\ punch[f] # None
    /\ Arrives(Datagram(punch[e], heard[e], "probe"), punch[f])

LEMMA ConfirmedMeansTwoWay ==
    ConfirmedWorksBothWays <=>
        \A e \in Ends : heard[e] # None => \E f \in Ends \ {e} : TwoWay(e, f)
BY DEF ConfirmedWorksBothWays, TwoWay

\* What the exchanges and the punches returned so far stays good.
LEMMA KeepsConfirmed ==
    ASSUME Grows, ConfirmedWorksBothWays, NoHoleIsPunched, TypeOK, heard' = heard
    PROVE  ConfirmedWorksBothWays' /\ NoHoleIsPunched'
<1>1. NoHoleIsPunched'
  BY DEF NoHoleIsPunched, Grows
<1>2. ASSUME NEW e \in Ends, heard'[e] # None
      PROVE  \E f \in Ends \ {e} : TwoWay(e, f)'
  <2>1. PICK f \in Ends \ {e} : TwoWay(e, f)
    BY <1>2, ConfirmedMeansTwoWay
  <2>2. punch'[f] = punch[f] /\ punch'[e] = punch[e]
    BY <1>2, <2>1 DEF Grows, TypeOK, TwoWay
  <2>3. PICK mine, its, to : mine = punch[e] /\ its = punch[f] /\ to = heard[e]
    OBVIOUS
  <2>4. Arrives(Datagram(mine, to, "probe"), its)'
    BY <2>1, <2>3, KeepsArriving DEF TwoWay
  <2>5. punch'[e] = mine /\ punch'[f] = its /\ heard'[e] = to
    BY <2>2, <2>3
  <2>. QED
    BY <2>1, <2>2, <2>4, <2>5 DEF TwoWay, Arrives, From, Datagram, SameLan, IsOpen
<1>. QED
  BY <1>1, <1>2 DEF ConfirmedWorksBothWays, TwoWay

LEMMA KeepsMappings ==
    ASSUME nat' = nat, OwnMapping, mapped' = mapped
    PROVE  OwnMapping'
BY SameAddress DEF OwnMapping, ServerOf, Server

\* The answer that reaches the socket of an exchange is that of its server.
LEMMA AnswerIsOwn ==
    ASSUME TypeOK, PunchSocket, SentOK,
           NEW e \in Ends, NEW x \in Exchanges, NEW p \in sent,
           p.kind = "answer", Arrives(p, <<e, x>>)
    PROVE  p.to = Address(<<e, x>>, ServerOf(x))
<1>1. PICK h \in Servers : p.sock = <<h, "port">> /\ Public(p.to)
  BY DEF SentOK, PacketOK, AnswerOK
<1>2. From(p) = Server(h) /\ Public(Server(h))
  BY <1>1, ServerFacts DEF From
<1>3. CASE nat[e] \in SymmetricNats
  <2>1. PICK q \in sent : q.sock = <<e, x>> /\ q.to = Server(h)
    BY <1>1, <1>2, <1>3, TraversalAssumption DEF Arrives, IsOpen, Public
  <2>2. PacketOK(q)
    BY DEF SentOK
  <2>3. q.to = ServerOf(x)
    <3>1. q.kind = "request" => q.to = ServerOf(x)
      BY <2>1, <2>2 DEF PacketOK, RequestOK
    <3>2. q.kind # "answer"
      BY <2>1, <2>2, TraversalAssumption DEF PacketOK, AnswerOK
    <3>3. q.kind # "probe"
      BY <2>1, <2>2 DEF PacketOK, ProbeOK, PunchSocket, Exchanges
    <3>4. q.kind # "frame"
      BY <2>1, <2>2, TraversalAssumption DEF PacketOK, FrameOK, SentBy, Exchanges, Servers
    <3>. QED
      BY <2>1, <3>1, <3>2, <3>3, <3>4 DEF TypeOK
  <2>. QED
    BY <1>2, <2>1, <2>3 DEF Arrives
<1>4. CASE nat[e] \notin SymmetricNats
  <2>1. Public(ServerOf(x))
    BY ServerOfFacts, ServerFacts
  <2>. QED
    BY <1>2, <1>4, <2>1 DEF Arrives, Address, Public
<1>. QED
  BY <1>3, <1>4

(***************************************************************************)
(* The exchanges.                                                          *)
(***************************************************************************)
LEMMA AskKeeps ==
    ASSUME TypeOK, Shape, NEW e \in Ends, NEW x \in Exchanges, Ask(e, x),
           at[e] \in {"start"} \cup Exchanges, UNCHANGED <<nat, punch, table>>
    PROVE  Grows /\ Early' /\ PunchSocket' /\ TableOK' /\ SentOK'
<1>1. Grows
  BY AskFacts DEF Grows
<1>2. Early' /\ PunchSocket'
  BY AskFacts DEF Shape, Early, PunchSocket
<1>3. TableOK'
  BY <1>1, KeepsRelayed DEF Shape, TableOK
<1>4. ASSUME NEW p \in sent' \ sent PROVE PacketOK(p)'
  <2>1. CASE p = Datagram(<<e, x>>, ServerOf(x), "request")
    BY <2>1 DEF PacketOK, RequestOK, AnswerOK, ProbeOK, FrameOK, Datagram, ServerOf, Server
  <2>2. CASE \E h \in Servers, a \in Once : Public(a) /\ p = Datagram(<<h, "port">>, a, "answer")
    BY <2>2 DEF PacketOK, RequestOK, AnswerOK, ProbeOK, FrameOK, Datagram, Public
  <2>. QED
    BY <2>1, <2>2, AskFacts
<1>5. SentOK'
  BY <1>1, <1>4, KeepsPackets DEF Shape, SentOK
<1>. QED
  BY <1>1, <1>2, <1>3, <1>5

\* The parts of TypeOK that an exchange leaves alone.
LEMMA TypeAfterAsk ==
    ASSUME TypeOK, UNCHANGED <<nat, punch, heard, table>>,
           at' \in [Ends -> {"start", "ready", "punching", "done"} \cup Exchanges],
           mapped' \in [Ends -> [Exchanges -> Once \cup {None}]],
           cand' \in [Ends -> SUBSET Once], sent' \subseteq Packets
    PROVE  TypeOK'
BY DEF TypeOK, Packets, Kinds

LEMMA StartKeeps == ASSUME IInv, NEW e \in Ends, StartDaemon(e) PROVE IInv'
<1>1. "first" \in Exchanges /\ Ask(e, "first") /\ at[e] \in {"start"} \cup Exchanges
  BY DEF StartDaemon, Exchanges
<1>2. UNCHANGED <<nat, mapped, cand, punch, heard, table>>
  BY DEF StartDaemon
<1>3. TypeOK'
  BY <1>1, <1>2, AskFacts, TypeAfterAsk DEF IInv, TypeOK
<1>4. Grows /\ Early' /\ PunchSocket' /\ TableOK' /\ SentOK'
  BY <1>1, <1>2, AskKeeps DEF IInv
<1>5. CandidatesOK'
  BY <1>2 DEF IInv, Shape, CandidatesOK, CandidateOf
<1>. QED
  BY <1>2, <1>3, <1>4, <1>5, KeepsMappings, KeepsConfirmed DEF IInv, Shape

\* The exchange of e returns a: nothing, or the mapping of its own socket.
LEMMA ReturnKeeps ==
    ASSUME IInv, NEW e \in Ends, at[e] \in Exchanges, NEW a, Return(e, a),
           a = None \/ (a \in Once /\ a = Address(<<e, at[e]>>, ServerOf(at[e])))
    PROVE  IInv'
<1>. DEFINE x == at[e]
<1>0. UNCHANGED <<nat, punch, heard, table>> /\ mapped' = [mapped EXCEPT ![e][x] = a]
  BY DEF Return
<1>1. mapped' \in [Ends -> [Exchanges -> Once \cup {None}]]
  BY <1>0 DEF IInv, TypeOK
<1>2. OwnMapping'
  <2>1. ASSUME NEW f \in Ends, NEW y \in Exchanges, mapped'[f][y] # None
        PROVE  mapped'[f][y] = Address(<<f, y>>, ServerOf(y))
    <3>1. CASE f = e /\ y = x
      BY <1>0, <2>1, <3>1 DEF IInv, TypeOK
    <3>2. CASE ~(f = e /\ y = x)
      <4>1. mapped'[f][y] = mapped[f][y]
        BY <1>0, <3>2 DEF IInv, TypeOK
      <4>. QED
        BY <2>1, <4>1 DEF IInv, OwnMapping
    <3>. QED
      BY <3>1, <3>2
  <2>. QED
    BY <1>0, <2>1, SameAddress DEF OwnMapping, ServerOf, Server
<1>3. CASE x = "harvest"
  <2>1. sent' = sent /\ at' = [at EXCEPT ![e] = "ready"]
    BY <1>3 DEF Return
  <2>2. PICK local \in {{}, {LocalAddress(e)}} :
            cand' = [cand EXCEPT ![e] = local \cup ({a} \ {None})]
    BY <1>3 DEF Return
  <2>3. LocalAddress(e) \in Once /\ CandidateOf(e, LocalAddress(e))
    BY SocketTypes DEF LocalAddress, CandidateOf, Once, Plain
  <2>4. a # None => a \in Once /\ CandidateOf(e, a)
    BY <1>3, AddressTypes, SocketTypes DEF CandidateOf
  <2>5. cand' \in [Ends -> SUBSET Once]
    BY <2>2, <2>3, <2>4 DEF IInv, TypeOK
  <2>6. CandidatesOK'
    <3>1. ASSUME NEW f \in Ends, NEW c \in cand'[f] PROVE CandidateOf(f, c)
      <4>1. CASE f = e
        BY <2>2, <2>3, <2>4, <3>1, <4>1 DEF IInv, TypeOK
      <4>2. CASE f # e
        BY <2>2, <3>1, <4>2 DEF IInv, TypeOK, Shape, CandidatesOK
      <4>. QED
        BY <4>1, <4>2
    <3>. QED
      BY <1>0, <3>1 DEF CandidatesOK, CandidateOf
  <2>7. sent' \subseteq Packets
    BY <2>1 DEF IInv, TypeOK, Packets, Kinds
  <2>8. TypeOK'
    BY <1>0, <1>1, <2>1, <2>5, <2>7, TypeAfterAsk DEF IInv, TypeOK
  <2>9. Grows
    BY <1>0, <2>1 DEF Grows
  <2>10. Early' /\ PunchSocket'
    BY <1>0, <2>1 DEF IInv, TypeOK, Shape, Early, PunchSocket
  <2>11. TableOK' /\ SentOK'
    BY <1>0, <2>1, <2>9, KeepsRelayed, KeepsPackets DEF IInv, Shape, TableOK, SentOK
  <2>. QED
    BY <1>0, <1>2, <2>6, <2>8, <2>9, <2>10, <2>11, KeepsConfirmed DEF IInv, Shape
<1>4. CASE x # "harvest"
  <2>1. PICK y \in Exchanges : Ask(e, y)
    BY <1>4 DEF Return, Exchanges
  <2>2. cand' = cand
    BY <1>4 DEF Return
  <2>3. TypeOK'
    BY <1>0, <1>1, <2>1, <2>2, AskFacts, TypeAfterAsk DEF IInv, TypeOK
  <2>4. Grows /\ Early' /\ PunchSocket' /\ TableOK' /\ SentOK'
    BY <1>0, <2>1, AskKeeps DEF IInv
  <2>5. CandidatesOK'
    BY <1>0, <2>2 DEF IInv, Shape, CandidatesOK, CandidateOf
  <2>. QED
    BY <1>0, <1>2, <2>3, <2>4, <2>5, KeepsConfirmed DEF IInv, Shape
<1>. QED
  BY <1>3, <1>4

LEMMA AnsweredKeeps == ASSUME IInv, NEW e \in Ends, Answered(e) PROVE IInv'
<1>1. PICK p \in sent : /\ p.kind = "answer" /\ Arrives(p, <<e, at[e]>>)
                        /\ Return(e, p.to) /\ at[e] \in Exchanges
  BY DEF Answered, SocketFor, Reaches
<1>2. p.to = Address(<<e, at[e]>>, ServerOf(at[e])) /\ p.to \in Once
  BY <1>1, AnswerIsOwn DEF IInv, Shape, TypeOK
<1>. QED
  BY <1>1, <1>2, ReturnKeeps

LEMMA NoAnswerKeeps == ASSUME IInv, NEW e \in Ends, NoAnswer(e) PROVE IInv'
BY ReturnKeeps DEF NoAnswer

(***************************************************************************)
(* Hole punching.                                                          *)
(***************************************************************************)
\* New datagrams that look right leave the network as it should be.
LEMMA NetworkKeeps ==
    ASSUME Grows, SentOK, \A p \in sent' \ sent : PacketOK(p)'
    PROVE  SentOK'
BY KeepsPackets DEF SentOK

LEMMA TableKeeps == ASSUME Grows, TableOK, table' = table PROVE TableOK'
BY KeepsRelayed DEF TableOK

LEMMA CandidatesKeep == ASSUME nat' = nat, CandidatesOK, cand' = cand PROVE CandidatesOK'
BY DEF CandidatesOK, CandidateOf

LEMMA PunchKeeps ==
    ASSUME IInv, NEW e \in Ends, NEW peer \in Ends, e # peer, PunchHole(e, peer)
    PROVE  IInv'
<1>0. UNCHANGED <<nat, mapped, cand, heard, table>> /\ punch[e] = None
  BY DEF PunchHole, IInv, Shape, Early
<1>1. CASE cand[peer] = {}
  <2>1. UNCHANGED <<punch, sent>> /\ at' = [at EXCEPT ![e] = "done"]
    BY <1>1 DEF PunchHole
  <2>2. Grows /\ TypeOK' /\ Early' /\ PunchSocket'
    BY <1>0, <2>1 DEF Grows, IInv, TypeOK, Shape, Early, PunchSocket, Exchanges
  <2>3. SentOK'
    BY <2>1, <2>2, NetworkKeeps DEF IInv, Shape
  <2>. QED
    BY <1>0, <2>2, <2>3, TableKeeps, CandidatesKeep, KeepsMappings, KeepsConfirmed
    DEF IInv, Shape
<1>2. CASE cand[peer] # {}
  <2>1. PICK use \in {"tunnel", "punch"} :
            /\ at' = [at EXCEPT ![e] = "punching"]
            /\ punch' = [punch EXCEPT ![e] = <<e, use>>]
            /\ sent' = sent \cup {Datagram(<<e, use>>, c, "probe") : c \in cand[peer]}
    BY <1>2 DEF PunchHole
  <2>2. <<e, use>> \in Sockets /\ <<e, use>> # None
    BY SocketTypes, TraversalAssumption
  <2>3. Grows
    BY <1>0, <2>1 DEF Grows, IInv, TypeOK
  <2>4. Early' /\ PunchSocket'
    BY <2>1 DEF IInv, TypeOK, Shape, Early, PunchSocket, Exchanges
  <2>5. \A c \in cand[peer] : Datagram(<<e, use>>, c, "probe") \in Packets
    BY <2>2, PacketType DEF IInv, TypeOK, Kinds
  <2>6. TypeOK'
    <3>1. sent' \subseteq Packets
      <4>1. sent \subseteq Packets
        BY DEF IInv, TypeOK, Packets, Kinds
      <4>. QED
        BY <2>1, <2>5, <4>1
    <3>2. /\ at' \in [Ends -> {"start", "ready", "punching", "done"} \cup Exchanges]
          /\ punch' \in [Ends -> Sockets \cup {None}]
          /\ \A f \in Ends : punch'[f] = None => heard[f] = None
      BY <2>1, <2>2 DEF IInv, TypeOK
    <3>. QED
      BY <1>0, <3>1, <3>2 DEF IInv, TypeOK, Packets, Kinds
  <2>7. punch'[e] = <<e, use>>
    BY <2>1 DEF IInv, TypeOK
  <2>8. ASSUME NEW p \in sent' \ sent PROVE PacketOK(p)'
    <3>1. PICK c \in cand[peer] : p = Datagram(<<e, use>>, c, "probe")
      BY <2>1, <2>8
    <3>2. CandidateOf(peer, c)'
      BY <1>0 DEF IInv, Shape, CandidatesOK, CandidateOf
    <3>3. p.kind = "probe" /\ p.sock = punch'[e] /\ p.to = c
      BY <2>7, <3>1 DEF Datagram
    <3>4. ProbeOK(p)'
      BY <2>2, <2>7, <3>2, <3>3 DEF ProbeOK
    <3>. QED
      BY <3>3, <3>4 DEF PacketOK, RequestOK, AnswerOK, FrameOK
  <2>9. SentOK'
    BY <2>3, <2>8, NetworkKeeps DEF IInv, Shape
  <2>. QED
    BY <1>0, <2>3, <2>4, <2>6, <2>9, TableKeeps, CandidatesKeep, KeepsMappings,
       KeepsConfirmed
    DEF IInv, Shape
<1>. QED
  BY <1>1, <1>2

\* A probe that arrives comes from where its sender punches, through its
\* sender's NAT, which lets in what is sent back.
LEMMA HearKeeps == ASSUME IInv, NEW e \in Ends, HearProbe(e) PROVE IInv'
<1>1. PICK p \in sent : /\ p.kind = "probe" /\ Arrives(p, punch[e])
                        /\ heard' = [heard EXCEPT ![e] = From(p)]
  BY DEF HearProbe, Reaches
<1>2. /\ UNCHANGED <<nat, mapped, cand, punch, sent, table>>
      /\ at' = [at EXCEPT ![e] = "done"] /\ at[e] = "punching"
  BY DEF HearProbe
<1>3. PICK f, h \in Ends : /\ f # h /\ punch[f] # None /\ p.sock = punch[f]
                           /\ CandidateOf(h, p.to)
  BY <1>1 DEF IInv, Shape, SentOK, PacketOK, ProbeOK
<1>4. p.to.sock = punch[e]
  BY <1>1 DEF Arrives, Address
<1>5. punch[e] # None
  <2>1. p.to.sock \in Sockets
    BY DEF IInv, TypeOK, Once, Plain
  <2>. QED
    BY <1>4, <2>1, TraversalAssumption
<1>6. h = e /\ (p.to.for = Lan \/ nat[e] = Open)
  <2>1. punch[e] \in {<<e, "tunnel">>, <<e, "punch">>}
    BY <1>5 DEF IInv, Shape, PunchSocket
  <2>. QED
    BY <1>3, <1>4, <2>1 DEF CandidateOf
<1>7. From(p) \in Twice
  <2>1. p.sock \in Sockets /\ p.to \in Once
    BY DEF IInv, TypeOK
  <2>. QED
    BY <2>1, AddressTypes DEF From
<1>8. TypeOK'
  <2>1. heard' \in [Ends -> Twice \cup {None}]
    BY <1>1, <1>7 DEF IInv, TypeOK
  <2>2. \A g \in Ends : punch'[g] = None => heard'[g] = None
    BY <1>1, <1>2, <1>5 DEF IInv, TypeOK
  <2>. QED
    BY <1>2, <2>1, <2>2 DEF IInv, TypeOK
<1>9. Grows /\ Early' /\ PunchSocket'
  BY <1>2 DEF Grows, IInv, TypeOK, Shape, Early, PunchSocket, Exchanges
<1>10. SentOK'
  BY <1>2, <1>9, NetworkKeeps DEF IInv, Shape
<1>11. NoHoleIsPunched'
  <2>1. p.to.for = Lan => From(p).for = Lan
    BY DEF From, Address
  <2>. QED
    BY <1>1, <1>2, <1>6, <2>1 DEF IInv, TypeOK, NoHoleIsPunched

\* What is sent back is private if, and only if, the probe was.
<1>12. From(p).for = Lan <=> p.to.for = Lan
  <2>1. CASE p.to.for = Lan
    BY <2>1 DEF From, Address
  <2>2. CASE p.to.for # Lan
    <3>1. p.to.for # Lan /\ nat[e] = Open /\ punch[e][1] = e
      BY <1>5, <1>6, <2>2 DEF IInv, Shape, PunchSocket
    <3>2. p.to = Address(punch[e], From(p))
      BY <1>1 DEF Arrives
    <3>. QED
      BY <3>1, <3>2 DEF Address
  <2>. QED
    BY <2>1, <2>2
<1>13. ConfirmedWorksBothWays'
  <2>1. ASSUME NEW g \in Ends, heard'[g] # None
        PROVE  \E k \in Ends \ {g} : TwoWay(g, k)'
    <3>1. CASE g = e
      <4>1. heard'[e] = From(p)
        BY <1>1 DEF IInv, TypeOK
      <4>2. PICK mine, its, to : mine = punch[e] /\ its = punch[f] /\ to = From(p)
        OBVIOUS
      <4>3. From(Datagram(mine, to, "probe")) = p.to
        BY <1>1, <4>2 DEF From, Datagram, Arrives
      <4>4. to = Address(its, p.to)
        BY <1>3, <4>2 DEF From
      <4>5. Arrives(Datagram(mine, to, "probe"), its)
        BY <1>1, <1>3, <1>12, <4>2, <4>3, <4>4 DEF Arrives, Datagram, SameLan
      <4>6. Arrives(Datagram(mine, to, "probe"), its)'
        BY <1>9, <4>5, KeepsArriving
      <4>7. punch'[e] = mine /\ punch'[f] = its /\ heard'[e] = to
        BY <1>2, <4>1, <4>2
      <4>8. TwoWay(e, f)'
        BY <1>2, <1>3, <4>6, <4>7 DEF TwoWay, Arrives, From, Datagram, SameLan, IsOpen
      <4>. QED
        BY <1>3, <1>6, <3>1, <4>8
    <3>2. CASE g # e
      <4>1. heard'[g] = heard[g]
        BY <1>1, <3>2 DEF IInv, TypeOK
      <4>2. PICK k \in Ends \ {g} : TwoWay(g, k)
        BY <2>1, <4>1, ConfirmedMeansTwoWay DEF IInv
      <4>3. TwoWay(g, k)'
        BY <1>2, <4>1, <4>2, SameAddress DEF TwoWay, Arrives, From, Datagram, SameLan, IsOpen, Address
      <4>. QED
        BY <4>3
    <3>. QED
      BY <3>1, <3>2
  <2>. QED
    BY <2>1 DEF ConfirmedWorksBothWays, TwoWay
<1>. QED
  BY <1>2, <1>8, <1>9, <1>10, <1>11, <1>13, TableKeeps, CandidatesKeep, KeepsMappings
  DEF IInv, Shape

LEMMA GiveUpKeeps == ASSUME IInv, NEW e \in Ends, GiveUp(e) PROVE IInv'
<1>1. Grows /\ TypeOK' /\ Early' /\ PunchSocket'
  BY DEF GiveUp, Grows, IInv, TypeOK, Shape, Early, PunchSocket, Exchanges
<1>2. SentOK'
  BY <1>1, NetworkKeeps DEF GiveUp, IInv, Shape
<1>. QED
  BY <1>1, <1>2, TableKeeps, CandidatesKeep, KeepsMappings, KeepsConfirmed
  DEF GiveUp, IInv, Shape

(***************************************************************************)
(* The relay.                                                              *)
(***************************************************************************)
LEMMA SendKeeps ==
    ASSUME IInv, NEW e \in Ends, NEW dst \in Ends, NEW use \in RelayUses,
           SendRelayed(e, dst, use)
    PROVE  IInv'
<1>. DEFINE new == Frame(<<e, use>>, Server(Relay), e, dst)
<1>1. sent' = sent \cup {new} /\ UNCHANGED <<nat, node, table>>
  BY DEF SendRelayed
<1>2. Server(Relay) \in Once
  BY ServerFacts DEF Servers, Once
<1>3. new \in Packets
  BY <1>2, SocketTypes, PacketType DEF Kinds
<1>4. sent \subseteq Packets
  BY DEF IInv, TypeOK, Packets, Kinds
<1>5. sent' \subseteq Packets
  BY <1>1, <1>3, <1>4
<1>6. TypeOK' /\ Grows /\ Early' /\ PunchSocket'
  BY <1>1, <1>5
  DEF node, IInv, TypeOK, Packets, Kinds, Grows, Shape, Early, PunchSocket
<1>7. PacketOK(new)'
  BY <1>1 DEF PacketOK, RequestOK, AnswerOK, ProbeOK, FrameOK, SentBy, Frame, Server
<1>8. SentOK'
  <2>1. \A p \in sent' \ sent : p = new
    BY <1>1
  <2>. QED
    BY <1>6, <1>7, <2>1, NetworkKeeps DEF IInv, Shape
<1>. QED
  BY <1>1, <1>6, <1>8, TableKeeps, CandidatesKeep, KeepsMappings, KeepsConfirmed
  DEF node, IInv, Shape

\* What reaches the relay comes from a node's socket for the relay.
LEMMA FrameAtRelay ==
    ASSUME IInv, NEW p \in sent, p.kind = "frame", Arrives(p, <<Relay, "port">>)
    PROVE  /\ p.src \in Ends /\ p.dst \in Ends
           /\ \E u \in RelayUses : SentBy(p, p.src, u)
<1>1. FrameOK(p)
  BY DEF IInv, Shape, SentOK, PacketOK
<1>2. p.to = Server(Relay)
  BY AtServer DEF Servers
<1>3. p.dst \in Ends => ~ Relayed(p.dst, p.to)
  <2>1. p.to.sock = <<Relay, "port">>
    BY <1>2 DEF Server
  <2>2. Relay \notin Ends
    BY TraversalAssumption DEF Servers
  <2>3. ASSUME p.dst \in Ends, NEW u \in RelayUses,
               p.to = Address(<<p.dst, u>>, Server(Relay))
        PROVE  FALSE
    <3>1. p.to.sock = <<p.dst, u>>
      BY <2>3, AddressTypes, SocketTypes
    <3>. QED
      BY <2>1, <2>2, <2>3, <3>1
  <2>. QED
    BY <2>3 DEF Relayed
<1>. QED
  BY <1>1, <1>3 DEF FrameOK

LEMMA ReceiveKeeps == ASSUME IInv, NEW p \in sent, RelayReceives(p) PROVE IInv'
<1>0. p.src \in Ends /\ p.dst \in Ends /\ \E u \in RelayUses : SentBy(p, p.src, u)
  BY FrameAtRelay DEF RelayReceives, Reaches
<1>1. PICK e \in Ends, u \in RelayUses : p.src = e /\ SentBy(p, e, u)
  BY <1>0
<1>2. From(p) = Address(<<e, u>>, Server(Relay))
  BY <1>1 DEF From, SentBy
<1>3. Server(Relay) \in Plain /\ From(p) \in Once
  BY <1>1, <1>2, ServerFacts, AddressTypes, SocketTypes DEF Servers
<1>5. table' = [table EXCEPT ![e] = From(p)] /\ UNCHANGED <<nat, node>>
  BY <1>1 DEF RelayReceives, Learn
<1>6. table' \in [Ends -> Once \cup {None}]
  BY <1>3, <1>5 DEF IInv, TypeOK
<1>7. p.dst \in Ends /\ p.src \in Ends
  BY <1>0
<1>8. sent' = sent \cup {Frame(<<Relay, "port">>, a, p.src, p.dst) :
                            a \in {table'[p.dst]} \ {None}}
  BY DEF RelayReceives
<1>9. Grows
  BY <1>5, <1>8 DEF Grows, node
<1>10. Relayed(e, From(p))
  BY <1>1, <1>2 DEF Relayed
<1>11. TableOK'
  <2>1. ASSUME NEW d \in Ends, table'[d] # None PROVE Relayed(d, table'[d])
    BY <1>5, <1>10, <2>1 DEF IInv, TypeOK, Shape, TableOK
  <2>2. ASSUME NEW d \in Ends, table'[d] # None
        PROVE  \E v \in RelayUses :
                /\ table'[d] = Address(<<d, v>>, Server(Relay))'
                /\ \E q \in sent' : SentBy(q, d, v)
    BY <1>9, <2>1, <2>2, SameAddress DEF Grows, Relayed, Server
  <2>. QED
    BY <2>2 DEF TableOK, Relayed, SentBy, Server
<1>12. ASSUME NEW r \in sent' \ sent PROVE r \in Packets /\ PacketOK(r)'
  <2>1. PICK a : /\ a = table'[p.dst] /\ a # None
                 /\ r = Frame(<<Relay, "port">>, a, p.src, p.dst)
    BY <1>8, <1>12
  <2>2. a \in Once
    BY <1>6, <1>7, <2>1
  <2>3. r \in Packets
    BY <1>7, <2>1, <2>2, SocketTypes, PacketType DEF Kinds, Servers
  <2>4. Relayed(p.dst, a)'
    BY <1>7, <1>11, <2>1 DEF TableOK, Relayed
  <2>5. FrameOK(r)'
    BY <1>7, <2>1, <2>4 DEF FrameOK, Frame
  <2>. QED
    BY <2>1, <2>3, <2>5 DEF PacketOK, RequestOK, AnswerOK, ProbeOK, Frame
<1>13. sent' \subseteq Packets
  <2>1. sent \subseteq Packets
    BY DEF IInv, TypeOK, Packets, Kinds
  <2>. QED
    BY <1>12, <2>1
<1>14. TypeOK' /\ Early' /\ PunchSocket'
  BY <1>5, <1>6, <1>13
  DEF node, IInv, TypeOK, Packets, Kinds, Shape, Early, PunchSocket
<1>15. SentOK'
  BY <1>9, <1>12, NetworkKeeps DEF IInv, Shape
<1>. QED
  BY <1>5, <1>9, <1>11, <1>14, <1>15, CandidatesKeep, KeepsMappings, KeepsConfirmed
  DEF node, IInv, Shape

LEMMA RestartKeeps == ASSUME IInv, RelayRestarts PROVE IInv'
<1>1. /\ UNCHANGED <<nat, at, mapped, cand, punch, heard, sent>>
      /\ table' = [e \in Ends |-> None]
  BY DEF RelayRestarts, node
<1>2. TypeOK' /\ Grows /\ Early' /\ PunchSocket' /\ TableOK'
  BY <1>1 DEF IInv, TypeOK, Grows, Shape, Early, PunchSocket, TableOK
<1>3. SentOK'
  BY <1>1, <1>2, NetworkKeeps DEF IInv, Shape
<1>. QED
  BY <1>1, <1>2, <1>3, CandidatesKeep, KeepsMappings, KeepsConfirmed DEF IInv, Shape

LEMMA StutterKeeps == ASSUME IInv, UNCHANGED vars PROVE IInv'
<1>1. UNCHANGED <<nat, at, mapped, cand, punch, heard, sent, table>>
  BY DEF vars, node
<1>2. TypeOK' /\ Grows /\ Early' /\ PunchSocket'
  BY <1>1 DEF IInv, TypeOK, Grows, Shape, Early, PunchSocket
<1>3. SentOK'
  BY <1>1, <1>2, NetworkKeeps DEF IInv, Shape
<1>. QED
  BY <1>1, <1>2, <1>3, TableKeeps, CandidatesKeep, KeepsMappings, KeepsConfirmed
  DEF IInv, Shape

(***************************************************************************)
(* Theorems.                                                               *)
(***************************************************************************)
THEOREM Invariance == Spec => []IInv
<1>1. ASSUME IInv, [Next]_vars PROVE IInv'
  BY <1>1, StartKeeps, AnsweredKeeps, NoAnswerKeeps, HearKeeps, GiveUpKeeps,
     PunchKeeps, SendKeeps, ReceiveKeeps, RestartKeeps, StutterKeeps
  DEF Next
<1>. QED
  BY Initially, <1>1, PTL DEF Spec

\* Every variable has its type; addresses are nested at most twice.
THEOREM TypeCorrect == Spec => []TypeOK
BY Invariance, PTL DEF IInv

\* Whatever answers arrive late or twice, an exchange returns its own mapping.
THEOREM MappingsOwn == Spec => []OwnMapping
BY Invariance, PTL DEF IInv

\* Two answered exchanges always look like a symmetric NAT, whatever the NAT is.
THEOREM AnswersLookSymmetric == Spec => []AnsweredMeansSymmetric
<1>1. IInv => AnsweredMeansSymmetric
  <2>. SUFFICES ASSUME IInv, NEW e \in Ends,
                       mapped[e]["first"] # None, mapped[e]["second"] # None
                PROVE  NatType(e) = "Symmetric NAT"
    BY DEF AnsweredMeansSymmetric
  <2>. DEFINE a == mapped[e]["first"]
              b == mapped[e]["second"]
  <2>1. a.sock = <<e, "first">>
    BY AddressTypes, SocketTypes DEF IInv, OwnMapping, Exchanges
  <2>2. b.sock = <<e, "second">>
    BY AddressTypes, SocketTypes DEF IInv, OwnMapping, Exchanges
  <2>3. a # b
    BY <2>1, <2>2
  <2>. QED
    BY <2>3 DEF NatType, SameMapping
<1>. QED
  BY Invariance, <1>1, PTL

\* Where a punch says it was confirmed from, it can send to; and with the
\* candidates the harvester finds, no NAT is passed.
THEOREM PunchedWork == Spec => []PunchedEndpointsWork
<1>1. IInv => PunchedEndpointsWork
  BY DEF IInv, PunchedEndpointsWork
<1>. QED
  BY Invariance, <1>1, PTL

\* What the relay forwards goes to an address its node has sent from.
THEOREM ForwardedRight == Spec => []ForwardedToItsNode
<1>1. IInv => ForwardedToItsNode
  <2>. SUFFICES ASSUME IInv, NEW p \in sent, p.kind = "frame", p.sock = <<Relay, "port">>
                PROVE  /\ Host(p.to) = p.dst
                       /\ \E q \in sent : q.kind = "frame" /\ q.src = p.dst /\ From(q) = p.to
    BY DEF ForwardedToItsNode
  <2>1. FrameOK(p)
    BY DEF IInv, Shape, SentOK, PacketOK
  <2>2. p.dst \in Ends /\ Relayed(p.dst, p.to)
    BY <2>1, TraversalAssumption DEF FrameOK, SentBy, Servers
  <2>3. PICK u \in RelayUses, q \in sent :
            p.to = Address(<<p.dst, u>>, Server(Relay)) /\ SentBy(q, p.dst, u)
    BY <2>2 DEF Relayed
  <2>4. From(q) = p.to
    BY <2>3 DEF From, SentBy
  <2>5. Host(p.to) = p.dst
    BY <2>3 DEF Host, Address
  <2>. QED
    BY <2>3, <2>4, <2>5 DEF SentBy
<1>. QED
  BY Invariance, <1>1, PTL
==============================================================================
