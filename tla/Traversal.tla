------------------------------ MODULE Traversal ------------------------------
(***************************************************************************)
(* UDP through NATs: a node asks STUN servers for its mapped address       *)
(* (discovery/stun.py), classifies its NAT (nat.py), harvests candidate    *)
(* endpoints (endpoints.py), punches toward another node's candidates      *)
(* (peers.py) and falls back to the relay (relay/).                        *)
(*                                                                         *)
(* The network is the set of all datagrams sent so far.  A datagram in it  *)
(* can reach its destination at any later time, any number of times and in *)
(* any order, or never; it is dropped where no socket listens any more.    *)
(* Nodes behind one NAT share a LAN; private addresses of different LANs   *)
(* are taken to differ, and a socket's port not to be given out again.     *)
(***************************************************************************)
CONSTANTS
    Ends,       \* the nodes
    ConeNats,   \* NATs that map a socket to one address
    SymmetricNats,  \* NATs that map it to one address for each destination
    Open,       \* no NAT
    Stun,       \* stun.l.google.com
    Stun1,      \* stun1.l.google.com
    Relay,      \* the relay server
    RelayUses,  \* the packets a node may send through the relay
    AnyDest,    \* of an address: the mapping does not depend on the destination
    Lan,        \* of an address: it is the host's own, on the LAN behind its NAT
    None        \* no address, no node

Servers == {Stun, Stun1, Relay}

\* The calls of get_mapped_address: two of detect_nat_type, then the harvester's.
Exchanges == {"first", "second", "harvest"}

\* A socket is <<host, use>>: each use opens a socket, and so a port, of its own.
Uses == Exchanges \cup {"tunnel", "punch"} \cup RelayUses
Sockets == (Ends \X Uses) \cup (Servers \X {"port"})

\* An address is that of a socket: of its host, or a mapping.
Plain == [sock : Sockets, for : {AnyDest, Lan}]
Once == Plain \cup [sock : Sockets, for : Plain]
Twice == Plain \cup [sock : Sockets, for : Once]

ASSUME TraversalAssumption ==
    /\ Ends \cap Servers = {} /\ None \notin Ends \cup Sockets
    /\ Stun # Stun1 /\ Relay \notin {Stun, Stun1}
    /\ RelayUses \cap {"first", "second", "harvest", "tunnel", "punch"} = {}
    /\ ConeNats \cap SymmetricNats = {} /\ Open \notin ConeNats \cup SymmetricNats
    /\ AnyDest # Lan /\ Lan \notin Plain

VARIABLES
    nat,     \* the NAT a node is behind; never changes
    at,      \* what a node is doing
    mapped,  \* what its STUN exchanges returned
    cand,    \* the candidates of a node, as the controller has them
    punch,   \* the socket a node punches from, or None
    heard,   \* what punch_hole returned, or None
    sent,    \* the network
    table    \* relay: node_endpoints

node == <<at, mapped, cand, punch, heard>>
vars == <<nat, node, sent, table>>

(***************************************************************************)
(* NATs and LANs: the address a socket shows, and what reaches it.         *)
(***************************************************************************)
IsOpen(h) == h \in Ends => nat[h] = Open
SameLan(g, h) == {g, h} \subseteq Ends /\ nat[g] = nat[h] /\ nat[g] # Open

\* The address that datagrams from s to dest come from: on the LAN the socket's
\* own, elsewhere its mapping, for all destinations or for one.
Address(s, dest) ==
    [sock |-> s,
     for |-> IF dest.for = Lan THEN Lan
             ELSE IF s[1] \in Ends /\ nat[s[1]] \in SymmetricNats THEN dest
             ELSE AnyDest]

Server(h) == [sock |-> <<h, "port">>, for |-> AnyDest]

Datagram(s, dest, kind) ==
    [sock |-> s, to |-> dest, kind |-> kind, src |-> None, dst |-> None]

\* A frame of the relay protocol names the node that sends it and the one it is
\* for, by their ids.
Frame(s, dest, src, dst) ==
    [sock |-> s, to |-> dest, kind |-> "frame", src |-> src, dst |-> dst]

From(p) == Address(p.sock, p.to)

\* Seeded fault: one socket for all requests.
OneSocket(e, x) == <<e, "first">>

SocketFor(e, x) == <<e, x>>

\* A node's socket is open during its exchange or while it punches from it.
Listening(s) ==
    \/ s[1] \in Servers
    \/ \E e \in Ends : at[e] \in Exchanges /\ s = SocketFor(e, at[e])
    \/ \E e \in Ends : at[e] = "punching" /\ s = punch[e]

\* A LAN delivers what is sent on it.  A NAT lets in, to one of its mappings,
\* what comes from where the socket has sent: it keeps the entry for the few
\* seconds that the socket is open.
Arrives(p, s) ==
    /\ p.to = Address(s, From(p))
    /\ IF p.to.for = Lan
       THEN SameLan(p.sock[1], s[1])
       ELSE IsOpen(s[1]) \/ \E q \in sent : q.sock = s /\ q.to = From(p)

Reaches(p, s) == Listening(s) /\ Arrives(p, s)

TypeOK ==
    /\ nat \in [Ends -> {Open} \cup ConeNats \cup SymmetricNats]
    /\ at \in [Ends -> {"start", "ready", "punching", "done"} \cup Exchanges]
    /\ mapped \in [Ends -> [Exchanges -> Once \cup {None}]]
    /\ cand \in [Ends -> SUBSET Once]
    /\ punch \in [Ends -> Sockets \cup {None}]
    /\ heard \in [Ends -> Twice \cup {None}]
    /\ \A e \in Ends : punch[e] = None => heard[e] = None
    /\ sent \subseteq [sock : Sockets, to : Once, src : Ends \cup {None},
                       dst : Ends \cup {None},
                       kind : {"request", "answer", "probe", "frame"}]
    /\ table \in [Ends -> Once \cup {None}]

Init ==
    /\ nat \in [Ends -> {Open} \cup ConeNats \cup SymmetricNats]
    /\ at = [e \in Ends |-> "start"]
    /\ mapped = [e \in Ends |-> [x \in Exchanges |-> None]]
    /\ cand = [e \in Ends |-> {}]
    /\ punch = [e \in Ends |-> None] /\ heard = [e \in Ends |-> None]
    /\ sent = {}
    /\ table = [e \in Ends |-> None]

(***************************************************************************)
(* STUN and candidates.                                                    *)
(***************************************************************************)
ServerOf(x) == Server(IF x = "second" THEN Stun1 ELSE Stun)

\* Exchange x of e begins.  The server answers with the address it sees.
Ask(e, x) ==
    LET request == Datagram(SocketFor(e, x), ServerOf(x), "request")
    IN  /\ at' = [at EXCEPT ![e] = x]
        /\ sent' = sent \cup
                {request, Datagram(ServerOf(x).sock, From(request), "answer")}

\* Seeded fault: a candidate without its port.
BareHost(e) == e

\* A candidate that is the host's own address, with the port of WireGuard: behind
\* a NAT it leads there on the LAN only.
LocalAddress(e) ==
    [sock |-> <<e, "tunnel">>, for |-> IF nat[e] = Open THEN AnyDest ELSE Lan]

\* The host's name may have no address but 127.*, and then there is no such
\* candidate.
Return(e, a) ==
    /\ mapped' = [mapped EXCEPT ![e][at[e]] = a]
    /\ IF at[e] = "harvest"
       THEN /\ at' = [at EXCEPT ![e] = "ready"]
            /\ \E local \in {{}, {LocalAddress(e)}} :
                    cand' = [cand EXCEPT ![e] = local \cup ({a} \ {None})]
            /\ UNCHANGED sent
       ELSE /\ Ask(e, IF at[e] = "first" /\ a # None THEN "second" ELSE "harvest")
            /\ UNCHANGED cand
    /\ UNCHANGED <<nat, punch, heard, table>>

StartDaemon(e) ==
    /\ at[e] = "start"
    /\ Ask(e, "first")
    /\ UNCHANGED <<nat, mapped, cand, punch, heard, table>>

\* The first datagram that comes in is taken for the answer; its content is the
\* address it was sent to.
Answered(e) ==
    /\ at[e] \in Exchanges
    /\ \E p \in sent : p.kind = "answer" /\ Reaches(p, SocketFor(e, at[e])) /\ Return(e, p.to)

NoAnswer(e) == at[e] \in Exchanges /\ Return(e, None)

Host(a) == a.sock[1]

\* Seeded fault: the ports are not compared.
SameHost(a, b) == Host(a) = Host(b)

SameMapping(a, b) == a = b

\* detect_nat_type, once its exchanges have returned.
NatType(e) ==
    LET a == mapped[e]["first"]  b == mapped[e]["second"]
    IN  CASE a = None -> "UDP Blocked"
          [] a # None /\ b = None -> "Restricted Cone NAT"
          [] a # None /\ b # None /\ SameMapping(a, b) -> "Full Cone NAT"
          [] OTHER -> "Symmetric NAT"

(***************************************************************************)
(* Hole punching.                                                          *)
(***************************************************************************)
\* e punches toward peer.  Binding the tunnel's port fails when it is in use,
\* and then any free port is used.  Later bursts send the same datagrams again.
PunchHole(e, peer) ==
    /\ at[e] = "ready"
    /\ IF cand[peer] = {}
       THEN at' = [at EXCEPT ![e] = "done"] /\ UNCHANGED <<punch, sent>>
       ELSE \E use \in {"tunnel", "punch"} :
            /\ at' = [at EXCEPT ![e] = "punching"]
            /\ punch' = [punch EXCEPT ![e] = <<e, use>>]
            /\ sent' = sent \cup {Datagram(<<e, use>>, c, "probe") : c \in cand[peer]}
    /\ UNCHANGED <<nat, mapped, cand, heard, table>>

\* Seeded fault: the candidate of the sender is returned, not its address.
HearCandidate(e) ==
    /\ at[e] = "punching"
    /\ \E p \in sent, c \in UNION {cand[f] : f \in Ends} :
        /\ p.kind = "probe" /\ Reaches(p, punch[e]) /\ Host(c) = Host(From(p))
        /\ heard' = [heard EXCEPT ![e] = c]
    /\ at' = [at EXCEPT ![e] = "done"]
    /\ UNCHANGED <<nat, mapped, cand, punch, sent, table>>

\* The first probe, whoever sent it, ends the bursts.
HearProbe(e) ==
    /\ at[e] = "punching"
    /\ \E p \in sent :
        /\ p.kind = "probe" /\ Reaches(p, punch[e])
        /\ heard' = [heard EXCEPT ![e] = From(p)]
    /\ at' = [at EXCEPT ![e] = "done"]
    /\ UNCHANGED <<nat, mapped, cand, punch, sent, table>>

GiveUp(e) ==
    /\ at[e] = "punching"
    /\ at' = [at EXCEPT ![e] = "done"]
    /\ UNCHANGED <<nat, mapped, cand, punch, heard, sent, table>>

(***************************************************************************)
(* The relay, for a node whose punching failed.                            *)
(***************************************************************************)
\* RelayClient: a socket for each packet, closed at once.
SendRelayed(e, dst, use) ==
    /\ at[e] = "done" /\ heard[e] = None
    /\ \A p \in sent : p.sock # <<e, use>>
    /\ sent' = sent \cup {Frame(<<e, use>>, Server(Relay), e, dst)}
    /\ UNCHANGED <<nat, node, table>>

\* Seeded fault: the destination is given the sender's address.
LearnDestination(p) == [table EXCEPT ![p.dst] = From(p)]

\* The sender is whom the frame says it is.
Learn(p) == [table EXCEPT ![p.src] = From(p)]

RelayReceives(p) ==
    /\ p.kind = "frame" /\ Reaches(p, <<Relay, "port">>)
    /\ table' = Learn(p)
    /\ sent' = sent \cup
            {Frame(<<Relay, "port">>, a, p.src, p.dst) : a \in {table'[p.dst]} \ {None}}
    /\ UNCHANGED <<nat, node>>

RelayRestarts ==
    /\ table' = [e \in Ends |-> None]
    /\ UNCHANGED <<nat, node, sent>>

Next ==
    \/ \E e \in Ends : StartDaemon(e) \/ Answered(e) \/ NoAnswer(e) \/ HearProbe(e) \/ GiveUp(e)
    \/ \E e \in Ends : \E peer \in Ends \ {e} :
            PunchHole(e, peer) \/ \E use \in RelayUses : SendRelayed(e, peer, use)
    \/ \E p \in sent : RelayReceives(p)
    \/ RelayRestarts

Spec == Init /\ [][Next]_vars

(***************************************************************************)
(* Properties.                                                             *)
(***************************************************************************)
\* An exchange returns the mapping of its own socket toward the server it asked,
\* however late or often earlier answers arrive, although the transaction id is
\* never compared (stun.py:58-82).
OwnMapping ==
    \A e \in Ends, x \in Exchanges :
        mapped[e][x] # None => mapped[e][x] = Address(<<e, x>>, ServerOf(x))

\* A node that gets both answers is told that its NAT is symmetric, whatever NAT
\* it is behind, if any: each question comes from a socket, and so from a port,
\* of its own.  "Full Cone NAT" is never found (nat.py:33-42; stun.py:53-54).
AnsweredMeansSymmetric ==
    \A e \in Ends : (mapped[e]["first"] # None /\ mapped[e]["second"] # None)
                        => NatType(e) = "Symmetric NAT"

\* An endpoint punch_hole returns is where another node punches from, and as long
\* as that node punches, it is reached there from the same port: what is sent
\* passes both NATs, although the first probe of anybody is believed
\* (peers.py:42-49, 68-70).
ConfirmedWorksBothWays ==
    \A e \in Ends : heard[e] # None =>
        \E f \in Ends \ {e} :
            /\ punch[f] # None
            /\ Arrives(Datagram(punch[e], heard[e], "probe"), punch[f])

\* No NAT is ever passed by punching: behind one, only a neighbour on the LAN is
\* heard, since the public port that the others are told is that of the
\* harvester's socket, which is closed (endpoints.py:31-37).
NoHoleIsPunched ==
    \A e \in Ends : (heard[e] # None /\ nat[e] # Open) => heard[e].for = Lan

\* What an endpoint that punch_hole returned is worth.
PunchedEndpointsWork == ConfirmedWorksBothWays /\ NoHoleIsPunched

\* The relay forwards a frame only to an address from which the node it is for
\* has sent one, though nodes use a new address for each frame, frames arrive
\* late or again, and the relay may have restarted (server.py:27-36).
ForwardedToItsNode ==
    \A p \in sent : (p.kind = "frame" /\ p.sock = <<Relay, "port">>) =>
        /\ Host(p.to) = p.dst
        /\ \E q \in sent : q.kind = "frame" /\ q.src = p.dst /\ From(q) = p.to
==============================================================================
