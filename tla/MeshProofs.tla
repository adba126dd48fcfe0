------------------------------ MODULE MeshProofs ------------------------------
(***************************************************************************)
(* Theorems about Mesh, for any nodes, daemons, addresses and prefixes.    *)
(***************************************************************************)
EXTENDS Mesh, TLAPS

Peered(c) == {p \in NodeIds : c.peers[p] # Absent}

\* What dns_records may be for configuration c, when hn gives the nodes their names.
Named(hn, c, h) == {p \in Peered(c) : hn[p] = h}

RecordsOf(hn, c) ==
    {r \in [Hostnames -> Maybe(V4s)] : \A h \in Hostnames :
        IF Named(hn, c, h) = {} THEN r[h] = Absent
        ELSE \E p \in Named(hn, c, h) : r[h] = c.peers[p].v4}

\* Table k delivers the IPv4 addresses of the peers in P to those peers.
Reached(c, k, P) == \A p \in P : k[c.peers[p].v4] = p

\* Table k delivers what the records r give for a hostname to a node called so.
Leads(hn, k, r) ==
    \A h \in Hostnames : r[h] # Absent => k[r[h]] \in NodeIds /\ hn[k[r[h]]] = h

\* How the state of a daemon fits together: phase p, configuration c, peers t
\* to be set, done parts s, the kernel's table k, and the records n and h.
Consistent(hn, p, c, t, s, k, n, h) ==
    /\ p \in {"peers", "routes", "reply"} \cup Applying => c \in Configs
    /\ p \in {"routes", "reply"} \cup Applying => Book!Injective(c.peers)
    /\ p \in Applying => "routes" \notin s
    /\ p \in {"wg", "dns", "hosts"} => "hosts" \notin s
    /\ p = "wg" => "wg" \notin s /\ t \subseteq Peered(c) /\ Reached(c, k, Peered(c) \ t)
    /\ (p \in {"dns", "hosts", "kroutes"} /\ "wg" \in s) => Reached(c, k, Peered(c))
    /\ p \in {"hosts", "kroutes"} => n \in RecordsOf(hn, c)
    /\ (p = "kroutes" /\ "hosts" \in s) => h \in RecordsOf(hn, c)
    /\ (p \notin Applying /\ "wg" \in s)
          => Leads(hn, k, n) /\ ("hosts" \in s => Leads(hn, k, h))

Settled(d) ==
    Consistent(hostname, phase[d], cfg[d], todo[d], ok[d], key[d], dns[d], hosts[d])

IInv == TypeOK /\ Book!Injective(book) /\ \A d \in Daemons : Settled(d)

(***************************************************************************)
(* The kernel's table and the records.                                     *)
(***************************************************************************)
LEMMA IpsAreDestinations ==
    ASSUME NEW a \in Addresses
    PROVE  Ips(a) \subseteq Destinations /\ a.v4 \in V4s
BY DEF Ips, Destinations, V4s, V6s

LEMMA TableType ==
    ASSUME NEW k \in [Destinations -> Maybe(NodeIds)], NEW p \in NodeIds, NEW ips
    PROVE  SetAllowed(k, p, ips) \in [Destinations -> Maybe(NodeIds)]
BY DEF SetAllowed, Maybe

\* Setting peer p keeps the addresses of the other peers where they are.
LEMMA SettingReaches ==
    ASSUME NEW c \in Configs, Book!Injective(c.peers),
           NEW k \in [Destinations -> Maybe(NodeIds)],
           NEW t \in SUBSET Peered(c), NEW p \in t,
           Reached(c, k, Peered(c) \ t)
    PROVE  Reached(c, SetAllowed(k, p, AllowedIps(c, p)), Peered(c) \ (t \ {p}))
<1>. DEFINE ips == AllowedIps(c, p)
<1>1. p \in NodeIds /\ c.peers[p] \in Addresses /\ c.peers[p] # Absent
  BY DEF Peered, Configs, Maybe
<1>2. c.peers[p].v4 \in ips
  BY DEF AllowedIps, Ips
<1>3. ASSUME NEW q \in Peered(c) \ t
      PROVE  SetAllowed(k, p, ips)[c.peers[q].v4] = q
  <2>1. q \in NodeIds /\ c.peers[q] \in Addresses /\ c.peers[q] # Absent /\ q # p
    BY DEF Peered, Configs, Maybe
  <2>2. c.peers[q].v4 \in V4s /\ c.peers[q].v4 \in Destinations
    BY <2>1 DEF V4s, Destinations
  <2>3. c.peers[q].v4 # c.peers[p].v4
    BY <1>1, <2>1 DEF Book!Injective, Book!Clash
  <2>4. c.peers[p].v6 \in V6s
    BY <1>1 DEF V6s
  <2>5. {r.prefix : r \in {s \in c.routes : s.via = p}} \subseteq Prefixes
    BY DEF Configs, RouteRows
  <2>6. c.peers[q].v4 \notin ips
    BY <2>2, <2>3, <2>4, <2>5, MeshAssumption DEF AllowedIps, Ips
  <2>7. k[c.peers[q].v4] = q
    BY DEF Reached
  <2>. QED
    BY <2>1, <2>2, <2>6, <2>7 DEF SetAllowed
<1>4. SetAllowed(k, p, ips)[c.peers[p].v4] = p
  <2>1. c.peers[p].v4 \in Destinations
    BY <1>1 DEF V4s, Destinations
  <2>. QED
    BY <1>2, <2>1 DEF SetAllowed
<1>. QED
  BY <1>3, <1>4 DEF Reached

\* Records of peers that are reached lead to them.
LEMMA ReachedLeads ==
    ASSUME NEW hn, NEW c \in Configs, NEW k, Reached(c, k, Peered(c)),
           NEW r \in RecordsOf(hn, c)
    PROVE  Leads(hn, k, r)
<1>. SUFFICES ASSUME NEW h \in Hostnames, r[h] # Absent
              PROVE  k[r[h]] \in NodeIds /\ hn[k[r[h]]] = h
  BY DEF Leads
<1>1. PICK p \in Named(hn, c, h) : r[h] = c.peers[p].v4
  BY DEF RecordsOf
<1>2. p \in Peered(c) /\ p \in NodeIds /\ hn[p] = h
  BY DEF Named, Peered
<1>. QED
  BY <1>1, <1>2 DEF Reached

\* What is left of records when lines are lost has the type of records.
LEMMA TornType ==
    ASSUME NEW r \in [Hostnames -> Maybe(V4s)], NEW S
    PROVE  [h \in Hostnames |-> IF h \in S THEN r[h] ELSE Absent]
              \in [Hostnames -> Maybe(V4s)]
BY DEF Maybe

LEMMA TornKeepsType ==
    ASSUME TypeOK, NEW d \in Daemons, TornHosts(d)
    PROVE  /\ hosts' \in [Daemons -> [Hostnames -> Maybe(V4s)]]
           /\ \A e \in Daemons \ {d} : hosts'[e] = hosts[e]
<1>1. dns[d] \in [Hostnames -> Maybe(V4s)]
  BY DEF TypeOK
<1>2. PICK S \in SUBSET Hostnames :
        hosts' = [hosts EXCEPT ![d] =
                     [h \in Hostnames |-> IF h \in S THEN dns[d][h] ELSE Absent]]
  BY DEF TornHosts
<1>. DEFINE torn == [h \in Hostnames |-> IF h \in S THEN dns[d][h] ELSE Absent]
<1>3. torn \in [Hostnames -> Maybe(V4s)]
  BY <1>1, TornType
<1>4. hosts' = [hosts EXCEPT ![d] = torn]
  BY <1>2
<1>. HIDE DEF torn
<1>. QED
  BY <1>3, <1>4 DEF TypeOK

(***************************************************************************)
(* The controller's tables.                                                *)
(***************************************************************************)
LEMMA AssignKeepsBook ==
    ASSUME IInv, NEW n \in NodeIds, Book!Assign(n)
    PROVE  book' \in [NodeIds -> Maybe(Addresses)] /\ Book!Injective(book')
<1>1. PICK a \in Addresses :
        /\ book' = [book EXCEPT ![n] = a]
        /\ \A x \in Book!Holders : ~Book!Clash(a, book[x])
  BY DEF Book!Assign
<1>2. book \in [NodeIds -> Maybe(Addresses)]
  BY DEF IInv, TypeOK
<1>3. book' \in [NodeIds -> Maybe(Addresses)]
  BY <1>1, <1>2 DEF Maybe
<1>4. ASSUME NEW x \in NodeIds, NEW y \in NodeIds, x # y,
             book'[x] # Absent, book'[y] # Absent
      PROVE  ~Book!Clash(book'[x], book'[y])
  BY <1>1, <1>2, <1>4 DEF IInv, Book!Injective, Book!Holders, Book!Clash
<1>. QED
  BY <1>3, <1>4 DEF Book!Injective

LEMMA ReleaseKeepsBook ==
    ASSUME IInv, NEW n \in NodeIds, Book!Release(n)
    PROVE  book' \in [NodeIds -> Maybe(Addresses)] /\ Book!Injective(book')
<1>1. book' = [book EXCEPT ![n] = Absent] /\ book \in [NodeIds -> Maybe(Addresses)]
  BY DEF Book!Release, IInv, TypeOK
<1>2. book' \in [NodeIds -> Maybe(Addresses)]
  BY <1>1 DEF Maybe
<1>3. ASSUME NEW x \in NodeIds, NEW y \in NodeIds, x # y,
             book'[x] # Absent, book'[y] # Absent
      PROVE  ~Book!Clash(book'[x], book'[y])
  BY <1>1, <1>3 DEF IInv, Book!Injective
<1>. QED
  BY <1>2, <1>3 DEF Book!Injective

LEMMA RenumberKeepsBook ==
    ASSUME Book!Renumber
    PROVE  book' \in [NodeIds -> Maybe(Addresses)] /\ Book!Injective(book')
BY DEF Book!Renumber, Maybe

\* What no handler of the controller touches: the daemons.
LEMMA ChangeKeeps ==
    ASSUME IInv, Change,
           book' \in [NodeIds -> Maybe(Addresses)], Book!Injective(book'),
           routes' \in SUBSET RouteRows,
           phase' \in [Daemons -> {"new", "off"} \cup Running],
           \A d \in Daemons : phase'[d] = phase[d] \/ (phase[d] = "new" /\ phase'[d] = "off")
    PROVE  IInv'
<1>1. TypeOK'
  <2>1. changes' \in 0 .. MaxChanges
    BY MeshAssumption DEF Change, IInv, TypeOK
  <2>. QED
    BY <2>1 DEF Change, IInv, TypeOK, given, kernel, names
<1>2. ASSUME NEW d \in Daemons PROVE Settled(d)'
  <2>1. Settled(d) /\ UNCHANGED <<hostname, cfg, todo, ok, key, dns, hosts>>
    BY DEF IInv, Change, given, kernel, names
  <2>2. CASE phase'[d] = phase[d]
    BY <2>1, <2>2 DEF Settled
  <2>3. CASE phase[d] = "new" /\ phase'[d] = "off"
    BY <2>1, <2>3 DEF Settled, Consistent, Applying
  <2>. QED
    BY <2>2, <2>3
<1>. QED
  BY <1>1, <1>2 DEF IInv

(***************************************************************************)
(* A daemon's steps.  Only its own state changes.                          *)
(***************************************************************************)
Others(d) == \A e \in Daemons \ {d} :
    /\ phase'[e] = phase[e] /\ cfg'[e] = cfg[e] /\ todo'[e] = todo[e]
    /\ ok'[e] = ok[e] /\ key'[e] = key[e]
    /\ dns'[e] = dns[e] /\ hosts'[e] = hosts[e]

LEMMA DaemonSteps ==
    ASSUME IInv, TypeOK', UNCHANGED <<hostname, book>>, NEW d \in Daemons, Others(d), Settled(d)'
    PROVE  IInv'
<1>1. ASSUME NEW e \in Daemons \ {d} PROVE Settled(e)'
  BY DEF IInv, Settled, Others
<1>. QED
  BY <1>1 DEF IInv

LEMMA StartKeeps ==
    ASSUME IInv, NEW d \in Daemons, Start(d) \/ Heartbeat(d) \/ NoTarget(d)
    PROVE  IInv'
<1>. USE DEF Start, Heartbeat, NoTarget, Goto, In, control, given, kernel, names, bounds
<1>1. TypeOK'
  BY DEF IInv, TypeOK, Running, Reading
<1>2. Others(d)
  BY DEF IInv, TypeOK, Others
<1>3. phase'[d] \in {"idle", "target"} /\ phase[d] \in {"off", "idle", "target"}
  BY DEF IInv, TypeOK
<1>4. Settled(d)'
  BY <1>3 DEF IInv, Settled, Consistent, Applying
<1>. QED
  BY <1>1, <1>2, <1>4, DaemonSteps

LEMMA TargetKeeps ==
    ASSUME IInv, NEW d \in Daemons, SelectTarget(d)
    PROVE  IInv'
<1>. USE DEF SelectTarget, Goto, In, control, given, kernel, names, bounds
<1>. DEFINE c == [own |-> book[d], peers |-> NoPeers, routes |-> {}]
<1>1. c \in Configs
  BY MeshAssumption DEF IInv, TypeOK, Configs, Maybe, NoPeers
<1>2. TypeOK'
  BY <1>1 DEF IInv, TypeOK, Running, Reading
<1>3. Others(d)
  BY DEF IInv, TypeOK, Others
<1>4. phase'[d] = "peers" /\ phase[d] = "target" /\ cfg'[d] = c
  BY DEF IInv, TypeOK
<1>5. Settled(d)'
  BY <1>1, <1>4 DEF IInv, Settled, Consistent, Applying
<1>. QED
  BY <1>2, <1>3, <1>5, DaemonSteps

LEMMA PeersKeeps ==
    ASSUME IInv, NEW d \in Daemons, SelectPeers(d)
    PROVE  IInv'
<1>. USE DEF SelectPeers, Goto, In, control, given, kernel, names, bounds
<1>. DEFINE c == [cfg[d] EXCEPT !.peers = [book EXCEPT ![d] = Absent]]
<1>1. cfg[d] \in Configs
  BY DEF IInv, Settled, Consistent
<1>2. [book EXCEPT ![d] = Absent] \in [NodeIds -> Maybe(Addresses)]
  BY DEF IInv, TypeOK, Maybe
<1>3. c \in Configs /\ c.peers = [book EXCEPT ![d] = Absent]
  BY <1>1, <1>2 DEF Configs
<1>4. Book!Injective(c.peers)
  BY <1>3, MeshAssumption DEF IInv, TypeOK, Book!Injective, Book!Clash
<1>5. cfg' = [cfg EXCEPT ![d] = c]
  BY DEF IInv, TypeOK
<1>6. TypeOK'
  BY <1>3, <1>5 DEF IInv, TypeOK, Running, Reading
<1>7. Others(d)
  BY <1>5 DEF IInv, TypeOK, Others
<1>8. phase'[d] = "routes" /\ phase[d] = "peers" /\ cfg'[d] = c
  BY <1>5 DEF IInv, TypeOK
<1>9. Settled(d)'
  BY <1>3, <1>4, <1>8 DEF IInv, Settled, Consistent, Applying
<1>. QED
  BY <1>6, <1>7, <1>9, DaemonSteps

LEMMA RoutesKeeps ==
    ASSUME IInv, NEW d \in Daemons, SelectRoutes(d)
    PROVE  IInv'
<1>. USE DEF SelectRoutes, Goto, In, control, given, kernel, names, bounds
<1>. DEFINE c == [cfg[d] EXCEPT !.routes = routes]
<1>1. cfg[d] \in Configs /\ Book!Injective(cfg[d].peers)
  BY DEF IInv, Settled, Consistent
<1>2. c \in Configs /\ c.peers = cfg[d].peers
  BY <1>1 DEF Configs, IInv, TypeOK
<1>3. cfg' = [cfg EXCEPT ![d] = c]
  BY DEF IInv, TypeOK
<1>4. TypeOK'
  BY <1>2, <1>3 DEF IInv, TypeOK, Running, Reading
<1>5. Others(d)
  BY <1>3 DEF IInv, TypeOK, Others
<1>6. phase'[d] = "reply" /\ phase[d] = "routes" /\ cfg'[d] = c
  BY <1>3 DEF IInv, TypeOK
<1>7. Settled(d)'
  BY <1>1, <1>2, <1>6 DEF IInv, Settled, Consistent, Applying
<1>. QED
  BY <1>4, <1>5, <1>7, DaemonSteps

\* Whatever addresses could be added, and with nothing done before in this turn.
LEMMA AssignKeeps ==
    ASSUME IInv, NEW d \in Daemons, NEW added \in SUBSET Ips(cfg[d].own),
           Assign(d, added), NEW done \in {{}, {"addr"}}, ok' = [ok EXCEPT ![d] = done],
           faults' \in 0 .. MaxFaults
    PROVE  IInv'
<1>. USE DEF Assign, Goto, In, control, given, names
<1>1. cfg[d] \in Configs /\ Book!Injective(cfg[d].peers)
  BY DEF IInv, Settled, Consistent
<1>2. added \subseteq V4s \cup V6s
  BY <1>1 DEF Configs, Ips, V4s, V6s
<1>3. ConfigPeers(d) = Peered(cfg[d]) /\ ConfigPeers(d) \subseteq NodeIds
  BY DEF ConfigPeers, Peered
<1>4. TypeOK'
  BY <1>2, <1>3 DEF IInv, TypeOK, Running, Applying, Parts
<1>5. Others(d)
  BY DEF IInv, TypeOK, Others
<1>6. /\ phase'[d] = "wg" /\ cfg'[d] = cfg[d]
      /\ todo'[d] = Peered(cfg[d]) /\ ok'[d] = done
  BY <1>3 DEF IInv, TypeOK
<1>7. Settled(d)'
  BY <1>1, <1>6 DEF Settled, Consistent, Applying, Reached
<1>. QED
  BY <1>4, <1>5, <1>7, DaemonSteps

LEMMA FaultBounds ==
    ASSUME IInv, Fault
    PROVE  changes' = changes /\ faults' \in 0 .. MaxFaults /\ UNCHANGED <<given, book, routes>>
BY MeshAssumption DEF Fault, IInv, TypeOK, control

LEMMA AddressesKeeps ==
    ASSUME IInv, NEW d \in Daemons, AssignAddresses(d) \/ AssignAddressesFails(d)
    PROVE  IInv'
<1>1. CASE AssignAddresses(d)
  BY <1>1, AssignKeeps DEF AssignAddresses, IInv, TypeOK
<1>2. CASE AssignAddressesFails(d)
  BY <1>2, AssignKeeps, FaultBounds DEF AssignAddressesFails
<1>. QED
  BY <1>1, <1>2

LEMMA PeerKeeps ==
    ASSUME IInv, NEW d \in Daemons, SetPeer(d)
    PROVE  IInv'
<1>. USE DEF In, control, given, names, bounds
<1>1. PICK p \in todo[d] :
        /\ key' = [key EXCEPT ![d] = SetAllowed(@, p, AllowedIps(cfg[d], p))]
        /\ peers' = [peers EXCEPT ![d] = @ \cup {p}]
        /\ todo' = [todo EXCEPT ![d] = @ \ {p}]
  BY DEF SetPeer
<1>2. phase[d] = "wg" /\ UNCHANGED <<control, phase, cfg, ok, iface, kroutes, names, bounds>>
  BY DEF SetPeer
<1>3. /\ cfg[d] \in Configs /\ Book!Injective(cfg[d].peers) /\ "wg" \notin ok[d]
      /\ "routes" \notin ok[d] /\ "hosts" \notin ok[d]
      /\ todo[d] \in SUBSET Peered(cfg[d])
      /\ Reached(cfg[d], key[d], Peered(cfg[d]) \ todo[d])
  BY <1>2 DEF IInv, Settled, Consistent, Applying
<1>4. key[d] \in [Destinations -> Maybe(NodeIds)] /\ p \in NodeIds
  BY DEF IInv, TypeOK
<1>. DEFINE k == SetAllowed(key[d], p, AllowedIps(cfg[d], p))
<1>5. k \in [Destinations -> Maybe(NodeIds)]
  BY <1>4, TableType
<1>6. key' = [key EXCEPT ![d] = k]
  BY <1>1 DEF IInv, TypeOK
<1>7. TypeOK'
  BY <1>1, <1>2, <1>4, <1>5, <1>6 DEF IInv, TypeOK
<1>8. Others(d)
  BY <1>1, <1>2, <1>6 DEF IInv, TypeOK, Others
<1>9. Reached(cfg[d], k, Peered(cfg[d]) \ (todo[d] \ {p}))
  BY <1>3, <1>4, SettingReaches
<1>10. key'[d] = k /\ todo'[d] = todo[d] \ {p}
  BY <1>1, <1>6 DEF IInv, TypeOK
<1>11. Settled(d)'
  BY <1>2, <1>3, <1>9, <1>10 DEF Settled, Consistent, Applying
<1>. QED
  BY <1>2, <1>7, <1>8, <1>11, DaemonSteps

LEMMA PeersDoneKeeps ==
    ASSUME IInv, NEW d \in Daemons, SyncPeersDone(d)
    PROVE  IInv'
<1>. USE DEF SyncPeersDone, Done, Goto, In, control, given, kernel, names, bounds
<1>1. TypeOK'
  BY DEF IInv, TypeOK, Running, Applying, Parts
<1>2. Others(d)
  BY DEF IInv, TypeOK, Others
<1>3. /\ cfg[d] \in Configs /\ Book!Injective(cfg[d].peers)
      /\ Reached(cfg[d], key[d], Peered(cfg[d]) \ {})
      /\ "routes" \notin ok[d] /\ "hosts" \notin ok[d]
  BY DEF IInv, Settled, Consistent, Applying
<1>4. Reached(cfg[d], key[d], Peered(cfg[d]))
  BY <1>3 DEF Reached
<1>5. phase'[d] = "dns" /\ ok'[d] = ok[d] \cup {"wg"}
  BY DEF IInv, TypeOK
<1>6. Settled(d)'
  BY <1>3, <1>4, <1>5 DEF Settled, Consistent, Applying
<1>. QED
  BY <1>1, <1>2, <1>6, DaemonSteps

\* When the peers were not all set, nothing is claimed of the names.
LEMMA PeersFailKeeps ==
    ASSUME IInv, NEW d \in Daemons, SyncPeersFails(d)
    PROVE  IInv'
<1>. USE DEF SyncPeersFails, Goto, In, control, given, kernel, names
<1>1. changes' = changes /\ faults' \in 0 .. MaxFaults /\ UNCHANGED <<given, book, routes>>
  BY FaultBounds
<1>2. TypeOK'
  BY <1>1 DEF IInv, TypeOK, Running, Applying
<1>3. Others(d)
  BY DEF IInv, TypeOK, Others
<1>4. /\ cfg[d] \in Configs /\ Book!Injective(cfg[d].peers) /\ "wg" \notin ok[d]
      /\ "routes" \notin ok[d] /\ "hosts" \notin ok[d]
  BY DEF IInv, Settled, Consistent, Applying
<1>5. phase'[d] = "dns"
  BY DEF IInv, TypeOK
<1>6. Settled(d)'
  BY <1>4, <1>5 DEF Settled, Consistent, Applying
<1>. QED
  BY <1>1, <1>2, <1>3, <1>6, DaemonSteps

LEMMA ConfigRecordsAre ==
    ASSUME NEW d \in Daemons
    PROVE  ConfigRecords(d) = RecordsOf(hostname, cfg[d])
<1>1. \A h \in Hostnames : ConfigPeers(d) \cap NodesNamed(h) = Named(hostname, cfg[d], h)
  BY DEF ConfigPeers, NodesNamed, Named, Peered
<1>. QED
  BY <1>1 DEF ConfigRecords, RecordsOf

LEMMA RecordsKeeps ==
    ASSUME IInv, NEW d \in Daemons, UpdateRecords(d)
    PROVE  IInv'
<1>. USE DEF UpdateRecords, Goto, In, control, given, kernel, bounds
<1>1. /\ cfg[d] \in Configs /\ Book!Injective(cfg[d].peers)
      /\ "routes" \notin ok[d] /\ "hosts" \notin ok[d]
      /\ "wg" \in ok[d] => Reached(cfg[d], key[d], Peered(cfg[d]))
  BY DEF IInv, Settled, Consistent, Applying
<1>2. PICK r \in RecordsOf(hostname, cfg[d]) : dns' = [dns EXCEPT ![d] = r]
  BY ConfigRecordsAre
<1>3. r \in [Hostnames -> Maybe(V4s)]
  BY DEF RecordsOf
<1>4. TypeOK'
  BY <1>2, <1>3 DEF IInv, TypeOK, Running, Applying
<1>5. Others(d)
  BY <1>2 DEF IInv, TypeOK, Others
<1>6. phase'[d] = "hosts" /\ dns'[d] = r
  BY <1>2 DEF IInv, TypeOK
<1>7. Settled(d)'
  BY <1>1, <1>6 DEF Settled, Consistent, Applying
<1>. QED
  BY <1>4, <1>5, <1>7, DaemonSteps

\* What holds while /etc/hosts is to be written.
LEMMA BeforeHosts ==
    ASSUME IInv, NEW d \in Daemons, In(d, "hosts")
    PROVE  /\ cfg[d] \in Configs /\ Book!Injective(cfg[d].peers)
           /\ "routes" \notin ok[d] /\ "hosts" \notin ok[d]
           /\ "wg" \in ok[d] => Reached(cfg[d], key[d], Peered(cfg[d]))
           /\ dns[d] \in RecordsOf(hostname, cfg[d])
           /\ dns[d] \in [Hostnames -> Maybe(V4s)]
BY DEF IInv, TypeOK, In, Settled, Consistent, Applying

LEMMA HostsKeeps ==
    ASSUME IInv, NEW d \in Daemons, SyncHosts(d)
    PROVE  IInv'
<1>. USE DEF SyncHosts, Done, Goto, control, given, kernel, bounds
<1>1. hosts' = [hosts EXCEPT ![d] = dns[d]] /\ dns' = dns
  OBVIOUS
<1>2. TypeOK'
  BY BeforeHosts DEF IInv, TypeOK, Running, Applying, Parts
<1>3. Others(d)
  BY DEF IInv, TypeOK, Others
<1>4. phase'[d] = "kroutes" /\ hosts'[d] = dns[d] /\ ok'[d] = ok[d] \cup {"hosts"}
  BY DEF IInv, TypeOK
<1>5. Settled(d)'
  BY <1>4, BeforeHosts DEF Settled, Consistent, Applying
<1>. QED
  BY <1>2, <1>3, <1>5, DaemonSteps

\* When /etc/hosts was not written, nothing is claimed of it.
LEMMA HostsNotKeeps ==
    ASSUME IInv, NEW d \in Daemons, HostsDenied(d) \/ SyncHostsFails(d)
    PROVE  IInv'
<1>. USE DEF Goto, control, given, kernel, names
<1>1. /\ In(d, "hosts") /\ phase' = [phase EXCEPT ![d] = "kroutes"]
      /\ UNCHANGED <<hostname, readonly, book, routes, cfg, todo, ok, iface, peers, key, kroutes,
                     dns, changes>>
  BY FaultBounds DEF HostsDenied, SyncHostsFails, bounds
<1>2. /\ hosts' \in [Daemons -> [Hostnames -> Maybe(V4s)]]
      /\ \A e \in Daemons \ {d} : hosts'[e] = hosts[e]
  BY TornKeepsType DEF HostsDenied, SyncHostsFails, IInv, TypeOK
<1>3. faults' \in 0 .. MaxFaults
  BY FaultBounds DEF HostsDenied, SyncHostsFails, bounds, IInv, TypeOK
<1>4. TypeOK'
  BY <1>1, <1>2, <1>3 DEF IInv, TypeOK, Running, Applying
<1>5. Others(d)
  BY <1>1, <1>2 DEF IInv, TypeOK, Others
<1>6. phase'[d] = "kroutes"
  BY <1>1 DEF IInv, TypeOK
<1>7. Settled(d)'
  BY <1>1, <1>6, BeforeHosts DEF Settled, Consistent, Applying
<1>. QED
  BY <1>1, <1>4, <1>5, <1>7, DaemonSteps

\* The turn ends, and the names become visible.
LEMMA SubnetsKeep ==
    ASSUME IInv, NEW d \in Daemons, AddSubnetRoutes(d) \/ AddSubnetRoutesFails(d)
    PROVE  IInv'
<1>. USE DEF AddRoutes, Goto, In, control, given, names
<1>1. PICK added \in SUBSET Through(d) : AddRoutes(d, added)
  BY DEF AddSubnetRoutes, AddSubnetRoutesFails
<1>2. /\ cfg[d] \in Configs
      /\ "wg" \in ok[d] => Reached(cfg[d], key[d], Peered(cfg[d]))
      /\ dns[d] \in RecordsOf(hostname, cfg[d])
      /\ "hosts" \in ok[d] => hosts[d] \in RecordsOf(hostname, cfg[d])
  BY <1>1 DEF IInv, Settled, Consistent, Applying
<1>3. added \subseteq Prefixes
  BY <1>2 DEF Configs, RouteRows, Through
<1>4. PICK done \in {{}, {"routes"}} : ok' = [ok EXCEPT ![d] = ok[d] \cup done]
  <2>1. CASE AddSubnetRoutes(d)
    BY <2>1 DEF AddSubnetRoutes, Done
  <2>2. CASE AddSubnetRoutesFails(d)
    <3>1. ok' = [ok EXCEPT ![d] = ok[d] \cup {}]
      BY <2>2 DEF AddSubnetRoutesFails, IInv, TypeOK
    <3>. QED
      BY <3>1
  <2>. QED
    BY <2>1, <2>2
<1>5. faults' \in 0 .. MaxFaults
  BY FaultBounds DEF AddSubnetRoutes, AddSubnetRoutesFails, IInv, TypeOK
<1>6. TypeOK'
  BY <1>1, <1>3, <1>4, <1>5 DEF IInv, TypeOK, Running, Parts
<1>7. Others(d)
  BY <1>1, <1>4 DEF IInv, TypeOK, Others
<1>8. /\ phase'[d] = "idle" /\ ok'[d] = ok[d] \cup done
      /\ UNCHANGED <<hostname, book, key, dns, hosts>>
  BY <1>1, <1>4 DEF IInv, TypeOK
<1>9. "wg" \in ok[d] => /\ Leads(hostname, key[d], dns[d])
                        /\ "hosts" \in ok[d] => Leads(hostname, key[d], hosts[d])
  BY <1>2, ReachedLeads
<1>10. Settled(d)'
  BY <1>8, <1>9 DEF Settled, Consistent, Applying
<1>. QED
  BY <1>6, <1>7, <1>8, <1>10, DaemonSteps

LEMMA LossKeeps ==
    ASSUME IInv, NEW d \in Daemons, LoseRequest(d)
    PROVE  IInv'
<1>. USE DEF LoseRequest, Goto, In, control, given, kernel, names
<1>1. changes' = changes /\ faults' \in 0 .. MaxFaults /\ UNCHANGED <<given, book, routes>>
  BY FaultBounds
<1>2. TypeOK'
  BY <1>1 DEF IInv, TypeOK, Running
<1>3. Others(d)
  BY DEF IInv, TypeOK, Others
<1>4. phase'[d] = "idle" /\ phase[d] \in Reading
  BY DEF IInv, TypeOK
<1>5. "wg" \in ok[d] => /\ Leads(hostname, key[d], dns[d])
                        /\ "hosts" \in ok[d] => Leads(hostname, key[d], hosts[d])
  BY <1>4 DEF IInv, Settled, Consistent, Applying, Reading
<1>6. UNCHANGED <<hostname, key, dns, hosts, ok>>
  BY <1>1
<1>7. Settled(d)'
  BY <1>4, <1>5, <1>6 DEF Settled, Consistent, Applying
<1>. QED
  BY <1>1, <1>2, <1>3, <1>7, DaemonSteps

LEMMA NoTables ==
    /\ NoRecords \in [Hostnames -> Maybe(V4s)]
    /\ NoKeys \in [Destinations -> Maybe(NodeIds)]
BY DEF NoRecords, NoKeys, Maybe

\* The process ends: nothing is done for the next one.
LEMMA DownKeeps ==
    ASSUME IInv, NEW d \in Daemons, Stop(d) \/ Crash(d) \/ Reboot(d)
    PROVE  IInv'
<1>. USE DEF Goto, In, control, given
<1>1. Down(d)
  BY DEF Stop, Crash, Reboot
<1>2. /\ changes' = changes /\ faults' \in 0 .. MaxFaults
      /\ UNCHANGED <<hostname, readonly, book, routes>>
  BY <1>1, FaultBounds DEF Down, given
<1>3. /\ iface' \in {iface, [iface EXCEPT ![d] = @ \ V6s], [iface EXCEPT ![d] = {}]}
      /\ peers' \in {peers, [peers EXCEPT ![d] = {}]}
      /\ key' \in {key, [key EXCEPT ![d] = NoKeys]}
      /\ kroutes' \in {kroutes, [kroutes EXCEPT ![d] = {}]}
  BY DEF Stop, Crash, Reboot, kernel
<1>4. /\ hosts' \in [Daemons -> [Hostnames -> Maybe(V4s)]]
      /\ \A e \in Daemons \ {d} : hosts'[e] = hosts[e]
  <2>1. CASE hosts' = hosts \/ hosts' = [hosts EXCEPT ![d] = NoRecords]
    BY <2>1, NoTables DEF IInv, TypeOK
  <2>2. CASE TornHosts(d)
    BY <2>2, TornKeepsType DEF IInv
  <2>. QED
    BY <2>1, <2>2 DEF Stop, Crash, Reboot, HostsSurvive
<1>5. TypeOK'
  <2>1. hosts' \in [Daemons -> [Hostnames -> Maybe(V4s)]]
    BY <1>4
  <2>2. iface' \in [Daemons -> SUBSET (V4s \cup V6s)]
    <3>1. iface \in [Daemons -> SUBSET (V4s \cup V6s)]
      BY DEF IInv, TypeOK
    <3>2. ASSUME NEW f \in SUBSET (V4s \cup V6s)
          PROVE  [iface EXCEPT ![d] = f] \in [Daemons -> SUBSET (V4s \cup V6s)]
      BY <3>1
    <3>3. iface[d] \ V6s \in SUBSET (V4s \cup V6s)
      BY <3>1
    <3>4. /\ [iface EXCEPT ![d] = iface[d] \ V6s] \in [Daemons -> SUBSET (V4s \cup V6s)]
          /\ [iface EXCEPT ![d] = {}] \in [Daemons -> SUBSET (V4s \cup V6s)]
      BY <3>2, <3>3
    <3>. QED
      BY <1>3, <3>1, <3>4
  <2>3. /\ peers' \in [Daemons -> SUBSET NodeIds]
        /\ kroutes' \in [Daemons -> SUBSET Prefixes]
    BY <1>3 DEF IInv, TypeOK
  <2>4. key' \in [Daemons -> [Destinations -> Maybe(NodeIds)]]
    BY <1>3, NoTables DEF IInv, TypeOK
  <2>. QED
    BY <1>1, <1>2, <2>1, <2>2, <2>3, <2>4, NoTables DEF Down, IInv, TypeOK
<1>6. Others(d)
  BY <1>1, <1>3, <1>4 DEF Down, IInv, TypeOK, Others
<1>7. phase'[d] = "off" /\ ok'[d] = {}
  BY <1>1 DEF Down, IInv, TypeOK
<1>8. Settled(d)'
  BY <1>7 DEF Settled, Consistent, Applying
<1>. QED
  BY <1>2, <1>5, <1>6, <1>8, DaemonSteps

(***************************************************************************)
(* The theorems.                                                           *)
(***************************************************************************)
LEMMA Initially == Init => IInv
<1>. SUFFICES ASSUME Init PROVE IInv
  OBVIOUS
<1>1. TypeOK
  BY NoTables, MeshAssumption DEF Init, Book!Init, TypeOK, Maybe
<1>2. Book!Injective(book)
  BY DEF Init, Book!Init, Book!Injective
<1>3. ASSUME NEW d \in Daemons PROVE Settled(d)
  BY DEF Init, Settled, Consistent, Applying
<1>. QED
  BY <1>1, <1>2, <1>3 DEF IInv

LEMMA TablesKeep ==
    ASSUME IInv,
           \/ \E n \in NodeIds : Join(n) \/ Leave(n)
           \/ Reallocate \/ AddRoute \/ RemoveRoute
    PROVE  IInv'
<1>1. ASSUME NEW n \in NodeIds, Join(n) PROVE IInv'
  <2>1. phase' \in [Daemons -> {"new", "off"} \cup Running]
    BY <1>1 DEF Join, IInv, TypeOK
  <2>2. \A d \in Daemons : phase'[d] = phase[d] \/ (phase[d] = "new" /\ phase'[d] = "off")
    BY <1>1 DEF Join
  <2>3. routes' \in SUBSET RouteRows
    BY <1>1 DEF Join, IInv, TypeOK
  <2>. QED
    BY <1>1, <2>1, <2>2, <2>3, AssignKeepsBook, ChangeKeeps DEF Join
<1>2. ASSUME NEW n \in NodeIds, Leave(n) PROVE IInv'
  <2>1. routes' \in SUBSET RouteRows /\ phase' = phase
    BY <1>2 DEF Leave, IInv, TypeOK
  <2>. QED
    BY <1>2, <2>1, ReleaseKeepsBook, ChangeKeeps DEF Leave, IInv, TypeOK
<1>3. ASSUME Reallocate PROVE IInv'
  <2>1. routes' \in SUBSET RouteRows /\ phase' = phase
    BY <1>3 DEF Reallocate, IInv, TypeOK
  <2>. QED
    BY <1>3, <2>1, RenumberKeepsBook, ChangeKeeps DEF Reallocate, IInv, TypeOK
<1>4. ASSUME AddRoute \/ RemoveRoute PROVE IInv'
  <2>1. routes' \in SUBSET RouteRows /\ UNCHANGED <<book, phase>> /\ Change
    BY <1>4 DEF AddRoute, RemoveRoute, IInv, TypeOK
  <2>. QED
    BY <2>1, ChangeKeeps DEF IInv, TypeOK
<1>. QED
  BY <1>1, <1>2, <1>3, <1>4

LEMMA Stutter == ASSUME IInv, UNCHANGED vars PROVE IInv'
<1>1. TypeOK' /\ UNCHANGED book
  BY DEF IInv, TypeOK, vars, control, given, kernel, names, bounds
<1>2. ASSUME NEW d \in Daemons PROVE Settled(d)'
  BY DEF IInv, Settled, vars, control, given, kernel, names, bounds
<1>. QED
  BY <1>1, <1>2 DEF IInv

\* Names and tunnels fit at every step of every daemon.
THEOREM Invariance == Spec => []IInv
<1>1. IInv /\ [Next]_vars => IInv'
  <2>. SUFFICES ASSUME IInv, Next PROVE IInv'
    BY Stutter
  <2>1. CASE \/ \E n \in NodeIds : Join(n) \/ Leave(n)
             \/ Reallocate \/ AddRoute \/ RemoveRoute
    BY <2>1, TablesKeep
  <2>2. ASSUME NEW d \in Daemons, Start(d) \/ Sync(d) PROVE IInv'
    BY <2>2, StartKeeps, TargetKeeps, PeersKeeps, RoutesKeeps, AddressesKeeps, PeerKeeps,
       PeersDoneKeeps, RecordsKeeps, HostsKeeps, HostsNotKeeps, SubnetsKeep DEF Sync
  <2>3. ASSUME NEW d \in Daemons, Faulty(d) PROVE IInv'
    BY <2>3, LossKeeps, AddressesKeeps, PeersFailKeeps, HostsNotKeeps, SubnetsKeep,
       DownKeeps DEF Faulty
  <2>. QED
    BY <2>1, <2>2, <2>3 DEF Next
<1>. QED
  BY <1>1, Initially, PTL DEF Spec

\* Every variable has its type: the steps of the daemon's loop find the
\* configuration they need (lifecycle.py:77-151).
THEOREM TypeCorrect == Spec => []TypeOK
BY Invariance, PTL DEF IInv

\* For any number of nodes and daemons and any hostnames, shared or not, whatever was
\* re-allocated, deleted, lost or failed before: after a sync_peers that succeeded a
\* name of Magic DNS leads to an address that the tunnel delivers to a node of that
\* name, and a name of an /etc/hosts that was written does too (lifecycle.py:136-144).
THEOREM NamesReach == Spec => []NamesReachTheirNodes
<1>1. IInv => NamesReachTheirNodes
  <2>. SUFFICES ASSUME IInv, NEW d \in Daemons, NEW h \in Hostnames,
                       Visible(d), "wg" \in ok[d]
                PROVE  /\ dns[d][h] # Absent => key[d][dns[d][h]] \in NodesNamed(h)
                       /\ ("hosts" \in ok[d] /\ hosts[d][h] # Absent)
                             => key[d][hosts[d][h]] \in NodesNamed(h)
    BY DEF NamesReachTheirNodes
  <2>1. /\ Leads(hostname, key[d], dns[d])
        /\ "hosts" \in ok[d] => Leads(hostname, key[d], hosts[d])
    BY DEF IInv, Settled, Consistent, Visible
  <2>. QED
    BY <2>1 DEF Leads, NodesNamed
<1>. QED
  BY <1>1, Invariance, PTL

(***************************************************************************)
(* One turn is enough.                                                     *)
(***************************************************************************)
\* No other route of configuration c is for the prefix of r.
Only(c, r) == \A s \in c.routes : s.prefix = r.prefix => s = r

\* Table k delivers all that belongs to peer p to p.
Delivers(c, k, p) ==
    /\ \A x \in Ips(c.peers[p]) : k[x] = p
    /\ \A r \in c.routes : (r.via = p /\ Only(c, r)) => k[r.prefix] = p

AllSet(c, k, i, P) == P \subseteq i /\ \A p \in P : Delivers(c, k, p)

\* What a daemon in phase p that has done parts s has applied of configuration c: the
\* addresses a of the interface, its peers i and the kernel's table k, while peers t
\* are to be set.
Half(p, c, t, s, a, i, k) ==
    /\ (p \in Applying /\ "addr" \in s) => Ips(c.own) \subseteq a
    /\ p = "wg" => AllSet(c, k, i, Peered(c) \ t)
    /\ (p \in {"dns", "hosts", "kroutes"} /\ "wg" \in s) => AllSet(c, k, i, Peered(c))

HalfApplied(d) ==
    Half(phase[d], cfg[d], todo[d], ok[d], iface[d], peers[d], key[d])

TurnInv == IInv /\ \A d \in Daemons : HalfApplied(d)

\* Setting peer p gives it what is its own and takes nothing from peer q.
LEMMA SettingDelivers ==
    ASSUME NEW c \in Configs, Book!Injective(c.peers),
           NEW k \in [Destinations -> Maybe(NodeIds)],
           NEW p \in Peered(c), NEW q \in Peered(c), q = p \/ Delivers(c, k, q)
    PROVE  Delivers(c, SetAllowed(k, p, AllowedIps(c, p)), q)
<1>. DEFINE ips == AllowedIps(c, p)
<1>1. /\ p \in NodeIds /\ c.peers[p] \in Addresses /\ c.peers[p] # Absent
      /\ q \in NodeIds /\ c.peers[q] \in Addresses /\ c.peers[q] # Absent
  BY DEF Peered, Configs, Maybe
<1>2. c.routes \subseteq RouteRows
  BY DEF Configs
<1>3. /\ Ips(c.peers[q]) \subseteq Destinations
      /\ \A r \in c.routes : r.prefix \in Destinations /\ r.prefix \in Prefixes
  BY <1>1, <1>2, IpsAreDestinations DEF Destinations, RouteRows
<1>4. CASE q = p
  <2>1. /\ \A x \in Ips(c.peers[p]) : x \in ips
        /\ \A r \in c.routes : r.via = p => r.prefix \in ips
    BY DEF AllowedIps
  <2>. QED
    BY <1>3, <1>4, <2>1 DEF Delivers, SetAllowed
<1>5. CASE q # p
  <2>1. /\ c.peers[q].v4 # c.peers[p].v4 /\ c.peers[q].v6 # c.peers[p].v6
    BY <1>1, <1>5 DEF Book!Injective, Book!Clash
  <2>2. /\ c.peers[q].v4 \in V4s /\ c.peers[p].v4 \in V4s
        /\ c.peers[q].v6 \in V6s /\ c.peers[p].v6 \in V6s
    BY <1>1 DEF V4s, V6s
  <2>3. \A x \in Ips(c.peers[q]) : x \notin ips
    BY <1>3, <2>1, <2>2, MeshAssumption DEF AllowedIps, Ips
  <2>4. \A r \in c.routes : (r.via = q /\ Only(c, r)) => r.prefix \notin ips
    BY <1>3, <1>5, <2>2, MeshAssumption DEF AllowedIps, Ips, Only
  <2>5. Delivers(c, k, q)
    BY <1>5
  <2>. QED
    BY <1>3, <1>5, <2>3, <2>4, <2>5 DEF Delivers, SetAllowed
<1>. QED
  BY <1>4, <1>5

\* Nothing of daemon d that HalfApplied speaks of changes.
Still(d) ==
    /\ phase'[d] = phase[d] /\ cfg'[d] = cfg[d] /\ todo'[d] = todo[d]
    /\ ok'[d] = ok[d] /\ iface'[d] = iface[d]
    /\ peers'[d] = peers[d] /\ key'[d] = key[d]

LEMMA StillHalf ==
    ASSUME TurnInv, NEW d \in Daemons, Still(d) PROVE HalfApplied(d)'
BY DEF TurnInv, HalfApplied, Still

LEMMA OthersStill ==
    ASSUME TypeOK, NEW d \in Daemons, NEW e \in Daemons \ {d},
           Start(e) \/ Sync(e) \/ Faulty(e)
    PROVE  Still(d)
<1>. USE DEF Still, Goto, TypeOK, kernel
<1>1. CASE Start(e) \/ Heartbeat(e) \/ NoTarget(e) \/ SelectTarget(e)
           \/ SelectPeers(e) \/ SelectRoutes(e)
  BY <1>1 DEF Start, Heartbeat, NoTarget, SelectTarget, SelectPeers, SelectRoutes
<1>2. CASE \/ AssignAddresses(e) \/ AssignAddressesFails(e)
           \/ SetPeer(e) \/ SyncPeersDone(e)
  BY <1>2 DEF AssignAddresses, AssignAddressesFails, Assign, SetPeer, SyncPeersDone, Done
<1>3. CASE \/ UpdateRecords(e) \/ SyncHosts(e) \/ HostsDenied(e) \/ SyncHostsFails(e)
           \/ AddSubnetRoutes(e) \/ AddSubnetRoutesFails(e)
  BY <1>3 DEF UpdateRecords, SyncHosts, HostsDenied, SyncHostsFails, AddSubnetRoutes,
     AddSubnetRoutesFails, AddRoutes, Done
<1>4. CASE LoseRequest(e) \/ SyncPeersFails(e)
  BY <1>4 DEF LoseRequest, SyncPeersFails
<1>5. CASE Stop(e) \/ Crash(e) \/ Reboot(e)
  BY <1>5 DEF Stop, Crash, Reboot, Down
<1>. QED
  BY <1>1, <1>2, <1>3, <1>4, <1>5 DEF Sync, Faulty

\* Outside the phases that apply a configuration nothing is claimed.
LEMMA NothingApplied ==
    ASSUME NEW d \in Daemons, phase'[d] \notin Applying PROVE HalfApplied(d)'
BY DEF HalfApplied, Half, Applying

LEMMA SyncHalf ==
    ASSUME TurnInv, NEW d \in Daemons, Start(d) \/ Sync(d) PROVE HalfApplied(d)'
<1>. TypeOK /\ HalfApplied(d) /\ Settled(d)
  BY DEF TurnInv, IInv
<1>1. CASE Start(d) \/ Heartbeat(d) \/ NoTarget(d) \/ SelectTarget(d)
           \/ SelectPeers(d) \/ SelectRoutes(d) \/ AddSubnetRoutes(d)
  <2>1. phase'[d] \in {"idle", "target", "peers", "routes", "reply"}
    BY <1>1 DEF Start, Heartbeat, NoTarget, SelectTarget, SelectPeers, SelectRoutes,
       AddSubnetRoutes, AddRoutes, Goto, TypeOK
  <2>. QED
    BY <2>1, NothingApplied DEF Applying
<1>2. CASE AssignAddresses(d)
  <2>1. /\ phase'[d] = "wg" /\ cfg'[d] = cfg[d] /\ todo'[d] = Peered(cfg[d])
        /\ iface'[d] = iface[d] \cup Ips(cfg[d].own)
    BY <1>2 DEF AssignAddresses, Assign, Goto, TypeOK, ConfigPeers, Peered
  <2>. QED
    BY <2>1 DEF HalfApplied, Half, AllSet
<1>3. CASE SetPeer(d)
  <2>1. PICK p \in todo[d] :
          /\ key' = [key EXCEPT ![d] = SetAllowed(@, p, AllowedIps(cfg[d], p))]
          /\ peers' = [peers EXCEPT ![d] = @ \cup {p}]
          /\ todo' = [todo EXCEPT ![d] = @ \ {p}]
    BY <1>3 DEF SetPeer
  <2>2. phase[d] = "wg" /\ UNCHANGED <<phase, cfg, ok, iface>>
    BY <1>3 DEF SetPeer, In
  <2>3. /\ cfg[d] \in Configs /\ Book!Injective(cfg[d].peers)
        /\ todo[d] \subseteq Peered(cfg[d])
    BY <2>2 DEF Settled, Consistent, Applying
  <2>4. key[d] \in [Destinations -> Maybe(NodeIds)]
    BY DEF TypeOK
  <2>. DEFINE k == SetAllowed(key[d], p, AllowedIps(cfg[d], p))
  <2>5. key'[d] = k /\ peers'[d] = peers[d] \cup {p} /\ todo'[d] = todo[d] \ {p}
    BY <2>1 DEF TypeOK
  <2>6. AllSet(cfg[d], key[d], peers[d], Peered(cfg[d]) \ todo[d])
    BY <2>2 DEF HalfApplied, Half
  <2>7. ASSUME NEW q \in Peered(cfg[d]) \ (todo[d] \ {p})
        PROVE  q \in peers[d] \cup {p} /\ Delivers(cfg[d], k, q)
    <3>1. q = p \/ (q \in peers[d] /\ Delivers(cfg[d], key[d], q))
      BY <2>6 DEF AllSet
    <3>. QED
      BY <2>3, <2>4, <3>1, SettingDelivers
  <2>8. AllSet(cfg[d], k, peers[d] \cup {p}, Peered(cfg[d]) \ (todo[d] \ {p}))
    BY <2>7 DEF AllSet
  <2>. HIDE DEF k
  <2>. QED
    BY <2>2, <2>5, <2>8 DEF HalfApplied, Half
<1>4. CASE SyncPeersDone(d)
  <2>1. /\ phase[d] = "wg" /\ todo[d] = {} /\ phase'[d] = "dns"
        /\ ok'[d] = ok[d] \cup {"wg"} /\ UNCHANGED <<cfg, iface, peers, key>>
    BY <1>4 DEF SyncPeersDone, Done, Goto, In, TypeOK, kernel
  <2>2. AllSet(cfg[d], key[d], peers[d], Peered(cfg[d]))
    BY <2>1 DEF HalfApplied, Half, AllSet
  <2>. QED
    BY <2>1, <2>2 DEF HalfApplied, Half, Applying
<1>5. CASE UpdateRecords(d) \/ SyncHosts(d) \/ HostsDenied(d)
  <2>1. /\ phase[d] \in {"dns", "hosts"} /\ phase'[d] \in {"hosts", "kroutes"}
        /\ ok'[d] \in {ok[d], ok[d] \cup {"hosts"}}
        /\ UNCHANGED <<cfg, iface, peers, key>>
    BY <1>5 DEF UpdateRecords, SyncHosts, HostsDenied, Done, Goto, In, TypeOK, kernel
  <2>. QED
    BY <2>1 DEF HalfApplied, Half, Applying
<1>. QED
  BY <1>1, <1>2, <1>3, <1>4, <1>5 DEF Sync

LEMMA FaultHalf ==
    ASSUME TurnInv, NEW d \in Daemons, Faulty(d) PROVE HalfApplied(d)'
<1>. TypeOK /\ HalfApplied(d) /\ Settled(d)
  BY DEF TurnInv, IInv
<1>1. CASE LoseRequest(d) \/ AddSubnetRoutesFails(d) \/ Stop(d) \/ Crash(d) \/ Reboot(d)
  <2>1. phase'[d] \in {"idle", "off"}
    BY <1>1 DEF LoseRequest, AddSubnetRoutesFails, AddRoutes, Stop, Crash, Reboot, Down,
       Goto, TypeOK
  <2>. QED
    BY <2>1, NothingApplied DEF Applying
<1>2. CASE SyncPeersFails(d)
  <2>1. /\ phase[d] = "wg" /\ phase'[d] = "dns"
        /\ UNCHANGED <<cfg, ok, iface, peers, key>>
    BY <1>2 DEF SyncPeersFails, Goto, In, TypeOK, kernel
  <2>2. "wg" \notin ok[d]
    BY <2>1 DEF Settled, Consistent
  <2>. QED
    BY <2>1, <2>2 DEF HalfApplied, Half, Applying
<1>3. CASE AssignAddressesFails(d)
  <2>1. /\ phase'[d] = "wg" /\ cfg'[d] = cfg[d] /\ todo'[d] = Peered(cfg[d]) /\ ok'[d] = {}
    BY <1>3 DEF AssignAddressesFails, Assign, Goto, TypeOK, ConfigPeers, Peered
  <2>. QED
    BY <2>1 DEF HalfApplied, Half, AllSet
<1>4. CASE SyncHostsFails(d)
  <2>1. /\ phase[d] = "hosts" /\ phase'[d] = "kroutes"
        /\ UNCHANGED <<cfg, ok, iface, peers, key>>
    BY <1>4 DEF SyncHostsFails, Goto, In, TypeOK, kernel
  <2>. QED
    BY <2>1 DEF HalfApplied, Half, Applying
<1>. QED
  BY <1>1, <1>2, <1>3, <1>4 DEF Faulty

LEMMA TurnStep ==
    ASSUME TurnInv, [Next]_vars, NEW d \in Daemons PROVE HalfApplied(d)'
<1>. TypeOK
  BY DEF TurnInv, IInv
<1>1. CASE UNCHANGED vars
  BY <1>1, StillHalf DEF vars, kernel, Still
<1>2. ASSUME Change, phase'[d] = phase[d] \/ phase'[d] = "off" PROVE HalfApplied(d)'
  <2>1. CASE phase'[d] = phase[d]
    BY <1>2, <2>1, StillHalf DEF Change, kernel, Still
  <2>2. CASE phase'[d] = "off"
    BY <2>2, NothingApplied DEF Applying
  <2>. QED
    BY <1>2, <2>1, <2>2
<1>3. CASE \/ \E n \in NodeIds : Join(n) \/ Leave(n)
           \/ Reallocate \/ AddRoute \/ RemoveRoute
  BY <1>2, <1>3 DEF Join, Leave, Reallocate, AddRoute, RemoveRoute
<1>4. ASSUME NEW e \in Daemons, Start(e) \/ Sync(e) \/ Faulty(e) PROVE HalfApplied(d)'
  <2>1. CASE e = d
    BY <1>4, <2>1, SyncHalf, FaultHalf
  <2>2. CASE e # d
    BY <1>4, <2>2, OthersStill, StillHalf
  <2>. QED
    BY <2>1, <2>2
<1>. QED
  BY <1>1, <1>3, <1>4 DEF Next

THEOREM TurnInvariance == Spec => []TurnInv
<1>1. Init => \A d \in Daemons : HalfApplied(d)
  BY DEF Init, HalfApplied, Half, Applying
<1>2. TurnInv /\ IInv' /\ [Next]_vars => TurnInv'
  BY TurnStep DEF TurnInv
<1>. QED
  BY <1>1, <1>2, Initially, Invariance, PTL DEF Spec, TurnInv

\* Records for configuration c agree with the tables that c was read from.
LEMMA RecordsAgree ==
    ASSUME TypeOK, NEW d \in Daemons, UpToDate(d), NEW r \in RecordsOf(hostname, cfg[d])
    PROVE  RecordsInStep(d, r)
<1>1. cfg[d].peers = [book EXCEPT ![d] = Absent]
  BY DEF UpToDate
<1>2. Peered(cfg[d]) = Registered \ {d}
  BY <1>1, MeshAssumption DEF Peered, Registered, TypeOK
<1>3. ASSUME NEW h \in Hostnames
      PROVE  (Registered \ {d}) \cap NodesNamed(h) = Named(hostname, cfg[d], h)
  BY <1>2 DEF NodesNamed, Named, Peered
<1>4. ASSUME NEW h \in Hostnames, NEW p \in Named(hostname, cfg[d], h)
      PROVE  cfg[d].peers[p].v4 = book[p].v4
  BY <1>1, <1>3, <1>4 DEF Registered, TypeOK
<1>. QED
  BY <1>3, <1>4 DEF RecordsInStep, RecordsOf

\* The end of a turn with the configuration of the tables.
LEMMA TurnEnds ==
    ASSUME TurnInv, [Next]_vars, ~UNCHANGED vars, NEW d \in Daemons,
           In(d, "kroutes"), phase'[d] = "idle", UpToDate(d)
    PROVE  DoneInStep(d)'
<1>. TypeOK /\ HalfApplied(d) /\ Settled(d)
  BY DEF TurnInv, IInv
<1>. DEFINE c == cfg[d]
<1>1. AddSubnetRoutes(d) \/ AddSubnetRoutesFails(d)
  <2>1. ASSUME NEW e \in Daemons \ {d}, Start(e) \/ Sync(e) \/ Faulty(e) PROVE FALSE
    BY <2>1, OthersStill DEF Still, In
  <2>2. ~(\/ \E n \in NodeIds : Join(n) \/ Leave(n)
          \/ Reallocate \/ AddRoute \/ RemoveRoute)
    BY DEF Join, Leave, Reallocate, AddRoute, RemoveRoute, In
  <2>3. Faulty(d) => AddSubnetRoutesFails(d)
    BY DEF Faulty, LoseRequest, AssignAddressesFails, Assign, SyncPeersFails,
       SyncHostsFails, Stop, Crash, Reboot, Down, Goto, In, TypeOK, Reading
  <2>4. Start(d) \/ Sync(d) \/ AddSubnetRoutesFails(d)
    BY <2>1, <2>2, <2>3 DEF Next
  <2>. QED
    BY <2>4 DEF Sync, Start, Heartbeat, NoTarget, SelectTarget, SelectPeers,
       SelectRoutes, AssignAddresses, Assign, SetPeer, SyncPeersDone, UpdateRecords,
       SyncHosts, HostsDenied, In
<1>2. UNCHANGED <<hostname, book, routes, iface, peers, key, dns, hosts>>
  BY <1>1 DEF AddSubnetRoutes, AddSubnetRoutesFails, AddRoutes, control, given, names
<1>3. /\ ok'[d] \subseteq ok[d] \cup {"routes"}
      /\ "routes" \in ok'[d] => Through(d) \subseteq kroutes'[d]
  <2>1. "routes" \notin ok[d]
    BY DEF Settled, Consistent, Applying, In
  <2>2. CASE AddSubnetRoutes(d)
    BY <2>2 DEF AddSubnetRoutes, AddRoutes, Done, TypeOK
  <2>3. CASE AddSubnetRoutesFails(d)
    BY <2>1, <2>3 DEF AddSubnetRoutesFails
  <2>. QED
    BY <1>1, <2>2, <2>3
<1>4. c.own = book[d] /\ c.peers = [book EXCEPT ![d] = Absent] /\ c.routes = routes
  BY DEF UpToDate
<1>5. /\ c \in Configs /\ dns[d] \in RecordsOf(hostname, c)
      /\ "hosts" \in ok[d] => hosts[d] \in RecordsOf(hostname, c)
  BY DEF Settled, Consistent, Applying, In
<1>6. /\ "addr" \in ok[d] => Ips(c.own) \subseteq iface[d]
      /\ "wg" \in ok[d] => AllSet(c, key[d], peers[d], Peered(c))
  BY DEF HalfApplied, Half, Applying, In
<1>7. d \in NodeIds /\ book[d] \in Addresses /\ book[d] # Absent
  BY <1>4, <1>5, MeshAssumption DEF Configs
<1>8. /\ RecordsInStep(d, dns[d])
      /\ "hosts" \in ok[d] => RecordsInStep(d, hosts[d])
  BY <1>5, RecordsAgree
<1>9. "wg" \in ok[d] => TunnelsInStep(d)
  <2>. SUFFICES ASSUME AllSet(c, key[d], peers[d], Peered(c)) PROVE TunnelsInStep(d)
    BY <1>6
  <2>. HIDE DEF c
  <2>1. ASSUME NEW p \in Registered \ {d}
        PROVE  /\ p \in peers[d] /\ \A x \in Ips(book[p]) : key[d][x] = p
               /\ p \in Peered(c)
    <3>1. c.peers[p] = book[p] /\ p \in Peered(c)
      BY <1>4 DEF Peered, TypeOK, Registered
    <3>. QED
      BY <3>1 DEF AllSet, Delivers
  <2>2. ASSUME NEW r \in routes, r.via \in Registered \ {d},
               \A s \in routes : s.prefix = r.prefix => s = r
        PROVE  key[d][r.prefix] = r.via
    BY <1>4, <2>1, <2>2 DEF AllSet, Delivers, Only
  <2>. QED
    BY <2>1, <2>2 DEF TunnelsInStep
<1>10. "routes" \in ok'[d] => \A r \in routes : r.via # d => r.prefix \in kroutes'[d]
  BY <1>3, <1>4 DEF Through
<1>11. "addr" \in ok[d] => AddressInStep(d)
  BY <1>4, <1>6 DEF AddressInStep
<1>. HIDE DEF c
<1>12. /\ Registered' = Registered /\ d \in Registered
       /\ AddressInStep(d)' <=> AddressInStep(d)
       /\ TunnelsInStep(d)' <=> TunnelsInStep(d)
       /\ RecordsInStep(d, dns[d])' <=> RecordsInStep(d, dns[d])
       /\ RecordsInStep(d, hosts[d])' <=> RecordsInStep(d, hosts[d])
  BY <1>2, <1>7 DEF Registered, AddressInStep, TunnelsInStep, RecordsInStep, NodesNamed
<1>13. RoutesInStep(d)' <=> \A r \in routes : r.via # d => r.prefix \in kroutes'[d]
  BY <1>2 DEF RoutesInStep
<1>. QED
  BY <1>3, <1>8, <1>9, <1>10, <1>11, <1>12, <1>13 DEF DoneInStep

\* For any nodes, hostnames, addresses, prefixes and routes, a turn of the loop that
\* runs to its end on what the tables say brings every part of the host whose own
\* commands succeeded into agreement with them, whatever failed in other parts and
\* whatever earlier turns left half-done or earlier processes left behind.
\* To Convergence, which TLC checks, fairness adds that such turns come.
THEOREM TurnSuffices == Spec => OneTurnSuffices
<1>. DEFINE Suffices ==
       \A d \in Daemons :
         (In(d, "kroutes") /\ phase'[d] = "idle" /\ UpToDate(d)) => DoneInStep(d)'
<1>1. TurnInv /\ [Next]_vars => [Suffices]_vars
  BY TurnEnds
<1>. QED
  BY <1>1, TurnInvariance, PTL DEF Spec, OneTurnSuffices
==============================================================================
