--------------------------------- MODULE Mesh ---------------------------------
(***************************************************************************)
(* The nodes of the mesh and what they make of the controller's tables:    *)
(* each node's daemon repeatedly sends a heartbeat, fetches its network    *)
(* configuration and applies it to the interface, the WireGuard peers, the *)
(* Magic DNS records and the kernel routes (daemon/lifecycle.py,           *)
(* controller/peers.py, networking/).                                      *)
(*                                                                         *)
(* The controller's addresses are those of the module AddressBook, which   *)
(* Controller implements.  The configuration is read by three statements,  *)
(* so the tables may change between them.  Applying it is one stretch of   *)
(* code without an await, modelled step by step because the process may be *)
(* killed anywhere in it, and because a command of it that fails is logged *)
(* and forgotten while the turn goes on; kernel state outlives the process.*)
(* Daemons meet only at the controller: a few of the nodes have theirs     *)
(* modelled, the others are rows that come, go and move.  Hostnames are    *)
(* not unique: nodes may share one.                                        *)
(***************************************************************************)
EXTENDS Naturals, FiniteSets

CONSTANTS
    NodeIds,     \* the ids that may be registered
    Daemons,     \* those of them whose daemons are modelled
    Addresses,   \* mesh addresses, records [v4, v6]
    Prefixes,    \* subnets a node may advertise
    Hostnames,   \* what nodes may be called
    Namings,     \* the ways of giving each node its hostname
    Absent,      \* no row, no record, no peer
    NoConfig,    \* the daemon has fetched no configuration
    MaxChanges,  \* bound on changes of the controller's tables
    MaxFaults    \* bound on lost requests, failed commands, stops and crashes

V4s == {a.v4 : a \in Addresses}
V6s == {a.v6 : a \in Addresses}

ASSUME MeshAssumption ==
    /\ Daemons \subseteq NodeIds
    /\ Namings \subseteq [NodeIds -> Hostnames]
    /\ Absent \notin Addresses /\ Absent \notin V4s /\ Absent \notin NodeIds
    /\ V4s \cap V6s = {} /\ Prefixes \cap (V4s \cup V6s) = {}
    /\ MaxChanges \in Nat /\ MaxFaults \in Nat

VARIABLES
    hostname, \* the hostname of each node, which never changes
    readonly, \* the daemons that may not write /etc/hosts
    book,     \* controller: id -> address or Absent
    routes,   \* controller: the advertised routes, [via, prefix]
    phase,    \* where each daemon is in its sync loop
    cfg,      \* the configuration being read or applied
    todo,     \* the peers the running sync_peers has still to set
    ok,       \* the parts of the last configuration whose commands all succeeded
    iface,    \* kernel: the addresses of pymesh0
    peers,    \* kernel: the peers of the WireGuard interface
    key,      \* kernel: destination -> the peer whose allowed-ips list it
    kroutes,  \* kernel: the prefixes routed to pymesh0
    dns,      \* Magic DNS: hostname -> IPv4 address
    hosts,    \* the PyMesh section of /etc/hosts: hostname -> IPv4 address
    changes, faults

given == <<hostname, readonly>>
control == <<given, book, routes>>
kernel == <<iface, peers, key, kroutes>>
names == <<dns, hosts>>
bounds == <<changes, faults>>
vars == <<control, phase, cfg, todo, ok, kernel, names, bounds>>

Book == INSTANCE AddressBook WITH
    book <- book, NodeIds <- NodeIds, Addresses <- Addresses, Absent <- Absent

RouteRows == [via : NodeIds, prefix : Prefixes]
Destinations == V4s \cup V6s \cup Prefixes
Maybe(S) == S \cup {Absent}
Configs == [own : Addresses, peers : [NodeIds -> Maybe(Addresses)],
            routes : SUBSET RouteRows]

Reading == {"target", "peers", "routes", "reply"}
Applying == {"wg", "dns", "hosts", "kroutes"}
Parts == {"addr", "wg", "hosts", "routes"}
Running == {"idle"} \cup Reading \cup Applying

TypeOK ==
    /\ hostname \in [NodeIds -> Hostnames]
    /\ readonly \subseteq Daemons
    /\ book \in [NodeIds -> Maybe(Addresses)]
    /\ routes \subseteq RouteRows
    /\ phase \in [Daemons -> {"new", "off"} \cup Running]
    /\ cfg \in [Daemons -> Configs \cup {NoConfig}]
    /\ todo \in [Daemons -> SUBSET NodeIds]
    /\ ok \in [Daemons -> SUBSET Parts]
    /\ iface \in [Daemons -> SUBSET (V4s \cup V6s)]
    /\ peers \in [Daemons -> SUBSET NodeIds]
    /\ key \in [Daemons -> [Destinations -> Maybe(NodeIds)]]
    /\ kroutes \in [Daemons -> SUBSET Prefixes]
    /\ dns \in [Daemons -> [Hostnames -> Maybe(V4s)]]
    /\ hosts \in [Daemons -> [Hostnames -> Maybe(V4s)]]
    /\ changes \in 0 .. MaxChanges
    /\ faults \in 0 .. MaxFaults

NoPeers == [n \in NodeIds |-> Absent]
NoRecords == [h \in Hostnames |-> Absent]
NoKeys == [x \in Destinations |-> Absent]

Init ==
    /\ hostname \in Namings
    /\ readonly \in SUBSET Daemons
    /\ Book!Init
    /\ routes = {}
    /\ phase = [d \in Daemons |-> "new"]
    /\ cfg = [d \in Daemons |-> NoConfig]
    /\ todo = [d \in Daemons |-> {}]
    /\ ok = [d \in Daemons |-> {}]
    /\ iface = [d \in Daemons |-> {}]
    /\ peers = [d \in Daemons |-> {}]
    /\ key = [d \in Daemons |-> NoKeys]
    /\ kroutes = [d \in Daemons |-> {}]
    /\ dns = [d \in Daemons |-> NoRecords]
    /\ hosts = [d \in Daemons |-> NoRecords]
    /\ changes = 0
    /\ faults = 0

(***************************************************************************)
(* The controller's tables change.                                         *)
(***************************************************************************)
Change ==
    /\ changes < MaxChanges
    /\ changes' = changes + 1
    /\ UNCHANGED <<given, cfg, todo, ok, kernel, names, faults>>

\* `pymesh join`: the node is registered and its identity saved.
Join(n) ==
    /\ Change
    /\ Book!Assign(n)
    /\ phase' = [d \in Daemons |->
                    IF d = n /\ phase[d] = "new" THEN "off" ELSE phase[d]]
    /\ UNCHANGED routes

\* DELETE /nodes/{id}: routes via the node stay in their table.
Leave(n) ==
    /\ Change
    /\ Book!Release(n)
    /\ UNCHANGED <<routes, phase>>

\* PUT /network/subnet.
Reallocate ==
    /\ Change
    /\ Book!Renumber
    /\ book' # book
    /\ UNCHANGED <<routes, phase>>

\* POST /routes: nothing checks that the node exists or the prefix is free.
AddRoute ==
    /\ Change
    /\ \E r \in RouteRows \ routes : routes' = routes \cup {r}
    /\ UNCHANGED <<book, phase>>

\* DELETE /routes/{id}.
RemoveRoute ==
    /\ Change
    /\ \E r \in routes : routes' = routes \ {r}
    /\ UNCHANGED <<book, phase>>

(***************************************************************************)
(* A daemon reads its configuration.                                       *)
(***************************************************************************)
In(d, p) == phase[d] = p
Goto(d, p) == phase' = [phase EXCEPT ![d] = p]

\* start(): only with an identity; Magic DNS starts with no records.
Start(d) ==
    /\ In(d, "off")
    /\ Goto(d, "idle")
    /\ UNCHANGED <<control, cfg, todo, ok, kernel, names, bounds>>

\* The next turn of the loop.  The answer is not looked at, be it 200 or 404.
Heartbeat(d) ==
    /\ In(d, "idle")
    /\ Goto(d, "target")
    /\ UNCHANGED <<control, cfg, todo, ok, kernel, names, bounds>>

\* Seeded fault: the missing row is not noticed.
SelectTargetUnchecked(d) ==
    /\ In(d, "target")
    /\ cfg' = [cfg EXCEPT ![d] = [own |-> book[d], peers |-> NoPeers,
                                  routes |-> {}]]
    /\ Goto(d, "peers")
    /\ UNCHANGED <<control, todo, ok, kernel, names, bounds>>

SelectTarget(d) ==
    /\ In(d, "target")
    /\ book[d] # Absent
    /\ cfg' = [cfg EXCEPT ![d] = [own |-> book[d], peers |-> NoPeers,
                                  routes |-> {}]]
    /\ Goto(d, "peers")
    /\ UNCHANGED <<control, todo, ok, kernel, names, bounds>>

\* 404: the loop sleeps, and what was applied earlier stays applied.
NoTarget(d) ==
    /\ In(d, "target")
    /\ book[d] = Absent
    /\ Goto(d, "idle")
    /\ UNCHANGED <<control, cfg, todo, ok, kernel, names, bounds>>

\* All other rows, whether their nodes are online or not.
SelectPeers(d) ==
    /\ In(d, "peers")
    /\ cfg' = [cfg EXCEPT ![d].peers = [book EXCEPT ![d] = Absent]]
    /\ Goto(d, "routes")
    /\ UNCHANGED <<control, todo, ok, kernel, names, bounds>>

SelectRoutes(d) ==
    /\ In(d, "routes")
    /\ cfg' = [cfg EXCEPT ![d].routes = routes]
    /\ Goto(d, "reply")
    /\ UNCHANGED <<control, todo, ok, kernel, names, bounds>>

(***************************************************************************)
(* A daemon applies its configuration.                                     *)
(***************************************************************************)
ConfigPeers(d) == {p \in NodeIds : cfg[d].peers[p] # Absent}
Ips(a) == {a.v4, a.v6}

\* A part of the configuration is applied, with all its commands.
Done(d, part) == ok' = [ok EXCEPT ![d] = @ \cup {part}]

\* The answer arrives; assign_addresses adds, and removes nothing.
Assign(d, added) ==
    /\ In(d, "reply")
    /\ iface' = [iface EXCEPT ![d] = @ \cup added]
    /\ todo' = [todo EXCEPT ![d] = ConfigPeers(d)]
    /\ Goto(d, "wg")
    /\ UNCHANGED <<control, cfg, peers, key, kroutes, names, changes>>

AssignAddresses(d) ==
    /\ Assign(d, Ips(cfg[d].own))
    /\ ok' = [ok EXCEPT ![d] = {"addr"}]
    /\ UNCHANGED faults

\* The peer's own addresses and the prefixes routed through it.
AllowedIps(c, p) ==
    Ips(c.peers[p]) \cup {r.prefix : r \in {s \in c.routes : s.via = p}}

\* The kernel's table after `wg set ... peer p allowed-ips ips`: the list of p
\* is replaced, and a destination listed for another peer moves to p.
SetAllowed(table, p, ips) ==
    [x \in DOMAIN table |->
        IF x \in ips THEN p ELSE IF table[x] = p THEN Absent ELSE table[x]]

\* Seeded fault: only peers the interface does not know yet are set.
SetNewPeer(d) ==
    /\ In(d, "wg")
    /\ \E p \in todo[d] :
        /\ key' = [key EXCEPT ![d] = IF p \in peers[d] THEN @
                                     ELSE SetAllowed(@, p, AllowedIps(cfg[d], p))]
        /\ peers' = [peers EXCEPT ![d] = @ \cup {p}]
        /\ todo' = [todo EXCEPT ![d] = @ \ {p}]
    /\ UNCHANGED <<control, phase, cfg, ok, iface, kroutes, names, bounds>>

\* One turn of sync_peers' loop.
SetPeer(d) ==
    /\ In(d, "wg")
    /\ \E p \in todo[d] :
        /\ key' = [key EXCEPT ![d] = SetAllowed(@, p, AllowedIps(cfg[d], p))]
        /\ peers' = [peers EXCEPT ![d] = @ \cup {p}]
        /\ todo' = [todo EXCEPT ![d] = @ \ {p}]
    /\ UNCHANGED <<control, phase, cfg, ok, iface, kroutes, names, bounds>>

SyncPeersDone(d) ==
    /\ In(d, "wg")
    /\ todo[d] = {}
    /\ Done(d, "wg")
    /\ Goto(d, "dns")
    /\ UNCHANGED <<control, cfg, todo, kernel, names, bounds>>

NodesNamed(h) == {n \in NodeIds : hostname[n] = h}

\* What dns_records may become: each hostname of the configuration's peers and the
\* IPv4 address of one of them, the row that came last; the query has no order.
ConfigRecords(d) ==
    {r \in [Hostnames -> Maybe(V4s)] : \A h \in Hostnames :
        LET holders == ConfigPeers(d) \cap NodesNamed(h)
        IN  IF holders = {} THEN r[h] = Absent
            ELSE \E p \in holders : r[h] = cfg[d].peers[p].v4}

\* Seeded fault: the records are not cleared first.
MergeRecords(d) ==
    /\ In(d, "dns")
    /\ \E r \in ConfigRecords(d) :
        dns' = [dns EXCEPT ![d] = [h \in Hostnames |->
                                      IF r[h] # Absent THEN r[h] ELSE dns[d][h]]]
    /\ Goto(d, "hosts")
    /\ UNCHANGED <<control, cfg, todo, ok, kernel, hosts, bounds>>

\* update_records: all records are dropped and built anew.
UpdateRecords(d) ==
    /\ In(d, "dns")
    /\ \E r \in ConfigRecords(d) : dns' = [dns EXCEPT ![d] = r]
    /\ Goto(d, "hosts")
    /\ UNCHANGED <<control, cfg, todo, ok, kernel, hosts, bounds>>

\* sync_hosts_file: the section is replaced as a whole, with the same dns_records.
SyncHosts(d) ==
    /\ In(d, "hosts")
    /\ d \notin readonly
    /\ hosts' = [hosts EXCEPT ![d] = dns[d]]
    /\ Done(d, "hosts")
    /\ Goto(d, "kroutes")
    /\ UNCHANGED <<control, cfg, todo, kernel, dns, bounds>>

\* Seeded fault: the exception is not caught, and the routes are left out.
HostsDeniedRaises(d) ==
    /\ In(d, "hosts")
    /\ d \in readonly
    /\ cfg' = [cfg EXCEPT ![d] = NoConfig]
    /\ Goto(d, "idle")
    /\ UNCHANGED <<control, todo, ok, kernel, names, bounds>>

\* PermissionError: sync_hosts_file returns False, which nobody looks at.
HostsDenied(d) ==
    /\ In(d, "hosts")
    /\ d \in readonly
    /\ Goto(d, "kroutes")
    /\ UNCHANGED <<control, cfg, todo, ok, kernel, names, bounds>>

\* Routes through other nodes are added; none is ever removed.
Through(d) == {r.prefix : r \in {s \in cfg[d].routes : s.via # d}}

AddRoutes(d, added) ==
    /\ In(d, "kroutes")
    /\ kroutes' = [kroutes EXCEPT ![d] = @ \cup added]
    /\ cfg' = [cfg EXCEPT ![d] = NoConfig]
    /\ Goto(d, "idle")
    /\ UNCHANGED <<control, todo, iface, peers, key, names, changes>>

AddSubnetRoutes(d) ==
    /\ AddRoutes(d, Through(d))
    /\ Done(d, "routes")
    /\ UNCHANGED faults

(***************************************************************************)
(* Faults.                                                                 *)
(***************************************************************************)
Fault ==
    /\ faults < MaxFaults
    /\ faults' = faults + 1
    /\ UNCHANGED <<control, changes>>

\* A request or its answer is lost: the exception ends this turn of the loop.
LoseRequest(d) ==
    /\ Fault
    /\ phase[d] \in Reading
    /\ cfg' = [cfg EXCEPT ![d] = NoConfig]
    /\ Goto(d, "idle")
    /\ UNCHANGED <<todo, ok, kernel, names>>

\* An `addr add` fails: the error is logged and dropped.
AssignAddressesFails(d) ==
    /\ Fault
    /\ In(d, "reply")
    /\ \E added \in SUBSET Ips(cfg[d].own) \ {Ips(cfg[d].own)} : Assign(d, added)
    /\ ok' = [ok EXCEPT ![d] = {}]

\* A `wg set` fails, and so does the fallback: sync_peers returns False, which
\* nobody looks at.
SyncPeersFails(d) ==
    /\ Fault
    /\ In(d, "wg")
    /\ todo[d] # {}
    /\ todo' = [todo EXCEPT ![d] = {}]
    /\ Goto(d, "dns")
    /\ UNCHANGED <<cfg, ok, kernel, names>>

\* write_text stopped after it truncated the file: some lines are missing.
TornHosts(d) ==
    \E S \in SUBSET Hostnames :
        hosts' = [hosts EXCEPT ![d] =
                     [h \in Hostnames |-> IF h \in S THEN dns[d][h] ELSE Absent]]

\* Reading or writing /etc/hosts fails: sync_hosts_file returns False.
SyncHostsFails(d) ==
    /\ Fault
    /\ In(d, "hosts")
    /\ d \notin readonly
    /\ UNCHANGED hosts \/ TornHosts(d)
    /\ Goto(d, "kroutes")
    /\ UNCHANGED <<cfg, todo, ok, kernel, dns>>

\* A `route add` fails: it is logged, and the loop goes on with the next one.
AddSubnetRoutesFails(d) ==
    /\ Fault
    /\ In(d, "kroutes")
    /\ \E added \in SUBSET Through(d) \ {Through(d)} : AddRoutes(d, added)
    /\ UNCHANGED ok

\* The daemon's process ends; what it keeps in memory is lost.
Down(d) ==
    /\ Fault
    /\ phase[d] \in Running
    /\ Goto(d, "off")
    /\ cfg' = [cfg EXCEPT ![d] = NoConfig]
    /\ todo' = [todo EXCEPT ![d] = {}]
    /\ ok' = [ok EXCEPT ![d] = {}]
    /\ dns' = [dns EXCEPT ![d] = NoRecords]

\* stop(): the section of /etc/hosts is removed and the link goes down, and
\* with it its routes and IPv6 addresses; either may fail, and nobody looks.
Stop(d) ==
    /\ phase[d] \notin Applying
    /\ Down(d)
    /\ UNCHANGED hosts \/ hosts' = [hosts EXCEPT ![d] = NoRecords]
    /\ \/ /\ iface' = [iface EXCEPT ![d] = @ \ V6s]
          /\ kroutes' = [kroutes EXCEPT ![d] = {}]
       \/ UNCHANGED <<iface, kroutes>>
    /\ UNCHANGED <<peers, key>>

\* A kill in write_text may leave the file torn.
HostsSurvive(d) ==
    \/ UNCHANGED hosts
    \/ In(d, "hosts") /\ d \notin readonly /\ TornHosts(d)

Crash(d) == Down(d) /\ HostsSurvive(d) /\ UNCHANGED kernel

\* The host restarts: pymesh0 is gone with its peers, addresses and routes.
Reboot(d) ==
    /\ Down(d)
    /\ HostsSurvive(d)
    /\ iface' = [iface EXCEPT ![d] = {}]
    /\ peers' = [peers EXCEPT ![d] = {}]
    /\ key' = [key EXCEPT ![d] = NoKeys]
    /\ kroutes' = [kroutes EXCEPT ![d] = {}]

Sync(d) ==
    \/ Heartbeat(d)
    \/ SelectTarget(d) \/ NoTarget(d) \/ SelectPeers(d) \/ SelectRoutes(d)
    \/ AssignAddresses(d) \/ SetPeer(d) \/ SyncPeersDone(d)
    \/ UpdateRecords(d) \/ SyncHosts(d) \/ HostsDenied(d) \/ AddSubnetRoutes(d)

Faulty(d) ==
    \/ LoseRequest(d)
    \/ AssignAddressesFails(d) \/ SyncPeersFails(d)
    \/ SyncHostsFails(d) \/ AddSubnetRoutesFails(d)
    \/ Stop(d) \/ Crash(d) \/ Reboot(d)

Next ==
    \/ \E n \in NodeIds : Join(n) \/ Leave(n)
    \/ Reallocate \/ AddRoute \/ RemoveRoute
    \/ \E d \in Daemons : Start(d) \/ Sync(d) \/ Faulty(d)

Spec == Init /\ [][Next]_vars

\* The loop of a running daemon goes on; nobody has to start one.
FairSpec == Spec /\ \A d \in Daemons : WF_vars(Sync(d))

(***************************************************************************)
(* Properties.                                                             *)
(***************************************************************************)

\* No configuration is being applied: the event loop of d answers DNS queries.
Visible(d) == phase[d] \notin Applying

\* A name never resolves to an address the tunnel would deliver to a node of
\* another name: whenever no configuration is being applied and the last sync_peers
\* succeeded, the address Magic DNS gives for a hostname is among the allowed-ips of
\* a node called so, and so is the one in /etc/hosts if its last write succeeded,
\* whatever was re-allocated, deleted, lost or failed before
\* (lifecycle.py:136-144, wireguard.py:102-113, dns.py:88-102, hosts.py:74-92).
NamesReachTheirNodes ==
    \A d \in Daemons, h \in Hostnames :
        (Visible(d) /\ "wg" \in ok[d]) =>
            /\ dns[d][h] # Absent => key[d][dns[d][h]] \in NodesNamed(h)
            /\ ("hosts" \in ok[d] /\ hosts[d][h] # Absent)
                  => key[d][hosts[d][h]] \in NodesNamed(h)

Registered == {n \in NodeIds : book[n] # Absent}

\* What node d holds agrees with the controller's tables, part by part.
AddressInStep(d) == Ips(book[d]) \subseteq iface[d]

TunnelsInStep(d) ==
    /\ \A p \in Registered \ {d} :
        p \in peers[d] /\ \A x \in Ips(book[p]) : key[d][x] = p
    /\ \A r \in routes :
        (/\ r.via \in Registered \ {d}
         /\ \A s \in routes : s.prefix = r.prefix => s = r)
            => key[d][r.prefix] = r.via

\* Every hostname leads to one of the other registered nodes called so, or to none.
RecordsInStep(d, records) ==
    \A h \in Hostnames :
        LET holders == (Registered \ {d}) \cap NodesNamed(h)
        IN  IF holders = {} THEN records[h] = Absent
            ELSE \E p \in holders : records[h] = book[p].v4

RoutesInStep(d) == \A r \in routes : r.via # d => r.prefix \in kroutes[d]

\* All that d can keep in step; /etc/hosts, if it may write it.
InStep(d) ==
    /\ d \in Registered
    /\ AddressInStep(d) /\ TunnelsInStep(d) /\ RoutesInStep(d)
    /\ RecordsInStep(d, dns[d])
    /\ d \notin readonly => RecordsInStep(d, hosts[d])

\* Each part of the last configuration whose own commands all succeeded is in step.
DoneInStep(d) ==
    /\ d \in Registered
    /\ "addr" \in ok[d] => AddressInStep(d)
    /\ "wg" \in ok[d] => TunnelsInStep(d)
    /\ RecordsInStep(d, dns[d])
    /\ "hosts" \in ok[d] => RecordsInStep(d, hosts[d])
    /\ "routes" \in ok[d] => RoutesInStep(d)

\* The configuration d applies is what the tables say.
UpToDate(d) ==
    cfg[d] = [own |-> book[d], peers |-> [book EXCEPT ![d] = Absent], routes |-> routes]

\* One turn of the loop is enough, part by part: when a daemon ends a turn that
\* applied the configuration the tables hold, each part whose own commands succeeded
\* in this turn agrees with the tables, and so do the names of Magic DNS; it does not
\* matter which other parts failed unnoticed, nor what earlier turns, earlier
\* processes and deleted nodes left behind.  Of a part that did fail nothing is
\* said: the turn ends all the same (lifecycle.py:118-151, wireguard.py:102-113).
OneTurnSuffices ==
    [][\A d \in Daemons :
        (In(d, "kroutes") /\ phase'[d] = "idle" /\ UpToDate(d)) => DoneInStep(d)']_vars

\* Once the tables stop changing and commands stop failing, every running daemon of
\* a registered node comes to hold its address, the tunnels of exactly the
\* registered peers' addresses, for every hostname one of the nodes called so, and
\* the advertised routes, and keeps them: torn reads, lost requests, unnoticed
\* failures, half-applied configurations and restarts are repaired by the next
\* turns of the loop (lifecycle.py:77-151).  /etc/hosts only if it can be written:
\* where it cannot, it never does (hosts.py:87-89).
Convergence ==
    \A d \in Daemons :
        <>[](phase[d] \in Running /\ book[d] # Absent) => <>[]InStep(d)

\* When a daemon has caught up with the tables, its interface no longer answers
\* for an IPv4 address that belongs to another node: nodes are "automatically
\* re-assigning their local `pymesh0` TUN interface IP" (README.md:158).
NoForeignAddress ==
    \A d \in Daemons, e \in Registered :
        (In(d, "idle") /\ d # e /\ InStep(d))
            => book[e].v4 \notin iface[d]
===============================================================================
