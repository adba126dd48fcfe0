# TLA+ models of PyMesh

PyMesh is a control plane for a WireGuard mesh: a FastAPI controller that keeps
the nodes, their addresses, routes, rules and names in an SQL database, and a
daemon on every node that polls the controller and configures the kernel. This
directory holds models of the parts where interleavings, failures and repeated
partial updates decide whether the mesh works, the TLC runs that check them, and
machine-checked proofs of their safety properties for every size of the instance.

    tlc -workers 2 -config ctrl_concurrent.cfg MCController.tla
    tlapm ControllerProofs.tla

Every module `X` but the abstract `AddressBook` and `Stream` has an `MCX` for TLC and an `XProofs` for TLAPS.

## 1. Inventory

All paths are relative to the repository; `pymesh/` is the Python package.

| Component | State | Operations | Talks to |
| --- | --- | --- | --- |
| Node management (`pymesh/controller/nodes.py`, `allocator.py`, `api.py`) | tables `networks`, `nodes` | register, heartbeat, delete, list, re-allocate the subnet | database; called by CLI and daemon |
| Network configuration (`pymesh/controller/peers.py`, `api.py`) | tables `nodes`, `subnet_routes` | build a node's configuration; add, delete, list routes | database; polled by the daemon |
| Join tokens (`pymesh/controller/auth.py`) | table `auth_tokens` | create, validate | registration |
| ACL (`pymesh/controller/acl.py`, `api.py`) and firewall (`pymesh/networking/firewall.py`) | table `acl_rules`; an iptables chain | add and list rules; decide; apply | not wired together |
| TLD registry (`pymesh/dns/tld.py`, `api.py`) | table `tld_registry` | publish, list, validate, render a page | DNS server |
| Federation (`pymesh/controller/federation.py`, `api.py`) | table `federated_controllers` | peer, handshake, list | the other controller |
| Daemon (`pymesh/daemon/`) | identity, last configuration | start, sync loop, stop | controller, kernel, Magic DNS, /etc/hosts |
| Kernel configuration (`pymesh/networking/wireguard.py`, `interfaces.py`, `routes.py`) | interface addresses, peers with allowed-ips, routes | set peers, assign addresses, add routes | called by the daemon |
| Magic DNS (`pymesh/networking/dns.py`), hosts file (`hosts.py`) | records in memory; a section of /etc/hosts | update, answer; replace, remove | called by the daemon |
| Standalone DNS server (`pymesh/dns/server.py`) | cache of records | resolve from cache or controller, forward upstream | controller, upstream resolver |
| Relay (`pymesh/relay/`) | last endpoint of each node | learn, forward | nodes, over UDP |
| Discovery (`pymesh/discovery/`) | none | STUN, NAT classification, endpoint harvest, hole punching | STUN servers |
| Identity (`pymesh/identity/`) | key pairs, identity file | create, save, load | CLI, daemon |
| CLI (`pymesh/cli/`) | identity file | join, routes, forward, ... | controller |
| Web (`pymesh/controller/web.py`, `controller/app.py`) | session set | pages; application start and stop | database |

### Where it is hard

* **Interleaved requests.** Every handler is a coroutine with several awaited
  statements and no transaction spanning them; another handler runs at each
  `await`. Registration reads the prefix and the addresses in use, computes, and
  inserts; re-allocation rewrites every row.
* **Partial failure of a commit.** UNIQUE is enforced row by row while a
  re-allocation is flushed.
* **Locks and answers.** SQLite has one write lock and a busy timeout; a handler
  that fails must release it and still answer.
* **Half-applied configuration.** The daemon applies one configuration in a
  series of commands that may fail or be cut off by a crash; kernel state
  survives the process, records in memory do not, /etc/hosts does.
* **Torn reads.** A configuration is read by three SELECTs.
* **Additions without removals.** Addresses, peers and routes are only ever added.
* **Caches.** The DNS server's cache has no expiry and is filled by concurrent
  refreshes.
* **Files overwritten in place**, by two programs, and looked for in several places.
* **Datagrams** that come late, twice or from somebody else, and public addresses
  that belong to the socket they were asked from.
* **Byte streams** with two directions of which one may end first, or never be read.

What makes each component correct, and which property states it, is in
section 4; `PROJECT.json` lists each hazard at its line with the properties that
would catch it.

## 2. Modules

| Module | Models |
| --- | --- |
| `AddressBook` | What the controller promises about addresses: each registered node has one IPv4 and one IPv6 address, no two share either, all may be renumbered at once. No requests, no tables. |
| `Controller` | The handlers of registration, heartbeat, deletion and re-allocation over the two tables, statement by statement. Implements `AddressBook`. |
| `ControllerProofs` | The theorems about `Controller`. |
| `Mesh` | The daemons and what they make of the controller's tables. Uses `AddressBook` as its controller. |
| `DNSServer` | The standalone DNS server: concurrent queries, the cache, its refresh, forwarding. Uses `AddressBook` as its controller. |
| `DNSServerProofs` | The theorems about `DNSServer`. |
| `Federation` | Peering of controllers: `POST /cr/peer` and the handshake it causes. |
| `FederationProofs` | The theorems about `Federation`. |
| `MeshProofs` | The theorems about `Mesh`. |
| `Identity` | A host's identity file: `pymesh join` and the daemon, which both write it. Uses `AddressBook` as its controller. |
| `Traversal` | UDP through NATs: STUN, NAT classification, candidates, hole punching, the relay. |
| `Access` | Join tokens; ACL rules, the engine and the firewall chain. |
| `Stream` | What a forwarded connection promises its two ends: chunks arrive at most once, and none is lost without an excuse. No proxy, no buffers. |
| `Forward` | One connection of `pymesh forward`. Implements `Stream`. |
| `IdentityProofs`, `TraversalProofs`, `AccessProofs`, `ForwardProofs` | The theorems about them. |
| `MCController`, `MCMesh`, ... | Constants for TLC. |

`Mesh`, `DNSServer` and `Identity` compose their side with the controller through the abstract
book (`Book == INSTANCE AddressBook WITH ...`) rather than through `Controller`: the refinement says that every change of addresses the
handlers can make is a change the book allows, so what holds of daemons that
follow the book holds of daemons that follow the controller, and the same for the DNS server.

### Controller

One action is one awaited statement with the local computation that follows it.
A request occupies a slot of `Requests`; `pc[r]` is its next statement, and
`ask`, `lnet`, `view`, `row`, `plan` are the handler's locals (parameters, the
loaded `Network` object, the loaded node addresses, the node row being written,
the addresses a re-allocation is about to write).

| Code | Actions |
| --- | --- |
| `NodeManager.get_or_create_network` | `SelectNetwork`, `InsertNetwork`, `InsertNetworkFails` |
| `NodeManager.register_node` | `SelectIps`, then `FindNode`, `UpdateNode`, `RefreshNode` for a known node or `Allocate`, `InsertNode`, `RefreshNode` for a new one; `AllocateFails`, `InsertNodeFails`, `UpdateNodeFails` |
| `heartbeat` | `GetNode`, `CommitBeat`; `GetNodeFails`, `UpdateNodeFails` |
| `delete_node` | `DeleteNode` |
| `update_network_subnet` | `RejectCidr`, `SelectNetwork`, `SelectNodes`, `CommitPut`; `SelectNodesFails`, `CommitPutFails` |
| SQLite's lock and timeout | `MayWrite`, `writer`, `Busy` |
| process stop and start (`lifespan`) | `Restart` |

What the session does is part of the model because the results depend on it: a
SELECT reads the last committed tables; the SELECT of `list_nodes` first flushes
the pending UPDATE of `networks`, which takes the write lock (unless it changes
no column); a commit writes only columns whose value differs from the loaded one
(`Written`), row by row in primary-key order (`UpdateMeets`), and reports a row
that vanished (`StaleDataError`). An INSERT, UPDATE or DELETE and the commit
directly after it are one action: nothing that others can see lies between them.

Abstractions. A prefix is `[base, size]` over the naturals and an address a
natural; what the allocator does with them (skip the network address, the
broadcast address and addresses ending in .1, take the first free one, add the
host offset to the IPv6 base) is kept, with `Octet` = 8 addresses per last octet
instead of 256, so that the skipped ".1" occurs more than once in a small pool. A node's columns
are its two addresses and its endpoints; the others are overwritten by the same
statements and nothing reads them. `reply` holds the answers sent by the last
step only, which is what action properties need. Foreign keys are not enforced
by SQLite as configured. Registration is modelled without a token.

### Mesh

Each daemon in `Daemons` has a `phase` in its loop; the other nodes are only rows.
Daemons never talk to each other, so one modelled daemon among three nodes shows
all that can happen to a daemon. The controller's side changes by `Join`,
`Leave`, `Reallocate`, `AddRoute`, `RemoveRoute`. Which node is called what is fixed at the
start (`hostname`, one of `Namings`), and so is which daemon may write /etc/hosts (`readonly`).

| Code | Actions |
| --- | --- |
| `DaemonLifecycle.start` | `Start` |
| `_sync_loop`, heartbeat | `Heartbeat`, `LoseRequest` |
| `PeerManager.build_network_config` | `SelectTarget`, `NoTarget`, `SelectPeers`, `SelectRoutes` |
| `InterfaceManager.assign_addresses` | `AssignAddresses`, `AssignAddressesFails` |
| `WireGuardManager.sync_peers` | `SetPeer`, `SyncPeersDone`, `SyncPeersFails` |
| `dns_records`, `MagicDNSServer.update_records` | `ConfigRecords`, `UpdateRecords` |
| `HostsManager.sync_hosts_file` | `SyncHosts`, `HostsDenied`, `SyncHostsFails`, `HostsSurvive` |
| `RouteManager.add_subnet_route` | `AddSubnetRoutes`, `AddSubnetRoutesFails` |
| `stop`, kill, host restart | `Stop`, `Crash`, `Reboot` |

The kernel is modelled by what the commands do to it: `wg set ... allowed-ips`
replaces a peer's list and takes an address away from the peer that had it
(`SetAllowed`); `ip addr add` and `route add` add; a link that goes down loses its
routes and IPv6 addresses. The stretch from the answer to the end of the turn has no
`await`, so DNS queries are answered only outside it (`Visible`), but a crash may
fall anywhere in it.

Each of the four commands of a turn may fail, in whole or in part, and the turn goes on as the code
does: the errors are logged and dropped. `ok[d]` records which parts of the last
configuration had all their commands succeed; no action reads it. Where the daemon lacks the permission,
writing /etc/hosts fails at every turn (`HostsDenied`). `dns_records` has one entry for each hostname, and
hostnames are not unique: of several nodes with one name `ConfigRecords` lets any win,
because the SELECT that lists them has no order, and a node that joins again under its old name is such a case. A torn
/etc/hosts is one that lacks some of its lines (`TornHosts`).

### DNSServer

A query is a task in `Queries`; it may be interrupted where it waits, for the
node list, for the TLD list, for the socket it forwards from, and for the upstream resolver.

| Code | Actions |
| --- | --- |
| `datagram_received`, `_process_query`, the first lines of `resolve_custom_tld` | `ReceiveKnown`, `ReceiveUnknown` |
| the controller's `list_nodes`, `list_tlds` | `ListNodes`, `ListTlds` |
| the two stores into `records_cache` | `StoreNodes`, `StoreTlds`; `Refused` (status other than 200), `FetchFails` (exception or timeout) |
| the last lookup | `LookupKnown`, `ForwardUpstream` |
| `forward_upstream` | `SendUpstream`, `EndpointFails`, `UpstreamEnds` |
| `start`, `stop` | `Restart` |
| registration, deletion, re-allocation, `publish_tld` | `Register`, `Delete`, `Reallocate`, `Publish` |

A name stands for its spellings (`n`, `n.cr`, `n.mesh`), which are stored
together; a name nobody registers stands for the names of the internet. `since`,
`clean` and `told` are history variables: no action depends on them. `ForwardUpstream` is the decision, the
last time the task looks at the cache; the socket is created after it, and the query
sent after that (`SendUpstream`), so another task may have answered the name in between. Left
out: the bare name `registry`, two nodes with the same hostname, and a controller URL
whose host is a DNS name, for which `build_a_response` raises and nothing is sent.
The DNS-over-HTTPS endpoint (`controller/app.py`) calls the same two functions.

### Federation

A slot of `Requests` is one `POST /cr/peer` together with the handshake it causes;
`pc` is the caller's next statement and `hs` says where the handshake is. The handshake
runs in the other controller's process and goes on when its caller has given up.

| Code | Actions |
| --- | --- |
| `peer_cr_controller`, `client.post` | `Peer`, `Lose`, `TimesOut`, `Accepted`, `Rejected` |
| `cr_handshake` | `HandshakeFinds`, `HandshakeMisses`, `HandshakeInsert`, `HandshakeFails` |
| `peer_controller` after the response | `SelectFinds`, `SelectMisses`, `Insert`, `InsertFails` |
| process stop and start (`lifespan`) | `Restart` |

Every controller sends the same URL of its own, `http://localhost:8000`
(`pymesh/controller/api.py:391`); the model calls it `Local`, and for each controller
it leads back to itself. So the row a handshake leaves does not name the caller, and no peering is
mutual (section 5). A row is never deleted and its status is always PEERED, so
updating an existing row changes nothing. An INSERT fails on the UNIQUE column or when the database
stays locked, which the model allows at any time. The handshakes are those that
a PyMesh controller sends; the endpoint would accept any URL.

### Identity

| Code | Actions |
| --- | --- |
| `handle_join` | `Register` (new keys, so a new node; the answer arrives), `OpenUserFile`, `WriteUserFile`, `JoinFails` |
| `load_identity`, `start` | `Found`, `Start` |
| `sync_with_controller` up to the identity's file | `Fetch`, `Unmoved`, `Moved`, `Save`, `SaveFails` |
| process stop, kill | `Stop` |
| `delete_node`, `update_network_subnet` | `ControllerChanges` |

A file is truncated by `open` and filled by one `write`; between the two, and after a kill
there, it is `Torn`. Two writers on one file may leave a mixture (`Written`). `gave` and
`joined` are history. What can be seen in the model and may surprise:

* every join makes a new node; the old one's row stays in the table;
* a join whose answer is lost leaves a registered node without an identity file;
* a daemon whose file is unreadable ends, and one without a file waits for ever
  (`lifecycle.py:55`) though a join may come later;
* once the daemon has saved a file of its own, a later join by the user changes nothing
  for it.

### Traversal

The network is the set of datagrams ever sent, so that a datagram may arrive late, repeatedly,
out of order or never. A node is open or behind a NAT, cone (port-restricted) or symmetric, and nodes
behind one NAT share its LAN. An address is a socket's own on the LAN (`Lan`), or the one its NAT shows, a
symmetric one for each destination (`Address`). A NAT lets in what comes from where the socket has sent, a LAN
what its own nodes send (`Arrives`), and nothing arrives where no socket is open any more (`Listening`). Each use
of a socket in the code is a socket of its own with a port of its own; that a closed socket's port may be given
out again, that two LANs may use the same private addresses, and that a NAT may drop an entry during the few seconds
its socket is open, are left out.

| Code | Actions |
| --- | --- |
| `STUNClient.get_mapped_address` | `Ask`, then `Answered` or `NoAnswer` |
| `NATDetector.detect_nat_type` | the exchanges `first` and `second`, `NatType` |
| `EndpointHarvester.get_candidate_endpoints` | the exchange `harvest`, `LocalAddress`, `Return` |
| `HolePuncher.punch_hole` | `PunchHole`, `HearProbe`, `GiveUp` |
| `RelayClient`, `RelayServerProtocol`, `RelayServer` | `SendRelayed`, `RelayReceives`, `RelayRestarts` |

The daemon calls the STUN client, the detector and the harvester; `punch_hole` and
`RelayClient` are called by nothing yet and are modelled in the order their documents
give: punch, and relay if that failed. Each node goes through it once.

What it shows beyond its properties is in section 5: the detector answers "Symmetric NAT" whenever it gets both
answers, the punched candidates pass no NAT, and `RelayClient` closes its socket before anything can
be forwarded to it. The relay believes a frame's sender; nodes put their own id there.

### Access

`ReadToken` and `CountUse` are the SELECT and the UPDATE of `validate_token`; other registrations
run between them. `IsAllowed` and `MatchRule` are the engine, `MatchCommand` and `Decides` what iptables makes of the chain. `Flush`,
`AppendCommand`, `Applied`, `ApplyFails` are the commands of `apply_rules`: `at` is the position in its two nested loops, over the
rules and over the ports of a rule (`Runs`), and `Command` is what is appended there. A selector is the set of
the nodes it matches. Left out: a packet whose port is unknown to the engine, and a
host without iptables, where `apply_rules` returns True and does nothing. Differences between
engine and chain that `ChainFollowsEngine` excludes by `Expressible`: the chain ignores source, destination and
protocols, treats "ALLOW" as allow where the engine denies, and has no default for a
packet that no rule matches. Nothing in the program calls either class yet. That a token may be used more often than
`max_uses` when registrations race is visible in the model and claimed nowhere; the endpoint never
sets `max_uses`.

### Forward

The handler is `Connect` or `ConnectFails`, then two pipes, then `Done`. A pipe is `Read`,
`Drain`, and `PipeEnds` or `PipeFails` with `CloseWriter`, its `finally` clause. The two ends may send, half-close
(`Finish`) and leave at any time and need not read. Sockets are modelled by their effects:
asyncio reads ahead up to a limit (`Feed`); `close` stops reading, flushes, and ends the reader afterwards;
closing while unread data wait resets the connection, which may lose data on their way.
Connections share only the listener, so one is enough. `flight` maps the three places where data wait, the
kernel's buffers at either side and the proxy's reader, to what `Stream` has on its way.

## 3. Runs and bounds

| Run | Instance | Shows |
| --- | --- | --- |
| `ctrl_concurrent` | 2 nodes, 2 requests at once, 2 disjoint pools (5 and 1 addresses), one endpoint list besides the empty one; 750,932 states up to symmetry of the requests | types, unique addresses, the lock and the view, complete re-allocation, no stale write-back |
| `ctrl_live` | the same without endpoints, no symmetry, fair handlers; 177,484 states | the refinement of `AddressBook`; every request is answered |
| `ctrl_sequential` | 3 nodes, 1 request, 3 IPv4 pools (two overlap, one holds a single address), 2 IPv6 pools and the empty argument; 15,262 states | nodes stay in the pool with matching IPv6 addresses, registration fails only by exhaustion |
| `mesh_sync` | 1 daemon, 3 nodes, 3 addresses, 1 prefix, 2 worlds (distinct hostnames and a writable /etc/hosts; one hostname for the two other nodes and a read-only one), 4 changes of the tables, 1 fault; 894,193 states | types, names lead to nodes of that name, one turn is enough for each part that succeeds, convergence |
| `dns_queries` | 2 queries at once, 2 nodes, 2 addresses, 1 TLD, 2 changes of the tables; 282,804 states | types, no answered name is forwarded, known names resolve, every query ends |
| `federation` | 2 controllers, 2 peerings at once, every target: each other, itself by either URL, nobody; 90,553 states | types, the remote row comes first, successes are recorded, every request ends |
| `forward` | 4 chunks each way, read-ahead and window of 2; 140,958 states | the refinement of `Stream`, delivery to an end that stays, bounded buffers, no leak |
| `identity` | 2 key pairs, 3 addresses, 3 changes at the controller, 2 faults, both directories of the daemon; 838,632 states | genuine copies, a restart keeps the node, resumption, the address catches up |
| `traversal` | 2 nodes, each open or behind one of 2 cone and 2 symmetric NATs, also the same one, 2 uses of the relay; 932,949 states up to symmetry | what STUN, punching and the relay yield |
| `access` | 3 registrations and 1 token with `max_uses` 2 or none, 6 rules to choose from, up to 3 rows; 911,770 states up to symmetry | tokens not refused early, chain and engine agree |
| `ctrl_wedge`, `mesh_old_address` | as above, one property each | two disagreements of section 5 |

Why the bounds suffice. Every conflict between requests in this code is between
two of them: a handler that read and one that wrote in between. Two nodes make
every UNIQUE conflict; the third in `ctrl_sequential` makes the order of
re-allocation matter. A request slot is reused, so a run has any number of
requests in a row. For the daemon, three nodes give two peers that can exchange
an address, one through a free address; four changes allow join, join, exchange
or deletion, and one more while the first is being applied. One fault, of any kind and anywhere in a turn, is what a
turn has to survive and the next to repair; that any number of them, in any order, leaves nothing a later turn would
not repair is `TurnSuffices`, which is proved and assumes no bound. The two worlds of `MCInit`
join a shared hostname with a hosts file that cannot be written: the file, where it can, is a copy of the names of
Magic DNS, and the theorems of section 6 hold for every combination. `MCNext` fixes which address the
first node gets, addresses being interchangeable, and lets nobody advertise a route before it. In `mesh_sync` and `mesh_old_address`
deadlock is not checked: once `MaxChanges` and `MaxFaults` are used up, an instance
whose modelled daemon never joined has nothing left to do. In the controller's
runs it is checked.

For the DNS server, two queries are one that stores an old list and one that
uses the cache meanwhile; a slot is reused, so a third query may find what
both left. Two changes register a node and delete or renumber it.

For the federation, two peerings at once give every pair of handlers that meet at one
row: two callers of one controller, a caller that is called, and a controller that
calls itself.

For the identity, two key pairs are a host that joins and joins again; three changes move the node, move
it again and delete it, while two faults lose a save and kill the daemon. Deadlock is not checked
there, nor in `forward`: a host with no changes left may rest, and a forwarded connection ends.

For the traversal, two nodes are all that a STUN exchange, a candidate list or a punch
involves; a third could only be another sender of probes. Two NATs of each kind let both nodes be behind the same one,
as neighbours on its LAN, or behind different ones. Two uses of the relay give a node two addresses there.
For the tokens, three registrations are one more than the limit; for the chain, three
rules are a match, an earlier and a later one.

For the forwarded connection, four chunks are the read-ahead and the window, so that each of
`read`, `drain` and the sender has to wait for the next.

In `ctrl_sequential` the two IPv6 pools are disjoint and larger than the IPv4 pools.
With an IPv6 pool smaller than the IPv4 pool the derived address would lie
outside it; the code has no check for that and the model (`V6Of`) none either.

Fairness. `ctrl_live` assumes weak fairness of every request's `Step`: the event
loop runs a ready coroutine, and a waiter for the write lock is ready all the
time because SQLite's busy timeout (`Busy`) ends the wait. Nobody has to send a
request, and nothing is assumed of `Restart`. `mesh_sync` assumes weak fairness of each
daemon's `Sync`: the loop never ends while the process runs and every request has a
timeout. Nobody has to start a daemon; faults may happen, but finitely often
(`MaxFaults`). `dns_queries` assumes weak fairness of each query's `Run`: the
timeouts of 3 seconds expire. Neither the controller nor the upstream resolver has to
answer. `federation` assumes weak fairness of each caller's `Run`, that is of the
event loop and the timeout of 10 seconds, and nothing of handshakes or restarts.
`identity` assumes weak fairness of a running daemon's loop (`SyncLoop`), whose turns never end; nobody has to
join, start a daemon or stop one. `forward` assumes weak fairness of the handler, because the event loop
runs and a connection attempt ends by itself, of both pipes, and of the reset a closed socket
answers data with; no end has to send, read or close. `traversal` and `access` claim no liveness.

## 4. Properties

* `UniqueAddresses`, `ImplementsBook`: no address is held twice, and every change of
  the tables is an assignment, a release or a renumbering of the book.
* `LockedViewIsCurrent`: a re-allocation that holds the lock has read what is in the
  table, and only such a one holds it.
* `ReallocationIsComplete`: a re-allocation that changed the prefix and succeeded
  covers every row, including those of registrations that ran meanwhile.
* `AddressesComeFromAllocations`, `EndpointsComeFromTheNode`: a handler that read a
  row early neither restores old values nor brings a deleted row back.
* `EveryRequestIsAnswered`: no failure path keeps the lock or loses a waiter.
* `EveryStepAdvances`: whatever the others insert, delete or renumber under a handler, it never goes
  back: each statement leaves it fewer to run. Proved, and checked by no run of its own.
* `AllNodesInPool`, `RegistrationSucceeds`: with one request at a time. The first admits, for the IPv6 address, the
  default prefix beside the network's, because an empty `ipv6_prefix` leaves the one and uses
  the other.
* `AllocationIsAvailable`: the derived IPv6 address, at which nobody looks, never stops an INSERT. Proved while prefixes
  are changed in size only (`AllocationAvailable`), false otherwise (`ctrl_wedge`).
* `NamesReachTheirNodes`: after a `sync_peers` that succeeded, an address given by Magic DNS belongs to the tunnel of
  a node called as was asked for, and so does one in /etc/hosts if the last write there succeeded. Without these two
  conditions it is false: a failure of either is not noticed, and the name may lead to another node until the next turn.
* `OneTurnSuffices`: when a turn ends that applied what the tables say, each part whose own commands succeeded is
  right, whatever else failed in that turn and whatever torn reads, earlier failures, crashes and deleted nodes
  have left behind. It is the part of `Convergence` that is not about scheduling. Of a part
  that failed nothing is claimed: the turn ends all the same.
* `Convergence`: once the tables and the faults rest, a running daemon's address,
  tunnels, names and routes agree with the tables and stay so, and its hosts file, if it may write it. Of nodes
  that share a hostname, the name leads to one, not always to the same.
* `NamesStayPrivate`: a name the server has answered itself it never decides to forward to the
  upstream resolver, whatever was deleted or failed, until it restarts.
* `KnownNamesResolve`: a query whose fetch succeeded is forwarded only if the
  controller did not know the name at some moment since the query arrived.
* `EveryQueryEnds`: with controller and resolver silent, too.
* `AnnouncedFirst`: the announcement of a controller that lists another is recorded there first; messages lost, late
  or answered with an error leave at most the row at the other side. That row is the shared URL, not the
  caller's: the property says in which order the rows come, not that the peering is mutual (section 5).
* `SuccessIsRecorded`: a peering that is answered with success is in both tables.
* `EveryPeeringEnds`: also when the other side never answers or is the caller itself.

* `PatientEndGetsAll`: data are cut off only towards an end that has half-closed, left, or gone on
  sending to an end that had stopped reading.
* `ImplementsStream`: a chunk on its way to an end is lost only if that end has half-closed, or loses
  chunks of its own, or there never was a connection.
* `BacklogIsBounded`, `NoConnectionLeaks`: back-pressure through two independent pipes, both sockets
  closed at last. `NothingInvented`, no chunk twice, follows from `ImplementsStream` and is proved.
* `CopiesAreGenuine`: no copy of the identity, on disk or in memory, mixes two nodes or two
  addresses.
* `RestartKeepsNode`: whatever was killed, cut off or failed, a restart never resumes as another node than the one the
  daemon runs as, though two programs write in two places; it may find an older address, or an unreadable file.
* `RestartResumes`: without faults it resumes with the present address, too, though it loads one file and saves another.
* `AddressCatchesUp`: failed saves notwithstanding.
* `OwnMapping`: a late or repeated answer is never taken for another exchange's, though the
  transaction id is not compared.
* `AnsweredMeansSymmetric`: what the NAT type is worth: with both answers it is always "Symmetric NAT".
* `PunchedEndpointsWork`: what a confirmed endpoint is worth. It leads to where another node punches from, both ways
  (`ConfirmedWorksBothWays`), and behind a NAT only a neighbour on the LAN is ever confirmed (`NoHoleIsPunched`).
* `ForwardedToItsNode`: reordered and repeated frames and restarts never make the relay take one node's address for
  another's.
* `NotRefusedEarly`: increments are lost in one direction only.
* `ChainFollowsEngine`: wherever the chain can express the rules, it never contradicts the
  engine, half filled or not.

Each property of a passing run has a seeded fault in its module (`Fault seeded into ...`, `Seeded fault: ...`)
that breaks it: a plausible bug of the code, such as records that are merged
instead of replaced, or a UNIQUE constraint that is missing.

## 5. Where code and documents disagree

The first two are runs that find a counterexample, and entries under `findings`.

1. `ctrl_wedge`: after a registration raced with a re-allocation, its node's IPv6 address can block every
   later registration, since the allocator never looks at the IPv6 addresses in use
   (`pymesh/controller/allocator.py:36`), against its docstring. What is true of the docstring
   is what `AllocationAvailable` proves (section 6).
2. `mesh_old_address`: old addresses stay on the interface
   (`pymesh/networking/interfaces.py:27`), against README.md:158.

The models have these too, and no run is spent on them:

3. A re-allocation to a valid prefix that overlaps the present one can fail with an integrity
   error, because the rows are updated one by one (`UpdateMeets`, `pymesh/controller/api.py:276`); the test says
   "Valid CIDR update -> 200 OK".
4. A registration that overlaps a re-allocation leaves its node outside the network
   (`pymesh/controller/nodes.py:36`); README.md:219 says the re-allocation covers all nodes. `AllNodesInPool` holds with one
   request at a time.
5. Deleted peers stay on the interface (`SetPeer` only adds; `pymesh/networking/wireguard.py:102`),
   against the docstring of `sync_peers`.
6. A query that has fetched the controller's records can still answer with the address of a node
   deleted before it arrived, when another query stores an older list meanwhile
   (`StoreNodes`, `pymesh/dns/server.py:137`), against the comment "Fetch live records from controller".
7. `nat.py:38` calls differing ports a "different external mapping per target server", and `nat.py:41` equal ones a
   "consistent mapping"; they are the ports of two sockets (`SocketFor`), so a node that gets both answers has a
   "Symmetric NAT" whatever NAT it is behind, if any (`AnsweredMeansSymmetric`). One that misses the second answer has a
   "Restricted Cone NAT", also behind a symmetric one (`NatType`); "Full Cone NAT" is never found.
8. README.md:46 and `pymesh/controller/federation.py:23` promise mutual peering. Every controller announces itself as
   `http://localhost:8000` (`pymesh/controller/api.py:391`), so the callee's row leads to the callee itself, and it
   lists its caller only after it has itself asked to peer: `PeeringIsOneSided`, proved in `FederationProofs`.
9. README.md:3 speaks of connecting hosts across NATs, and `pymesh/discovery/peers.py:14` of bursts that "establish direct
   P2P stateful NAT mappings". The public candidate is the port of the harvester's socket, which is closed by then
   (`pymesh/discovery/stun.py:78`), so no burst passes a NAT (`NoHoleIsPunched`). The relay, meant as the fallback, forwards to sockets that
   `RelayClient` has closed (`pymesh/relay/client.py:32`). Neither is called by the daemon.
10. `resolve_custom_tld` looks at the cache once more after the fetch, and then the socket is awaited
   (`pymesh/dns/server.py:194`): a name that another query has answered meanwhile is sent upstream all the same
   (`ForwardUpstream`, `SendUpstream`). No document promises otherwise.
11. Nothing notices a part of a configuration that fails (`pymesh/daemon/lifecycle.py:123-151`), and where the daemon may
   not write /etc/hosts its names never get there, against the comment "for instant Chrome browser
   resolution" (`lifecycle.py:141`).

## 6. Proofs

### Controller

`ControllerProofs` proves, for every set of nodes and requests and all prefixes that meet the
assumptions of `Controller`:

| Theorem | States |
| --- | --- |
| `TypeCorrect` | `Spec => []TypeOK` |
| `AddressesUnique` | `Spec => []UniqueAddresses` |
| `LockedViewCurrent` | `Spec => []LockedViewIsCurrent` |
| `ReallocationComplete` | `Spec => ReallocationIsComplete` |
| `AddressesHaveOrigin` | `Spec => AddressesComeFromAllocations` |
| `Refinement` | `Spec => ImplementsBook` |
| `EndpointsReported` | `Spec => EndpointsComeFromTheNode` |
| `HandlersAdvance` | `Spec => EveryStepAdvances` |
| `NodesInPool` | `Spec => []AllNodesInPool`, if there is one request at a time |
| `RegistrationWorks` | `Spec => RegistrationSucceeds`, if there is one request at a time and the IPv6 prefixes do not overlap |
| `AllocationAvailable` | `Spec => AllocationIsAvailable`, if prefixes are changed in size only |

Assumptions: node ids are naturals (their order is the primary-key order);
prefixes are `[base, size]` with a positive size and the defaults are among them;
`Octet` is positive; the null values differ from the values they stand beside.

The inductive invariant `IInv` is `TypeOK`, `UniqueAddresses`, `LockedViewIsCurrent` and
`LoadedNetworkExists` (a handler that has loaded a network row finds one in the
table). `TypeOK` carries what a handler knows at each statement (`LocalsOK`,
`PlanOK`); without it the step of a commit says nothing about the addresses it
writes. Uniqueness is preserved by an INSERT because of the UNIQUE columns
(`Insertable`), and by a re-allocation because each UPDATE is compared with the
rows as they stand at that moment (`UpdateMeets`): of two rows the later one in
primary-key order meets the new contents of the earlier. Completeness of a
re-allocation rests on `LockedViewIsCurrent`: the rows it planned for are the rows of
the table when it commits. The refinement maps `book` to the address columns of
`nodes`; an INSERT is `Assign`, a DELETE `Release`, a commit of a re-allocation
`Renumber`, and everything else leaves the book alone.

Four kinds of theorem add to `IInv`.

* `EndpointsReported` needs that a row about to be inserted carries the endpoints its request reported
  (`RowIsReported`).
* `NodesInPool` and `RegistrationWorks` assume `OneAtATime`, a fact about the constants: any two request slots are the
  same one. The invariant (`AloneInv`) then says that every row lies in the pool of the network (`RowsInPool`) and has
  the IPv6 counterpart of its IPv4 address (`RowsPaired`), that what the running handler has loaded is what the
  tables hold (`Current`), and that it finds at each statement what it found at the one before (`Alone`). With two
  requests at once both theorems are false (section 5), so the assumption cannot be dropped.
* `RegistrationWorks` goes on from there: the UNIQUE column of the IPv6 addresses can only stop an INSERT if two IPv4
  addresses of one prefix have the same counterpart. `SeparatePools6` excludes it: within the network's IPv4 prefix
  the counterparts of different addresses differ, in the network's IPv6 prefix and in the default one, as they do if
  IPv6 prefixes do not overlap. `ctrl_sequential` meets both assumptions.
* `AllocationAvailable` allows any number of requests at once and says what of the finding `ctrl_wedge` is due to
  prefixes that move. `SameBases`: all IPv4 prefixes begin at one address and all IPv6 prefixes at one, so a
  re-allocation widens or narrows them. Then every address in the table, about to be inserted or read by a
  re-allocation is with its one counterpart (`AllPaired`), also where a commit writes only one of the columns it
  thinks differ. With a second IPv4 base it is false (`ctrl_wedge`); with a second IPv6 base, too: of
  two re-allocations at once, neither of which changes the network row, the later may write only the IPv6 address into
  a row the earlier has meanwhile given another IPv4 address.

`HandlersAdvance` rests on the types alone: `Left` counts the statements a handler has left, and INSERT of the
network, the one step back to an earlier statement, happens only if there was none. With
fairness, which TLC adds, it is why `EveryRequestIsAnswered`.

### DNSServer

`DNSServerProofs` proves `TypeCorrect` (`Spec => []TypeOK`), `NamesPrivate`
(`Spec => NamesStayPrivate`) and `NamesResolve` (`Spec => KnownNamesResolve`) for every
set of nodes, TLDs, addresses and queries, from `DNSAssumption`: nodes and TLDs have
different names, and the null value is no address. The inductive invariant adds two facts to the types. `ToldIsCached`:
a name that was answered is in the cache, which only a restart empties
(`KnownStays`). `HistoryIsKept`: the present record of a query's name is in its
history (`Current`), and what a query without failures has not learned after a
list was absent at some time since it arrived (`Complete`); it holds at each label
because other queries only add to the cache.

### Federation

`FederationProofs` proves `TypeCorrect`, `RemoteRowFirst` (`Spec => []AnnouncedFirst`)
and `SuccessRecorded` (`Spec => SuccessIsRecorded`) for every set of controllers and
requests, from `FederationAssumption`: the shared URL and the dead one are not the URL
of a controller. `AnnouncedFirst` is not inductive: the local INSERT needs to know that the
remote row exists. `HandshakesAreRecorded` says so of every caller that has been accepted, and rows
never go (`PeersGrow`). `PeeringIsOneSided` is what the documents would not lead one to expect: a row with a
controller's URL appears only by that row's own controller asking for it, in the step that answers "ok".

### Mesh

`MeshProofs` proves `TypeCorrect` and `NamesReach` (`Spec => []NamesReachTheirNodes`) for any
nodes, daemons, hostnames, addresses and prefixes, from `MeshAssumption`: the null values are
no addresses, and IPv4 addresses, IPv6 addresses and prefixes are different destinations. The invariant says of each
daemon (`Consistent`) that from the SELECT of the peers on its configuration holds no address twice, which the
abstract book gives (`Injective`); that while peers are being set, those already set are
reached at their addresses (`SettingReaches`: setting one takes no address from another); and that the
names are among the configuration's once they are written.

`TurnSuffices` (`Spec => OneTurnSuffices`) adds `HalfApplied`: of the configuration that is being applied, the interface has
the addresses if adding them succeeded, and the peers that are already set are in the kernel with all that is theirs
(`Delivers`): both addresses, and each prefix that no other route claims. Setting a further peer takes nothing of it
away (`SettingDelivers`), because addresses are given once and are no prefixes. A part that fails is not in `ok`, and
nothing is needed of it for the others.

### Identity

`IdentityProofs` proves `TypeCorrect`, `CopiesGenuine`, `RestartsKeepNode` and `RestartsResume`. The invariant
adds to these that an address just fetched or registered was given to that node (`Genuine`), that a file
opened by one process is empty until it is written, unless the other process shares the directory (`OpenFiles`), and
that what a daemon would find is the node it runs as also while it saves, which is where faults strike (`FindsItself`).

### Traversal

`TraversalProofs` proves `TypeCorrect` and the four safety properties for any number of nodes and NATs. The invariant says
what each datagram in the network looks like (`PacketOK`) and where an address comes from: a candidate is a mapping
of the harvester's socket or a local address (`CandidateOf`), and an address in the relay's table is the mapping,
toward the relay, of a socket from which the node of that entry has sent to it (`Relayed`). So a probe from outside its
LAN never goes to a socket that punches behind a NAT, and the relay sends to addresses of the right node.
`AnswersLookSymmetric` follows from `OwnMapping`: the two mappings are those of different sockets.

### Access

`AccessProofs` proves `TypeCorrect`, `NeverRefusedEarly` and `ChainIsEngine`
(`Spec => []ChainFollowsEngine`), for any tokens, requests, packets and lists of rules of any length.
For the tokens: every `used_count`, stored or read and not yet written, is
at most the number of admissions (`CountsAreLow`). For the chain, `ChainInv` says of each TCP packet that either no rule
the loop has passed matches it, and no command either (`Undecided`), or the first rule that matches has been
reached and the first command that matches decides as that rule does (`Decided`). One turn of the loop keeps
this (`TurnKeeps`), because a command is appended behind those it has seen; the engine's first match is then the
chain's (`EngineDecides`). `IsAllowed` and `Decides` speak of a first position, so no induction over the
list is needed.

### Forward

`ForwardProofs` proves `TypeCorrect`, `PatientEndServed`, `BacklogBounded`, `NoInvention` and `Refinement`
(`Spec => ImplementsStream`) for any amount of data, limit and window. The invariant has a part for conservation (what was sent is received, in one of three places on its way, or
lost), one for the window (a pipe that is about to read finds room to write), one for the order in which a
connection is closed (`Closing`), and one that says that while nothing of an end is lost, nothing on its way to
it is, and the pipe towards it ends only at the other end's FIN (`Whole`). `Refinement` maps
each step to a move of the stream (`Moves`): reading, draining and closing put no chunk on its way, so they are
losses at most (`LosesAtMost`); and the losses are excused in every state, since `Whole` is just that excuse
(`Excused`).

### What is only model-checked

Only the liveness properties: `EveryRequestIsAnswered`, `Convergence`, `EveryQueryEnds`, `EveryPeeringEnds`,
`AddressCatchesUp` and `NoConnectionLeaks`. Fairness and ENABLED are outside the prover. Of the first two the part that
is not about fairness is proved (`HandlersAdvance`, `TurnSuffices`). Every other property of a passing run is
a theorem; the properties of the two runs that find a counterexample are false as they stand.

## 7. Not modelled, and what could follow

* The endpoint that a peer is given (`endpoints[0]`), and with it which of a node's
  candidates WireGuard uses: it would join `Traversal` to `Mesh`, whose state space is too large for one
  run already.
* The periodic repetition of STUN and harvesting, the reuse of a closed socket's port, LANs that use the same private
  addresses, and NAT entries that time out while a socket is open.
* Whether pymesh0 is up, hostnames that differ in case only (`hosts.py:38` and `dns/server.py:135` fold them), and
  a permission on /etc/hosts that changes while the daemon runs.
* httpx's timeout applies to each read (`pymesh/dns/server.py:129`, `federation.py:36`): a server that sends a byte at a time could stretch
  a request; the models let the timeout end it.
* Two daemons with their tunnels in one instance of `Mesh`: they meet only at the controller.
* The search for a free local port (`pymesh/cli/commands.py:325`), which ends with an OverflowError past port
  65535; the other commands, which call one endpoint and print.
* That a forwarding timeout leaves a socket open (`pymesh/dns/server.py:200`), and which of two
  nodes that advertise one prefix gets it (`pymesh/controller/peers.py:42`: the one set last). No
  document says what should hold.

Left out: key generation and the STUN and DNS wire formats (conversions without
state), TLD name syntax, HTML pages and terminal output, the web dashboard (its router is not included
by the application), `remove_peer` and `remove_subnet_route` (called by
nothing), the daemon's dry-run mode (it changes nothing), migrations (a stub).
