------------------------------ MODULE Controller ------------------------------
(***************************************************************************)
(* The controller's address management: the REST handlers that register a  *)
(* node, take its heartbeat, delete it and re-allocate the network's       *)
(* subnet (controller/api.py, controller/nodes.py, controller/allocator.py)*)
(* over the tables `networks` and `nodes` (storage/models.py).             *)
(*                                                                         *)
(* Handlers are coroutines: every awaited statement is a point where the   *)
(* other requests run.  One action is one statement together with the      *)
(* local computation that follows it.  The session is SQLAlchemy over      *)
(* SQLite (storage/database.py): a SELECT reads the latest committed       *)
(* tables; the first INSERT/UPDATE/DELETE takes the single write lock; a   *)
(* flush writes only the columns whose value differs from the loaded one;  *)
(* rows are updated in primary-key order and UNIQUE is enforced row by     *)
(* row; an exception rolls the session back and answers 500.               *)
(***************************************************************************)
EXTENDS Naturals, FiniteSets

CONSTANTS
    NodeIds,            \* node ids; their order is the primary-key order
    Requests,           \* request slots: how many requests run at once
    Pools4, Pools6,     \* prefixes a caller may ask for, [base, size]
    Asked6,             \* the ipv6_prefix arguments callers send
    Default4, Default6, \* the prefixes a new network starts with
    Octet,              \* addresses per last octet (256 in the code)
    Endpoints,          \* non-empty endpoint lists a node may report
    NoEp,               \* the empty endpoint list
    Absent,             \* no row for this node id
    NoNet,              \* no row in `networks`, or none loaded yet
    NoPool,             \* an empty ipv6_prefix argument
    Nobody,             \* nobody holds the write lock
    Nothing             \* an unused local of a handler

Prefixes == [base : Nat, size : Nat \ {0}]

ASSUME NodeIdsAssumption == NodeIds \subseteq Nat
ASSUME PoolsAssumption ==
    /\ Pools4 \subseteq Prefixes /\ Default4 \in Pools4
    /\ Pools6 \subseteq Prefixes /\ Default6 \in Pools6
    /\ NoPool \notin Pools6
    /\ Asked6 \subseteq Pools6 \cup {NoPool}
ASSUME OctetAssumption == Octet \in Nat \ {0}
ASSUME NobodyAssumption == Nobody \notin Requests

(***************************************************************************)
(* The allocator.                                                          *)
(***************************************************************************)

\* ipaddress.IPv4Network.hosts(): all addresses of a /31 or /32, otherwise
\* all but the network and the broadcast address.
Hosts(p) ==
    IF p.size <= 2 THEN p.base .. (p.base + p.size - 1)
                   ELSE (p.base + 1) .. (p.base + p.size - 2)

\* allocate() also skips the network address and every address whose last
\* octet is 1.
Allocatable(p) == {a \in Hosts(p) : a # p.base /\ a % Octet # 1}

\* The IPv6 address is the IPv4 host offset added to the IPv6 network
\* address; nothing looks at which IPv6 addresses are taken.
V6Of(p4, p6, a) == p6.base + (a - p4.base)

\* Fault seeded into Free: the addresses in use are not consulted.
FreeUnchecked(p4, table) == Allocatable(p4)

\* The free IPv4 addresses, given a snapshot of the table.
Free(p4, table) ==
    {a \in Allocatable(p4) :
        \A n \in NodeIds : table[n] # Absent => table[n].v4 # a}

\* The first free address in ascending order.
IsNext(p4, table, a) ==
    /\ a \in Free(p4, table)
    /\ \A b \in Free(p4, table) : a <= b

(***************************************************************************)
(* State.                                                                  *)
(***************************************************************************)
VARIABLES
    net,     \* the row of `networks`, [v4, v6], or NoNet
    nodes,   \* the table `nodes`: id -> [v4, v6, ep] or Absent
    older,   \* <<m, n>>: row m was inserted before row n
    writer,  \* the request whose transaction holds the write lock
    pc,      \* the statement each request runs next
    ask,     \* the parameters of each request
    lnet,    \* the network row a request has loaded
    view,    \* the addresses of the node rows a request has loaded
    row,     \* the node row a request is about to insert or has loaded
    plan,    \* the addresses a re-allocation is about to write
    reply    \* the answers the last step sent

tables == <<net, nodes, older>>
locals == <<ask, lnet, view, row, plan>>
vars == <<net, nodes, older, writer, pc, ask, lnet, view, row, plan, reply>>

Nets == [v4 : Pools4, v6 : Pools6]
Eps == Endpoints \cup {NoEp}
V4Space == UNION {Allocatable(p) : p \in Pools4}
V6SpaceOf(p) == UNION {{V6Of(p, q, a) : a \in Allocatable(p)} : q \in Pools6}
V6Space == UNION {V6SpaceOf(p) : p \in Pools4}
Addresses == [v4 : V4Space, v6 : V6Space]
Rows == [v4 : V4Space, v6 : V6Space, ep : Eps]
Tables == [NodeIds -> Rows \cup {Absent}]
Books == [NodeIds -> Addresses \cup {Absent}]

RegisterAsks == [op : {"register"}, node : NodeIds, ep : Eps]
BeatAsks == [op : {"heartbeat"}, node : NodeIds, ep : Eps]
DeleteAsks == [op : {"delete"}, node : NodeIds]
PutAsks == [op : {"put"}, v4 : Pools4, v6 : Asked6]
Asks == RegisterAsks \cup BeatAsks \cup DeleteAsks \cup PutAsks

ASSUME NullsAssumption ==
    Absent \notin Rows /\ Absent \notin Addresses /\ NoNet \notin Nets

Present(table) == {n \in NodeIds : table[n] # Absent}

\* The address columns of the table.
Addr(n) == [v4 |-> nodes[n].v4, v6 |-> nodes[n].v6]
book == [n \in NodeIds |-> IF nodes[n] = Absent THEN Absent ELSE Addr(n)]

\* The IPv6 prefix given to the allocator.
AllocatorPool6(r) == IF ask[r].v6 = NoPool THEN Default6 ELSE ask[r].v6

\* A re-allocation's plan gives exactly the rows it has read an address of the
\* pool it was asked for.
PlanOK(r) ==
    /\ plan[r] \in Books
    /\ \A n \in NodeIds :
        IF view[r][n] = Absent
          THEN plan[r][n] = Absent
          ELSE /\ plan[r][n] \in Addresses
               /\ plan[r][n].v4 \in Allocatable(ask[r].v4)
               /\ plan[r][n].v6 =
                     V6Of(ask[r].v4, AllocatorPool6(r), plan[r][n].v4)

\* What a handler knows at each of its statements.
LocalsOK(r) ==
    /\ pc[r] \in {"select_net", "insert_net"} => ask[r] \in RegisterAsks \cup PutAsks
    /\ pc[r] \in {"select_ips", "select_node", "insert_node", "update_node",
                  "refresh_node"} => ask[r] \in RegisterAsks
    /\ pc[r] \in {"get_node", "commit_beat"} => ask[r] \in BeatAsks
    /\ pc[r] = "delete" => ask[r] \in DeleteAsks
    /\ pc[r] \in {"select_nodes", "commit_put"} => ask[r] \in PutAsks
    /\ pc[r] \in {"select_ips", "select_node", "select_nodes", "commit_put"} =>
          lnet[r] \in Nets
    /\ pc[r] \in {"select_node", "commit_put"} => view[r] \in Books
    /\ pc[r] \in {"insert_node", "update_node", "commit_beat"} => row[r] \in Rows
    /\ pc[r] = "commit_put" => PlanOK(r)

TypeOK ==
    /\ net \in Nets \cup {NoNet}
    /\ nodes \in Tables
    /\ older \subseteq NodeIds \X NodeIds
    /\ writer \in Requests \cup {Nobody}
    /\ pc \in [Requests -> {"idle", "select_net", "insert_net", "select_ips",
                            "select_node", "insert_node", "update_node",
                            "refresh_node", "get_node", "commit_beat",
                            "delete", "select_nodes", "commit_put"}]
    /\ ask \in [Requests -> Asks \cup {Nothing}]
    /\ lnet \in [Requests -> Nets \cup {NoNet}]
    /\ view \in [Requests -> Books \cup {Nothing}]
    /\ row \in [Requests -> Rows \cup {Nothing}]
    /\ plan \in [Requests -> Books \cup {Nothing}]
    /\ reply \in [Requests -> {"none", "ok", "bad_request", "not_found",
                               "exhausted", "integrity", "stale", "gone",
                               "locked", "lost"}]
    /\ \A r \in Requests : LocalsOK(r)

\* No request is answered.
Silence == [r \in Requests |-> "none"]

Init ==
    /\ net = NoNet
    /\ nodes = [n \in NodeIds |-> Absent]
    /\ older = {}
    /\ writer = Nobody
    /\ pc = [r \in Requests |-> "idle"]
    /\ ask = [r \in Requests |-> Nothing]
    /\ lnet = [r \in Requests |-> NoNet]
    /\ view = [r \in Requests |-> Nothing]
    /\ row = [r \in Requests |-> Nothing]
    /\ plan = [r \in Requests |-> Nothing]
    /\ reply = Silence

(***************************************************************************)
(* Parts of a handler.                                                     *)
(***************************************************************************)

At(r, label) == pc[r] = label

\* The handler answers; its session is closed and its locals are gone.
Answer(r, how) ==
    /\ pc' = [pc EXCEPT ![r] = "idle"]
    /\ ask' = [ask EXCEPT ![r] = Nothing]
    /\ lnet' = [lnet EXCEPT ![r] = NoNet]
    /\ view' = [view EXCEPT ![r] = Nothing]
    /\ row' = [row EXCEPT ![r] = Nothing]
    /\ plan' = [plan EXCEPT ![r] = Nothing]
    /\ reply' = [Silence EXCEPT ![r] = how]

\* Fault seeded into Unlocked: the transaction is left open.
NeverUnlocked(r) == writer

\* The session of r rolls back or commits: the lock it may hold is free.
Unlocked(r) == IF writer = r THEN Nobody ELSE writer

\* r may write: the lock is free or already its own.
MayWrite(r) == writer \in {Nobody, r}

\* The handler goes on with its next statement.
Goto(r, label) ==
    /\ pc' = [pc EXCEPT ![r] = label]
    /\ reply' = Silence

(***************************************************************************)
(* A request arrives.                                                      *)
(***************************************************************************)
\* The handler of request a runs up to its first statement.
Start(r, a, label) ==
    /\ ask' = [ask EXCEPT ![r] = a]
    /\ Goto(r, label)
    /\ UNCHANGED <<tables, writer, lnet, view, row, plan>>

Begin(r) ==
    /\ At(r, "idle")
    /\ \/ \E a \in RegisterAsks \cup PutAsks : Start(r, a, "select_net")
       \/ \E a \in BeatAsks : Start(r, a, "get_node")
       \/ \E a \in DeleteAsks : Start(r, a, "delete")

\* A subnet ipaddress cannot parse (validate_cidr): nothing is read or written.
RejectCidr(r) ==
    /\ At(r, "idle")
    /\ Answer(r, "bad_request")
    /\ UNCHANGED <<tables, writer>>

(***************************************************************************)
(* get_or_create_network.                                                  *)
(***************************************************************************)
SelectNetwork(r) ==
    /\ At(r, "select_net")
    /\ lnet' = [lnet EXCEPT ![r] = net]
    /\ Goto(r, IF net = NoNet THEN "insert_net"
               ELSE IF ask[r].op = "register" THEN "select_ips"
               ELSE "select_nodes")
    /\ UNCHANGED <<tables, writer, ask, view, row, plan>>

\* The refresh that follows the INSERT reads the row back: SelectNetwork.
InsertNetwork(r) ==
    /\ At(r, "insert_net")
    /\ MayWrite(r)
    /\ net = NoNet
    /\ net' = [v4 |-> Default4, v6 |-> Default6]
    /\ Goto(r, "select_net")
    /\ UNCHANGED <<nodes, older, writer, locals>>

\* Fault seeded into InsertNetworkFails: the INSERT is retried as it is.
RetryInsertNetwork(r) ==
    /\ At(r, "insert_net")
    /\ MayWrite(r)
    /\ net # NoNet
    /\ Goto(r, "insert_net")
    /\ UNCHANGED <<tables, writer, locals>>

\* Another request created it first.
InsertNetworkFails(r) ==
    /\ At(r, "insert_net")
    /\ MayWrite(r)
    /\ net # NoNet
    /\ Answer(r, "integrity")
    /\ UNCHANGED <<tables, writer>>

(***************************************************************************)
(* POST /nodes/register, without a token.                                  *)
(***************************************************************************)
SelectIps(r) ==
    /\ At(r, "select_ips")
    /\ view' = [view EXCEPT ![r] = book]
    /\ Goto(r, "select_node")
    /\ UNCHANGED <<tables, writer, ask, lnet, row, plan>>

\* The node is known: its fields are overwritten.
FindNode(r) ==
    /\ At(r, "select_node")
    /\ nodes[ask[r].node] # Absent
    /\ row' = [row EXCEPT ![r] = nodes[ask[r].node]]
    /\ view' = [view EXCEPT ![r] = Nothing]
    /\ Goto(r, "update_node")
    /\ UNCHANGED <<tables, writer, ask, lnet, plan>>

\* The node is new: allocate() runs on what was read so far.
Allocate(r) ==
    /\ At(r, "select_node")
    /\ nodes[ask[r].node] = Absent
    /\ \E a \in Allocatable(lnet[r].v4) :
        /\ IsNext(lnet[r].v4, view[r], a)
        /\ row' = [row EXCEPT ![r] =
                      [v4 |-> a, v6 |-> V6Of(lnet[r].v4, lnet[r].v6, a),
                       ep |-> ask[r].ep]]
    /\ view' = [view EXCEPT ![r] = Nothing]
    /\ Goto(r, "insert_node")
    /\ UNCHANGED <<tables, writer, ask, lnet, plan>>

AllocateFails(r) ==
    /\ At(r, "select_node")
    /\ nodes[ask[r].node] = Absent
    /\ Free(lnet[r].v4, view[r]) = {}
    /\ Answer(r, "exhausted")
    /\ UNCHANGED <<tables, writer>>

Clash(a, b) == a.v4 = b.v4 \/ a.v6 = b.v6

\* Fault seeded into Insertable: mesh_ipv6 is not UNIQUE.
InsertableV4Only(n, new) ==
    /\ nodes[n] = Absent
    /\ \A m \in Present(nodes) : new.v4 # nodes[m].v4

\* The primary key and the two UNIQUE columns of `nodes`.
Insertable(n, new) ==
    /\ nodes[n] = Absent
    /\ \A m \in Present(nodes) : ~Clash(new, nodes[m])

InsertNode(r) ==
    LET n == ask[r].node IN
    /\ At(r, "insert_node")
    /\ MayWrite(r)
    /\ Insertable(n, row[r])
    /\ nodes' = [nodes EXCEPT ![n] = row[r]]
    /\ older' = older \cup {<<m, n>> : m \in Present(nodes)}
    /\ row' = [row EXCEPT ![r] = Nothing]
    /\ Goto(r, "refresh_node")
    /\ UNCHANGED <<net, writer, ask, lnet, view, plan>>

InsertNodeFails(r) ==
    /\ At(r, "insert_node")
    /\ MayWrite(r)
    /\ ~Insertable(ask[r].node, row[r])
    /\ Answer(r, "integrity")
    /\ UNCHANGED <<tables, writer>>

\* last_seen always changes, so a row is always written; the endpoints are
\* only written if they differ from the ones loaded.
Written(asked, loaded, current) == IF asked # loaded THEN asked ELSE current

UpdateNode(r) ==
    LET n == ask[r].node IN
    /\ At(r, "update_node")
    /\ MayWrite(r)
    /\ nodes[n] # Absent
    /\ nodes' = [nodes EXCEPT ![n].ep = Written(ask[r].ep, row[r].ep, @)]
    /\ row' = [row EXCEPT ![r] = Nothing]
    /\ Goto(r, "refresh_node")
    /\ UNCHANGED <<net, older, writer, ask, lnet, view, plan>>

\* The row vanished between the SELECT and the UPDATE: StaleDataError.
UpdateNodeFails(r) ==
    /\ pc[r] \in {"update_node", "commit_beat"}
    /\ MayWrite(r)
    /\ nodes[ask[r].node] = Absent
    /\ Answer(r, "stale")
    /\ UNCHANGED <<tables, writer>>

\* session.refresh reads the row back, and raises if it is gone.
RefreshNode(r) ==
    /\ At(r, "refresh_node")
    /\ Answer(r, IF nodes[ask[r].node] = Absent THEN "gone" ELSE "ok")
    /\ UNCHANGED <<tables, writer>>

(***************************************************************************)
(* POST /nodes/{id}/heartbeat.                                             *)
(***************************************************************************)
GetNode(r) ==
    LET n == ask[r].node IN
    /\ At(r, "get_node")
    /\ nodes[n] # Absent
    /\ row' = [row EXCEPT ![r] = nodes[n]]
    /\ Goto(r, "commit_beat")
    /\ UNCHANGED <<tables, writer, ask, lnet, view, plan>>

GetNodeFails(r) ==
    /\ At(r, "get_node")
    /\ nodes[ask[r].node] = Absent
    /\ Answer(r, "not_found")
    /\ UNCHANGED <<tables, writer>>

\* Fault seeded into CommitBeat: the row is written back as it was read, and
\* inserted again if it is gone.
CommitWholeRow(r) ==
    LET n == ask[r].node
        wanted == IF ask[r].ep = NoEp THEN row[r].ep ELSE ask[r].ep IN
    /\ At(r, "commit_beat")
    /\ MayWrite(r)
    /\ nodes' = [nodes EXCEPT ![n] = [row[r] EXCEPT !.ep = wanted]]
    /\ Answer(r, "ok")
    /\ UNCHANGED <<net, older, writer>>

\* Fault seeded into CommitBeat: the list that was loaded is written back.
BeatWritesBack(r) ==
    LET n == ask[r].node IN
    /\ At(r, "commit_beat")
    /\ MayWrite(r)
    /\ nodes[n] # Absent
    /\ nodes' = [nodes EXCEPT ![n].ep = IF ask[r].ep = NoEp THEN row[r].ep ELSE ask[r].ep]
    /\ Answer(r, "ok")
    /\ UNCHANGED <<net, older, writer>>

\* An empty endpoint list leaves the column alone.
CommitBeat(r) ==
    LET n == ask[r].node
        wanted == IF ask[r].ep = NoEp THEN row[r].ep ELSE ask[r].ep IN
    /\ At(r, "commit_beat")
    /\ MayWrite(r)
    /\ nodes[n] # Absent
    /\ nodes' = [nodes EXCEPT ![n].ep = Written(wanted, row[r].ep, @)]
    /\ Answer(r, "ok")
    /\ UNCHANGED <<net, older, writer>>

(***************************************************************************)
(* DELETE /nodes/{id}.                                                     *)
(***************************************************************************)
DeleteNode(r) ==
    LET n == ask[r].node IN
    /\ At(r, "delete")
    /\ MayWrite(r)
    /\ nodes' = [nodes EXCEPT ![n] = Absent]
    /\ older' = {p \in older : n \notin {p[1], p[2]}}
    /\ Answer(r, IF nodes[n] = Absent THEN "not_found" ELSE "ok")
    /\ UNCHANGED <<net, writer>>

(***************************************************************************)
(* PUT /network/subnet.                                                    *)
(***************************************************************************)

\* Fault seeded into WantedNet: the new IPv6 prefix is not stored.
KeepsPrefix(r) == [v4 |-> ask[r].v4, v6 |-> lnet[r].v6]

\* What the handler assigns to the network object.
WantedNet(r) ==
    [v4 |-> ask[r].v4,
     v6 |-> IF ask[r].v6 = NoPool THEN lnet[r].v6 ELSE ask[r].v6]

NetIsDirty(r) == WantedNet(r) # lnet[r]

\* allocate() called once per row, in the order the rows were inserted, with
\* the addresses handed out so far: the row with k older rows gets the
\* allocatable address with k smaller ones.
InOrder(p4, age, new) ==
    \A n \in DOMAIN new :
        Cardinality({b \in Allocatable(p4) : b < new[n]})
            = Cardinality({m \in DOMAIN new : <<m, n>> \in age})

\* Fault seeded into Renumbering: the IPv6 offset is the whole IPv4 address.
RenumberingUnshifted(p4, p6, new) ==
    [n \in NodeIds |-> IF n \in DOMAIN new
                         THEN [v4 |-> new[n], v6 |-> p6.base + new[n]]
                         ELSE Absent]

Renumbering(p4, p6, new) ==
    [n \in NodeIds |-> IF n \in DOMAIN new
                         THEN [v4 |-> new[n], v6 |-> V6Of(p4, p6, new[n])]
                         ELSE Absent]

Fits(p4, table) == Cardinality(Present(table)) <= Cardinality(Allocatable(p4))

\* list_nodes: the pending UPDATE of `networks` is flushed before the SELECT
\* and takes the write lock, unless it would change no column.
SelectNodes(r) ==
    /\ At(r, "select_nodes")
    /\ NetIsDirty(r) => MayWrite(r)
    /\ Fits(ask[r].v4, nodes)
    /\ writer' = IF NetIsDirty(r) THEN r ELSE writer
    /\ view' = [view EXCEPT ![r] = book]
    /\ \E new \in [Present(nodes) -> Allocatable(ask[r].v4)] :
        /\ InOrder(ask[r].v4, older, new)
        /\ plan' = [plan EXCEPT ![r] =
                       Renumbering(ask[r].v4, AllocatorPool6(r), new)]
    /\ Goto(r, "commit_put")
    /\ UNCHANGED <<tables, ask, lnet, row>>

\* The pool is too small for the rows: RuntimeError, and a rollback.
SelectNodesFails(r) ==
    /\ At(r, "select_nodes")
    /\ NetIsDirty(r) => MayWrite(r)
    /\ ~Fits(ask[r].v4, nodes)
    /\ Answer(r, "exhausted")
    /\ UNCHANGED <<tables, writer>>

\* Fault seeded into DirtyRows: a row counts as changed by its IPv6 address only.
DirtyByV6(r) ==
    {n \in Present(view[r]) : plan[r][n].v6 # view[r][n].v6}

\* The rows the commit updates.
DirtyRows(r) ==
    {n \in Present(view[r]) : plan[r][n] # view[r][n]}

\* The row the UPDATE of a re-allocation leaves.
UpdatedRow(r, n) ==
    IF n \in DirtyRows(r)
      THEN [v4 |-> Written(plan[r][n].v4, view[r][n].v4, nodes[n].v4),
            v6 |-> Written(plan[r][n].v6, view[r][n].v6, nodes[n].v6),
            ep |-> nodes[n].ep]
      ELSE nodes[n]

\* Fault seeded into UpdateMeets: only later rows are compared.
UpdateMeetsLater(r, n, m) == m > n /\ Clash(UpdatedRow(r, n), nodes[m])

\* The UPDATE of row n meets a row m that holds one of its new addresses: m's
\* old ones if m comes later in primary-key order, m's new ones otherwise.
UpdateMeets(r, n, m) ==
    Clash(UpdatedRow(r, n), IF m < n THEN UpdatedRow(r, m) ELSE nodes[m])

Vanished(r) == {n \in DirtyRows(r) : nodes[n] = Absent}

Conflict(r) ==
    \E n \in DirtyRows(r) \ Vanished(r), m \in Present(nodes) :
        m # n /\ UpdateMeets(r, n, m)

PutWrites(r) == writer = r \/ DirtyRows(r) # {}

CommitPut(r) ==
    /\ At(r, "commit_put")
    /\ PutWrites(r) => MayWrite(r)
    /\ Vanished(r) = {}
    /\ ~Conflict(r)
    /\ net' = [v4 |-> Written(WantedNet(r).v4, lnet[r].v4, net.v4),
               v6 |-> Written(WantedNet(r).v6, lnet[r].v6, net.v6)]
    /\ nodes' = [n \in NodeIds |-> UpdatedRow(r, n)]
    /\ writer' = Unlocked(r)
    /\ Answer(r, "ok")
    /\ UNCHANGED older

CommitPutFails(r) ==
    /\ At(r, "commit_put")
    /\ MayWrite(r)
    /\ \/ Vanished(r) # {} /\ Answer(r, "stale")
       \/ Conflict(r) /\ Answer(r, "integrity")
    /\ writer' = Unlocked(r)
    /\ UNCHANGED tables

(***************************************************************************)
(* The database and the process.                                           *)
(***************************************************************************)

\* The next statement of r writes.
Writes(r) ==
    \/ pc[r] \in {"insert_net", "insert_node", "update_node", "commit_beat",
                  "delete"}
    \/ At(r, "select_nodes") /\ NetIsDirty(r)
    \/ At(r, "commit_put") /\ PutWrites(r)

\* SQLite's busy timeout: "database is locked" while another request holds
\* the write lock.
Busy(r) ==
    /\ Writes(r)
    /\ ~MayWrite(r)
    /\ Answer(r, "locked")
    /\ UNCHANGED <<tables, writer>>

\* The controller process stops and starts again: every open transaction is
\* rolled back, every caller loses its answer, the tables stay.
Restart ==
    /\ \E r \in Requests : ~At(r, "idle")
    /\ writer' = Nobody
    /\ pc' = [r \in Requests |-> "idle"]
    /\ ask' = [r \in Requests |-> Nothing]
    /\ lnet' = [r \in Requests |-> NoNet]
    /\ view' = [r \in Requests |-> Nothing]
    /\ row' = [r \in Requests |-> Nothing]
    /\ plan' = [r \in Requests |-> Nothing]
    /\ reply' = [r \in Requests |->
                    IF At(r, "idle") THEN "none" ELSE "lost"]
    /\ UNCHANGED tables

Step(r) ==
    \/ SelectNetwork(r) \/ InsertNetwork(r) \/ InsertNetworkFails(r)
    \/ SelectIps(r) \/ FindNode(r) \/ Allocate(r) \/ AllocateFails(r)
    \/ InsertNode(r) \/ InsertNodeFails(r)
    \/ UpdateNode(r) \/ UpdateNodeFails(r) \/ RefreshNode(r)
    \/ GetNode(r) \/ GetNodeFails(r) \/ CommitBeat(r)
    \/ DeleteNode(r)
    \/ SelectNodes(r) \/ SelectNodesFails(r) \/ CommitPut(r) \/ CommitPutFails(r)
    \/ Busy(r)

Next ==
    \/ \E r \in Requests : Begin(r) \/ RejectCidr(r) \/ Step(r)
    \/ Restart

Spec == Init /\ [][Next]_vars

\* A handler that has begun runs on; nobody has to send a request.
FairSpec == Spec /\ \A r \in Requests : WF_vars(Step(r))

(***************************************************************************)
(* Properties.                                                             *)
(***************************************************************************)

\* No two registered nodes ever share a mesh address of either family,
\* whatever registrations, deletions and re-allocations run at once
\* (models.py:34-35; nodes.py:68-89; api.py:269-276).
UniqueAddresses ==
    \A m, n \in Present(nodes) : m # n => ~Clash(nodes[m], nodes[n])

\* A re-allocation that holds the write lock computes on rows that cannot
\* change under it, because the flush of the new prefix precedes the SELECT of
\* the nodes; and no handler that has failed or answered still holds the lock
\* (api.py:259-276).
LockedViewIsCurrent ==
    \A r \in Requests : writer = r => At(r, "commit_put") /\ view[r] = book

\* A re-allocation that changed the prefix and answers 200 leaves every row
\* of the table, not only those it had seen, with an address of the new IPv4
\* pool and its IPv6 counterpart (api.py:258-276).
ReallocationIsComplete ==
    [][\A r \in Requests :
        (writer = r /\ reply'[r] = "ok") =>
            \A n \in Present(nodes') :
                /\ nodes'[n].v4 \in Allocatable(ask[r].v4)
                /\ nodes'[n].v6 =
                      V6Of(ask[r].v4, AllocatorPool6(r), nodes'[n].v4)]_vars

\* A node's addresses appear only by the INSERT of its own registration and
\* move only by a re-allocation that succeeds: a heartbeat or a repeated
\* registration that read the row earlier neither restores old addresses nor
\* brings a deleted node back (nodes.py:50-66, api.py:141-151).
AddressesComeFromAllocations ==
    [][\A n \in NodeIds :
        book'[n] \notin {book[n], Absent} =>
            \E r \in Requests :
                \/ At(r, "insert_node") /\ ask[r].node = n /\ nodes[n] = Absent
                \/ At(r, "commit_put") /\ reply'[r] = "ok"
                      /\ book[n] # Absent]_vars

\* The endpoints of a node change only to a list that a request of that very
\* node reported: no stale read of them is ever written back (api.py:148-151,
\* nodes.py:61).
EndpointsComeFromTheNode ==
    [][\A n \in NodeIds :
        (nodes'[n] # Absent /\ (nodes[n] = Absent \/ nodes'[n].ep # nodes[n].ep)) =>
            \E r \in Requests :
                /\ pc[r] \in {"insert_node", "update_node", "commit_beat"}
                /\ ask[r].node = n
                /\ ask[r].ep = nodes'[n].ep]_vars

\* The detailed handlers implement the address book.
Book == INSTANCE AddressBook WITH
    book <- book, NodeIds <- NodeIds, Addresses <- Addresses, Absent <- Absent
ImplementsBook == Book!Spec

\* Every handler that begins answers, whoever holds the write lock: a waiter is
\* either let in or told that the database is locked (database.py:28-30).
EveryRequestIsAnswered ==
    \A r \in Requests : ~At(r, "idle") ~> At(r, "idle")

\* The statements a handler has left, this one included: after the INSERT of the
\* network it selects it once more.
LeftAt ==
    [idle |-> 0, select_net |-> 5, insert_net |-> 6, select_ips |-> 4,
     select_node |-> 3, insert_node |-> 2, update_node |-> 2, refresh_node |-> 1,
     get_node |-> 2, commit_beat |-> 1, delete |-> 1, select_nodes |-> 2,
     commit_put |-> 1]

Left(r) == LeftAt[pc[r]] + (IF At(r, "select_net") /\ net = NoNet THEN 2 ELSE 0)

\* No handler runs in circles, whatever other requests insert, delete or renumber
\* under it: each statement it runs leaves it fewer, so it never runs more than
\* seven (nodes.py:17-92, api.py:135-160, 246-276).
EveryStepAdvances ==
    [][\A r \in Requests : ~At(r, "idle") => pc'[r] = pc[r] \/ Left(r)' < Left(r)]_vars

Idle == \A r \in Requests : At(r, "idle")

\* Between requests every node has an address of the network's IPv4 prefix,
\* "Validates & re-allocates network CIDR across all nodes" (README.md:219), and its
\* counterpart in the IPv6 prefix, or in the default one if the last re-allocation
\* was asked for with an empty prefix (api.py:260-264).
AllNodesInPool ==
    (Idle /\ net # NoNet) =>
        \A n \in Present(nodes) :
            /\ nodes[n].v4 \in Allocatable(net.v4)
            /\ \E q \in {net.v6, Default6} : nodes[n].v6 = V6Of(net.v4, q, nodes[n].v4)

\* With one request at a time a registration fails only because the IPv4 pool
\* is exhausted (nodes.py:68-89, allocator.py:20-40).
RegistrationSucceeds ==
    [][\A r \in Requests :
        (~At(r, "idle") /\ ask[r].op = "register") =>
            reply'[r] \in {"none", "ok", "exhausted", "lost"}]_vars

\* allocate() returns what its docstring says, "the next available IPv4 and
\* IPv6 address" (allocator.py:21): the INSERT of a node that is not
\* registered meets no other row unless its IPv4 address was taken meanwhile.
AllocationIsAvailable ==
    [][\A r \in Requests :
        (At(r, "insert_node") /\ reply'[r] = "integrity") =>
            \/ nodes[ask[r].node] # Absent
            \/ \E n \in Present(nodes) : nodes[n].v4 = row[r].v4]_vars
=============================================================================
