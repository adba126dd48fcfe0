-------------------------- MODULE ControllerProofs --------------------------
(***************************************************************************)
(* Proofs about Controller for every set of nodes, requests and prefixes.  *)
(* The inductive invariant is IInv:                                        *)
(*     TypeOK, UniqueAddresses, LockedViewIsCurrent, LoadedNetworkExists;  *)
(* when requests come one at a time it is PoolInv, which adds RowsInPool   *)
(* and Current, and AloneInv, which adds RowsPaired and Alone; AllPaired   *)
(* is what holds if the prefixes differ only in their size.                *)
(***************************************************************************)
EXTENDS Controller, TLAPS

Replies == {"none", "ok", "bad_request", "not_found", "exhausted",
            "integrity", "stale", "gone", "locked", "lost"}

Labels == {"idle", "select_net", "insert_net", "select_ips", "select_node",
           "insert_node", "update_node", "refresh_node", "get_node",
           "commit_beat", "delete", "select_nodes", "commit_put"}

\* The tables and the lock are of the right shape.
TablesOK ==
    /\ net \in Nets \cup {NoNet}
    /\ nodes \in Tables
    /\ older \subseteq NodeIds \X NodeIds
    /\ writer \in Requests \cup {Nobody}

\* The handlers' control and locals are of the right shape.
HandlersOK ==
    /\ pc \in [Requests -> Labels]
    /\ ask \in [Requests -> Asks \cup {Nothing}]
    /\ lnet \in [Requests -> Nets \cup {NoNet}]
    /\ view \in [Requests -> Books \cup {Nothing}]
    /\ row \in [Requests -> Rows \cup {Nothing}]
    /\ plan \in [Requests -> Books \cup {Nothing}]
    /\ reply \in [Requests -> Replies]
    /\ \A r \in Requests : LocalsOK(r)

LEMMA TypeParts == TypeOK <=> (TablesOK /\ HandlersOK)
BY DEF TypeOK, TablesOK, HandlersOK, Labels, Replies

\* A handler none of whose locals changed still knows what it knew.
LEMMA Untouched ==
    ASSUME NEW q \in Requests, LocalsOK(q),
           pc'[q] = pc[q], ask'[q] = ask[q], lnet'[q] = lnet[q],
           view'[q] = view[q], row'[q] = row[q], plan'[q] = plan[q]
    PROVE  LocalsOK(q)'
<1>1. PlanOK(q) => PlanOK(q)'
  BY DEF PlanOK, AllocatorPool6
<1>. QED  BY <1>1 DEF LocalsOK

\* Answering leaves every handler well-formed.
LEMMA AnswerOK ==
    ASSUME HandlersOK, NEW r \in Requests, NEW how \in Replies, Answer(r, how)
    PROVE  HandlersOK'
<1>1. /\ pc' \in [Requests -> Labels]
      /\ ask' \in [Requests -> Asks \cup {Nothing}]
      /\ lnet' \in [Requests -> Nets \cup {NoNet}]
      /\ view' \in [Requests -> Books \cup {Nothing}]
      /\ row' \in [Requests -> Rows \cup {Nothing}]
      /\ plan' \in [Requests -> Books \cup {Nothing}]
      /\ reply' \in [Requests -> Replies]
  BY DEF HandlersOK, Answer, Labels, Replies, Silence
<1>2. ASSUME NEW q \in Requests PROVE LocalsOK(q)'
  <2>1. CASE q = r
    <3>1. pc'[q] = "idle"
      BY <2>1 DEF HandlersOK, Answer
    <3>. QED  BY <3>1 DEF LocalsOK
  <2>2. CASE q # r
    <3>1. /\ pc'[q] = pc[q] /\ ask'[q] = ask[q] /\ lnet'[q] = lnet[q]
          /\ view'[q] = view[q] /\ row'[q] = row[q] /\ plan'[q] = plan[q]
      BY <2>2 DEF HandlersOK, Answer
    <3>. QED  BY <3>1, Untouched DEF HandlersOK
  <2>. QED  BY <2>1, <2>2
<1>. QED  BY <1>1, <1>2 DEF HandlersOK

\* So does going on to a statement whose locals are in place.
LEMMA GotoOK ==
    ASSUME HandlersOK, NEW r \in Requests, NEW label \in Labels, Goto(r, label),
           ask' \in [Requests -> Asks \cup {Nothing}],
           lnet' \in [Requests -> Nets \cup {NoNet}],
           view' \in [Requests -> Books \cup {Nothing}],
           row' \in [Requests -> Rows \cup {Nothing}],
           plan' \in [Requests -> Books \cup {Nothing}],
           \A q \in Requests \ {r} :
              /\ ask'[q] = ask[q] /\ lnet'[q] = lnet[q] /\ view'[q] = view[q]
              /\ row'[q] = row[q] /\ plan'[q] = plan[q],
           LocalsOK(r)'
    PROVE  HandlersOK'
<1>1. /\ pc' \in [Requests -> Labels]
      /\ reply' \in [Requests -> Replies]
  BY DEF HandlersOK, Goto, Labels, Replies, Silence
<1>2. ASSUME NEW q \in Requests \ {r} PROVE LocalsOK(q)'
  <2>1. pc'[q] = pc[q]
    BY DEF HandlersOK, Goto
  <2>. QED  BY <2>1, Untouched DEF HandlersOK
<1>. QED  BY <1>1, <1>2 DEF HandlersOK

\* The address columns of a well-formed table form a book.
LEMMA BookType == TablesOK => book \in Books
<1>. SUFFICES ASSUME TablesOK PROVE book \in Books
  OBVIOUS
<1>1. ASSUME NEW n \in NodeIds PROVE book[n] \in Addresses \cup {Absent}
  <2>1. CASE nodes[n] # Absent
    BY <2>1 DEF TablesOK, Tables, Rows, Addresses, book, Addr
  <2>2. CASE nodes[n] = Absent
    BY <2>2 DEF book
  <2>. QED  BY <2>1, <2>2
<1>. QED  BY <1>1 DEF Books, book

LEMMA BookTypeNext == TablesOK' => (book \in Books)'
BY BookType, PTL

\* The allocator stays inside the address spaces of the model.
LEMMA AllocationType ==
    ASSUME NEW p \in Pools4, NEW q \in Pools6, NEW a \in Allocatable(p)
    PROVE  a \in V4Space /\ V6Of(p, q, a) \in V6Space
<1>1. a \in V4Space
  BY DEF V4Space
<1>2. V6Of(p, q, a) \in V6SpaceOf(p)
  BY DEF V6SpaceOf
<1>. QED  BY <1>1, <1>2 DEF V6Space

\* A re-allocation asks for prefixes of the model.
LEMMA WantedType ==
    ASSUME NEW r \in Requests, ask[r] \in PutAsks, lnet[r] \in Nets
    PROVE  /\ ask[r].v4 \in Pools4
           /\ AllocatorPool6(r) \in Pools6
           /\ WantedNet(r) \in Nets
BY PoolsAssumption DEF PutAsks, AllocatorPool6, WantedNet, Nets

(***************************************************************************)
(* Type correctness, statement by statement.                               *)
(***************************************************************************)
LEMMA InitTypeOK == Init => TypeOK
BY DEF Init, TypeOK, Tables, Silence, LocalsOK

LEMMA BeginTypeOK ==
    ASSUME TypeOK, NEW r \in Requests, Begin(r) PROVE TypeOK'
<1>. TablesOK /\ HandlersOK
  BY TypeParts
<1>1. TablesOK'
  BY DEF Begin, Start, TablesOK, tables
<1>2. ASSUME NEW a \in Asks, NEW label \in Labels, Start(r, a, label),
             \/ a \in RegisterAsks \cup PutAsks /\ label = "select_net"
             \/ a \in BeatAsks /\ label = "get_node"
             \/ a \in DeleteAsks /\ label = "delete"
      PROVE  HandlersOK'
  <2>1. ask'[r] = a /\ pc'[r] = label
    BY <1>2 DEF HandlersOK, Start, Goto
  <2>2. LocalsOK(r)'
    BY <1>2, <2>1 DEF LocalsOK
  <2>. QED  BY <1>2, <2>2, GotoOK DEF Start, HandlersOK
<1>3. HandlersOK'
  BY <1>2 DEF Begin, Asks, Labels
<1>. QED  BY <1>1, <1>3 DEF TypeOK, TablesOK, HandlersOK, Labels, Replies

\* All the steps that answer without writing.
LEMMA FailureTypeOK ==
    ASSUME TypeOK, NEW r \in Requests, NEW how \in Replies, Answer(r, how),
           UNCHANGED <<net, nodes, older>>, writer' \in {writer, Nobody}
    PROVE  TypeOK'
<1>. TablesOK /\ HandlersOK
  BY TypeParts
<1>1. TablesOK'
  BY DEF TablesOK
<1>2. HandlersOK'
  BY AnswerOK
<1>. QED  BY <1>1, <1>2 DEF TypeOK, TablesOK, HandlersOK, Labels, Replies

\* The steps that end a request without changing a table.
Failure(r) ==
    \/ RejectCidr(r) \/ InsertNetworkFails(r) \/ AllocateFails(r)
    \/ InsertNodeFails(r) \/ UpdateNodeFails(r) \/ RefreshNode(r)
    \/ GetNodeFails(r) \/ SelectNodesFails(r) \/ CommitPutFails(r) \/ Busy(r)

LEMMA FailureShape ==
    ASSUME NEW r \in Requests, Failure(r)
    PROVE  /\ \E how \in Replies : Answer(r, how)
           /\ UNCHANGED <<net, nodes, older>>
           /\ writer' = writer \/ writer' = Unlocked(r)
<1>1. UNCHANGED <<net, nodes, older>> /\ (writer' = writer \/ writer' = Unlocked(r))
  BY DEF Failure, RejectCidr, InsertNetworkFails, AllocateFails,
         InsertNodeFails, UpdateNodeFails, RefreshNode, GetNodeFails,
         SelectNodesFails, CommitPutFails, Busy, tables
<1>2. \/ Answer(r, "bad_request") \/ Answer(r, "integrity")
      \/ Answer(r, "exhausted") \/ Answer(r, "stale") \/ Answer(r, "gone")
      \/ Answer(r, "ok") \/ Answer(r, "not_found") \/ Answer(r, "locked")
  <2>1. CASE RefreshNode(r)
    <3>1. CASE nodes[ask[r].node] = Absent
      BY <2>1, <3>1 DEF RefreshNode
    <3>2. CASE nodes[ask[r].node] # Absent
      BY <2>1, <3>2 DEF RefreshNode
    <3>. QED  BY <3>1, <3>2
  <2>2. CASE ~RefreshNode(r)
    BY <2>2 DEF Failure, RejectCidr, InsertNetworkFails, AllocateFails,
         InsertNodeFails, UpdateNodeFails, GetNodeFails,
         SelectNodesFails, CommitPutFails, Busy
  <2>. QED  BY <2>1, <2>2
<1>. QED  BY <1>1, <1>2 DEF Replies

LEMMA SelectNetworkTypeOK ==
    ASSUME TypeOK, NEW r \in Requests, SelectNetwork(r) PROVE TypeOK'
<1>. TablesOK /\ HandlersOK
  BY TypeParts
<1>. DEFINE label == IF net = NoNet THEN "insert_net"
                     ELSE IF ask[r].op = "register" THEN "select_ips"
                     ELSE "select_nodes"
<1>1. TablesOK'
  BY DEF SelectNetwork, TablesOK, tables
<1>2. ask[r] \in RegisterAsks \cup PutAsks
  BY DEF SelectNetwork, At, HandlersOK, LocalsOK
<1>3. label \in Labels /\ Goto(r, label)
  BY DEF Labels, SelectNetwork
<1>4. pc'[r] = label /\ ask'[r] = ask[r] /\ lnet'[r] = net
  BY <1>3 DEF SelectNetwork, HandlersOK, Goto
<1>5. LocalsOK(r)'
  <2>1. CASE net = NoNet
    BY <1>2, <1>4, <2>1 DEF LocalsOK
  <2>2. CASE net # NoNet
    <3>1. net \in Nets
      BY <2>2 DEF TablesOK
    <3>2. CASE ask[r].op = "register"
      <4>1. ask[r] \in RegisterAsks
        BY <1>2, <3>2 DEF RegisterAsks, PutAsks
      <4>. QED  BY <1>4, <2>2, <3>1, <3>2, <4>1 DEF LocalsOK
    <3>3. CASE ask[r].op # "register"
      <4>1. ask[r] \in PutAsks
        BY <1>2, <3>3 DEF RegisterAsks, PutAsks
      <4>. QED  BY <1>4, <2>2, <3>1, <3>3, <4>1 DEF LocalsOK
    <3>. QED  BY <3>2, <3>3
  <2>. QED  BY <2>1, <2>2
<1>6. HandlersOK'
  BY <1>3, <1>5, GotoOK DEF SelectNetwork, HandlersOK, TablesOK
<1>. QED  BY <1>1, <1>6 DEF TypeOK, TablesOK, HandlersOK, Labels, Replies

LEMMA InsertNetworkTypeOK ==
    ASSUME TypeOK, NEW r \in Requests, InsertNetwork(r) PROVE TypeOK'
<1>. TablesOK /\ HandlersOK
  BY TypeParts
<1>1. TablesOK'
  BY PoolsAssumption DEF InsertNetwork, TablesOK, Nets
<1>2. ask[r] \in RegisterAsks \cup PutAsks
  BY DEF InsertNetwork, At, HandlersOK, LocalsOK
<1>3. pc'[r] = "select_net" /\ ask'[r] = ask[r]
  BY DEF InsertNetwork, HandlersOK, Goto, locals
<1>4. LocalsOK(r)'
  BY <1>2, <1>3 DEF LocalsOK
<1>5. HandlersOK'
  BY <1>4, GotoOK DEF InsertNetwork, HandlersOK, Labels, locals
<1>. QED  BY <1>1, <1>5 DEF TypeOK, TablesOK, HandlersOK, Labels, Replies

LEMMA SelectIpsTypeOK ==
    ASSUME TypeOK, NEW r \in Requests, SelectIps(r) PROVE TypeOK'
<1>. TablesOK /\ HandlersOK
  BY TypeParts
<1>1. TablesOK'
  BY DEF SelectIps, TablesOK, tables
<1>2. book \in Books
  BY BookType
<1>3. pc'[r] = "select_node" /\ ask'[r] = ask[r] /\ lnet'[r] = lnet[r]
        /\ view'[r] = book
  BY DEF SelectIps, HandlersOK, Goto
<1>4. LocalsOK(r)'
  BY <1>2, <1>3 DEF SelectIps, At, HandlersOK, LocalsOK
<1>5. HandlersOK'
  BY <1>2, <1>4, GotoOK DEF SelectIps, HandlersOK, Labels
<1>. QED  BY <1>1, <1>5 DEF TypeOK, TablesOK, HandlersOK, Labels, Replies

LEMMA FindNodeTypeOK ==
    ASSUME TypeOK, NEW r \in Requests, FindNode(r) PROVE TypeOK'
<1>. TablesOK /\ HandlersOK
  BY TypeParts
<1>1. TablesOK'
  BY DEF FindNode, TablesOK, tables
<1>2. ask[r] \in RegisterAsks
  BY DEF FindNode, At, HandlersOK, LocalsOK
<1>3. nodes[ask[r].node] \in Rows
  BY <1>2 DEF FindNode, TablesOK, Tables, RegisterAsks
<1>4. pc'[r] = "update_node" /\ ask'[r] = ask[r] /\ row'[r] = nodes[ask[r].node]
  BY DEF FindNode, HandlersOK, Goto
<1>5. LocalsOK(r)'
  BY <1>2, <1>3, <1>4 DEF LocalsOK
<1>6. HandlersOK'
  BY <1>3, <1>5, GotoOK DEF FindNode, HandlersOK, Labels
<1>. QED  BY <1>1, <1>6 DEF TypeOK, TablesOK, HandlersOK, Labels, Replies

LEMMA AllocateTypeOK ==
    ASSUME TypeOK, NEW r \in Requests, Allocate(r) PROVE TypeOK'
<1>. TablesOK /\ HandlersOK
  BY TypeParts
<1>1. TablesOK'
  BY DEF Allocate, TablesOK, tables
<1>2. ask[r] \in RegisterAsks /\ lnet[r] \in Nets
  BY DEF Allocate, At, HandlersOK, LocalsOK
<1>3. lnet[r].v4 \in Pools4 /\ lnet[r].v6 \in Pools6 /\ ask[r].ep \in Eps
  BY <1>2 DEF Nets, RegisterAsks
<1>4. PICK a \in Allocatable(lnet[r].v4) :
        row' = [row EXCEPT ![r] =
                  [v4 |-> a, v6 |-> V6Of(lnet[r].v4, lnet[r].v6, a),
                   ep |-> ask[r].ep]]
  BY DEF Allocate
<1>5. a \in V4Space /\ V6Of(lnet[r].v4, lnet[r].v6, a) \in V6Space
  BY <1>3, AllocationType
<1>6. pc'[r] = "insert_node" /\ ask'[r] = ask[r] /\ row'[r] \in Rows
  BY <1>3, <1>4, <1>5 DEF Allocate, HandlersOK, Goto, Rows
<1>7. LocalsOK(r)'
  BY <1>2, <1>6 DEF LocalsOK
<1>8. row' \in [Requests -> Rows \cup {Nothing}]
  BY <1>4, <1>6 DEF HandlersOK
<1>9. HandlersOK'
  BY <1>4, <1>7, <1>8, GotoOK DEF Allocate, HandlersOK, Labels
<1>. QED  BY <1>1, <1>9 DEF TypeOK, TablesOK, HandlersOK, Labels, Replies

LEMMA InsertNodeTypeOK ==
    ASSUME TypeOK, NEW r \in Requests, InsertNode(r) PROVE TypeOK'
<1>. TablesOK /\ HandlersOK
  BY TypeParts
<1>1. ask[r] \in RegisterAsks /\ row[r] \in Rows
  BY DEF InsertNode, At, HandlersOK, LocalsOK
<1>2. ask[r].node \in NodeIds
  BY <1>1 DEF RegisterAsks
<1>3. TablesOK'
  BY <1>1, <1>2 DEF InsertNode, TablesOK, Tables, Present
<1>4. pc'[r] = "refresh_node" /\ ask'[r] = ask[r]
  BY DEF InsertNode, HandlersOK, Goto
<1>5. LocalsOK(r)'
  BY <1>1, <1>4 DEF LocalsOK
<1>6. HandlersOK'
  BY <1>5, GotoOK DEF InsertNode, HandlersOK, Labels
<1>. QED  BY <1>3, <1>6 DEF TypeOK, TablesOK, HandlersOK, Labels, Replies

\* Overwriting the endpoints of a row leaves its addresses alone.
LEMMA NewEndpoints ==
    ASSUME TablesOK, NEW n \in NodeIds, nodes[n] # Absent, NEW e \in Eps,
           nodes' = [nodes EXCEPT ![n].ep = e]
    PROVE  nodes' \in Tables /\ book' = book
<1>1. nodes[n] \in Rows
  BY DEF TablesOK, Tables
<1>2. [nodes[n] EXCEPT !.ep = e] \in Rows
  BY <1>1 DEF Rows
<1>3. nodes' = [nodes EXCEPT ![n] = [nodes[n] EXCEPT !.ep = e]]
  OBVIOUS
<1>4. nodes' \in Tables
  BY <1>2, <1>3 DEF TablesOK, Tables
<1>5. ASSUME NEW m \in NodeIds PROVE book'[m] = book[m]
  <2>1. CASE m = n
    <3>1. nodes'[n] = [nodes[n] EXCEPT !.ep = e] /\ nodes'[n] # Absent
      BY <1>2, <1>3, NullsAssumption DEF TablesOK, Tables
    <3>2. nodes'[n].v4 = nodes[n].v4 /\ nodes'[n].v6 = nodes[n].v6
      BY <1>1, <3>1 DEF Rows
    <3>. QED  BY <2>1, <3>1, <3>2 DEF book, Addr
  <2>2. CASE m # n
    BY <1>3, <2>2 DEF book, Addr, TablesOK, Tables
  <2>. QED  BY <2>1, <2>2
<1>6. book' = book
  BY <1>5 DEF book
<1>. QED  BY <1>4, <1>6

LEMMA UpdateNodeTables ==
    ASSUME TypeOK, NEW r \in Requests, UpdateNode(r)
    PROVE  TablesOK' /\ book' = book
<1>. TablesOK /\ HandlersOK
  BY TypeParts
<1>1. ask[r] \in RegisterAsks /\ row[r] \in Rows
  BY DEF UpdateNode, At, HandlersOK, LocalsOK
<1>. DEFINE n == ask[r].node
            e == Written(ask[r].ep, row[r].ep, nodes[n].ep)
<1>2. n \in NodeIds /\ nodes[n] \in Rows
  BY <1>1 DEF RegisterAsks, UpdateNode, TablesOK, Tables
<1>3. e \in Eps
  BY <1>1, <1>2 DEF RegisterAsks, Rows, Written
<1>4. nodes' = [nodes EXCEPT ![n].ep = e] /\ nodes[n] # Absent
  BY DEF UpdateNode
<1>5. nodes' \in Tables /\ book' = book
  <2>. HIDE DEF n, e
  <2>. QED  BY <1>2, <1>3, <1>4, NewEndpoints
<1>. QED  BY <1>5 DEF UpdateNode, TablesOK

LEMMA UpdateNodeTypeOK ==
    ASSUME TypeOK, NEW r \in Requests, UpdateNode(r) PROVE TypeOK'
<1>. TablesOK /\ HandlersOK
  BY TypeParts
<1>1. ask[r] \in RegisterAsks
  BY DEF UpdateNode, At, HandlersOK, LocalsOK
<1>2. pc'[r] = "refresh_node" /\ ask'[r] = ask[r]
  BY DEF UpdateNode, HandlersOK, Goto
<1>3. LocalsOK(r)'
  BY <1>1, <1>2 DEF LocalsOK
<1>4. HandlersOK'
  BY <1>3, GotoOK DEF UpdateNode, HandlersOK, Labels
<1>. QED  BY <1>4, UpdateNodeTables DEF TypeOK, TablesOK, HandlersOK, Labels, Replies

LEMMA GetNodeTypeOK ==
    ASSUME TypeOK, NEW r \in Requests, GetNode(r) PROVE TypeOK'
<1>. TablesOK /\ HandlersOK
  BY TypeParts
<1>1. TablesOK'
  BY DEF GetNode, TablesOK, tables
<1>2. ask[r] \in BeatAsks
  BY DEF GetNode, At, HandlersOK, LocalsOK
<1>3. nodes[ask[r].node] \in Rows
  BY <1>2 DEF GetNode, TablesOK, Tables, BeatAsks
<1>4. pc'[r] = "commit_beat" /\ ask'[r] = ask[r] /\ row'[r] = nodes[ask[r].node]
  BY DEF GetNode, HandlersOK, Goto
<1>5. LocalsOK(r)'
  BY <1>2, <1>3, <1>4 DEF LocalsOK
<1>6. HandlersOK'
  BY <1>3, <1>5, GotoOK DEF GetNode, HandlersOK, Labels
<1>. QED  BY <1>1, <1>6 DEF TypeOK, TablesOK, HandlersOK, Labels, Replies

LEMMA CommitBeatTables ==
    ASSUME TypeOK, NEW r \in Requests, CommitBeat(r)
    PROVE  TablesOK' /\ book' = book
<1>. TablesOK /\ HandlersOK
  BY TypeParts
<1>1. ask[r] \in BeatAsks /\ row[r] \in Rows
  BY DEF CommitBeat, At, HandlersOK, LocalsOK
<1>. DEFINE n == ask[r].node
            w == IF ask[r].ep = NoEp THEN row[r].ep ELSE ask[r].ep
            e == Written(w, row[r].ep, nodes[n].ep)
<1>2. n \in NodeIds /\ nodes[n] \in Rows
  BY <1>1 DEF BeatAsks, CommitBeat, TablesOK, Tables
<1>3. e \in Eps
  BY <1>1, <1>2 DEF BeatAsks, Rows, Written
<1>4. nodes' = [nodes EXCEPT ![n].ep = e] /\ nodes[n] # Absent
  BY DEF CommitBeat
<1>5. nodes' \in Tables /\ book' = book
  <2>. HIDE DEF n, e
  <2>. QED  BY <1>2, <1>3, <1>4, NewEndpoints
<1>. QED  BY <1>5 DEF CommitBeat, TablesOK

LEMMA CommitBeatTypeOK ==
    ASSUME TypeOK, NEW r \in Requests, CommitBeat(r) PROVE TypeOK'
<1>. TablesOK /\ HandlersOK
  BY TypeParts
<1>1. HandlersOK'
  BY AnswerOK DEF CommitBeat, Replies
<1>. QED  BY <1>1, CommitBeatTables DEF TypeOK, TablesOK, HandlersOK, Labels, Replies

LEMMA DeleteNodeTypeOK ==
    ASSUME TypeOK, NEW r \in Requests, DeleteNode(r) PROVE TypeOK'
<1>. TablesOK /\ HandlersOK
  BY TypeParts
<1>1. ask[r].node \in NodeIds
  BY DEF DeleteNode, At, HandlersOK, LocalsOK, DeleteAsks
<1>2. TablesOK'
  BY <1>1 DEF DeleteNode, TablesOK, Tables
<1>3. HandlersOK'
  BY AnswerOK DEF DeleteNode, Replies
<1>. QED  BY <1>2, <1>3 DEF TypeOK, TablesOK, HandlersOK, Labels, Replies

\* A node has an entry in the book exactly when it has a row, and then the entry
\* holds the row's address columns.
LEMMA BookEntries ==
    ASSUME TablesOK, NEW n \in NodeIds
    PROVE  /\ book[n] = Absent <=> nodes[n] = Absent
           /\ nodes[n] # Absent =>
                /\ nodes[n] \in Rows
                /\ book[n] \in Addresses
                /\ book[n].v4 = nodes[n].v4 /\ book[n].v6 = nodes[n].v6
<1>1. CASE nodes[n] = Absent
  BY <1>1 DEF book
<1>2. CASE nodes[n] # Absent
  <2>1. nodes[n] \in Rows
    BY <1>2 DEF TablesOK, Tables
  <2>2. book[n] = [v4 |-> nodes[n].v4, v6 |-> nodes[n].v6]
    BY <1>2 DEF book, Addr
  <2>3. book[n] \in Addresses
    BY <2>1, <2>2 DEF Rows, Addresses
  <2>. QED  BY <1>2, <2>1, <2>2, <2>3, NullsAssumption
<1>. QED  BY <1>1, <1>2

LEMMA SelectNodesTypeOK ==
    ASSUME TypeOK, NEW r \in Requests, SelectNodes(r) PROVE TypeOK'
<1>. TablesOK /\ HandlersOK
  BY TypeParts
<1>1. TablesOK'
  BY DEF SelectNodes, TablesOK, tables
<1>2. ask[r] \in PutAsks /\ lnet[r] \in Nets
  BY DEF SelectNodes, At, HandlersOK, LocalsOK
<1>. DEFINE p4 == ask[r].v4
            p6 == AllocatorPool6(r)
<1>3. p4 \in Pools4 /\ p6 \in Pools6
  BY <1>2, WantedType
<1>4. PICK new \in [Present(nodes) -> Allocatable(p4)] :
        plan' = [plan EXCEPT ![r] = Renumbering(p4, p6, new)]
  BY DEF SelectNodes
<1>5. book \in Books
  BY BookType
<1>6. ASSUME NEW n \in NodeIds
      PROVE  IF book[n] = Absent
               THEN Renumbering(p4, p6, new)[n] = Absent
               ELSE /\ Renumbering(p4, p6, new)[n] \in Addresses
                    /\ Renumbering(p4, p6, new)[n].v4 \in Allocatable(p4)
                    /\ Renumbering(p4, p6, new)[n].v6 =
                          V6Of(p4, p6, Renumbering(p4, p6, new)[n].v4)
  <2>1. CASE book[n] = Absent
    <3>1. n \notin DOMAIN new
      BY <2>1, BookEntries DEF Present
    <3>. QED  BY <2>1, <3>1 DEF Renumbering
  <2>2. CASE book[n] # Absent
    <3>1. n \in DOMAIN new
      BY <2>2, BookEntries DEF Present
    <3>2. Renumbering(p4, p6, new)[n] = [v4 |-> new[n], v6 |-> V6Of(p4, p6, new[n])]
      BY <3>1 DEF Renumbering
    <3>3. new[n] \in Allocatable(p4)
      BY <3>1
    <3>4. new[n] \in V4Space /\ V6Of(p4, p6, new[n]) \in V6Space
      BY <1>3, <3>3, AllocationType
    <3>. QED  BY <2>2, <3>2, <3>3, <3>4 DEF Addresses
  <2>. QED  BY <2>1, <2>2
<1>7. Renumbering(p4, p6, new) \in Books
  <2>1. \A n \in NodeIds : Renumbering(p4, p6, new)[n] \in Addresses \cup {Absent}
    BY <1>6
  <2>. QED  BY <2>1 DEF Renumbering, Books
<1>8. /\ pc'[r] = "commit_put" /\ ask' = ask /\ lnet' = lnet
      /\ view'[r] = book /\ plan'[r] = Renumbering(p4, p6, new)
  BY <1>4 DEF SelectNodes, HandlersOK, Goto
<1>9. AllocatorPool6(r)' = p6
  BY <1>8 DEF AllocatorPool6
<1>10. PlanOK(r)'
  BY <1>6, <1>7, <1>8, <1>9 DEF PlanOK
<1>11. LocalsOK(r)'
  BY <1>2, <1>5, <1>8, <1>10 DEF LocalsOK
<1>12. plan' \in [Requests -> Books \cup {Nothing}]
  BY <1>4, <1>7 DEF HandlersOK
<1>13. view' \in [Requests -> Books \cup {Nothing}]
  BY <1>5 DEF HandlersOK, SelectNodes
<1>14. \A q \in Requests \ {r} : view'[q] = view[q] /\ plan'[q] = plan[q]
  BY <1>4 DEF HandlersOK, SelectNodes
<1>15. HandlersOK'
  BY <1>8, <1>11, <1>12, <1>13, <1>14, GotoOK DEF SelectNodes, HandlersOK, Labels
<1>. QED  BY <1>1, <1>15 DEF TypeOK, TablesOK, HandlersOK, Labels, Replies

\* What a successful re-allocation writes into one row.
LEMMA UpdatedRowType ==
    ASSUME TypeOK, NEW r \in Requests, At(r, "commit_put"), Vanished(r) = {},
           NEW n \in NodeIds
    PROVE  /\ UpdatedRow(r, n) \in Rows \cup {Absent}
           /\ UpdatedRow(r, n) = Absent <=> nodes[n] = Absent
           /\ n \notin DirtyRows(r) => UpdatedRow(r, n) = nodes[n]
<1>. TablesOK /\ HandlersOK
  BY TypeParts
<1>1. view[r] \in Books /\ PlanOK(r)
  BY DEF At, HandlersOK, LocalsOK
<1>2. CASE n \in DirtyRows(r)
  <2>1. view[r][n] # Absent /\ plan[r][n] \in Addresses
    BY <1>1, <1>2 DEF DirtyRows, Present, PlanOK
  <2>2. nodes[n] \in Rows /\ nodes[n] # Absent
    BY <1>2, NullsAssumption DEF Vanished, TablesOK, Tables
  <2>3. UpdatedRow(r, n) =
          [v4 |-> Written(plan[r][n].v4, view[r][n].v4, nodes[n].v4),
           v6 |-> Written(plan[r][n].v6, view[r][n].v6, nodes[n].v6),
           ep |-> nodes[n].ep]
    BY <1>2 DEF UpdatedRow
  <2>4. UpdatedRow(r, n) \in Rows
    <3>1. Written(plan[r][n].v4, view[r][n].v4, nodes[n].v4) \in V4Space
      BY <2>1, <2>2 DEF Written, Addresses, Rows
    <3>2. Written(plan[r][n].v6, view[r][n].v6, nodes[n].v6) \in V6Space
      BY <2>1, <2>2 DEF Written, Addresses, Rows
    <3>. QED  BY <2>2, <2>3, <3>1, <3>2 DEF Rows
  <2>. QED  BY <1>2, <2>2, <2>4, NullsAssumption
<1>3. CASE n \notin DirtyRows(r)
  BY <1>3 DEF UpdatedRow, TablesOK, Tables
<1>. QED  BY <1>2, <1>3

\* The network row is never deleted: what a handler loaded is still there.
LoadedNetworkExists == \A r \in Requests : lnet[r] # NoNet => net # NoNet

LEMMA CommitPutTypeOK ==
    ASSUME TypeOK, LoadedNetworkExists, NEW r \in Requests, CommitPut(r)
    PROVE  TypeOK' /\ net' \in Nets
<1>. TablesOK /\ HandlersOK
  BY TypeParts
<1>1. ask[r] \in PutAsks /\ lnet[r] \in Nets
  BY DEF CommitPut, At, HandlersOK, LocalsOK
<1>2. WantedNet(r) \in Nets
  BY <1>1, WantedType
<1>3. nodes' \in Tables
  BY UpdatedRowType DEF CommitPut, Tables
<1>4. net' \in Nets
  <2>1. net \in Nets
    BY <1>1, NullsAssumption DEF TablesOK, LoadedNetworkExists
  <2>. QED  BY <1>2, <2>1 DEF CommitPut, Written, Nets
<1>5. TablesOK'
  BY <1>3, <1>4 DEF CommitPut, TablesOK, Unlocked
<1>6. HandlersOK'
  BY AnswerOK DEF CommitPut, Replies
<1>. QED  BY <1>4, <1>5, <1>6 DEF TypeOK, TablesOK, HandlersOK, Labels, Replies

LEMMA RestartTypeOK == ASSUME TypeOK, Restart PROVE TypeOK'
<1>1. TablesOK'
  BY TypeParts DEF Restart, TablesOK, tables
<1>2. /\ pc' \in [Requests -> Labels]
      /\ ask' \in [Requests -> Asks \cup {Nothing}]
      /\ lnet' \in [Requests -> Nets \cup {NoNet}]
      /\ view' \in [Requests -> Books \cup {Nothing}]
      /\ row' \in [Requests -> Rows \cup {Nothing}]
      /\ plan' \in [Requests -> Books \cup {Nothing}]
      /\ reply' \in [Requests -> Replies]
  BY DEF Restart, Labels, Replies
<1>3. ASSUME NEW r \in Requests PROVE LocalsOK(r)'
  <2>1. pc'[r] = "idle"
    BY DEF Restart
  <2>. QED  BY <2>1 DEF LocalsOK
<1>. QED  BY <1>1, <1>2, <1>3 DEF TypeOK, TablesOK, Labels, Replies

LEMMA FailureStepTypeOK ==
    ASSUME TypeOK, NEW r \in Requests, Failure(r) PROVE TypeOK'
<1>1. PICK how \in Replies : Answer(r, how)
  BY FailureShape
<1>2. UNCHANGED <<net, nodes, older>> /\ writer' \in {writer, Nobody}
  BY FailureShape DEF Unlocked
<1>. QED  BY <1>1, <1>2, FailureTypeOK

\* The next-state relation, with the failing steps gathered.
LEMMA NextCases ==
    ASSUME Next
    PROVE  \/ Restart
           \/ \E r \in Requests :
                \/ Begin(r) \/ Failure(r) \/ SelectNetwork(r) \/ InsertNetwork(r)
                \/ SelectIps(r) \/ FindNode(r) \/ Allocate(r) \/ InsertNode(r)
                \/ UpdateNode(r) \/ GetNode(r) \/ CommitBeat(r)
                \/ DeleteNode(r) \/ SelectNodes(r) \/ CommitPut(r)
BY DEF Next, Step, Failure

LEMMA NextTypeOK ==
    ASSUME TypeOK, LoadedNetworkExists, [Next]_vars PROVE TypeOK'
<1>1. CASE UNCHANGED vars
  <2>1. \A r \in Requests : LocalsOK(r)'
    BY <1>1, Untouched DEF TypeOK, vars
  <2>. QED  BY <1>1, <2>1 DEF TypeOK, vars
<1>2. CASE Restart
  BY <1>2, RestartTypeOK
<1>3. ASSUME NEW r \in Requests,
             \/ Begin(r) \/ Failure(r) \/ SelectNetwork(r) \/ InsertNetwork(r)
             \/ SelectIps(r) \/ FindNode(r) \/ Allocate(r) \/ InsertNode(r)
             \/ UpdateNode(r) \/ GetNode(r) \/ CommitBeat(r)
             \/ DeleteNode(r) \/ SelectNodes(r) \/ CommitPut(r)
      PROVE  TypeOK'
  BY <1>3, BeginTypeOK, FailureStepTypeOK, SelectNetworkTypeOK,
     InsertNetworkTypeOK, SelectIpsTypeOK, FindNodeTypeOK, AllocateTypeOK,
     InsertNodeTypeOK, UpdateNodeTypeOK, GetNodeTypeOK, CommitBeatTypeOK,
     DeleteNodeTypeOK, SelectNodesTypeOK, CommitPutTypeOK
<1>. QED  BY <1>1, <1>2, <1>3, NextCases

\* The loaded network row stays: only SelectNetwork loads one, and no step
\* removes it.
LEMMA NextLoadedNetwork ==
    ASSUME TypeOK, LoadedNetworkExists, [Next]_vars PROVE LoadedNetworkExists'
<1>. TablesOK /\ HandlersOK
  BY TypeParts
<1>1. CASE UNCHANGED vars
  BY <1>1 DEF LoadedNetworkExists, vars
<1>2. CASE Restart
  BY <1>2 DEF LoadedNetworkExists, Restart
<1>3. ASSUME NEW r \in Requests,
             \/ Begin(r) \/ SelectIps(r) \/ FindNode(r) \/ Allocate(r)
             \/ InsertNode(r) \/ UpdateNode(r) \/ GetNode(r) \/ SelectNodes(r)
      PROVE  LoadedNetworkExists'
  <2>1. net' = net /\ lnet' = lnet
    BY <1>3 DEF Begin, Start, SelectIps, FindNode, Allocate, InsertNode,
                UpdateNode, GetNode, SelectNodes, tables
  <2>. QED  BY <2>1 DEF LoadedNetworkExists
<1>4. ASSUME NEW r \in Requests,
             Failure(r) \/ CommitBeat(r) \/ DeleteNode(r)
      PROVE  LoadedNetworkExists'
  <2>1. net' = net /\ \E how \in Replies : Answer(r, how)
    BY <1>4, FailureShape DEF CommitBeat, DeleteNode, Replies
  <2>2. lnet' = [lnet EXCEPT ![r] = NoNet]
    BY <2>1 DEF Answer
  <2>. QED  BY <2>1, <2>2 DEF LoadedNetworkExists, HandlersOK
<1>5. ASSUME NEW r \in Requests, CommitPut(r) PROVE LoadedNetworkExists'
  BY <1>5, CommitPutTypeOK, NullsAssumption DEF LoadedNetworkExists
<1>6. ASSUME NEW r \in Requests, SelectNetwork(r) PROVE LoadedNetworkExists'
  BY <1>6 DEF SelectNetwork, tables, LoadedNetworkExists, HandlersOK
<1>7. ASSUME NEW r \in Requests, InsertNetwork(r) PROVE LoadedNetworkExists'
  <2>1. net' \in Nets
    BY <1>7, PoolsAssumption DEF InsertNetwork, Nets
  <2>. QED  BY <2>1, NullsAssumption DEF LoadedNetworkExists
<1>. QED  BY <1>1, <1>2, <1>3, <1>4, <1>5, <1>6, <1>7, NextCases

(***************************************************************************)
(* Addresses.                                                              *)
(***************************************************************************)

\* The steps that leave every row's addresses, and every row, in place.
Quiet(r) ==
    \/ Begin(r) \/ Failure(r) \/ SelectNetwork(r) \/ InsertNetwork(r)
    \/ SelectIps(r) \/ FindNode(r) \/ Allocate(r) \/ UpdateNode(r)
    \/ GetNode(r) \/ CommitBeat(r) \/ SelectNodes(r)

LEMMA QuietBook ==
    ASSUME TypeOK, NEW r \in Requests, Quiet(r) PROVE book' = book
<1>1. CASE UpdateNode(r) \/ CommitBeat(r)
  BY <1>1, UpdateNodeTables, CommitBeatTables
<1>2. CASE ~(UpdateNode(r) \/ CommitBeat(r))
  <2>1. nodes' = nodes
    BY <1>2, FailureShape DEF Quiet, Begin, Start, SelectNetwork, InsertNetwork,
       SelectIps, FindNode, Allocate, GetNode, SelectNodes, tables
  <2>. QED  BY <2>1 DEF book, Addr
<1>. QED  BY <1>1, <1>2

LEMMA StepCases ==
    ASSUME TypeOK, [Next]_vars
    PROVE  \/ UNCHANGED vars
           \/ Restart /\ nodes' = nodes
           \/ \E r \in Requests : \/ Quiet(r) /\ book' = book
                                 \/ InsertNode(r) \/ DeleteNode(r) \/ CommitPut(r)
<1>1. CASE Restart
  BY <1>1 DEF Restart, tables
<1>2. CASE Next /\ ~Restart
  BY <1>2, NextCases, QuietBook DEF Quiet
<1>. QED  BY <1>1, <1>2

\* UniqueAddresses, said of the book.
UniqueBook ==
    \A m, n \in NodeIds :
        (m # n /\ book[m] # Absent /\ book[n] # Absent) => ~Clash(book[m], book[n])

LEMMA UniqueByBook == TablesOK => (UniqueAddresses <=> UniqueBook)
BY BookEntries DEF UniqueAddresses, UniqueBook, Present, Clash

LEMMA UniqueByBookNext == TablesOK' => (UniqueAddresses' <=> UniqueBook')
BY UniqueByBook, PTL

LEMMA InsertNodeBook ==
    ASSUME TypeOK, NEW r \in Requests, InsertNode(r)
    PROVE  LET n == ask[r].node
               a == [v4 |-> row[r].v4, v6 |-> row[r].v6]
           IN  /\ n \in NodeIds /\ a \in Addresses
               /\ book[n] = Absent
               /\ book' = [book EXCEPT ![n] = a]
               /\ \A m \in NodeIds : book[m] # Absent => ~Clash(a, book[m])
<1>. TablesOK /\ HandlersOK
  BY TypeParts
<1>. DEFINE n == ask[r].node
            a == [v4 |-> row[r].v4, v6 |-> row[r].v6]
<1>1. n \in NodeIds /\ row[r] \in Rows
  BY DEF InsertNode, At, HandlersOK, LocalsOK, RegisterAsks
<1>2. nodes[n] = Absent /\ nodes' = [nodes EXCEPT ![n] = row[r]]
  BY DEF InsertNode, Insertable
<1>3. a \in Addresses
  BY <1>1 DEF Rows, Addresses
<1>4. ASSUME NEW m \in NodeIds PROVE book'[m] = [book EXCEPT ![n] = a][m]
  <2>1. CASE m = n
    <3>1. nodes'[n] = row[r] /\ row[r] # Absent
      BY <1>1, <1>2, NullsAssumption DEF TablesOK, Tables
    <3>. QED  BY <1>1, <2>1, <3>1 DEF book, Addr
  <2>2. CASE m # n
    BY <1>2, <2>2 DEF book, Addr, TablesOK, Tables
  <2>. QED  BY <2>1, <2>2
<1>5. book' = [book EXCEPT ![n] = a]
  BY <1>4 DEF book
<1>6. ASSUME NEW m \in NodeIds, book[m] # Absent PROVE ~Clash(a, book[m])
  <2>1. m \in Present(nodes) /\ book[m].v4 = nodes[m].v4 /\ book[m].v6 = nodes[m].v6
    BY <1>6, BookEntries DEF Present
  <2>2. ~Clash(row[r], nodes[m])
    BY <2>1 DEF InsertNode, Insertable
  <2>. QED  BY <2>1, <2>2 DEF Clash
<1>7. book[n] = Absent
  BY <1>1, <1>2 DEF book
<1>. QED  BY <1>1, <1>3, <1>5, <1>6, <1>7

LEMMA DeleteNodeBook ==
    ASSUME TypeOK, NEW r \in Requests, DeleteNode(r)
    PROVE  ask[r].node \in NodeIds /\ book' = [book EXCEPT ![ask[r].node] = Absent]
<1>. TablesOK /\ HandlersOK
  BY TypeParts
<1>1. ask[r].node \in NodeIds
  BY DEF DeleteNode, At, HandlersOK, LocalsOK, DeleteAsks
<1>2. nodes' = [nodes EXCEPT ![ask[r].node] = Absent]
  BY DEF DeleteNode
<1>3. \A m \in NodeIds : book'[m] = [book EXCEPT ![ask[r].node] = Absent][m]
  BY <1>1, <1>2 DEF book, Addr, TablesOK, Tables
<1>. QED  BY <1>1, <1>3 DEF book

\* No two rows of a re-allocated table clash: rows that are both rewritten were
\* compared when the later one in primary-key order was written.
LEMMA CommitPutUnique ==
    ASSUME TypeOK, UniqueAddresses, NEW r \in Requests, CommitPut(r)
    PROVE  UniqueAddresses'
<1>. TablesOK /\ HandlersOK
  BY TypeParts
<1>1. At(r, "commit_put") /\ Vanished(r) = {} /\ ~Conflict(r)
  BY DEF CommitPut
<1>2. \A n \in NodeIds : nodes'[n] = UpdatedRow(r, n)
  BY DEF CommitPut
<1>3. \A n \in NodeIds : /\ nodes'[n] = Absent <=> nodes[n] = Absent
                         /\ n \notin DirtyRows(r) => nodes'[n] = nodes[n]
  BY <1>1, <1>2, UpdatedRowType
<1>4. ASSUME NEW n \in DirtyRows(r), NEW m \in Present(nodes), m # n
      PROVE  /\ m < n => ~Clash(nodes'[n], nodes'[m])
             /\ ~(m < n) => ~Clash(nodes'[n], nodes[m])
  <2>1. ~UpdateMeets(r, n, m)
    BY <1>1, <1>4 DEF Conflict
  <2>2. n \in NodeIds /\ m \in NodeIds
    BY DEF DirtyRows, Present
  <2>. QED  BY <1>2, <2>1, <2>2 DEF UpdateMeets
<1>5. ASSUME NEW m \in Present(nodes'), NEW n \in Present(nodes'), m # n
      PROVE  ~Clash(nodes'[m], nodes'[n])
  <2>1. m \in Present(nodes) /\ n \in Present(nodes) /\ m \in NodeIds /\ n \in NodeIds
    BY <1>3 DEF Present
  <2>2. m \in Nat /\ n \in Nat /\ (m < n \/ n < m)
    BY <1>5, <2>1, NodeIdsAssumption
  <2>3. CASE m \notin DirtyRows(r) /\ n \notin DirtyRows(r)
    BY <1>3, <1>5, <2>1, <2>3 DEF UniqueAddresses
  <2>4. CASE m \in DirtyRows(r) /\ n \notin DirtyRows(r)
    BY <1>3, <1>4, <1>5, <2>1, <2>4
  <2>5. CASE m \notin DirtyRows(r) /\ n \in DirtyRows(r)
    <3>1. ~Clash(nodes'[n], nodes'[m])
      BY <1>3, <1>4, <1>5, <2>1, <2>5
    <3>. QED  BY <3>1 DEF Clash
  <2>6. CASE m \in DirtyRows(r) /\ n \in DirtyRows(r)
    <3>1. ~Clash(nodes'[n], nodes'[m]) \/ ~Clash(nodes'[m], nodes'[n])
      BY <1>4, <1>5, <2>1, <2>2, <2>6
    <3>. QED  BY <3>1 DEF Clash
  <2>. QED  BY <2>3, <2>4, <2>5, <2>6
<1>. QED  BY <1>5 DEF UniqueAddresses

LEMMA NextUnique ==
    ASSUME TypeOK, TypeOK', UniqueAddresses, [Next]_vars PROVE UniqueAddresses'
<1>. TablesOK /\ TablesOK'
  BY DEF TypeOK, TablesOK
<1>0. UniqueBook
  BY UniqueByBook
<1>1. CASE book' = book
  <2>1. UniqueBook'
    BY <1>0, <1>1 DEF UniqueBook
  <2>. QED  BY <2>1, UniqueByBookNext
<1>2. CASE nodes' = nodes
  BY <1>2 DEF UniqueAddresses, Present, Clash
<1>3. ASSUME NEW r \in Requests, InsertNode(r) PROVE UniqueAddresses'
  <2>. DEFINE n == ask[r].node
              a == [v4 |-> row[r].v4, v6 |-> row[r].v6]
  <2>0. /\ n \in NodeIds /\ book[n] = Absent
        /\ book' = [book EXCEPT ![n] = a]
        /\ \A m \in NodeIds : book[m] # Absent => ~Clash(a, book[m])
    BY <1>3, InsertNodeBook
  <2>1. UniqueBook'
    <3>. HIDE DEF n, a
    <3>1. \A m \in NodeIds : book'[m] = IF m = n THEN a ELSE book[m]
      BY <2>0 DEF book
    <3>. QED  BY <1>0, <2>0, <3>1 DEF UniqueBook, Clash
  <2>. QED  BY <2>1, UniqueByBookNext
<1>4. ASSUME NEW r \in Requests, DeleteNode(r) PROVE UniqueAddresses'
  <2>1. UniqueBook'
    BY <1>0, <1>4, DeleteNodeBook DEF UniqueBook, book
  <2>. QED  BY <2>1, UniqueByBookNext
<1>. QED  BY <1>1, <1>2, <1>3, <1>4, CommitPutUnique, StepCases DEF vars

(***************************************************************************)
(* The write lock.                                                         *)
(***************************************************************************)

\* Every step of a request either answers it or moves it on.
LEMMA StepShape ==
    ASSUME TypeOK, NEW r \in Requests,
           Quiet(r) \/ InsertNode(r) \/ DeleteNode(r) \/ CommitPut(r)
    PROVE  \/ \E how \in Replies : Answer(r, how)
           \/ /\ \E label \in Labels : Goto(r, label)
              /\ \A q \in Requests \ {r} : view'[q] = view[q]
<1>. HandlersOK
  BY TypeParts
<1>1. CASE Failure(r)
  BY <1>1, FailureShape
<1>2. CASE CommitBeat(r) \/ DeleteNode(r) \/ CommitPut(r)
  BY <1>2 DEF CommitBeat, DeleteNode, CommitPut, Replies
<1>3. CASE Begin(r)
  BY <1>3 DEF Begin, Start, Labels
<1>4. CASE SelectNetwork(r)
  BY <1>4 DEF SelectNetwork, Labels
<1>5. CASE InsertNetwork(r) \/ Allocate(r) \/ FindNode(r)
  <2>1. \A q \in Requests \ {r} : view'[q] = view[q]
    BY <1>5 DEF InsertNetwork, Allocate, FindNode, locals, HandlersOK
  <2>. QED  BY <1>5, <2>1 DEF InsertNetwork, Allocate, FindNode, Labels
<1>6. CASE SelectIps(r) \/ SelectNodes(r)
  <2>1. \A q \in Requests \ {r} : view'[q] = view[q]
    BY <1>6 DEF SelectIps, SelectNodes, HandlersOK
  <2>. QED  BY <1>6, <2>1 DEF SelectIps, SelectNodes, Labels
<1>7. CASE UpdateNode(r) \/ GetNode(r) \/ InsertNode(r)
  BY <1>7 DEF UpdateNode, GetNode, InsertNode, Labels
<1>. QED  BY <1>1, <1>2, <1>3, <1>4, <1>5, <1>6, <1>7 DEF Quiet

\* A step of one request neither moves another one nor touches what it has read,
\* and answers nobody else.
LEMMA OthersUndisturbed ==
    ASSUME TypeOK, NEW r \in Requests, NEW q \in Requests, q # r,
           Quiet(r) \/ InsertNode(r) \/ DeleteNode(r) \/ CommitPut(r)
    PROVE  pc'[q] = pc[q] /\ view'[q] = view[q] /\ reply'[q] = "none"
<1>. HandlersOK
  BY TypeParts
<1>1. CASE \E how \in Replies : Answer(r, how)
  BY <1>1 DEF Answer, HandlersOK, Silence
<1>2. CASE \E label \in Labels : Goto(r, label)
  <2>1. pc'[q] = pc[q] /\ reply'[q] = "none"
    BY <1>2 DEF Goto, HandlersOK, Silence
  <2>2. view'[q] = view[q]
    <3>1. CASE \E how \in Replies : Answer(r, how)
      BY <3>1 DEF Answer, HandlersOK
    <3>. QED  BY <3>1, StepShape
  <2>. QED  BY <2>1, <2>2
<1>. QED  BY <1>1, <1>2, StepShape

\* A request that holds the lock ends its failing steps by giving it back.
LEMMA FailureReleases ==
    ASSUME LockedViewIsCurrent, NEW r \in Requests, Failure(r), writer = r
    PROVE  writer' = Nobody
<1>1. At(r, "commit_put")
  BY DEF LockedViewIsCurrent
<1>2. MayWrite(r)
  BY DEF MayWrite
<1>3. CommitPutFails(r)
  BY <1>1, <1>2 DEF Failure, RejectCidr, InsertNetworkFails, AllocateFails,
     InsertNodeFails, UpdateNodeFails, RefreshNode, GetNodeFails,
     SelectNodesFails, Busy, At
<1>. QED  BY <1>3 DEF CommitPutFails, Unlocked

\* A re-allocation without the lock, while another request holds it, writes
\* nothing.
LEMMA UnlockedPutIsQuiet ==
    ASSUME TypeOK, NEW r \in Requests, CommitPut(r), writer \notin {Nobody, r}
    PROVE  book' = book
<1>. TablesOK /\ HandlersOK
  BY TypeParts
<1>1. DirtyRows(r) = {}
  BY DEF CommitPut, PutWrites, MayWrite
<1>2. \A n \in NodeIds : nodes'[n] = nodes[n]
  BY <1>1 DEF CommitPut, UpdatedRow
<1>. QED  BY <1>2 DEF book, Addr

LEMMA NextLockedView ==
    ASSUME TypeOK, LockedViewIsCurrent, [Next]_vars PROVE LockedViewIsCurrent'
<1>. TablesOK /\ HandlersOK
  BY TypeParts
<1>1. CASE UNCHANGED vars
  BY <1>1 DEF vars, LockedViewIsCurrent, At, book, Addr
<1>2. CASE Restart
  BY <1>2, NobodyAssumption DEF Restart, LockedViewIsCurrent
<1>3. ASSUME NEW r \in Requests, NEW q \in Requests, writer' = q,
             Quiet(r) \/ InsertNode(r) \/ DeleteNode(r) \/ CommitPut(r)
      PROVE  pc'[q] = "commit_put" /\ view'[q] = book'
  <2>1. CASE SelectNodes(r) /\ q = r
    <3>1. pc[r] # "commit_put"
      BY <2>1 DEF SelectNodes, At
    <3>2. pc'[r] = "commit_put" /\ view'[r] = book /\ nodes' = nodes
      BY <2>1 DEF SelectNodes, Goto, HandlersOK, tables
    <3>. QED  BY <2>1, <3>2 DEF book, Addr
  <2>2. CASE q = r /\ ~SelectNodes(r)
    <3>1. writer' = writer \/ writer' = Unlocked(r)
      BY <1>3, <2>2, FailureShape DEF Quiet, Begin, Start, SelectNetwork,
         InsertNetwork, SelectIps, FindNode, Allocate, UpdateNode, GetNode,
         CommitBeat, InsertNode, DeleteNode, CommitPut
    <3>2. writer = r /\ At(r, "commit_put")
      BY <1>3, <2>2, <3>1, NobodyAssumption DEF Unlocked, LockedViewIsCurrent
    <3>3. Failure(r) \/ CommitPut(r)
      BY <1>3, <2>2, <3>2 DEF Quiet, Begin, SelectNetwork, InsertNetwork,
         SelectIps, FindNode, Allocate, UpdateNode, GetNode, CommitBeat,
         InsertNode, DeleteNode, At
    <3>4. writer' = Nobody
      BY <3>2, <3>3, FailureReleases DEF CommitPut, Unlocked
    <3>. QED  BY <1>3, <3>4, NobodyAssumption
  <2>3. CASE q # r
    <3>1. writer = q
      BY <1>3, <2>3, FailureShape, NobodyAssumption DEF Quiet, Begin, Start,
         SelectNetwork, InsertNetwork, SelectIps, FindNode, Allocate, UpdateNode,
         GetNode, CommitBeat, InsertNode, DeleteNode, CommitPut, SelectNodes, Unlocked
    <3>2. At(q, "commit_put") /\ view[q] = book
      BY <3>1 DEF LockedViewIsCurrent
    <3>3. pc'[q] = pc[q] /\ view'[q] = view[q]
      BY <1>3, <2>3, OthersUndisturbed
    <3>4. writer \notin {Nobody, r}
      BY <2>3, <3>1, NobodyAssumption
    <3>5. ~InsertNode(r) /\ ~DeleteNode(r)
      BY <3>4 DEF InsertNode, DeleteNode, MayWrite
    <3>6. book' = book
      BY <1>3, <3>4, <3>5, UnlockedPutIsQuiet, QuietBook
    <3>. QED  BY <3>2, <3>3, <3>6 DEF At
  <2>. QED  BY <2>1, <2>2, <2>3
<1>. QED  BY <1>1, <1>2, <1>3, StepCases DEF LockedViewIsCurrent, At

(***************************************************************************)
(* The inductive invariant and its consequences.                           *)
(***************************************************************************)
IInv ==
    /\ TypeOK
    /\ LoadedNetworkExists
    /\ UniqueAddresses
    /\ LockedViewIsCurrent

LEMMA Inductive == (Init => IInv) /\ (IInv /\ [Next]_vars => IInv')
<1>1. Init => UniqueAddresses
  BY DEF Init, UniqueAddresses, Present
<1>2. Init => LockedViewIsCurrent /\ LoadedNetworkExists
  BY NobodyAssumption DEF Init, LockedViewIsCurrent, LoadedNetworkExists
<1>3. ASSUME IInv, [Next]_vars PROVE IInv'
  <2>1. TypeOK' /\ LoadedNetworkExists'
    BY <1>3, NextTypeOK, NextLoadedNetwork DEF IInv
  <2>2. UniqueAddresses' /\ LockedViewIsCurrent'
    BY <1>3, <2>1, NextUnique, NextLockedView DEF IInv
  <2>. QED  BY <2>1, <2>2 DEF IInv
<1>. QED  BY <1>1, <1>2, <1>3, InitTypeOK DEF IInv

\* The inductive invariant is true in every reachable state.
THEOREM Invariance == Spec => []IInv
BY Inductive, PTL DEF Spec

\* Type correctness: every table, the lock and every handler local keeps its
\* shape, and a handler that reached a statement has loaded what it uses.
THEOREM TypeCorrect == Spec => []TypeOK
<1>1. IInv => TypeOK
  BY DEF IInv
<1>. QED  BY <1>1, Invariance, PTL

\* No two registered nodes share an IPv4 or an IPv6 address, for any number of
\* nodes and concurrent requests and any prefixes.
THEOREM AddressesUnique == Spec => []UniqueAddresses
<1>1. IInv => UniqueAddresses
  BY DEF IInv
<1>. QED  BY <1>1, Invariance, PTL

\* The rows a locked re-allocation computes on stay current until it commits.
THEOREM LockedViewCurrent == Spec => []LockedViewIsCurrent
<1>1. IInv => LockedViewIsCurrent
  BY DEF IInv
<1>. QED  BY <1>1, Invariance, PTL

\* A re-allocation that saw the rows as they are writes its plan for all of them.
LEMMA CurrentPlanWritten ==
    ASSUME TypeOK, NEW r \in Requests, CommitPut(r), view[r] = book
    PROVE  \A n \in Present(nodes') :
              /\ nodes'[n].v4 \in Allocatable(ask[r].v4)
              /\ nodes'[n].v6 = V6Of(ask[r].v4, AllocatorPool6(r), nodes'[n].v4)
<1>. TablesOK /\ HandlersOK
  BY TypeParts
<1>1. ASSUME NEW n \in Present(nodes')
      PROVE  nodes'[n].v4 = plan[r][n].v4 /\ nodes'[n].v6 = plan[r][n].v6
                /\ n \in NodeIds /\ view[r][n] # Absent
  <2>1. n \in NodeIds /\ nodes'[n] = UpdatedRow(r, n)
    BY DEF CommitPut, Present
  <2>2. nodes[n] # Absent
    BY <1>1, <2>1, UpdatedRowType DEF CommitPut, Present
  <2>3. view[r][n] # Absent /\ view[r][n].v4 = nodes[n].v4
          /\ view[r][n].v6 = nodes[n].v6 /\ view[r][n] \in Addresses
    BY <2>1, <2>2, BookEntries
  <2>4. CASE n \in DirtyRows(r)
    BY <2>1, <2>3, <2>4 DEF UpdatedRow, Written
  <2>5. CASE n \notin DirtyRows(r)
    <3>1. plan[r][n] = view[r][n]
      BY <2>1, <2>3, <2>5 DEF DirtyRows, Present
    <3>. QED  BY <2>1, <2>3, <2>5, <3>1 DEF UpdatedRow
  <2>. QED  BY <2>1, <2>3, <2>4, <2>5
<1>2. PlanOK(r)
  BY DEF CommitPut, At, HandlersOK, LocalsOK
<1>. QED  BY <1>1, <1>2 DEF PlanOK

\* A re-allocation that committed with the lock leaves no row behind.
LEMMA CompleteStep ==
    ASSUME IInv, [Next]_vars, ~UNCHANGED vars,
           NEW r \in Requests, writer = r, reply'[r] = "ok"
    PROVE  \A n \in Present(nodes') :
              /\ nodes'[n].v4 \in Allocatable(ask[r].v4)
              /\ nodes'[n].v6 = V6Of(ask[r].v4, AllocatorPool6(r), nodes'[n].v4)
<1>. TypeOK /\ TablesOK /\ HandlersOK
  BY TypeParts DEF IInv
<1>1. At(r, "commit_put") /\ view[r] = book
  BY DEF IInv, LockedViewIsCurrent
<1>2. CommitPut(r)
  <2>1. ASSUME NEW q \in Requests,
               Quiet(q) \/ InsertNode(q) \/ DeleteNode(q) \/ CommitPut(q)
        PROVE  q = r
    BY <2>1, OthersUndisturbed
  <2>2. ~Restart
    BY DEF Restart
  <2>3. Failure(r) => CommitPutFails(r)
    BY <1>1 DEF Failure, RejectCidr, InsertNetworkFails, AllocateFails,
       InsertNodeFails, UpdateNodeFails, RefreshNode, GetNodeFails,
       SelectNodesFails, Busy, At, MayWrite
  <2>4. ~CommitPutFails(r)
    BY DEF CommitPutFails, Answer, Silence
  <2>6. Quiet(r) \/ InsertNode(r) \/ DeleteNode(r) \/ CommitPut(r)
    BY <2>1, <2>2, StepCases
  <2>. QED  BY <1>1, <2>3, <2>4, <2>6 DEF Quiet, Begin, SelectNetwork,
       InsertNetwork, SelectIps, FindNode, Allocate, UpdateNode, GetNode,
       CommitBeat, SelectNodes, InsertNode, DeleteNode, At
<1>. QED  BY <1>1, <1>2, CurrentPlanWritten

\* A re-allocation that changed the prefix and answers 200 leaves every row of
\* the table with an address of the new pool and its IPv6 counterpart.
THEOREM ReallocationComplete == Spec => ReallocationIsComplete
<1>. DEFINE Complete ==
       \A r \in Requests :
         (writer = r /\ reply'[r] = "ok") =>
           \A n \in Present(nodes') :
             /\ nodes'[n].v4 \in Allocatable(ask[r].v4)
             /\ nodes'[n].v6 = V6Of(ask[r].v4, AllocatorPool6(r), nodes'[n].v4)
<1>1. IInv /\ [Next]_vars => [Complete]_vars
  BY CompleteStep
<1>. QED  BY <1>1, Invariance, PTL DEF Spec, ReallocationIsComplete

(***************************************************************************)
(* Every handler comes to its end.                                         *)
(***************************************************************************)
LEMMA LeftOfLabel ==
    ASSUME NEW label \in Labels
    PROVE  LeftAt[label] \in Nat /\ (label # "idle" => LeftAt[label] >= 1)
BY DEF Labels, LeftAt

\* The request that moves has fewer statements left.
LEMMA OwnStepAdvances ==
    ASSUME TypeOK, NEW r \in Requests, ~At(r, "idle"),
           Quiet(r) \/ InsertNode(r) \/ DeleteNode(r) \/ CommitPut(r)
    PROVE  Left(r)' < Left(r)
<1>. HandlersOK
  BY TypeParts
<1>. Left(r) \in Nat /\ Left(r) >= 1
  BY LeftOfLabel DEF Left, At, HandlersOK
<1>1. CASE Failure(r) \/ CommitBeat(r) \/ DeleteNode(r) \/ CommitPut(r)
  <2>1. \E how \in Replies : Answer(r, how)
    BY <1>1, FailureShape DEF CommitBeat, DeleteNode, CommitPut, Replies
  <2>2. pc'[r] = "idle"
    BY <2>1 DEF Answer, HandlersOK
  <2>3. Left(r)' = 0
    BY <2>2 DEF Left, LeftAt, At
  <2>. QED  BY <2>3
<1>2. CASE SelectNetwork(r)
  <2>1. pc[r] = "select_net" /\ net' = net
    BY <1>2 DEF SelectNetwork, At, tables
  <2>2. pc'[r] = IF net = NoNet THEN "insert_net"
                 ELSE IF ask[r].op = "register" THEN "select_ips" ELSE "select_nodes"
    BY <1>2 DEF SelectNetwork, Goto, HandlersOK
  <2>. QED  BY <2>1, <2>2 DEF Left, LeftAt, At
<1>3. CASE InsertNetwork(r)
  <2>1. pc[r] = "insert_net" /\ pc'[r] = "select_net"
    BY <1>3 DEF InsertNetwork, At, Goto, HandlersOK
  <2>2. net' # NoNet
    BY <1>3, PoolsAssumption, NullsAssumption DEF InsertNetwork, Nets
  <2>. QED  BY <2>1, <2>2 DEF Left, LeftAt, At
<1>4. CASE SelectIps(r) \/ FindNode(r) \/ Allocate(r)
  <2>1. \/ pc[r] = "select_ips" /\ pc'[r] = "select_node"
        \/ pc[r] = "select_node" /\ pc'[r] = "update_node"
        \/ pc[r] = "select_node" /\ pc'[r] = "insert_node"
    BY <1>4 DEF SelectIps, FindNode, Allocate, At, Goto, HandlersOK
  <2>. QED  BY <2>1 DEF Left, LeftAt, At
<1>5. CASE InsertNode(r) \/ UpdateNode(r) \/ GetNode(r) \/ SelectNodes(r)
  <2>1. \/ pc[r] = "insert_node" /\ pc'[r] = "refresh_node"
        \/ pc[r] = "update_node" /\ pc'[r] = "refresh_node"
        \/ pc[r] = "get_node" /\ pc'[r] = "commit_beat"
        \/ pc[r] = "select_nodes" /\ pc'[r] = "commit_put"
    BY <1>5 DEF InsertNode, UpdateNode, GetNode, SelectNodes, At, Goto, HandlersOK
  <2>. QED  BY <2>1 DEF Left, LeftAt, At
<1>6. ~Begin(r)
  BY DEF Begin
<1>. QED  BY <1>1, <1>2, <1>3, <1>4, <1>5, <1>6 DEF Quiet

LEMMA AdvanceStep ==
    ASSUME TypeOK, [Next]_vars, ~UNCHANGED vars, NEW r \in Requests, ~At(r, "idle")
    PROVE  pc'[r] = pc[r] \/ Left(r)' < Left(r)
<1>. HandlersOK
  BY TypeParts
<1>1. CASE Restart
  <2>1. Left(r)' = 0
    BY <1>1 DEF Restart, Left, LeftAt, At
  <2>2. Left(r) \in Nat /\ Left(r) >= 1
    BY LeftOfLabel DEF Left, At, HandlersOK
  <2>. QED  BY <2>1, <2>2
<1>2. ASSUME NEW q \in Requests,
             Quiet(q) \/ InsertNode(q) \/ DeleteNode(q) \/ CommitPut(q)
      PROVE  pc'[r] = pc[r] \/ Left(r)' < Left(r)
  BY <1>2, OwnStepAdvances, OthersUndisturbed
<1>. QED  BY <1>1, <1>2, StepCases

\* No handler runs in circles, whatever the other requests do under it: each
\* statement leaves it fewer to run, at most seven in all. With fairness, which is
\* TLC's part, every request is answered.
THEOREM HandlersAdvance == Spec => EveryStepAdvances
<1>. DEFINE Advance ==
       \A r \in Requests :
         ~At(r, "idle") => pc'[r] = pc[r] \/ Left(r)' < Left(r)
<1>1. IInv /\ [Next]_vars => [Advance]_vars
  BY AdvanceStep DEF IInv
<1>. QED  BY <1>1, Invariance, PTL DEF Spec, EveryStepAdvances

(***************************************************************************)
(* Endpoints.                                                              *)
(***************************************************************************)

\* A row about to be inserted carries the endpoints its request reported.
RowIsReported ==
    \A r \in Requests : pc[r] = "insert_node" => row[r].ep = ask[r].ep

\* Only Allocate leads to the INSERT of a node.
LEMMA OnlyAllocateInserts ==
    ASSUME TypeOK, NEW r \in Requests, ~Allocate(r),
           Quiet(r) \/ InsertNode(r) \/ DeleteNode(r) \/ CommitPut(r)
    PROVE  pc'[r] # "insert_node"
<1>. HandlersOK
  BY TypeParts
<1>1. CASE Failure(r) \/ CommitBeat(r) \/ DeleteNode(r) \/ CommitPut(r)
  <2>1. \E how \in Replies : Answer(r, how)
    BY <1>1, FailureShape DEF CommitBeat, DeleteNode, CommitPut, Replies
  <2>. QED  BY <2>1 DEF Answer, HandlersOK
<1>2. CASE ~(Failure(r) \/ CommitBeat(r) \/ DeleteNode(r) \/ CommitPut(r))
  <2>1. \E label \in Labels \ {"insert_node"} : Goto(r, label)
    BY <1>2 DEF Quiet, Begin, Start, SelectNetwork, InsertNetwork, SelectIps,
       FindNode, UpdateNode, GetNode, SelectNodes, InsertNode, Labels
  <2>. QED  BY <2>1 DEF Goto, HandlersOK
<1>. QED  BY <1>1, <1>2

\* What a request asks and the row it carries are its own.
LEMMA OthersKeepTheirRow ==
    ASSUME TypeOK, NEW r \in Requests, NEW q \in Requests, q # r,
           Quiet(r) \/ InsertNode(r) \/ DeleteNode(r) \/ CommitPut(r)
    PROVE  ask'[q] = ask[q] /\ row'[q] = row[q]
<1>. HandlersOK
  BY TypeParts
<1>1. CASE Failure(r) \/ CommitBeat(r) \/ DeleteNode(r) \/ CommitPut(r)
  <2>1. \E how \in Replies : Answer(r, how)
    BY <1>1, FailureShape DEF CommitBeat, DeleteNode, CommitPut, Replies
  <2>. QED  BY <2>1 DEF Answer, HandlersOK
<1>2. CASE Begin(r)
  BY <1>2 DEF Begin, Start, HandlersOK
<1>3. CASE SelectNetwork(r) \/ InsertNetwork(r) \/ SelectIps(r) \/ SelectNodes(r)
  BY <1>3 DEF SelectNetwork, InsertNetwork, SelectIps, SelectNodes, locals
<1>4. CASE FindNode(r) \/ Allocate(r) \/ UpdateNode(r) \/ GetNode(r) \/ InsertNode(r)
  BY <1>4 DEF FindNode, Allocate, UpdateNode, GetNode, InsertNode, HandlersOK
<1>. QED  BY <1>1, <1>2, <1>3, <1>4 DEF Quiet

LEMMA NextRowIsReported ==
    ASSUME TypeOK, RowIsReported, [Next]_vars PROVE RowIsReported'
<1>. HandlersOK
  BY TypeParts
<1>1. CASE UNCHANGED vars
  BY <1>1 DEF vars, RowIsReported
<1>2. CASE Restart
  BY <1>2 DEF Restart, RowIsReported
<1>3. ASSUME NEW r \in Requests,
             Quiet(r) \/ InsertNode(r) \/ DeleteNode(r) \/ CommitPut(r)
      PROVE  RowIsReported'
  <2>1. ASSUME NEW q \in Requests \ {r}, pc'[q] = "insert_node"
        PROVE  row'[q].ep = ask'[q].ep
    BY <1>3, <2>1, OthersUndisturbed, OthersKeepTheirRow DEF RowIsReported
  <2>2. ASSUME pc'[r] = "insert_node" PROVE row'[r].ep = ask'[r].ep
    <3>1. Allocate(r)
      BY <1>3, <2>2, OnlyAllocateInserts
    <3>. QED  BY <3>1 DEF Allocate, HandlersOK
  <2>. QED  BY <2>1, <2>2 DEF RowIsReported
<1>. QED  BY <1>1, <1>2, <1>3, StepCases

\* The request that may have written the endpoints of n.
Reports(r, n) ==
    /\ pc[r] \in {"insert_node", "update_node", "commit_beat"}
    /\ ask[r].node = n
    /\ ask[r].ep = nodes'[n].ep

LEMMA EndpointStep ==
    ASSUME TypeOK, RowIsReported, [Next]_vars, NEW n \in NodeIds,
           nodes'[n] # Absent, nodes[n] = Absent \/ nodes'[n].ep # nodes[n].ep
    PROVE  \E r \in Requests : Reports(r, n)
<1>. TablesOK /\ HandlersOK
  BY TypeParts
<1>1. ASSUME NEW r \in Requests, InsertNode(r) PROVE Reports(r, n)
  <2>1. nodes' = [nodes EXCEPT ![ask[r].node] = row[r]] /\ pc[r] = "insert_node"
    BY <1>1 DEF InsertNode, At
  <2>2. ask[r].node = n /\ nodes'[n] = row[r]
    BY <2>1 DEF TablesOK, Tables
  <2>. QED  BY <2>1, <2>2 DEF Reports, RowIsReported
<1>2. ASSUME NEW r \in Requests, UpdateNode(r) PROVE Reports(r, n)
  <2>. DEFINE m == ask[r].node
              e == Written(ask[r].ep, row[r].ep, nodes[m].ep)
  <2>1. nodes' = [nodes EXCEPT ![m].ep = e] /\ nodes[m] # Absent
          /\ pc[r] = "update_node"
    BY <1>2 DEF UpdateNode, At
  <2>2. m = n /\ nodes[n] \in Rows
    BY <2>1 DEF TablesOK, Tables
  <2>3. nodes'[n].ep = e
    BY <2>1, <2>2 DEF TablesOK, Tables, Rows
  <2>. QED  BY <2>1, <2>2, <2>3 DEF Reports, Written
<1>3. ASSUME NEW r \in Requests, CommitBeat(r) PROVE Reports(r, n)
  <2>. DEFINE m == ask[r].node
              wanted == IF ask[r].ep = NoEp THEN row[r].ep ELSE ask[r].ep
              e == Written(wanted, row[r].ep, nodes[m].ep)
  <2>1. nodes' = [nodes EXCEPT ![m].ep = e] /\ nodes[m] # Absent
          /\ pc[r] = "commit_beat"
    BY <1>3 DEF CommitBeat, At
  <2>2. m = n /\ nodes[n] \in Rows
    BY <2>1 DEF TablesOK, Tables
  <2>3. nodes'[n].ep = e
    BY <2>1, <2>2 DEF TablesOK, Tables, Rows
  <2>. QED  BY <2>1, <2>2, <2>3 DEF Reports, Written
<1>4. ASSUME NEW r \in Requests, CommitPut(r) PROVE FALSE
  <2>1. nodes'[n] = UpdatedRow(r, n) /\ Vanished(r) = {} /\ At(r, "commit_put")
    BY <1>4 DEF CommitPut
  <2>2. nodes[n] # Absent /\ UpdatedRow(r, n).ep = nodes[n].ep
    BY <2>1, UpdatedRowType DEF UpdatedRow
  <2>. QED  BY <2>1, <2>2
<1>5. ASSUME NEW r \in Requests, DeleteNode(r) PROVE FALSE
  BY <1>5 DEF DeleteNode, TablesOK, Tables
<1>6. ASSUME NEW r \in Requests, Quiet(r), ~UpdateNode(r), ~CommitBeat(r)
      PROVE  FALSE
  <2>1. nodes' = nodes
    BY <1>6, FailureShape DEF Quiet, Begin, Start, SelectNetwork, InsertNetwork,
       SelectIps, FindNode, Allocate, GetNode, SelectNodes, tables
  <2>. QED  BY <2>1
<1>7. ~UNCHANGED vars /\ ~(Restart /\ nodes' = nodes)
  BY DEF vars
<1>. QED  BY <1>1, <1>2, <1>3, <1>4, <1>5, <1>6, <1>7, StepCases

\* The endpoints of a node change only to a list that a request of that very
\* node reported: a heartbeat, a registration or a re-allocation that read the
\* row earlier never writes an old list back (api.py:148-151, nodes.py:61).
THEOREM EndpointsReported == Spec => EndpointsComeFromTheNode
<1>. DEFINE Reported ==
       \A n \in NodeIds :
         (nodes'[n] # Absent /\ (nodes[n] = Absent \/ nodes'[n].ep # nodes[n].ep)) =>
            \E r \in Requests :
                /\ pc[r] \in {"insert_node", "update_node", "commit_beat"}
                /\ ask[r].node = n
                /\ ask[r].ep = nodes'[n].ep
<1>1. Init => RowIsReported
  BY DEF Init, RowIsReported
<1>2. IInv /\ RowIsReported /\ [Next]_vars => RowIsReported'
  BY NextRowIsReported DEF IInv
<1>3. IInv /\ RowIsReported /\ [Next]_vars => [Reported]_vars
  BY EndpointStep DEF IInv, Reports
<1>. QED  BY <1>1, <1>2, <1>3, Invariance, PTL DEF Spec, EndpointsComeFromTheNode

(***************************************************************************)
(* One request at a time: the network and its nodes agree.                 *)
(***************************************************************************)
OneAtATime == \A q, r \in Requests : q = r

\* Every row lies in the pool of the network row.
RowsInPool ==
    \A n \in NodeIds : book[n] # Absent =>
        net # NoNet /\ book[n].v4 \in Allocatable(net.v4)

\* What a handler that runs alone has loaded is what the tables hold.
Current(r) ==
    /\ pc[r] \in {"select_ips", "select_node", "insert_node",
                  "select_nodes", "commit_put"} => lnet[r] = net /\ net # NoNet
    /\ pc[r] = "insert_node" => row[r].v4 \in Allocatable(net.v4)
    /\ pc[r] = "commit_put" => view[r] = book

PoolInv == IInv /\ RowsInPool /\ \A r \in Requests : Current(r)

\* The steps that answer leave nothing loaded.
LEMMA AnswerCurrent ==
    ASSUME OneAtATime, HandlersOK, NEW r \in Requests,
           \E how \in Replies : Answer(r, how)
    PROVE  \A q \in Requests : Current(q)'
<1>1. pc'[r] = "idle"
  BY DEF Answer, HandlersOK
<1>. QED  BY <1>1 DEF OneAtATime, Current

LEMMA QuietCurrent ==
    ASSUME OneAtATime, PoolInv, NEW r \in Requests, Quiet(r)
    PROVE  RowsInPool' /\ \A q \in Requests : Current(q)'
<1>. TypeOK /\ TablesOK /\ HandlersOK /\ RowsInPool /\ Current(r)
  BY TypeParts DEF PoolInv, IInv
<1>1. book' = book
  BY QuietBook
<1>2. net' = net \/ net = NoNet
  BY FailureShape DEF Quiet, Begin, Start, SelectNetwork, InsertNetwork,
     SelectIps, FindNode, Allocate, UpdateNode, GetNode, CommitBeat,
     SelectNodes, tables
<1>3. RowsInPool'
  BY <1>1, <1>2 DEF RowsInPool
<1>4. Current(r)'
  <2>1. CASE Failure(r) \/ CommitBeat(r)
    <3>1. \E how \in Replies : Answer(r, how)
      BY <2>1, FailureShape DEF CommitBeat, Replies
    <3>. QED  BY <3>1, AnswerCurrent
  <2>2. CASE Begin(r)
    <3>1. pc'[r] \in {"select_net", "get_node", "delete"}
      BY <2>2 DEF Begin, Start, Goto, HandlersOK
    <3>. QED  BY <3>1 DEF Current
  <2>3. CASE InsertNetwork(r) \/ FindNode(r) \/ UpdateNode(r) \/ GetNode(r)
    <3>1. pc'[r] \in {"select_net", "update_node", "refresh_node", "commit_beat"}
      BY <2>3 DEF InsertNetwork, FindNode, UpdateNode, GetNode, Goto, HandlersOK
    <3>. QED  BY <3>1 DEF Current
  <2>4. CASE SelectNetwork(r)
    <3>1. lnet'[r] = net /\ net' = net
      BY <2>4 DEF SelectNetwork, HandlersOK, tables
    <3>2. CASE net = NoNet
      <4>1. pc'[r] = "insert_net"
        BY <2>4, <3>2 DEF SelectNetwork, Goto, HandlersOK
      <4>. QED  BY <4>1 DEF Current
    <3>3. CASE net # NoNet
      <4>1. pc'[r] \in {"select_ips", "select_nodes"}
        BY <2>4, <3>3 DEF SelectNetwork, Goto, HandlersOK
      <4>. QED  BY <3>1, <3>3, <4>1 DEF Current
    <3>. QED  BY <3>2, <3>3
  <2>5. CASE SelectIps(r)
    <3>1. pc[r] = "select_ips" /\ pc'[r] = "select_node" /\ lnet' = lnet /\ net' = net
      BY <2>5 DEF SelectIps, At, Goto, HandlersOK, tables
    <3>. QED  BY <3>1 DEF Current
  <2>6. CASE Allocate(r)
    <3>1. pc[r] = "select_node" /\ pc'[r] = "insert_node" /\ lnet' = lnet /\ net' = net
      BY <2>6 DEF Allocate, At, Goto, HandlersOK, tables
    <3>2. row'[r].v4 \in Allocatable(lnet[r].v4)
      BY <2>6 DEF Allocate, HandlersOK
    <3>. QED  BY <3>1, <3>2 DEF Current
  <2>7. CASE SelectNodes(r)
    <3>1. pc[r] = "select_nodes" /\ pc'[r] = "commit_put" /\ lnet' = lnet /\ net' = net
      BY <2>7 DEF SelectNodes, At, Goto, HandlersOK, tables
    <3>2. view'[r] = book
      BY <2>7 DEF SelectNodes, HandlersOK
    <3>. QED  BY <1>1, <3>1, <3>2 DEF Current
  <2>. QED  BY <2>1, <2>2, <2>3, <2>4, <2>5, <2>6, <2>7 DEF Quiet
<1>. QED  BY <1>3, <1>4 DEF OneAtATime

LEMMA InsertNodeCurrent ==
    ASSUME OneAtATime, PoolInv, NEW r \in Requests, InsertNode(r), TablesOK'
    PROVE  RowsInPool' /\ \A q \in Requests : Current(q)'
<1>. TypeOK /\ TablesOK /\ HandlersOK /\ RowsInPool /\ Current(r)
  BY TypeParts DEF PoolInv, IInv
<1>. DEFINE n == ask[r].node
<1>1. net # NoNet /\ row[r].v4 \in Allocatable(net.v4) /\ n \in NodeIds
  BY DEF InsertNode, At, Current, HandlersOK, LocalsOK, RegisterAsks
<1>2. nodes' = [nodes EXCEPT ![n] = row[r]] /\ net' = net /\ pc'[r] = "refresh_node"
  BY DEF InsertNode, Goto, HandlersOK
<1>3. ASSUME NEW m \in NodeIds, book'[m] # Absent
      PROVE  book'[m].v4 \in Allocatable(net.v4)
  <2>1. (book[m] = Absent <=> nodes[m] = Absent)
          /\ (nodes[m] # Absent => book[m].v4 = nodes[m].v4)
    BY BookEntries
  <2>2. nodes'[m] # Absent /\ book'[m].v4 = nodes'[m].v4
    <3>1. CASE nodes'[m] = Absent
      BY <1>3, <3>1 DEF book
    <3>2. CASE nodes'[m] # Absent
      BY <3>2 DEF book, Addr
    <3>. QED  BY <3>1, <3>2
  <2>3. nodes'[m] = IF m = n THEN row[r] ELSE nodes[m]
    BY <1>2 DEF TablesOK, Tables
  <2>. QED  BY <1>1, <2>1, <2>2, <2>3 DEF RowsInPool
<1>4. RowsInPool'
  BY <1>1, <1>2, <1>3 DEF RowsInPool
<1>. QED  BY <1>2, <1>4 DEF OneAtATime, Current

LEMMA DeleteNodeCurrent ==
    ASSUME OneAtATime, PoolInv, NEW r \in Requests, DeleteNode(r)
    PROVE  RowsInPool' /\ \A q \in Requests : Current(q)'
<1>. TypeOK /\ TablesOK /\ HandlersOK /\ RowsInPool
  BY TypeParts DEF PoolInv, IInv
<1>1. \A m \in NodeIds : nodes'[m] \in {nodes[m], Absent}
  BY DEF DeleteNode, TablesOK, Tables
<1>2. \A m \in NodeIds : book'[m] # Absent => book'[m] = book[m]
  BY <1>1 DEF book, Addr
<1>3. RowsInPool'
  BY <1>2 DEF DeleteNode, RowsInPool
<1>4. \E how \in Replies : Answer(r, how)
  BY DEF DeleteNode, Replies
<1>. QED  BY <1>3, <1>4, AnswerCurrent

LEMMA CommitPutCurrent ==
    ASSUME OneAtATime, PoolInv, NEW r \in Requests, CommitPut(r)
    PROVE  RowsInPool' /\ \A q \in Requests : Current(q)'
<1>. TypeOK /\ TablesOK /\ HandlersOK /\ LoadedNetworkExists /\ Current(r)
  BY TypeParts DEF PoolInv, IInv
<1>1. view[r] = book /\ lnet[r] = net
  BY DEF CommitPut, At, Current
<1>2. net' \in Nets
  BY CommitPutTypeOK
<1>3. net'.v4 = ask[r].v4
  BY <1>1 DEF CommitPut, Written, WantedNet
<1>4. ASSUME NEW n \in NodeIds, book'[n] # Absent
      PROVE  book'[n].v4 \in Allocatable(net'.v4)
  <2>1. nodes'[n] # Absent /\ book'[n].v4 = nodes'[n].v4
    <3>1. CASE nodes'[n] = Absent
      BY <1>4, <3>1 DEF book
    <3>2. CASE nodes'[n] # Absent
      BY <3>2 DEF book, Addr
    <3>. QED  BY <3>1, <3>2
  <2>. QED  BY <1>1, <1>3, <2>1, CurrentPlanWritten DEF Present
<1>5. RowsInPool'
  BY <1>2, <1>4, NullsAssumption DEF RowsInPool
<1>6. \E how \in Replies : Answer(r, how)
  BY DEF CommitPut, Replies
<1>. QED  BY <1>5, <1>6, AnswerCurrent

LEMMA NextPoolInv ==
    ASSUME OneAtATime, PoolInv, [Next]_vars PROVE PoolInv'
<1>. TypeOK /\ IInv
  BY DEF PoolInv, IInv
<1>1. IInv' /\ TablesOK'
  BY Inductive DEF IInv, TypeOK, TablesOK
<1>2. RowsInPool' /\ \A q \in Requests : Current(q)'
  <2>1. CASE UNCHANGED vars
    BY <2>1 DEF vars, PoolInv, RowsInPool, Current, book, Addr
  <2>2. CASE Restart /\ nodes' = nodes
    BY <2>2 DEF Restart, tables, PoolInv, RowsInPool, Current, book, Addr
  <2>3. ASSUME NEW r \in Requests,
               Quiet(r) \/ InsertNode(r) \/ DeleteNode(r) \/ CommitPut(r)
        PROVE  RowsInPool' /\ \A q \in Requests : Current(q)'
    BY <1>1, <2>3, QuietCurrent, InsertNodeCurrent, DeleteNodeCurrent, CommitPutCurrent
  <2>. QED  BY <2>1, <2>2, <2>3, StepCases
<1>. QED  BY <1>1, <1>2 DEF PoolInv

(***************************************************************************)
(* One request at a time: a registration fails only for want of addresses. *)
(***************************************************************************)

\* Of one IPv4 prefix no two addresses get the same IPv6 address, whichever
\* IPv6 prefixes they are given: the prefixes do not overlap.
SeparatePools6 ==
    \A p \in Pools4, q, s \in Pools6 : \A a, b \in Allocatable(p) :
        V6Of(p, q, a) = V6Of(p, s, b) => a = b

\* Every row has the IPv6 counterpart of its IPv4 address in the network's prefix,
\* or in the default one (AllocatorPool6).
RowsPaired ==
    \A n \in NodeIds : book[n] # Absent =>
        \E q \in {net.v6, Default6} : book[n].v6 = V6Of(net.v4, q, book[n].v4)

\* What a handler that runs alone may rely on at its next statement.
Alone(r) ==
    /\ pc[r] = "insert_net" => net = NoNet
    /\ pc[r] = "select_node" => view[r] = book
    /\ pc[r] = "insert_node" =>
          /\ nodes[ask[r].node] = Absent
          /\ \A n \in NodeIds : book[n] # Absent => book[n].v4 # row[r].v4
          /\ row[r].v6 = V6Of(net.v4, net.v6, row[r].v4)
    /\ pc[r] \in {"update_node", "refresh_node"} => nodes[ask[r].node] # Absent

AloneInv == PoolInv /\ RowsPaired /\ \A r \in Requests : Alone(r)

\* Nobody else can hold the write lock.
LEMMA AloneMayWrite ==
    ASSUME OneAtATime, TypeOK, NEW r \in Requests PROVE MayWrite(r)
BY DEF OneAtATime, TypeOK, MayWrite

LEMMA AnswerAlone ==
    ASSUME OneAtATime, HandlersOK, NEW r \in Requests,
           \E how \in Replies : Answer(r, how)
    PROVE  \A q \in Requests : Alone(q)'
<1>1. pc'[r] = "idle"
  BY DEF Answer, HandlersOK
<1>. QED  BY <1>1 DEF OneAtATime, Alone

\* What Allocate picks is held by no row.
LEMMA AllocateAlone ==
    ASSUME AloneInv, NEW r \in Requests, Allocate(r) PROVE Alone(r)'
<1>. TypeOK /\ TablesOK /\ HandlersOK /\ Alone(r) /\ Current(r)
  BY TypeParts DEF AloneInv, PoolInv, IInv
<1>1. /\ pc[r] = "select_node" /\ nodes[ask[r].node] = Absent
      /\ pc'[r] = "insert_node" /\ ask' = ask /\ net' = net /\ nodes' = nodes
  BY DEF Allocate, At, Goto, HandlersOK, tables
<1>2. view[r] = book /\ lnet[r] = net
  BY <1>1 DEF Alone, Current
<1>3. PICK a \in Allocatable(lnet[r].v4) :
        /\ IsNext(lnet[r].v4, view[r], a)
        /\ row' = [row EXCEPT ![r] =
                      [v4 |-> a, v6 |-> V6Of(lnet[r].v4, lnet[r].v6, a),
                       ep |-> ask[r].ep]]
  BY DEF Allocate
<1>4. row'[r].v4 = a /\ row'[r].v6 = V6Of(net.v4, net.v6, a)
  BY <1>2, <1>3 DEF HandlersOK
<1>5. \A n \in NodeIds : book[n] # Absent => book[n].v4 # a
  BY <1>2, <1>3 DEF IsNext, Free
<1>6. book' = book
  BY QuietBook DEF Quiet
<1>. QED  BY <1>1, <1>4, <1>5, <1>6 DEF Alone

LEMMA QuietAlone ==
    ASSUME OneAtATime, AloneInv, NEW r \in Requests, Quiet(r)
    PROVE  RowsPaired' /\ \A q \in Requests : Alone(q)'
<1>. TypeOK /\ TablesOK /\ HandlersOK /\ RowsInPool /\ RowsPaired /\ Alone(r)
  BY TypeParts DEF AloneInv, PoolInv, IInv
<1>1. book' = book
  BY QuietBook
<1>2. net' = net \/ net = NoNet
  BY FailureShape DEF Quiet, Begin, Start, SelectNetwork, InsertNetwork,
     SelectIps, FindNode, Allocate, UpdateNode, GetNode, CommitBeat,
     SelectNodes, tables
<1>3. RowsPaired'
  BY <1>1, <1>2 DEF RowsPaired, RowsInPool
<1>4. Alone(r)'
  <2>1. CASE Failure(r) \/ CommitBeat(r)
    <3>1. \E how \in Replies : Answer(r, how)
      BY <2>1, FailureShape DEF CommitBeat, Replies
    <3>. QED  BY <3>1, AnswerAlone
  <2>2. CASE Begin(r) \/ InsertNetwork(r) \/ GetNode(r) \/ SelectNodes(r)
    <3>1. pc'[r] \in {"select_net", "get_node", "delete", "commit_beat", "commit_put"}
      BY <2>2 DEF Begin, Start, InsertNetwork, GetNode, SelectNodes, Goto, HandlersOK
    <3>. QED  BY <3>1 DEF Alone
  <2>3. CASE SelectNetwork(r)
    <3>1. net' = net
      BY <2>3 DEF SelectNetwork, tables
    <3>2. pc'[r] \in {"select_ips", "select_nodes"} \/ (pc'[r] = "insert_net" /\ net = NoNet)
      BY <2>3 DEF SelectNetwork, Goto, HandlersOK
    <3>. QED  BY <3>1, <3>2 DEF Alone
  <2>4. CASE SelectIps(r)
    <3>1. pc'[r] = "select_node" /\ view'[r] = book
      BY <2>4 DEF SelectIps, Goto, HandlersOK
    <3>. QED  BY <1>1, <3>1 DEF Alone
  <2>5. CASE FindNode(r)
    <3>1. pc'[r] = "update_node" /\ nodes' = nodes /\ ask' = ask
            /\ nodes[ask[r].node] # Absent
      BY <2>5 DEF FindNode, Goto, HandlersOK, tables
    <3>. QED  BY <3>1 DEF Alone
  <2>6. CASE UpdateNode(r)
    <3>1. pc'[r] = "refresh_node" /\ ask' = ask /\ nodes[ask[r].node] # Absent
            /\ ask[r].node \in NodeIds
      BY <2>6 DEF UpdateNode, At, Goto, HandlersOK, LocalsOK, RegisterAsks
    <3>2. book[ask[r].node] # Absent
      BY <3>1, BookEntries
    <3>3. nodes'[ask[r].node] # Absent
      BY <1>1, <3>1, <3>2 DEF book
    <3>. QED  BY <3>1, <3>3 DEF Alone
  <2>. QED  BY <2>1, <2>2, <2>3, <2>4, <2>5, <2>6, AllocateAlone DEF Quiet
<1>. QED  BY <1>3, <1>4 DEF OneAtATime

LEMMA InsertNodeAlone ==
    ASSUME OneAtATime, AloneInv, NEW r \in Requests, InsertNode(r)
    PROVE  RowsPaired' /\ \A q \in Requests : Alone(q)'
<1>. /\ TypeOK /\ TablesOK /\ HandlersOK /\ LoadedNetworkExists
     /\ RowsPaired /\ Alone(r) /\ Current(r)
  BY TypeParts DEF AloneInv, PoolInv, IInv
<1>. DEFINE n == ask[r].node
            a == [v4 |-> row[r].v4, v6 |-> row[r].v6]
<1>1. n \in NodeIds /\ book' = [book EXCEPT ![n] = a]
  BY InsertNodeBook
<1>2. /\ net' = net /\ net \in Nets /\ ask' = ask
      /\ nodes' = [nodes EXCEPT ![n] = row[r]] /\ row[r] \in Rows
      /\ row[r].v6 = V6Of(net.v4, net.v6, row[r].v4) /\ pc'[r] = "refresh_node"
  BY DEF InsertNode, At, Goto, Alone, Current, HandlersOK, LocalsOK, TablesOK
<1>3. RowsPaired'
  <2>1. net.v6 \in Pools6 /\ a.v6 = V6Of(net.v4, net.v6, a.v4)
    BY <1>2 DEF Nets
  <2>2. ASSUME NEW m \in NodeIds, book'[m] # Absent
        PROVE  \E q \in {net.v6, Default6} :
                  book'[m].v6 = V6Of(net.v4, q, book'[m].v4)
    <3>1. CASE m = n
      <4>1. book'[m] = a
        BY <1>1, <3>1 DEF book
      <4>. QED  BY <2>1, <4>1
    <3>2. CASE m # n
      <4>1. book'[m] = book[m]
        BY <1>1, <3>2 DEF book
      <4>. QED  BY <2>2, <4>1 DEF RowsPaired
    <3>. QED  BY <3>1, <3>2
  <2>. QED  BY <1>2, <2>2 DEF RowsPaired
<1>4. Alone(r)'
  <2>1. nodes'[n] # Absent
    BY <1>1, <1>2, NullsAssumption DEF TablesOK, Tables
  <2>. QED  BY <1>2, <2>1 DEF Alone
<1>. QED  BY <1>3, <1>4 DEF OneAtATime

LEMMA DeleteNodeAlone ==
    ASSUME OneAtATime, AloneInv, NEW r \in Requests, DeleteNode(r)
    PROVE  RowsPaired' /\ \A q \in Requests : Alone(q)'
<1>. TypeOK /\ TablesOK /\ HandlersOK /\ RowsPaired
  BY TypeParts DEF AloneInv, PoolInv, IInv
<1>1. book' = [book EXCEPT ![ask[r].node] = Absent]
  BY DeleteNodeBook
<1>2. \A m \in NodeIds : book'[m] # Absent => book'[m] = book[m]
  BY <1>1 DEF book
<1>3. RowsPaired'
  BY <1>2 DEF DeleteNode, RowsPaired
<1>4. \E how \in Replies : Answer(r, how)
  BY DEF DeleteNode, Replies
<1>. QED  BY <1>3, <1>4, AnswerAlone

LEMMA CommitPutAlone ==
    ASSUME OneAtATime, AloneInv, NEW r \in Requests, CommitPut(r), TablesOK'
    PROVE  RowsPaired' /\ \A q \in Requests : Alone(q)'
<1>. TypeOK /\ TablesOK /\ HandlersOK /\ Current(r)
  BY TypeParts DEF AloneInv, PoolInv, IInv
<1>1. view[r] = book /\ lnet[r] = net /\ lnet[r] \in Nets /\ ask[r] \in PutAsks
  BY DEF CommitPut, At, Current, HandlersOK, LocalsOK
<1>2. net'.v4 = ask[r].v4 /\ AllocatorPool6(r) \in {net'.v6, Default6}
  BY <1>1 DEF CommitPut, Written, WantedNet, AllocatorPool6
<1>3. ASSUME NEW n \in NodeIds, book'[n] # Absent
      PROVE  book'[n].v6 = V6Of(net'.v4, AllocatorPool6(r), book'[n].v4)
  <2>1. nodes'[n] # Absent /\ book'[n].v4 = nodes'[n].v4 /\ book'[n].v6 = nodes'[n].v6
    <3>1. CASE nodes'[n] = Absent
      BY <1>3, <3>1 DEF book
    <3>2. CASE nodes'[n] # Absent
      BY <3>2 DEF book, Addr
    <3>. QED  BY <3>1, <3>2
  <2>. QED  BY <1>1, <1>2, <2>1, CurrentPlanWritten DEF Present
<1>4. RowsPaired'
  BY <1>2, <1>3 DEF RowsPaired
<1>5. \E how \in Replies : Answer(r, how)
  BY DEF CommitPut, Replies
<1>. QED  BY <1>4, <1>5, AnswerAlone

LEMMA NextAloneInv ==
    ASSUME OneAtATime, AloneInv, [Next]_vars PROVE AloneInv'
<1>. TypeOK /\ PoolInv
  BY DEF AloneInv, PoolInv, IInv
<1>1. PoolInv' /\ TablesOK'
  BY NextPoolInv DEF PoolInv, IInv, TypeOK, TablesOK
<1>2. RowsPaired' /\ \A q \in Requests : Alone(q)'
  <2>1. CASE UNCHANGED vars
    BY <2>1 DEF vars, AloneInv, RowsPaired, Alone, book, Addr
  <2>2. CASE Restart /\ nodes' = nodes
    BY <2>2 DEF Restart, tables, AloneInv, RowsPaired, Alone, book, Addr
  <2>3. ASSUME NEW r \in Requests,
               Quiet(r) \/ InsertNode(r) \/ DeleteNode(r) \/ CommitPut(r)
        PROVE  RowsPaired' /\ \A q \in Requests : Alone(q)'
    BY <1>1, <2>3, QuietAlone, InsertNodeAlone, DeleteNodeAlone, CommitPutAlone
  <2>. QED  BY <2>1, <2>2, <2>3, StepCases
<1>. QED  BY <1>1, <1>2 DEF AloneInv

\* What a handler that runs alone relies on is true in every reachable state.
THEOREM AloneInvariance == ASSUME OneAtATime PROVE Spec => []AloneInv
<1>1. Init => AloneInv
  BY Inductive DEF Init, AloneInv, PoolInv, RowsInPool, Current, RowsPaired, Alone, book
<1>2. AloneInv /\ [Next]_vars => AloneInv'
  BY NextAloneInv
<1>. QED  BY <1>1, <1>2, PTL DEF Spec

\* The INSERT of a row that was just allocated meets no other row.
LEMMA AloneInsertable ==
    ASSUME OneAtATime, SeparatePools6, AloneInv, NEW r \in Requests,
           At(r, "insert_node")
    PROVE  Insertable(ask[r].node, row[r])
<1>. /\ TypeOK /\ TablesOK /\ HandlersOK /\ RowsInPool /\ RowsPaired
     /\ Alone(r) /\ Current(r)
  BY TypeParts DEF AloneInv, PoolInv, IInv
<1>1. /\ net \in Nets /\ row[r].v4 \in Allocatable(net.v4)
      /\ nodes[ask[r].node] = Absent
      /\ \A n \in NodeIds : book[n] # Absent => book[n].v4 # row[r].v4
      /\ row[r].v6 = V6Of(net.v4, net.v6, row[r].v4)
  BY DEF At, Alone, Current, TablesOK
<1>2. ASSUME NEW m \in Present(nodes) PROVE ~Clash(row[r], nodes[m])
  <2>1. m \in NodeIds /\ book[m] # Absent /\ book[m].v4 = nodes[m].v4
          /\ book[m].v6 = nodes[m].v6
    BY BookEntries DEF Present
  <2>2. PICK q \in {net.v6, Default6} : book[m].v6 = V6Of(net.v4, q, book[m].v4)
    BY <2>1 DEF RowsPaired
  <2>3. /\ book[m].v4 \in Allocatable(net.v4) /\ net.v4 \in Pools4
        /\ net.v6 \in Pools6 /\ q \in Pools6
    BY <1>1, <2>1, PoolsAssumption DEF RowsInPool, Nets
  <2>4. row[r].v6 # book[m].v6
    BY <1>1, <2>1, <2>2, <2>3 DEF SeparatePools6
  <2>. QED  BY <1>1, <2>1, <2>4 DEF Clash
<1>. QED  BY <1>1, <1>2 DEF Insertable

Fine == {"none", "ok", "exhausted", "lost"}

\* A registration ends well or finds the pool exhausted, or dies with the process.
LEMMA RegistrationStep ==
    ASSUME OneAtATime, SeparatePools6, AloneInv, [Next]_vars, ~UNCHANGED vars,
           NEW r \in Requests, ~At(r, "idle"), ask[r].op = "register"
    PROVE  reply'[r] \in Fine
<1>. TypeOK /\ TablesOK /\ HandlersOK /\ Alone(r) /\ MayWrite(r)
  BY TypeParts, AloneMayWrite DEF AloneInv, PoolInv, IInv
<1>1. CASE Restart
  BY <1>1 DEF Restart, Fine
<1>2. CASE InsertNode(r)
  BY <1>2 DEF InsertNode, Goto, Silence, Fine
<1>3. CASE CommitPut(r)
  BY <1>3 DEF CommitPut, Answer, Silence, Fine
<1>4. ~DeleteNode(r) /\ ~GetNodeFails(r) /\ ~RejectCidr(r) /\ ~CommitPutFails(r)
  BY DEF DeleteNode, GetNodeFails, RejectCidr, CommitPutFails, At, HandlersOK,
     LocalsOK, DeleteAsks, BeatAsks, PutAsks
<1>5. CASE Quiet(r) /\ ~Failure(r)
  BY <1>5 DEF Quiet, Begin, Start, SelectNetwork, InsertNetwork, SelectIps,
     FindNode, Allocate, UpdateNode, GetNode, CommitBeat, SelectNodes, Goto,
     Answer, Silence, Fine
<1>6. CASE Failure(r)
  <2>1. ~InsertNetworkFails(r)
    BY DEF InsertNetworkFails, At, Alone
  <2>2. ~InsertNodeFails(r)
    BY AloneInsertable DEF InsertNodeFails
  <2>3. ~UpdateNodeFails(r)
    BY DEF UpdateNodeFails, Alone, HandlersOK, LocalsOK, BeatAsks
  <2>4. ~Busy(r)
    BY DEF Busy
  <2>5. CASE AllocateFails(r) \/ SelectNodesFails(r)
    BY <2>5 DEF AllocateFails, SelectNodesFails, Answer, Silence, Fine
  <2>6. CASE RefreshNode(r)
    <3>1. nodes[ask[r].node] # Absent
      BY <2>6 DEF RefreshNode, At, Alone
    <3>. QED  BY <2>6, <3>1 DEF RefreshNode, Answer, Silence, Fine
  <2>. QED  BY <1>4, <1>6, <2>1, <2>2, <2>3, <2>4, <2>5, <2>6 DEF Failure
<1>. QED  BY <1>1, <1>2, <1>3, <1>4, <1>5, <1>6, StepCases DEF OneAtATime

\* While requests come one at a time and the IPv6 prefixes do not overlap, a
\* registration fails only because the IPv4 pool is exhausted, after any history of
\* registrations, deletions and re-allocations: the address that allocate() derives
\* is never in use though nobody looks at the IPv6 addresses (nodes.py:68-89,
\* allocator.py:20-40).
THEOREM RegistrationWorks ==
    ASSUME OneAtATime, SeparatePools6 PROVE Spec => RegistrationSucceeds
<1>. DEFINE Succeeds ==
       \A r \in Requests :
         (~At(r, "idle") /\ ask[r].op = "register") =>
            reply'[r] \in {"none", "ok", "exhausted", "lost"}
<1>1. AloneInv /\ [Next]_vars => [Succeeds]_vars
  BY RegistrationStep DEF Fine
<1>. QED  BY <1>1, AloneInvariance, PTL DEF Spec, RegistrationSucceeds

\* While requests come one at a time, every node has an address of the network's
\* IPv4 prefix and its IPv6 counterpart in the network's prefix or the default one,
\* for any nodes, prefixes, failures and restarts: what one request reads is what it
\* writes over (api.py:258-276, nodes.py:68-89).
THEOREM NodesInPool == ASSUME OneAtATime PROVE Spec => []AllNodesInPool
<1>1. AloneInv => AllNodesInPool
  <2>1. TypeOK => TablesOK
    BY TypeParts
  <2>. QED  BY <2>1, BookEntries
            DEF AloneInv, PoolInv, IInv, RowsInPool, RowsPaired, AllNodesInPool, Present
<1>. QED  BY <1>1, AloneInvariance, PTL

(***************************************************************************)
(* Any number of requests, prefixes that differ only in their size: the    *)
(* IPv6 address is never what stops an INSERT.                             *)
(***************************************************************************)

\* Re-allocations only widen or narrow the prefixes, so that an IPv4 address has one
\* IPv6 counterpart.  With a second base in either family the theorem below is false:
\* two re-allocations at once can then leave a row with the IPv4 address of one and
\* the IPv6 address of the other, since a commit writes only what it believes changed.
SameBases ==
    /\ \A p, s \in Pools4 : p.base = s.base
    /\ \A q, t \in Pools6 : q.base = t.base

Paired(a) == a.v6 = V6Of(Default4, Default6, a.v4)

\* Every address in the table, on its way there or read by a re-allocation is
\* with its counterpart.
AllPaired ==
    /\ \A n \in NodeIds : book[n] # Absent => Paired(book[n])
    /\ \A r \in Requests : pc[r] = "insert_node" => Paired(row[r])
    /\ \A r \in Requests : pc[r] = "commit_put" =>
          \A n \in NodeIds : view[r][n] # Absent => Paired(view[r][n])

LEMMA AllocatableNat ==
    ASSUME NEW p \in Pools4, NEW a \in Allocatable(p) PROVE a \in Nat
<1>1. p.base \in Nat /\ p.size \in Nat
  BY PoolsAssumption DEF Prefixes
<1>. QED  BY <1>1 DEF Allocatable, Hosts

LEMMA Pairing ==
    ASSUME SameBases, NEW p \in Pools4, NEW q \in Pools6, NEW a \in Allocatable(p)
    PROVE  V6Of(p, q, a) = V6Of(Default4, Default6, a)
<1>1. p.base = Default4.base /\ q.base = Default6.base
  BY PoolsAssumption DEF SameBases
<1>. QED  BY <1>1 DEF V6Of

\* Of paired addresses one column determines the other.
LEMMA PairedColumns ==
    ASSUME NEW a, NEW b, a.v4 \in V4Space, b.v4 \in V4Space, Paired(a), Paired(b)
    PROVE  a.v4 = b.v4 <=> a.v6 = b.v6
<1>. DEFINE x == a.v4  y == b.v4  p == Default4.base  q == Default6.base
<1>1. x \in Nat /\ y \in Nat
  BY AllocatableNat DEF V4Space
<1>2. p \in Nat /\ q \in Nat
  BY PoolsAssumption DEF Prefixes
<1>3. a.v6 = q + (x - p) /\ b.v6 = q + (y - p)
  BY DEF Paired, V6Of
<1>4. x = y <=> q + (x - p) = q + (y - p)
  <2>. HIDE DEF x, y, p, q
  <2>. QED  BY <1>1, <1>2
<1>. QED  BY <1>3, <1>4, Zenon

\* Only SelectNodes leads to the commit of a re-allocation.
LEMMA OnlySelectNodesCommits ==
    ASSUME TypeOK, NEW r \in Requests, ~SelectNodes(r),
           Quiet(r) \/ InsertNode(r) \/ DeleteNode(r) \/ CommitPut(r)
    PROVE  pc'[r] # "commit_put"
<1>. HandlersOK
  BY TypeParts
<1>1. CASE Failure(r) \/ CommitBeat(r) \/ DeleteNode(r) \/ CommitPut(r)
  <2>1. \E how \in Replies : Answer(r, how)
    BY <1>1, FailureShape DEF CommitBeat, DeleteNode, CommitPut, Replies
  <2>. QED  BY <2>1 DEF Answer, HandlersOK
<1>2. CASE ~(Failure(r) \/ CommitBeat(r) \/ DeleteNode(r) \/ CommitPut(r))
  <2>1. \E label \in Labels \ {"commit_put"} : Goto(r, label)
    BY <1>2 DEF Quiet, Begin, Start, SelectNetwork, InsertNetwork, SelectIps,
       FindNode, Allocate, UpdateNode, GetNode, InsertNode, Labels
  <2>. QED  BY <2>1 DEF Goto, HandlersOK
<1>. QED  BY <1>1, <1>2

\* A re-allocation that changes a row writes both its addresses, and they belong
\* together, though it may have read others than the row has by now.
LEMMA CommitPutPaired ==
    ASSUME SameBases, TypeOK, AllPaired, NEW r \in Requests, CommitPut(r),
           NEW n \in NodeIds, book'[n] # Absent
    PROVE  Paired(book'[n])
<1>. TablesOK /\ HandlersOK
  BY TypeParts
<1>1. At(r, "commit_put") /\ Vanished(r) = {} /\ nodes'[n] = UpdatedRow(r, n)
  BY DEF CommitPut
<1>2. nodes'[n] # Absent /\ book'[n] = [v4 |-> nodes'[n].v4, v6 |-> nodes'[n].v6]
  <2>1. CASE nodes'[n] = Absent
    BY <2>1 DEF book
  <2>2. CASE nodes'[n] # Absent
    BY <2>2 DEF book, Addr
  <2>. QED  BY <2>1, <2>2
<1>3. nodes[n] # Absent
  BY <1>1, <1>2, UpdatedRowType
<1>4. CASE n \notin DirtyRows(r)
  <2>1. nodes'[n] = nodes[n]
    BY <1>1, <1>4 DEF UpdatedRow
  <2>2. book[n] # Absent /\ book[n].v4 = nodes[n].v4 /\ book[n].v6 = nodes[n].v6
    BY <1>3, BookEntries
  <2>. QED  BY <1>2, <2>1, <2>2 DEF AllPaired, Paired
<1>5. CASE n \in DirtyRows(r)
  <2>. DEFINE old == view[r][n]
              new == plan[r][n]
  <2>1. old # Absent /\ new # old
    BY <1>5 DEF DirtyRows, Present
  <2>2. /\ view[r] \in Books /\ PlanOK(r)
        /\ ask[r].v4 \in Pools4 /\ AllocatorPool6(r) \in Pools6
    BY <1>1, WantedType DEF At, HandlersOK, LocalsOK
  <2>3. /\ old \in Addresses /\ new \in Addresses
        /\ new.v4 \in Allocatable(ask[r].v4)
        /\ new.v6 = V6Of(ask[r].v4, AllocatorPool6(r), new.v4)
    BY <2>1, <2>2 DEF PlanOK, Books
  <2>4. Paired(old)
    BY <1>1, <2>1 DEF AllPaired, At
  <2>5. Paired(new)
    BY <2>2, <2>3, Pairing DEF Paired
  <2>. HIDE DEF old, new
  <2>6. new.v4 # old.v4 /\ new.v6 # old.v6
    <3>1. new.v4 = old.v4 <=> new.v6 = old.v6
      BY <2>3, <2>4, <2>5, PairedColumns DEF Addresses
    <3>. QED  BY <2>1, <2>3, <3>1 DEF Addresses
  <2>7. nodes'[n].v4 = new.v4 /\ nodes'[n].v6 = new.v6
    BY <1>1, <1>5, <2>6 DEF UpdatedRow, Written, old, new
  <2>. QED  BY <1>2, <2>5, <2>7 DEF Paired
<1>. QED  BY <1>4, <1>5

LEMMA NextAllPaired ==
    ASSUME SameBases, TypeOK, AllPaired, [Next]_vars PROVE AllPaired'
<1>. TablesOK /\ HandlersOK
  BY TypeParts
<1>1. CASE UNCHANGED vars
  BY <1>1 DEF vars, AllPaired, Paired, book, Addr
<1>2. CASE Restart /\ nodes' = nodes
  BY <1>2 DEF Restart, AllPaired, Paired, book, Addr
<1>3. ASSUME NEW r \in Requests,
             Quiet(r) \/ InsertNode(r) \/ DeleteNode(r) \/ CommitPut(r)
      PROVE  AllPaired'
  <2>1. ASSUME NEW n \in NodeIds, book'[n] # Absent PROVE Paired(book'[n])
    <3>1. CASE Quiet(r)
      BY <2>1, <3>1, QuietBook DEF AllPaired
    <3>2. CASE InsertNode(r)
      <4>. DEFINE a == [v4 |-> row[r].v4, v6 |-> row[r].v6]
      <4>1. book' = [book EXCEPT ![ask[r].node] = a]
        BY <3>2, InsertNodeBook
      <4>2. Paired(a)
        BY <3>2 DEF InsertNode, At, AllPaired, Paired
      <4>. HIDE DEF a
      <4>3. book'[n] = a \/ book'[n] = book[n]
        BY <4>1 DEF book
      <4>. QED  BY <2>1, <4>2, <4>3 DEF AllPaired
    <3>3. CASE DeleteNode(r)
      <4>1. book'[n] = book[n]
        BY <2>1, <3>3, DeleteNodeBook DEF book
      <4>. QED  BY <2>1, <4>1 DEF AllPaired
    <3>. QED  BY <1>3, <2>1, <3>1, <3>2, <3>3, CommitPutPaired
  <2>2. ASSUME NEW q \in Requests, pc'[q] = "insert_node" PROVE Paired(row'[q])
    <3>1. CASE q # r
      BY <1>3, <2>2, <3>1, OthersUndisturbed, OthersKeepTheirRow DEF AllPaired
    <3>2. CASE q = r
      <4>1. Allocate(r)
        BY <1>3, <2>2, <3>2, OnlyAllocateInserts
      <4>2. lnet[r].v4 \in Pools4 /\ lnet[r].v6 \in Pools6
        BY <4>1 DEF Allocate, At, HandlersOK, LocalsOK, Nets
      <4>3. PICK a \in Allocatable(lnet[r].v4) :
              row'[r].v4 = a /\ row'[r].v6 = V6Of(lnet[r].v4, lnet[r].v6, a)
        BY <4>1 DEF Allocate, HandlersOK
      <4>. QED  BY <3>2, <4>2, <4>3, Pairing DEF Paired
    <3>. QED  BY <3>1, <3>2
  <2>3. ASSUME NEW q \in Requests, pc'[q] = "commit_put",
               NEW n \in NodeIds, view'[q][n] # Absent
        PROVE  Paired(view'[q][n])
    <3>1. CASE q # r
      BY <1>3, <2>3, <3>1, OthersUndisturbed DEF AllPaired
    <3>2. CASE q = r
      <4>1. SelectNodes(r)
        BY <1>3, <2>3, <3>2, OnlySelectNodesCommits
      <4>2. view'[r] = book
        BY <4>1 DEF SelectNodes, HandlersOK
      <4>. QED  BY <2>3, <3>2, <4>2 DEF AllPaired
    <3>. QED  BY <3>1, <3>2
  <2>. QED  BY <2>1, <2>2, <2>3 DEF AllPaired
<1>. QED  BY <1>1, <1>2, <1>3, StepCases

\* The INSERT of a new node fails only on a row that has its IPv4 address.
LEMMA AvailableStep ==
    ASSUME TypeOK, AllPaired, [Next]_vars, ~UNCHANGED vars, NEW r \in Requests,
           At(r, "insert_node"), reply'[r] = "integrity"
    PROVE  \/ nodes[ask[r].node] # Absent
           \/ \E n \in Present(nodes) : nodes[n].v4 = row[r].v4
<1>. TablesOK /\ HandlersOK
  BY TypeParts
<1>1. Quiet(r) \/ InsertNode(r) \/ DeleteNode(r) \/ CommitPut(r)
  <2>1. ~Restart
    BY DEF Restart, At
  <2>2. ASSUME NEW q \in Requests,
               Quiet(q) \/ InsertNode(q) \/ DeleteNode(q) \/ CommitPut(q)
        PROVE  q = r
    BY <2>2, OthersUndisturbed
  <2>. QED  BY <2>1, <2>2, StepCases
<1>2. InsertNodeFails(r)
  <2>1. ~InsertNode(r)
    BY DEF InsertNode, Goto, Silence
  <2>2. ~Busy(r)
    BY DEF Busy, Answer, Silence
  <2>3. Failure(r)
    BY <1>1, <2>1 DEF Quiet, Begin, SelectNetwork, InsertNetwork, SelectIps,
       FindNode, Allocate, UpdateNode, GetNode, CommitBeat, SelectNodes,
       DeleteNode, CommitPut, At
  <2>. QED  BY <2>2, <2>3 DEF Failure, RejectCidr, InsertNetworkFails,
       AllocateFails, UpdateNodeFails, RefreshNode, GetNodeFails,
       SelectNodesFails, CommitPutFails, At
<1>3. CASE nodes[ask[r].node] = Absent
  <2>1. PICK m \in Present(nodes) : Clash(row[r], nodes[m])
    BY <1>2, <1>3 DEF InsertNodeFails, Insertable
  <2>2. nodes[m] \in Rows /\ Paired(nodes[m])
    BY BookEntries DEF Present, AllPaired, Paired
  <2>3. row[r] \in Rows /\ Paired(row[r])
    BY DEF At, HandlersOK, LocalsOK, AllPaired
  <2>4. nodes[m].v4 = row[r].v4
    BY <2>1, <2>2, <2>3, PairedColumns DEF Clash, Rows
  <2>. QED  BY <2>4
<1>. QED  BY <1>3

\* While prefixes are changed in size only, allocate()
\* returns "the next available IPv4 and IPv6 address", as its docstring says, however
\* many requests run at once and whatever they lose to each other: a new node's
\* INSERT fails only if its IPv4 address was taken meanwhile (allocator.py:21-40).
\* Without that assumption it does not (run ctrl_wedge).
THEOREM AllocationAvailable == ASSUME SameBases PROVE Spec => AllocationIsAvailable
<1>. DEFINE Available ==
       \A r \in Requests :
         (At(r, "insert_node") /\ reply'[r] = "integrity") =>
            \/ nodes[ask[r].node] # Absent
            \/ \E n \in Present(nodes) : nodes[n].v4 = row[r].v4
<1>1. Init => AllPaired
  BY DEF Init, AllPaired, book
<1>2. IInv /\ AllPaired /\ [Next]_vars => AllPaired'
  BY NextAllPaired DEF IInv
<1>3. IInv /\ AllPaired /\ [Next]_vars => [Available]_vars
  BY AvailableStep DEF IInv
<1>. QED  BY <1>1, <1>2, <1>3, Invariance, PTL DEF Spec, AllocationIsAvailable

\* How a step may change the entry of one node in the book.
LEMMA OriginStep ==
    ASSUME IInv, [Next]_vars, NEW n \in NodeIds, book'[n] \notin {book[n], Absent}
    PROVE  \E r \in Requests :
              \/ At(r, "insert_node") /\ ask[r].node = n /\ nodes[n] = Absent
              \/ At(r, "commit_put") /\ reply'[r] = "ok" /\ book[n] # Absent
<1>. TypeOK /\ TablesOK /\ HandlersOK
  BY TypeParts DEF IInv
<1>1. PICK r \in Requests : InsertNode(r) \/ DeleteNode(r) \/ CommitPut(r)
  BY StepCases DEF vars, book, Addr
<1>2. CASE InsertNode(r)
  <2>1. ask[r].node = n
    BY <1>2, InsertNodeBook DEF book
  <2>. QED  BY <1>2, <2>1 DEF InsertNode, Insertable
<1>3. CASE DeleteNode(r)
  BY <1>3, DeleteNodeBook DEF book
<1>4. CASE CommitPut(r)
  <2>1. reply'[r] = "ok" /\ At(r, "commit_put")
    BY <1>4 DEF CommitPut, Answer, Silence
  <2>2. ASSUME book[n] = Absent PROVE FALSE
    <3>1. nodes[n] = Absent
      BY <2>2, BookEntries
    <3>2. nodes'[n] = Absent
      BY <1>4, <3>1, UpdatedRowType DEF CommitPut
    <3>. QED  BY <3>2 DEF book
  <2>. QED  BY <2>1, <2>2
<1>. QED  BY <1>1, <1>2, <1>3, <1>4

\* A node's addresses appear only by its own registration and move only by a
\* re-allocation that succeeds; nothing read earlier is ever written back.
THEOREM AddressesHaveOrigin == Spec => AddressesComeFromAllocations
<1>. DEFINE Origin ==
       \A n \in NodeIds :
         book'[n] \notin {book[n], Absent} =>
           \E r \in Requests :
             \/ At(r, "insert_node") /\ ask[r].node = n /\ nodes[n] = Absent
             \/ At(r, "commit_put") /\ reply'[r] = "ok" /\ book[n] # Absent
<1>1. IInv /\ [Next]_vars => [Origin]_vars
  BY OriginStep
<1>. QED  BY <1>1, Invariance, PTL DEF Spec, AddressesComeFromAllocations

(***************************************************************************)
(* The handlers implement the address book.                                *)
(***************************************************************************)
LEMMA InjectiveBook == UniqueBook => Book!Injective(book)
BY DEF UniqueBook, Book!Injective, Book!Clash, Clash

LEMMA InjectiveBookNext == UniqueBook' => Book!Injective(book')
BY DEF UniqueBook, Book!Injective, Book!Clash, Clash

LEMMA BookStep ==
    ASSUME IInv, IInv', [Next]_vars PROVE [Book!Next]_book
<1>. TypeOK /\ TablesOK /\ HandlersOK
  BY TypeParts DEF IInv
<1>. TablesOK'
  BY DEF IInv, TypeOK, TablesOK
<1>1. ASSUME NEW r \in Requests, InsertNode(r) PROVE Book!Next
  <2>. DEFINE n == ask[r].node
              a == [v4 |-> row[r].v4, v6 |-> row[r].v6]
  <2>1. /\ n \in NodeIds /\ a \in Addresses /\ book[n] = Absent
        /\ book' = [book EXCEPT ![n] = a]
        /\ \A m \in NodeIds : book[m] # Absent => ~Clash(a, book[m])
    BY <1>1, InsertNodeBook
  <2>. HIDE DEF n, a
  <2>2. book'[n] = a /\ a # Absent
    BY <2>1, NullsAssumption DEF book
  <2>3. Book!Assign(n)
    BY <2>1, <2>2 DEF Book!Assign, Book!Holders, Book!Clash, Clash
  <2>. QED  BY <2>1, <2>3 DEF Book!Next
<1>2. ASSUME NEW r \in Requests, DeleteNode(r) PROVE Book!Next \/ book' = book
  <2>1. ask[r].node \in NodeIds /\ book' = [book EXCEPT ![ask[r].node] = Absent]
    BY <1>2, DeleteNodeBook
  <2>2. CASE book[ask[r].node] = Absent
    BY <2>1, <2>2 DEF book
  <2>3. CASE book[ask[r].node] # Absent
    BY <2>1, <2>3 DEF Book!Next, Book!Release, Book!Holders
  <2>. QED  BY <2>2, <2>3
<1>3. ASSUME NEW r \in Requests, CommitPut(r) PROVE Book!Next
  <2>1. book' \in Books
    BY BookTypeNext
  <2>2. \A n \in NodeIds : nodes'[n] = Absent <=> nodes[n] = Absent
    BY <1>3, UpdatedRowType DEF CommitPut
  <2>3. \A n \in NodeIds : book'[n] = Absent <=> book[n] = Absent
    <3>1. ASSUME NEW n \in NodeIds, nodes'[n] # Absent PROVE book'[n] # Absent
      <4>1. book'[n] = [v4 |-> nodes'[n].v4, v6 |-> nodes'[n].v6]
        BY <3>1 DEF book, Addr
      <4>2. nodes'[n] \in Rows
        BY <3>1 DEF TablesOK, Tables
      <4>3. book'[n] \in Addresses
        BY <4>1, <4>2 DEF Rows, Addresses
      <4>. QED  BY <4>3, NullsAssumption
    <3>2. ASSUME NEW n \in NodeIds, nodes'[n] = Absent PROVE book'[n] = Absent
      BY <3>2 DEF book
    <3>. QED  BY <2>2, <3>1, <3>2, BookEntries
  <2>4. Book!Injective(book')
    BY UniqueByBookNext, InjectiveBookNext DEF IInv
  <2>. QED  BY <2>1, <2>3, <2>4 DEF Book!Next, Book!Renumber, Books
<1>. QED  BY <1>1, <1>2, <1>3, StepCases DEF vars, book, Addr

\* Every behaviour of the handlers, seen through the address columns of the
\* table, is a behaviour of the address book.
THEOREM Refinement == Spec => ImplementsBook
<1>1. Init => Book!Init
  BY DEF Init, Book!Init, book
<1>2. IInv /\ IInv' /\ [Next]_vars => [Book!Next]_book
  BY BookStep
<1>. QED  BY <1>1, <1>2, Invariance, PTL DEF Spec, ImplementsBook, Book!Spec

=============================================================================
