------------------------------ MODULE DNSServer ------------------------------
(***************************************************************************)
(* The standalone DNS server (dns/server.py).  A query for a name in the   *)
(* cache is answered from it.  For any other name the server fetches the   *)
(* nodes and then the TLDs from the controller, adds what it gets to the   *)
(* cache, and looks again; a name that is still unknown is forwarded to    *)
(* the upstream resolver.  Every query is a task of its own, and other     *)
(* tasks run whenever it waits: for an answer, or for the socket it sends  *)
(* to the upstream resolver from.                                          *)
(*                                                                         *)
(* The controller's addresses are those of the module AddressBook; only    *)
(* the IPv4 address is served.  A name stands for all its spellings: n for *)
(* n, n.cr and n.mesh, t for registry.t.  The variables `since`, `clean`   *)
(* and `told` are history: no action depends on them.                      *)
(***************************************************************************)
EXTENDS Naturals

CONSTANTS
    NodeIds,    \* nodes; each has its own hostname
    Tlds,       \* top-level domains that may be published
    Addresses,  \* mesh addresses, records [v4, v6]
    CtrlIp,     \* the address the server gives for registry.{tld}
    Queries,    \* query tasks that may run at once
    Absent,     \* no row, no record, no answer
    NoName,     \* the task is not running
    MaxChanges  \* bound on changes of the controller's tables

V4s == {a.v4 : a \in Addresses}
\* A name nobody ever registers stands for the names of the internet.
Names == NodeIds \cup Tlds

ASSUME DNSAssumption ==
    /\ NodeIds \cap Tlds = {}
    /\ NoName \notin Names
    /\ Absent \notin Addresses /\ Absent \notin V4s /\ Absent # CtrlIp
    /\ MaxChanges \in Nat

VARIABLES
    book,    \* controller: node -> address or Absent
    tlds,    \* controller: the published TLDs
    cache,   \* records_cache: name -> IPv4 address or Absent
    pc,      \* what each task does next
    ask,     \* the name each task was asked for
    got,     \* the answer of the controller on its way to the task
    since,   \* the values of the name at the controller since the task began
    clean,   \* no request of the task has failed
    told,    \* names this server has answered from its cache
    changes

control == <<book, tlds>>
task == <<pc, ask, got, since, clean>>
vars == <<control, cache, task, told, changes>>

Book == INSTANCE AddressBook WITH
    book <- book, NodeIds <- NodeIds, Addresses <- Addresses, Absent <- Absent

Maybe(S) == S \cup {Absent}
Values == Maybe(V4s \cup {CtrlIp})

\* Where a task waits for the controller.
Fetching == {"ask_nodes", "nodes", "ask_tlds", "tlds"}

\* The locals of a task fit its next step.
TaskOK(q) ==
    /\ IF pc[q] = "idle" THEN ask[q] = NoName ELSE ask[q] \in Names
    /\ pc[q] = "nodes" => got[q] \in [NodeIds -> Maybe(V4s)]
    /\ pc[q] = "tlds" => got[q] \in SUBSET Tlds
    /\ pc[q] \notin {"nodes", "tlds"} => got[q] = Absent

TypeOK ==
    /\ book \in [NodeIds -> Maybe(Addresses)]
    /\ tlds \subseteq Tlds
    /\ cache \in [Names -> Values]
    /\ pc \in [Queries -> {"idle", "lookup", "connect", "upstream"} \cup Fetching]
    /\ ask \in [Queries -> Names \cup {NoName}]
    /\ got = [q \in Queries |-> got[q]]
    /\ \A q \in Queries : TaskOK(q)
    /\ since \in [Queries -> SUBSET Values]
    /\ clean \in [Queries -> BOOLEAN]
    /\ told \subseteq Names
    /\ changes \in 0 .. MaxChanges

Init ==
    /\ Book!Init
    /\ tlds = {}
    /\ cache = [x \in Names |-> Absent]
    /\ pc = [q \in Queries |-> "idle"]
    /\ ask = [q \in Queries |-> NoName]
    /\ got = [q \in Queries |-> Absent]
    /\ since = [q \in Queries |-> {}]
    /\ clean = [q \in Queries |-> TRUE]
    /\ told = {}
    /\ changes = 0

\* Fault seeded into V4Of: the answer's IPv6 column is read.
V6Of(b) == [n \in NodeIds |-> IF b[n] = Absent THEN Absent ELSE b[n].v6]

V4Of(b) == [n \in NodeIds |-> IF b[n] = Absent THEN Absent ELSE b[n].v4]

\* What the controller would say of name x.
Record(b, t, x) ==
    IF x \in NodeIds THEN V4Of(b)[x]
    ELSE IF x \in t THEN CtrlIp ELSE Absent

(***************************************************************************)
(* The controller's tables change.                                         *)
(***************************************************************************)
Change ==
    /\ changes < MaxChanges
    /\ changes' = changes + 1
    /\ since' = [q \in Queries |->
                    IF pc[q] = "idle" THEN {}
                    ELSE since[q] \cup {Record(book', tlds', ask[q])}]
    /\ UNCHANGED <<cache, pc, ask, got, clean, told>>

\* A node registers.
Register == (\E n \in NodeIds : Book!Assign(n)) /\ UNCHANGED tlds /\ Change

\* A node is deleted.
Delete == (\E n \in NodeIds : Book!Release(n)) /\ UNCHANGED tlds /\ Change

\* A re-allocation gives every node an address of the new subnet.
Reallocate == Book!Renumber /\ book' # book /\ UNCHANGED tlds /\ Change

\* POST /tld/publish of a valid name; a published TLD is never withdrawn.
Publish ==
    /\ \E t \in Tlds \ tlds : tlds' = tlds \cup {t}
    /\ UNCHANGED book
    /\ Change

(***************************************************************************)
(* A query.                                                                *)
(***************************************************************************)
At(q, label) == pc[q] = label

\* The task sends an answer, or none, and ends; `asked` holds the name it has
\* answered from the cache.
Answer(q, asked) ==
    /\ pc' = [pc EXCEPT ![q] = "idle"]
    /\ ask' = [ask EXCEPT ![q] = NoName]
    /\ got' = [got EXCEPT ![q] = Absent]
    /\ since' = [since EXCEPT ![q] = {}]
    /\ clean' = [clean EXCEPT ![q] = TRUE]
    /\ told' = told \cup asked
    /\ UNCHANGED <<control, cache, changes>>

\* The task goes on to its next step.
Proceed(q, label) ==
    /\ pc' = [pc EXCEPT ![q] = label]
    /\ got' = [got EXCEPT ![q] = Absent]
    /\ UNCHANGED <<control, ask, since, told, changes>>

\* The controller answers, from the tables as they are now.
Serve(q, label, content) ==
    /\ got' = [got EXCEPT ![q] = content]
    /\ pc' = [pc EXCEPT ![q] = label]
    /\ UNCHANGED <<control, cache, ask, since, clean, told, changes>>

\* A record in the cache is good for ever.
ReceiveKnown(q) ==
    /\ At(q, "idle")
    /\ \E x \in Names : cache[x] # Absent /\ Answer(q, {x})

ReceiveUnknown(q) ==
    /\ At(q, "idle")
    /\ \E x \in Names :
        /\ cache[x] = Absent
        /\ ask' = [ask EXCEPT ![q] = x]
        /\ since' = [since EXCEPT ![q] = {Record(book, tlds, x)}]
    /\ pc' = [pc EXCEPT ![q] = "ask_nodes"]
    /\ UNCHANGED <<control, cache, got, clean, told, changes>>

ListNodes(q) == At(q, "ask_nodes") /\ Serve(q, "nodes", V4Of(book))

ListTlds(q) == At(q, "ask_tlds") /\ Serve(q, "tlds", tlds)

\* Fault seeded into StoreNodes: the cache is rebuilt from the list.
ReplaceNodes(q) ==
    /\ At(q, "nodes")
    /\ cache' = [x \in Names |-> IF x \in NodeIds THEN got[q][x] ELSE cache[x]]
    /\ Proceed(q, "ask_tlds")
    /\ UNCHANGED clean

\* Fault seeded into StoreNodes: only a first list is stored.
StoreFirstNodes(q) ==
    /\ At(q, "nodes")
    /\ cache' = [x \in Names |->
                    IF x \in NodeIds /\ \A n \in NodeIds : cache[n] = Absent
                      THEN got[q][x] ELSE cache[x]]
    /\ Proceed(q, "ask_tlds")
    /\ UNCHANGED clean

\* Nodes in the list get their record; the others keep theirs.
StoreNodes(q) ==
    /\ At(q, "nodes")
    /\ cache' = [x \in Names |->
                    IF x \in NodeIds /\ got[q][x] # Absent THEN got[q][x] ELSE cache[x]]
    /\ Proceed(q, "ask_tlds")
    /\ UNCHANGED clean

StoreTlds(q) ==
    /\ At(q, "tlds")
    /\ cache' = [x \in Names |-> IF x \in got[q] THEN CtrlIp ELSE cache[x]]
    /\ Proceed(q, "lookup")
    /\ UNCHANGED clean

\* An answer other than 200 is passed over.
Refused(q) ==
    /\ \/ At(q, "nodes") /\ Proceed(q, "ask_tlds")
       \/ At(q, "tlds") /\ Proceed(q, "lookup")
    /\ clean' = [clean EXCEPT ![q] = FALSE]
    /\ UNCHANGED cache

\* A request fails or takes longer than 3 seconds: no further one is made.
FetchFails(q) ==
    /\ pc[q] \in Fetching
    /\ Proceed(q, "lookup")
    /\ clean' = [clean EXCEPT ![q] = FALSE]
    /\ UNCHANGED cache

LookupKnown(q) ==
    /\ At(q, "lookup")
    /\ cache[ask[q]] # Absent
    /\ Answer(q, {ask[q]})

\* The name is unknown: the task decides to forward, and opens a socket.
ForwardUpstream(q) ==
    /\ At(q, "lookup")
    /\ cache[ask[q]] = Absent
    /\ Proceed(q, "connect")
    /\ UNCHANGED <<cache, clean>>

\* The socket is open and the query is sent; the cache is not looked at again.
SendUpstream(q) == At(q, "connect") /\ Proceed(q, "upstream") /\ UNCHANGED <<cache, clean>>

\* There is no socket to be had: the client gets no answer.
EndpointFails(q) == At(q, "connect") /\ Answer(q, {})

\* Fault seeded into UpstreamEnds: the answer is awaited for ever.
AwaitsForEver(q) == At(q, "upstream") /\ Proceed(q, "upstream") /\ UNCHANGED <<cache, clean>>

\* The resolver's answer is passed on; after an ICMP error, or 3 seconds
\* without an answer, the client gets none.
UpstreamEnds(q) == At(q, "upstream") /\ Answer(q, {})

\* The server stops and starts with an empty cache; its queries are gone.
Restart ==
    /\ cache' = [x \in Names |-> Absent]
    /\ pc' = [q \in Queries |-> "idle"]
    /\ ask' = [q \in Queries |-> NoName]
    /\ got' = [q \in Queries |-> Absent]
    /\ since' = [q \in Queries |-> {}]
    /\ clean' = [q \in Queries |-> TRUE]
    /\ told' = {}
    /\ UNCHANGED <<control, changes>>

\* What the server does without waiting for anybody, or after its timeouts.
Run(q) ==
    \/ StoreNodes(q) \/ StoreTlds(q) \/ FetchFails(q)
    \/ LookupKnown(q) \/ ForwardUpstream(q)
    \/ SendUpstream(q) \/ EndpointFails(q) \/ UpstreamEnds(q)

Next ==
    \/ Register \/ Delete \/ Reallocate \/ Publish
    \/ Restart
    \/ \E q \in Queries :
        \/ ReceiveKnown(q) \/ ReceiveUnknown(q)
        \/ ListNodes(q) \/ ListTlds(q) \/ Refused(q)
        \/ Run(q)

Spec == Init /\ [][Next]_vars

\* Timeouts expire; neither controller nor upstream resolver has to answer.
FairSpec == Spec /\ \A q \in Queries : WF_vars(Run(q))

(***************************************************************************)
(* Properties.                                                             *)
(***************************************************************************)

\* Task q decides to forward its name.
Decides(q) == pc'[q] = "connect" /\ pc[q] # "connect"

\* The server never decides to forward a name that it has itself answered since
\* it started, whatever is deleted or fails (server.py:124, 159).  A query that
\* was decided before the first such answer is sent all the same: nothing looks
\* at the cache between the decision and the send (server.py:194-198).
NamesStayPrivate == [][\A q \in Queries : Decides(q) => ask[q] \notin told]_vars

\* A query whose requests all succeed is forwarded only if the controller did
\* not know the name at some moment between its arrival and the decision,
\* although other queries write the same cache meanwhile (server.py:127-159).
KnownNamesResolve ==
    [][\A q \in Queries : (Decides(q) /\ clean[q]) => Absent \in since[q]]_vars

\* Every query ends, with or without an answer, even if neither controller nor
\* upstream resolver ever answers (server.py:129, 199).
EveryQueryEnds == \A q \in Queries : ~At(q, "idle") ~> At(q, "idle")

==============================================================================
