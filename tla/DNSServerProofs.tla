-------------------------- MODULE DNSServerProofs --------------------------
(***************************************************************************)
(* Proofs about DNSServer for every set of nodes, TLDs, addresses and      *)
(* queries.  The inductive invariant is                                    *)
(*     TypeOK /\ ToldIsCached /\ HistoryIsKept.                            *)
(***************************************************************************)
EXTENDS DNSServer, TLAPS

Labels == {"idle", "lookup", "connect", "upstream", "ask_nodes", "nodes", "ask_tlds", "tlds"}

(***************************************************************************)
(* Types.                                                                  *)
(***************************************************************************)
TablesOK ==
    /\ book \in [NodeIds -> Maybe(Addresses)]
    /\ tlds \subseteq Tlds
    /\ cache \in [Names -> Values]
    /\ changes \in 0 .. MaxChanges

TasksOK ==
    /\ pc \in [Queries -> Labels]
    /\ ask \in [Queries -> Names \cup {NoName}]
    /\ got = [q \in Queries |-> got[q]]
    /\ \A q \in Queries : TaskOK(q)
    /\ since \in [Queries -> SUBSET Values]
    /\ clean \in [Queries -> BOOLEAN]
    /\ told \subseteq Names

LEMMA TypeParts == TypeOK <=> (TablesOK /\ TasksOK)
BY DEF TypeOK, TablesOK, TasksOK, Labels, Fetching

LEMMA TypePartsNext == (TablesOK' /\ TasksOK') => TypeOK'
BY DEF TypeOK, TablesOK, TasksOK, Labels, Fetching

LEMMA V4OfType ==
    ASSUME NEW b \in [NodeIds -> Maybe(Addresses)]
    PROVE  V4Of(b) \in [NodeIds -> Maybe(V4s)]
BY DEF V4Of, Maybe, V4s

LEMMA RecordType ==
    ASSUME NEW b \in [NodeIds -> Maybe(Addresses)], NEW t \in SUBSET Tlds, NEW x \in Names
    PROVE  Record(b, t, x) \in Values
BY V4OfType DEF Record, Values, Maybe

\* The next state of one task is well-formed if its new locals are, and the
\* other tasks are left alone.
LEMMA OneTask ==
    ASSUME TasksOK, NEW q \in Queries, NEW p \in Labels, NEW a \in Names \cup {NoName}, NEW g,
           pc' = [pc EXCEPT ![q] = p],
           ask' = [ask EXCEPT ![q] = a],
           got' = [got EXCEPT ![q] = g],
           IF p = "idle" THEN a = NoName ELSE a \in Names,
           p = "nodes" => g \in [NodeIds -> Maybe(V4s)],
           p = "tlds" => g \in SUBSET Tlds,
           p \notin {"nodes", "tlds"} => g = Absent,
           since' \in [Queries -> SUBSET Values],
           clean' \in [Queries -> BOOLEAN],
           told' \subseteq Names
    PROVE  TasksOK'
<1>1. /\ pc' \in [Queries -> Labels]
      /\ ask' \in [Queries -> Names \cup {NoName}]
      /\ got' = [k \in Queries |-> got'[k]]
  BY DEF TasksOK
<1>2. pc'[q] = p /\ ask'[q] = a /\ got'[q] = g
  BY DEF TasksOK
<1>3. ASSUME NEW k \in Queries, k # q
      PROVE  pc'[k] = pc[k] /\ ask'[k] = ask[k] /\ got'[k] = got[k]
  BY <1>3 DEF TasksOK
<1>4. TaskOK(q)'
  BY <1>2 DEF TaskOK
<1>5. ASSUME NEW k \in Queries, k # q PROVE TaskOK(k)'
  BY <1>3, <1>5 DEF TasksOK, TaskOK
<1>. QED  BY <1>1, <1>4, <1>5 DEF TasksOK

LEMMA TypeChange ==
    ASSUME TypeOK, Register \/ Delete \/ Reallocate \/ Publish
    PROVE  TypeOK'
<1>. USE TypeParts
<1>1. book' \in [NodeIds -> Maybe(Addresses)] /\ tlds' \subseteq Tlds
  <2>1. CASE Register
    BY <2>1 DEF Register, Book!Assign, TablesOK, Maybe
  <2>2. CASE Delete
    BY <2>2 DEF Delete, Book!Release, TablesOK, Maybe
  <2>3. CASE Reallocate
    BY <2>3 DEF Reallocate, Book!Renumber, TablesOK, Maybe
  <2>4. CASE Publish
    BY <2>4 DEF Publish, TablesOK
  <2>. QED  BY <2>1, <2>2, <2>3, <2>4
<1>2. Change
  BY DEF Register, Delete, Reallocate, Publish
<1>3. TablesOK'
  BY <1>1, <1>2, DNSAssumption DEF Change, TablesOK
<1>4. since' \in [Queries -> SUBSET Values]
  <2>1. ASSUME NEW q \in Queries, pc[q] # "idle"
        PROVE  Record(book', tlds', ask[q]) \in Values
    BY <1>1, <2>1, RecordType DEF TasksOK, TaskOK
  <2>. QED  BY <1>2, <2>1 DEF Change, TasksOK
<1>5. TasksOK'
  BY <1>2, <1>4 DEF Change, TasksOK, TaskOK
<1>. QED  BY <1>3, <1>5, TypePartsNext

LEMMA TypeAnswer ==
    ASSUME TypeOK, NEW q \in Queries, NEW asked \in SUBSET Names, Answer(q, asked)
    PROVE  TypeOK'
<1>1. /\ since' \in [Queries -> SUBSET Values]
      /\ clean' \in [Queries -> BOOLEAN]
      /\ told' \subseteq Names
  BY DEF Answer, TypeOK
<1>2. TasksOK'
  BY <1>1, OneTask, TypeParts DEF Answer, Labels
<1>. QED  BY <1>2, TypeParts, TypePartsNext DEF Answer, TablesOK, control

LEMMA TypeProceed ==
    ASSUME TypeOK, NEW q \in Queries, NEW label \in {"ask_tlds", "lookup", "connect", "upstream"},
           pc[q] # "idle", Proceed(q, label),
           cache' \in [Names -> Values], clean' \in [Queries -> BOOLEAN]
    PROVE  TypeOK'
<1>1. ask[q] \in Names /\ ask' = [ask EXCEPT ![q] = ask[q]]
  BY DEF Proceed, TypeOK, TaskOK
<1>2. since' \in [Queries -> SUBSET Values] /\ told' \subseteq Names
  BY DEF Proceed, TypeOK
<1>3. TasksOK'
  BY <1>1, <1>2, OneTask, TypeParts DEF Proceed, Labels
<1>. QED  BY <1>3, TypeParts, TypePartsNext DEF Proceed, TablesOK, control

LEMMA TypeServe ==
    ASSUME TypeOK, NEW q \in Queries, ListNodes(q) \/ ListTlds(q)
    PROVE  TypeOK'
<1>. USE TypeParts
<1>1. PICK label \in {"nodes", "tlds"},
           content \in [NodeIds -> Maybe(V4s)] \cup SUBSET Tlds :
        /\ Serve(q, label, content)
        /\ pc[q] # "idle"
        /\ label = "nodes" => content \in [NodeIds -> Maybe(V4s)]
        /\ label = "tlds" => content \in SUBSET Tlds
  <2>1. CASE ListNodes(q)
    BY <2>1, V4OfType DEF ListNodes, At, TablesOK
  <2>2. CASE ListTlds(q)
    BY <2>2 DEF ListTlds, At, TablesOK
  <2>. QED  BY <2>1, <2>2
<1>2. ask[q] \in Names /\ ask' = [ask EXCEPT ![q] = ask[q]]
  BY <1>1 DEF Serve, TasksOK, TaskOK
<1>3. /\ since' \in [Queries -> SUBSET Values]
      /\ clean' \in [Queries -> BOOLEAN]
      /\ told' \subseteq Names
  BY <1>1 DEF Serve, TasksOK
<1>4. TasksOK'
  BY <1>1, <1>2, <1>3, OneTask DEF Serve, Labels
<1>. QED  BY <1>1, <1>4, TypePartsNext DEF Serve, TablesOK, control

LEMMA TypeReceive ==
    ASSUME TypeOK, NEW q \in Queries, ReceiveUnknown(q)
    PROVE  TypeOK'
<1>. USE TypeParts
<1>1. PICK x \in Names :
        /\ ask' = [ask EXCEPT ![q] = x]
        /\ since' = [since EXCEPT ![q] = {Record(book, tlds, x)}]
  BY DEF ReceiveUnknown
<1>2. since' \in [Queries -> SUBSET Values]
  BY <1>1, RecordType DEF TasksOK, TablesOK
<1>3. got[q] = Absent /\ got' = [got EXCEPT ![q] = Absent]
  BY DEF ReceiveUnknown, At, TasksOK, TaskOK
<1>4. pc' = [pc EXCEPT ![q] = "ask_nodes"] /\ clean' \in [Queries -> BOOLEAN] /\ told' \subseteq Names
  BY DEF ReceiveUnknown, TasksOK
<1>5. TasksOK'
  BY <1>1, <1>2, <1>3, <1>4, OneTask DEF Labels
<1>. QED  BY <1>5, TypePartsNext DEF ReceiveUnknown, TablesOK, control

\* The steps that go on with the cache as it is, or with what was stored.
LEMMA TypeStore ==
    ASSUME TypeOK, NEW q \in Queries,
           \/ StoreNodes(q) \/ StoreTlds(q) \/ Refused(q) \/ FetchFails(q)
           \/ ForwardUpstream(q) \/ SendUpstream(q)
    PROVE  TypeOK'
<1>1. PICK label \in {"ask_tlds", "lookup", "connect", "upstream"} :
        Proceed(q, label) /\ pc[q] # "idle"
  BY DEF StoreNodes, StoreTlds, Refused, FetchFails, ForwardUpstream, SendUpstream, At, Fetching
<1>2. clean' \in [Queries -> BOOLEAN]
  BY DEF StoreNodes, StoreTlds, Refused, FetchFails, ForwardUpstream, SendUpstream, TypeOK
<1>3. cache' \in [Names -> Values]
  <2>1. CASE StoreNodes(q)
    BY <2>1 DEF StoreNodes, At, TypeOK, TaskOK, Values, Maybe
  <2>2. CASE StoreTlds(q)
    BY <2>2 DEF StoreTlds, TypeOK, Values, Maybe
  <2>3. CASE Refused(q) \/ FetchFails(q) \/ ForwardUpstream(q) \/ SendUpstream(q)
    BY <2>3 DEF Refused, FetchFails, ForwardUpstream, SendUpstream, TypeOK
  <2>. QED  BY <2>1, <2>2, <2>3
<1>. QED  BY <1>1, <1>2, <1>3, TypeProceed

\* A query that ends answers a name it knows, or none.
LEMMA Ends ==
    ASSUME TypeOK, NEW q \in Queries,
           ReceiveKnown(q) \/ LookupKnown(q) \/ EndpointFails(q) \/ UpstreamEnds(q)
    PROVE  \E asked \in SUBSET Names :
                Answer(q, asked) /\ \A x \in asked : cache[x] # Absent
<1>1. CASE ReceiveKnown(q)
  <2>1. PICK x \in Names : cache[x] # Absent /\ Answer(q, {x})
    BY <1>1 DEF ReceiveKnown
  <2>. QED  BY <2>1
<1>2. CASE LookupKnown(q)
  <2>1. ask[q] \in Names /\ cache[ask[q]] # Absent /\ Answer(q, {ask[q]})
    BY <1>2 DEF LookupKnown, At, TypeOK, TaskOK
  <2>. QED  BY <2>1
<1>3. CASE EndpointFails(q) \/ UpstreamEnds(q)
  BY <1>3 DEF EndpointFails, UpstreamEnds
<1>. QED  BY <1>1, <1>2, <1>3

LEMMA TypeInit == Init => TypeOK
BY DNSAssumption DEF Init, Book!Init, TypeOK, TaskOK, Maybe, Values

LEMMA TypeRestart == TypeOK /\ Restart => TypeOK'
BY DEF Restart, control, TypeOK, TaskOK, Values, Maybe

LEMMA TypeNext == TypeOK /\ [Next]_vars => TypeOK'
<1>. SUFFICES ASSUME TypeOK, [Next]_vars PROVE TypeOK'
  OBVIOUS
<1>1. CASE UNCHANGED vars
  BY <1>1 DEF vars, control, task, TypeOK, TaskOK
<1>2. ASSUME NEW q \in Queries, ReceiveKnown(q) \/ LookupKnown(q) \/ EndpointFails(q) \/ UpstreamEnds(q)
      PROVE  TypeOK'
  BY <1>2, Ends, TypeAnswer
<1>. QED  BY <1>1, <1>2, TypeChange, TypeReceive, TypeServe, TypeStore, TypeRestart DEF Next, Run

\* Every variable has its type, and the locals of every query fit its next step.
THEOREM TypeCorrect == Spec => []TypeOK
BY TypeInit, TypeNext, PTL DEF Spec

(***************************************************************************)
(* What a query knows.                                                     *)
(***************************************************************************)
Known(x) == cache[x] # Absent

ToldIsCached == \A x \in told : Known(x)

\* The present record of the name is part of the query's history.
Current(q) == pc[q] # "idle" => Record(book, tlds, ask[q]) \in since[q]

\* If no request of the query failed, what it did not learn was absent once.
Complete(q) ==
    clean[q] =>
        /\ (pc[q] = "nodes" /\ ask[q] \in NodeIds) =>
              got[q][ask[q]] # Absent \/ Absent \in since[q]
        /\ (pc[q] \in {"ask_tlds", "tlds", "lookup"} /\ ask[q] \in NodeIds) =>
              Known(ask[q]) \/ Absent \in since[q]
        /\ (pc[q] = "tlds" /\ ask[q] \in Tlds) =>
              ask[q] \in got[q] \/ Absent \in since[q]
        /\ (pc[q] = "lookup" /\ ask[q] \in Tlds) =>
              Known(ask[q]) \/ Absent \in since[q]

HistoryIsKept == \A q \in Queries : Current(q) /\ Complete(q)

IInv == TypeOK /\ ToldIsCached /\ HistoryIsKept

\* A name once known stays known while the server runs.
LEMMA KnownStays ==
    ASSUME TypeOK, [Next]_vars, ~Restart, NEW x \in Names, Known(x)
    PROVE  Known(x)'
<1>1. CASE UNCHANGED vars
  BY <1>1 DEF vars, Known
<1>2. CASE Register \/ Delete \/ Reallocate \/ Publish
  BY <1>2 DEF Register, Delete, Reallocate, Publish, Change, Known
<1>3. ASSUME NEW q \in Queries, StoreNodes(q) PROVE Known(x)'
  BY <1>3 DEF StoreNodes, TypeOK, Known
<1>4. ASSUME NEW q \in Queries, StoreTlds(q) PROVE Known(x)'
  BY <1>4, DNSAssumption DEF StoreTlds, TypeOK, Known
<1>5. ASSUME NEW q \in Queries,
             \/ ReceiveUnknown(q) \/ ListNodes(q) \/ ListTlds(q)
             \/ Refused(q) \/ FetchFails(q) \/ ForwardUpstream(q) \/ SendUpstream(q)
      PROVE  Known(x)'
  BY <1>5 DEF ReceiveUnknown, ListNodes, ListTlds, Serve, Refused, FetchFails,
              ForwardUpstream, SendUpstream, Known
<1>6. ASSUME NEW q \in Queries, ReceiveKnown(q) \/ LookupKnown(q) \/ EndpointFails(q) \/ UpstreamEnds(q)
      PROVE  Known(x)'
  BY <1>6, Ends DEF Answer, Known
<1>. QED  BY <1>1, <1>2, <1>3, <1>4, <1>5, <1>6 DEF Next, Run

LEMMA ToldNext ==
    ASSUME TypeOK, ToldIsCached, [Next]_vars
    PROVE  ToldIsCached'
<1>1. CASE Restart
  BY <1>1 DEF Restart, ToldIsCached
<1>2. CASE ~Restart
  <2>. SUFFICES ASSUME NEW x \in told' PROVE Known(x)'
    BY DEF ToldIsCached
  <2>1. CASE x \in told
    BY <1>2, <2>1, KnownStays DEF ToldIsCached, TypeOK
  <2>2. CASE x \notin told
    <3>1. PICK q \in Queries : ReceiveKnown(q) \/ LookupKnown(q) \/ EndpointFails(q) \/ UpstreamEnds(q)
      BY <1>2, <2>2 DEF Next, vars, Run, Register, Delete, Reallocate, Publish, Change,
                  ReceiveUnknown, ListNodes, ListTlds, Serve, Refused, FetchFails,
                  StoreNodes, StoreTlds, ForwardUpstream, SendUpstream, Proceed
    <3>2. PICK asked \in SUBSET Names :
            Answer(q, asked) /\ \A y \in asked : cache[y] # Absent
      BY <3>1, Ends
    <3>. QED  BY <2>2, <3>2 DEF Answer, Known
  <2>. QED  BY <2>1, <2>2
<1>. QED  BY <1>1, <1>2

(***************************************************************************)
(* The history of a query.                                                 *)
(***************************************************************************)

\* A query whose locals are left alone knows what it knew.
LEMMA LeftAlone ==
    ASSUME TypeOK, [Next]_vars, ~Restart, NEW k \in Queries, Complete(k),
           pc'[k] = pc[k], ask'[k] = ask[k], got'[k] = got[k], clean'[k] = clean[k],
           since[k] \subseteq since'[k]
    PROVE  Complete(k)'
<1>1. ask[k] \in Names /\ Known(ask[k]) => Known(ask[k])'
  BY KnownStays
<1>2. ask[k] \in NodeIds \cup Tlds => ask[k] \in Names
  BY DEF Names
<1>. QED  BY <1>1, <1>2 DEF Complete, Known

\* A step of one query leaves the others alone.
LEMMA OthersKept ==
    ASSUME TypeOK, HistoryIsKept, [Next]_vars, ~Restart, UNCHANGED control,
           NEW q \in Queries, NEW k \in Queries, k # q,
           pc'[k] = pc[k], ask'[k] = ask[k], got'[k] = got[k],
           clean'[k] = clean[k], since'[k] = since[k]
    PROVE  Current(k)' /\ Complete(k)'
BY LeftAlone DEF HistoryIsKept, Current, control, Record, V4Of

LEMMA ChangeKept ==
    ASSUME TypeOK, HistoryIsKept, Next, ~Restart,
           Register \/ Delete \/ Reallocate \/ Publish
    PROVE  HistoryIsKept'
<1>. SUFFICES ASSUME NEW k \in Queries PROVE Current(k)' /\ Complete(k)'
  BY DEF HistoryIsKept
<1>1. Change
  BY DEF Register, Delete, Reallocate, Publish
<1>2. CASE pc[k] = "idle"
  BY <1>1, <1>2 DEF Change, Current, Complete
<1>3. CASE pc[k] # "idle"
  <2>1. since'[k] = since[k] \cup {Record(book', tlds', ask[k])}
    BY <1>1, <1>3 DEF Change
  <2>2. pc' = pc /\ ask' = ask /\ got' = got /\ clean' = clean
    BY <1>1 DEF Change
  <2>3. Current(k)'
    BY <2>1, <2>2 DEF Current, Record, V4Of
  <2>. QED  BY <2>1, <2>2, <2>3, LeftAlone DEF HistoryIsKept
<1>. QED  BY <1>2, <1>3

LEMMA AnswerKept ==
    ASSUME TypeOK, HistoryIsKept, Next, ~Restart,
           NEW q \in Queries, NEW asked, Answer(q, asked)
    PROVE  HistoryIsKept'
<1>. SUFFICES ASSUME NEW k \in Queries PROVE Current(k)' /\ Complete(k)'
  BY DEF HistoryIsKept
<1>1. CASE k = q
  BY <1>1 DEF Answer, TypeOK, Current, Complete
<1>2. CASE k # q
  <2>1. /\ pc'[k] = pc[k] /\ ask'[k] = ask[k] /\ got'[k] = got[k]
        /\ clean'[k] = clean[k] /\ since'[k] = since[k]
    BY <1>2 DEF Answer, TypeOK
  <2>. QED  BY <1>2, <2>1, OthersKept DEF Answer
<1>. QED  BY <1>1, <1>2

LEMMA ReceiveKept ==
    ASSUME TypeOK, HistoryIsKept, Next, ~Restart, NEW q \in Queries, ReceiveUnknown(q)
    PROVE  HistoryIsKept'
<1>. SUFFICES ASSUME NEW k \in Queries PROVE Current(k)' /\ Complete(k)'
  BY DEF HistoryIsKept
<1>1. PICK x \in Names :
        /\ ask' = [ask EXCEPT ![q] = x]
        /\ since' = [since EXCEPT ![q] = {Record(book, tlds, x)}]
  BY DEF ReceiveUnknown
<1>2. CASE k = q
  <2>1. ask'[q] = x /\ since'[q] = {Record(book, tlds, x)} /\ pc'[q] = "ask_nodes"
    BY <1>1 DEF ReceiveUnknown, TypeOK
  <2>2. book' = book /\ tlds' = tlds
    BY DEF ReceiveUnknown, control
  <2>. QED  BY <1>2, <2>1, <2>2 DEF Current, Complete, Record, V4Of
<1>3. CASE k # q
  <2>1. /\ pc'[k] = pc[k] /\ ask'[k] = ask[k] /\ got'[k] = got[k]
        /\ clean'[k] = clean[k] /\ since'[k] = since[k]
    BY <1>1, <1>3 DEF ReceiveUnknown, TypeOK
  <2>. QED  BY <1>3, <2>1, OthersKept DEF ReceiveUnknown
<1>. QED  BY <1>2, <1>3

LEMMA ServeKept ==
    ASSUME TypeOK, HistoryIsKept, Next, ~Restart,
           NEW q \in Queries, ListNodes(q) \/ ListTlds(q)
    PROVE  HistoryIsKept'
<1>. SUFFICES ASSUME NEW k \in Queries PROVE Current(k)' /\ Complete(k)'
  BY DEF HistoryIsKept
<1>1. /\ ask' = ask /\ since' = since /\ clean' = clean /\ cache' = cache
      /\ book' = book /\ tlds' = tlds /\ UNCHANGED control
  BY DEF ListNodes, ListTlds, Serve, control
<1>2. Record(book, tlds, ask[q]) \in since[q]
  BY DEF ListNodes, ListTlds, At, HistoryIsKept, Current
<1>3. CASE k = q
  <2>1. CASE ListNodes(q)
    <3>1. pc'[q] = "nodes" /\ got'[q] = V4Of(book)
      BY <2>1 DEF ListNodes, Serve, TypeOK
    <3>2. ask[q] \in NodeIds => Record(book, tlds, ask[q]) = V4Of(book)[ask[q]]
      BY DEF Record
    <3>. QED  BY <1>1, <1>2, <1>3, <3>1, <3>2 DEF Current, Complete, Record, V4Of
  <2>2. CASE ListTlds(q)
    <3>1. pc[q] = "ask_tlds" /\ pc'[q] = "tlds" /\ got'[q] = tlds
      BY <2>2 DEF ListTlds, At, Serve, TypeOK
    <3>2. ask[q] \in Tlds \ tlds => Record(book, tlds, ask[q]) = Absent
      BY DNSAssumption DEF Record
    <3>. QED  BY <1>1, <1>2, <1>3, <3>1, <3>2
              DEF HistoryIsKept, Current, Complete, Record, V4Of, Known
  <2>. QED  BY <2>1, <2>2
<1>4. CASE k # q
  <2>1. pc'[k] = pc[k] /\ got'[k] = got[k]
    BY <1>4 DEF ListNodes, ListTlds, Serve, TypeOK
  <2>. QED  BY <1>1, <1>4, <2>1, OthersKept
<1>. QED  BY <1>3, <1>4

LEMMA ProceedKept ==
    ASSUME TypeOK, HistoryIsKept, Next, ~Restart, NEW q \in Queries,
           \/ StoreNodes(q) \/ StoreTlds(q) \/ Refused(q) \/ FetchFails(q)
           \/ ForwardUpstream(q) \/ SendUpstream(q)
    PROVE  HistoryIsKept'
<1>. SUFFICES ASSUME NEW k \in Queries PROVE Current(k)' /\ Complete(k)'
  BY DEF HistoryIsKept
<1>1. PICK label \in {"ask_tlds", "lookup", "connect", "upstream"} :
        Proceed(q, label) /\ pc[q] # "idle"
  BY DEF StoreNodes, StoreTlds, Refused, FetchFails, ForwardUpstream, SendUpstream, At, Fetching
<1>2. /\ ask' = ask /\ since' = since
      /\ book' = book /\ tlds' = tlds /\ UNCHANGED control
      /\ pc'[q] = label
      /\ clean'[q] => clean[q]
  BY <1>1 DEF Proceed, control, StoreNodes, StoreTlds, Refused, FetchFails, ForwardUpstream, SendUpstream, TypeOK
<1>3. CASE k = q
  <2>1. Current(q)'
    BY <1>1, <1>2 DEF HistoryIsKept, Current, Record, V4Of
  <2>2. CASE StoreNodes(q)
    <3>1. pc[q] = "nodes" /\ pc'[q] = "ask_tlds" /\ ask[q] \in Names
      BY <2>2 DEF StoreNodes, At, Proceed, TypeOK, TaskOK
    <3>2. ask[q] \in NodeIds /\ got[q][ask[q]] # Absent => Known(ask[q])'
      BY <1>2, <2>2, <3>1 DEF StoreNodes, Known
    <3>. QED  BY <1>2, <1>3, <2>1, <3>1, <3>2 DEF HistoryIsKept, Complete, Known
  <2>3. CASE StoreTlds(q)
    <3>1. pc[q] = "tlds" /\ pc'[q] = "lookup" /\ ask[q] \in Names
      BY <2>3 DEF StoreTlds, At, Proceed, TypeOK, TaskOK
    <3>2. ask[q] \in got[q] => Known(ask[q])'
      BY <1>2, <2>3, <3>1, DNSAssumption DEF StoreTlds, Known
    <3>3. Known(ask[q]) => Known(ask[q])'
      BY <1>2, <3>1, KnownStays
    <3>. QED  BY <1>2, <1>3, <2>1, <3>1, <3>2, <3>3 DEF HistoryIsKept, Complete, Known
  <2>4. CASE Refused(q) \/ FetchFails(q)
    <3>1. clean'[q] = FALSE
      BY <2>4 DEF Refused, FetchFails, TypeOK
    <3>. QED  BY <1>3, <2>1, <3>1 DEF Complete
  <2>5. CASE ForwardUpstream(q) \/ SendUpstream(q)
    <3>1. pc'[q] \in {"connect", "upstream"}
      BY <2>5 DEF ForwardUpstream, SendUpstream, Proceed, TypeOK
    <3>. QED  BY <1>3, <2>1, <3>1 DEF Complete
  <2>. QED  BY <2>2, <2>3, <2>4, <2>5
<1>4. CASE k # q
  <2>1. pc'[k] = pc[k] /\ got'[k] = got[k]
    BY <1>1, <1>4 DEF Proceed, TypeOK
  <2>2. clean'[k] = clean[k]
    BY <1>4 DEF StoreNodes, StoreTlds, Refused, FetchFails, ForwardUpstream, SendUpstream, TypeOK
  <2>. QED  BY <1>2, <1>4, <2>1, <2>2, OthersKept
<1>. QED  BY <1>3, <1>4

LEMMA HistoryNext ==
    ASSUME TypeOK, HistoryIsKept, [Next]_vars
    PROVE  HistoryIsKept'
<1>1. CASE UNCHANGED vars
  BY <1>1 DEF vars, control, task, HistoryIsKept, Current, Complete, Known, Record, V4Of
<1>2. CASE Restart
  BY <1>2 DEF Restart, HistoryIsKept, Current, Complete
<1>3. ASSUME Next, ~Restart, NEW q \in Queries,
             ReceiveKnown(q) \/ LookupKnown(q) \/ EndpointFails(q) \/ UpstreamEnds(q)
      PROVE  HistoryIsKept'
  BY <1>3, Ends, AnswerKept
<1>. QED  BY <1>1, <1>2, <1>3, ChangeKept, ReceiveKept, ServeKept, ProceedKept DEF Next, Run

LEMMA Inductive ==
    /\ Init => IInv
    /\ IInv /\ [Next]_vars => IInv'
<1>1. Init => ToldIsCached /\ HistoryIsKept
  BY DEF Init, ToldIsCached, HistoryIsKept, Current, Complete
<1>. QED  BY <1>1, TypeInit, TypeNext, ToldNext, HistoryNext DEF IInv

LEMMA Invariance == Spec => []IInv
BY Inductive, PTL DEF Spec

\* Only a query that does not find its name is forwarded.
LEMMA OnlyForwardDecides ==
    ASSUME TypeOK, Next, NEW q \in Queries, Decides(q)
    PROVE  ForwardUpstream(q)
<1>. USE DEF Decides
<1>1. ASSUME NEW k \in Queries,
             ReceiveKnown(k) \/ LookupKnown(k) \/ EndpointFails(k) \/ UpstreamEnds(k)
      PROVE  FALSE
  BY <1>1, Ends DEF Answer, TypeOK
<1>2. ASSUME NEW k \in Queries,
             \/ ReceiveUnknown(k) \/ ListNodes(k) \/ ListTlds(k) \/ Refused(k)
             \/ StoreNodes(k) \/ StoreTlds(k) \/ FetchFails(k) \/ SendUpstream(k)
      PROVE  FALSE
  BY <1>2 DEF ReceiveUnknown, ListNodes, ListTlds, Serve, Refused, StoreNodes,
              StoreTlds, FetchFails, SendUpstream, Proceed, TypeOK
<1>3. ASSUME NEW k \in Queries, ForwardUpstream(k) PROVE k = q
  BY <1>3 DEF ForwardUpstream, Proceed, TypeOK
<1>4. ~(Register \/ Delete \/ Reallocate \/ Publish \/ Restart)
  BY DEF Register, Delete, Reallocate, Publish, Change, Restart
<1>. QED  BY <1>1, <1>2, <1>3, <1>4 DEF Next, Run

\* The server never decides to forward a name that it has itself answered since
\* it started.
THEOREM NamesPrivate == Spec => NamesStayPrivate
<1>1. IInv /\ [Next]_vars => [\A q \in Queries : Decides(q) => ask[q] \notin told]_vars
  <2>. SUFFICES ASSUME IInv, Next, NEW q \in Queries, Decides(q)
                PROVE  ask[q] \notin told
    OBVIOUS
  <2>1. cache[ask[q]] = Absent
    BY OnlyForwardDecides DEF IInv, ForwardUpstream
  <2>. QED  BY <2>1 DEF IInv, ToldIsCached, Known
<1>. QED  BY <1>1, Invariance, PTL DEF Spec, NamesStayPrivate

\* A query whose requests succeed is forwarded only if the controller did not
\* know the name at some moment before the decision, for any number of queries.
THEOREM NamesResolve == Spec => KnownNamesResolve
<1>1. IInv /\ [Next]_vars =>
        [\A q \in Queries : (Decides(q) /\ clean[q]) => Absent \in since[q]]_vars
  <2>. SUFFICES ASSUME IInv, Next, NEW q \in Queries, Decides(q), clean[q]
                PROVE  Absent \in since[q]
    OBVIOUS
  <2>1. pc[q] = "lookup" /\ ~Known(ask[q])
    BY OnlyForwardDecides DEF IInv, ForwardUpstream, At, Known
  <2>2. ask[q] \in NodeIds \cup Tlds
    BY <2>1 DEF IInv, TypeOK, TaskOK, Names
  <2>. QED  BY <2>1, <2>2 DEF IInv, HistoryIsKept, Complete
<1>. QED  BY <1>1, Invariance, PTL DEF Spec, KnownNamesResolve
=============================================================================
