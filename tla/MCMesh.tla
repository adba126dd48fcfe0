------------------------------- MODULE MCMesh -------------------------------
(* Instances of Mesh for TLC. *)
EXTENDS Mesh

\* Three addresses: two nodes can swap theirs or move through a free one.
MCAddresses == {[v4 |-> i, v6 |-> 10 + i] : i \in 1 .. 3}

\* Each node called by its own id, or all nodes without a daemon here called alike.
Distinct == [n \in NodeIds |-> n]
Alike ==
    [n \in NodeIds |-> IF n \in Daemons THEN n ELSE CHOOSE m \in NodeIds \ Daemons : TRUE]

MCNamings == {Distinct, Alike}

\* Two worlds: distinct names and an /etc/hosts that can be written, or a shared name
\* and an /etc/hosts that cannot.
MCInit == Init /\ readonly = IF hostname = Distinct THEN {} ELSE Daemons

\* The first change registers a node (`pymesh` adds routes for nodes that have joined),
\* and gives it, as addresses are interchangeable, the first of them.
MCNext ==
    /\ Next
    /\ changes = 0 => \A n \in NodeIds : book'[n] # Absent => book'[n].v4 = 1
    /\ changes = 0 => routes' = {}

MCFairSpec == MCInit /\ [][MCNext]_vars /\ \A d \in Daemons : WF_vars(Sync(d))
=============================================================================
