------------------------------- MODULE Identity -------------------------------
(***************************************************************************)
(* A host's identity: `pymesh join` generates keys, registers them and     *)
(* writes identity.json into the user's directory; the daemon loads the    *)
(* first identity.json it finds, its own directory first, and writes one   *)
(* into its own directory when the controller has moved its address        *)
(* (identity/node.py, cli/commands.py, daemon/lifecycle.py).               *)
(*                                                                         *)
(* A file is overwritten in place: opened, which truncates it, and written.*)
(* The controller is the module AddressBook.                               *)
(***************************************************************************)
EXTENDS Naturals

CONSTANTS
    NodeIds,     \* the key pairs this host may generate, by node id
    Addresses,   \* mesh addresses, records [v4, v6]
    Absent,      \* no row
    Missing,     \* no such file
    Torn,        \* a file that json.load or model_validate rejects
    Nothing,     \* no identity in memory
    MaxChanges,  \* bound on deletions and re-allocations
    MaxFaults    \* bound on lost answers, failed writes and kills

Identities == [node : NodeIds, addr : Addresses]

ASSUME IdentityAssumption ==
    /\ Absent \notin Addresses
    /\ {Missing, Torn, Nothing} \cap Identities = {} /\ Missing # Torn
    /\ MaxChanges \in Nat /\ MaxFaults \in Nat

\* The directories: the daemon's default /etc/pymesh and ~/.config/pymesh.
Places == {"etc", "home"}

VARIABLES
    book,      \* controller: id -> address or Absent
    file,      \* identity.json at each place
    dir,       \* the daemon's config_dir; never changes
    minted,    \* the key pairs generated so far
    cli,       \* where `pymesh join` is
    new,       \* the identity it is about to save, or Nothing
    daemon,    \* where the daemon is
    mine,      \* the identity the daemon runs with, or Nothing
    offer,     \* the address in the configuration just fetched, or Absent
    gave,      \* history: <<n, a>>, the controller gave n the address a
    joined,    \* history: a join has touched a file since the daemon started
    changes, faults

controller == <<book, gave>>
joining == <<minted, cli, new>>
running == <<daemon, mine, offer>>
vars == <<controller, file, dir, joining, running, joined, changes, faults>>

Book == INSTANCE AddressBook WITH
    book <- book, NodeIds <- NodeIds, Addresses <- Addresses, Absent <- Absent

TypeOK ==
    /\ book \in [NodeIds -> Addresses \cup {Absent}]
    /\ gave \subseteq NodeIds \X Addresses
    /\ file \in [Places -> Identities \cup {Missing, Torn}]
    /\ dir \in Places
    /\ minted \subseteq NodeIds
    /\ cli \in {"idle", "registered", "saving"}
    /\ new \in Identities \cup {Nothing} /\ (new = Nothing <=> cli = "idle")
    /\ daemon \in {"down", "unjoined", "up", "answered", "saving"}
    /\ mine \in Identities \cup {Nothing}
    /\ mine = Nothing <=> daemon \in {"down", "unjoined"}
    /\ offer \in Addresses \cup {Absent}
    /\ daemon = "answered" => offer \in Addresses
    /\ joined \in BOOLEAN
    /\ changes \in 0 .. MaxChanges /\ faults \in 0 .. MaxFaults

Init ==
    /\ Book!Init
    /\ gave = {}
    /\ file = [p \in Places |-> Missing]
    /\ dir \in Places
    /\ minted = {} /\ cli = "idle" /\ new = Nothing
    /\ daemon = "down" /\ mine = Nothing /\ offer = Absent
    /\ joined = FALSE
    /\ changes = 0 /\ faults = 0

\* What the controller has given by the end of a step.
Given == gave' = gave \cup {x \in NodeIds \X Addresses : book'[x[1]] = x[2]}

Fault ==
    /\ faults < MaxFaults
    /\ faults' = faults + 1
    /\ UNCHANGED <<dir, changes>>

NoFault == UNCHANGED <<dir, changes, faults>>

(***************************************************************************)
(* The controller: DELETE /nodes/{id}, PUT /network/subnet.                *)
(***************************************************************************)
ControllerChanges ==
    /\ changes < MaxChanges
    /\ changes' = changes + 1
    /\ \/ \E n \in NodeIds : Book!Release(n)
       \/ Book!Renumber /\ book' # book
    /\ Given
    /\ UNCHANGED <<file, dir, joining, running, joined, faults>>

(***************************************************************************)
(* pymesh join.                                                            *)
(***************************************************************************)
\* Seeded fault: the addresses in the answer are not taken over.
RegisterIdOnly ==
    /\ cli = "idle"
    /\ \E n \in NodeIds \ minted :
        /\ Book!Assign(n)
        /\ minted' = minted \cup {n}
        /\ new' = [node |-> n, addr |-> Absent]
    /\ cli' = "registered"
    /\ Given
    /\ UNCHANGED <<file, running, joined>> /\ NoFault

\* New keys at every join, and so a new node; the controller answers 200.
Register ==
    /\ cli = "idle"
    /\ \E n \in NodeIds \ minted :
        /\ Book!Assign(n)
        /\ minted' = minted \cup {n}
        /\ new' = [node |-> n, addr |-> book'[n]]
    /\ cli' = "registered"
    /\ Given
    /\ UNCHANGED <<file, running, joined>> /\ NoFault

\* open(path, "w").
OpenUserFile ==
    /\ cli = "registered"
    /\ cli' = "saving"
    /\ file' = [file EXCEPT !["home"] = Torn]
    /\ joined' = TRUE
    /\ UNCHANGED <<controller, minted, new, running>> /\ NoFault

\* What writing id at p leaves.  If the file is not as open() left it, another
\* writer's text, which may be longer, is overwritten in part.
Written(p, id) == IF file[p] = Torn THEN {id} ELSE {id, Torn}

WriteUserFile ==
    /\ cli = "saving"
    /\ \E f \in Written("home", new) : file' = [file EXCEPT !["home"] = f]
    /\ cli' = "idle" /\ new' = Nothing
    /\ joined' = TRUE
    /\ UNCHANGED <<controller, minted, running>> /\ NoFault

\* The answer is lost or late, the command is killed, or the disk is full: the
\* node stays registered, and the file as it is.
JoinFails ==
    /\ Fault
    /\ cli # "idle"
    /\ cli' = "idle" /\ new' = Nothing
    /\ UNCHANGED <<controller, file, minted, running, joined>>

(***************************************************************************)
(* The daemon.                                                             *)
(***************************************************************************)
\* Seeded fault: the user's file is preferred.
UserFirst == IF file["home"] # Missing THEN file["home"] ELSE file["etc"]

\* load_identity: the first file that exists, the daemon's own directory first.
Found ==
    IF file[dir] # Missing THEN file[dir]
    ELSE IF file["home"] # Missing THEN file["home"] ELSE file["etc"]

\* With an unreadable file start() raises and the process is down again; with
\* none it returns, and the process stays and never looks again.
Start ==
    /\ daemon = "down" /\ Found # Torn
    /\ IF Found = Missing THEN daemon' = "unjoined" /\ UNCHANGED mine
                          ELSE daemon' = "up" /\ mine' = Found
    /\ joined' = FALSE
    /\ UNCHANGED <<controller, file, joining, offer>> /\ NoFault

\* Heartbeat and configuration; a 404 or no answer leaves everything as it is.
Fetch ==
    /\ daemon = "up" /\ book[mine.node] # Absent
    /\ offer' = book[mine.node]
    /\ daemon' = "answered"
    /\ UNCHANGED <<controller, file, joining, mine, joined>> /\ NoFault

Unmoved ==
    /\ daemon = "answered" /\ offer = mine.addr
    /\ daemon' = "up" /\ offer' = Absent
    /\ UNCHANGED <<controller, file, joining, mine, joined>> /\ NoFault

\* Seeded fault: only the IPv4 address is taken over.
MovedIPv4Only ==
    /\ daemon = "answered" /\ offer # mine.addr
    /\ mine' = [mine EXCEPT !.addr.v4 = offer.v4]
    /\ daemon' = "saving" /\ offer' = Absent
    /\ file' = [file EXCEPT ![dir] = Torn]
    /\ UNCHANGED <<controller, joining, joined>> /\ NoFault

\* Seeded fault: the new address is not taken over in memory.
MovedNotTaken ==
    /\ daemon = "answered" /\ offer # mine.addr
    /\ daemon' = "saving" /\ offer' = Absent
    /\ file' = [file EXCEPT ![dir] = Torn]
    /\ UNCHANGED <<controller, joining, mine, joined>> /\ NoFault

\* Seeded fault: the new address is not saved.
MovedNotSaved ==
    /\ daemon = "answered" /\ offer # mine.addr
    /\ mine' = [mine EXCEPT !.addr = offer]
    /\ daemon' = "up" /\ offer' = Absent
    /\ UNCHANGED <<controller, file, joining, joined>> /\ NoFault

\* The address differs: it is taken over in memory and save() opens the file.
Moved ==
    /\ daemon = "answered" /\ offer # mine.addr
    /\ mine' = [mine EXCEPT !.addr = offer]
    /\ daemon' = "saving" /\ offer' = Absent
    /\ file' = [file EXCEPT ![dir] = Torn]
    /\ UNCHANGED <<controller, joining, joined>> /\ NoFault

Save ==
    /\ daemon = "saving"
    /\ \E f \in Written(dir, mine) : file' = [file EXCEPT ![dir] = f]
    /\ daemon' = "up"
    /\ UNCHANGED <<controller, joining, mine, offer, joined>> /\ NoFault

\* The exception of save() is swallowed, and as the address in memory is the
\* new one, nothing tries again.  The file cannot be opened, or not be written.
SaveFails ==
    /\ Fault
    /\ \/ /\ daemon = "answered" /\ offer # mine.addr
          /\ mine' = [mine EXCEPT !.addr = offer]
          /\ offer' = Absent
       \/ daemon = "saving" /\ UNCHANGED <<mine, offer>>
    /\ daemon' = "up"
    /\ UNCHANGED <<controller, file, joining, joined>>

\* The process ends, by a signal or with the machine: no fault, except in save().
Stop ==
    /\ daemon # "down"
    /\ daemon' = "down" /\ mine' = Nothing /\ offer' = Absent
    /\ IF daemon = "saving" THEN Fault ELSE NoFault
    /\ UNCHANGED <<controller, file, joining, joined>>

SyncLoop == Fetch \/ Unmoved \/ Moved \/ Save

Next ==
    \/ ControllerChanges
    \/ Register \/ OpenUserFile \/ WriteUserFile \/ JoinFails
    \/ Start \/ SyncLoop \/ SaveFails \/ Stop

Spec == Init /\ [][Next]_vars

\* The loop of a running daemon goes on; nobody has to start one or to join.
FairSpec == Spec /\ WF_vars(SyncLoop)

(***************************************************************************)
(* Properties.                                                             *)
(***************************************************************************)
Copies == ({file[p] : p \in Places} \cup {new, mine}) \ {Missing, Torn, Nothing}

\* Every copy of the identity, on disk or in memory, pairs a node with an
\* address the controller gave to that very node, whatever was renumbered,
\* killed or joined again in between (commands.py:60-65, lifecycle.py:113-121).
CopiesAreGenuine == \A id \in Copies : <<id.node, id.addr>> \in gave

\* The daemon runs, and no join has touched a file since it started, or it has a
\* file of its own.
OwnFiles ==
    /\ daemon \in {"up", "answered"}
    /\ joined => (dir = "etc" /\ file["etc"] # Missing)

\* Whatever failed, was killed or cut off, a restart finds the node that the
\* daemon runs as, perhaps with an older address, or a file it cannot read; it
\* never resumes as another node (node.py:50-54, lifecycle.py:37-47, 113-121).
RestartKeepsNode ==
    (OwnFiles /\ Found \notin {Torn, Missing}) => Found.node = mine.node

\* The same, and nothing failed at all.
Resumable == faults = 0 /\ OwnFiles

\* As long as nothing fails, a daemon that restarts now resumes as the node and
\* with the address it has, though it may have loaded one file and saved
\* another; once it has saved its own file, a later join does not change that
\* (lifecycle.py:37-47, 113-121).
RestartResumes == Resumable => Found = mine

\* Once the controller rests, a daemon that keeps running and is registered
\* holds its present address, failed saves notwithstanding
\* (lifecycle.py:77-83, 113-116).
AddressCatchesUp ==
    <>[](mine # Nothing /\ book[mine.node] # Absent) =>
        <>[](mine # Nothing /\ mine.addr = book[mine.node])
==============================================================================
