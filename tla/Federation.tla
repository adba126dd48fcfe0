------------------------------ MODULE Federation ------------------------------
(***************************************************************************)
(* Peering of controllers (controller/federation.py, the /cr endpoints).   *)
(* POST /cr/peer posts a handshake to another controller, which records    *)
(* the caller in its table, and then records that controller in its own.   *)
(* Both handlers look a URL up first and insert it if it is missing; other *)
(* requests run in between, answers are lost or come too late, and either  *)
(* side may stop.                                                          *)
(*                                                                         *)
(* A controller stands for its URL.  The URL a controller gives of itself  *)
(* is the same for all of them, "http://localhost:8000" (api.py:391), and  *)
(* for each it leads back to itself.  A slot of Requests is one POST       *)
(* /cr/peer with the handshake it causes: pc is the caller's handler, hs   *)
(* the handshake, which may outlive its caller.                            *)
(***************************************************************************)
CONSTANTS
    Controllers,  \* the controllers, or their URLs
    Local,        \* the URL every controller gives of itself
    Nowhere,      \* a URL at which nobody answers
    Requests,     \* peerings that may be under way at once
    None          \* no peering

ASSUME FederationAssumption ==
    /\ Local \notin Controllers
    /\ Nowhere \notin Controllers \cup {Local}
    /\ None \notin [from : Controllers, to : Controllers \cup {Local, Nowhere}]

VARIABLES
    peers,  \* federated_controllers of each controller: the URLs in it
    ask,    \* who peers with which URL
    pc,     \* the caller's next statement
    hs,     \* where the handshake is
    reply   \* the answers to /cr/peer that the last step sent

vars == <<peers, ask, pc, hs, reply>>

Urls == Controllers \cup {Local, Nowhere}

Silence == [r \in Requests |-> "none"]

\* The controller the handshake of r goes to, if there is one.
Target(r) == IF ask[r].to = Local THEN ask[r].from ELSE ask[r].to

\* How the two sides of a peering fit together.
SlotOK(r) ==
    /\ ask[r] = None <=> (pc[r] = "idle" /\ hs[r] = "idle")
    /\ pc[r] \in {"select", "insert"} => hs[r] = "idle"
    /\ hs[r] \in {"ok", "error"} => pc[r] = "await"
    /\ (hs[r] # "idle" \/ pc[r] \in {"select", "insert"}) => Target(r) \in Controllers

TypeOK ==
    /\ peers \in [Controllers -> SUBSET Urls]
    /\ ask \in [Requests -> [from : Controllers, to : Urls] \cup {None}]
    /\ pc \in [Requests -> {"idle", "await", "select", "insert"}]
    /\ hs \in [Requests -> {"idle", "sent", "insert", "ok", "error"}]
    /\ reply \in [Requests -> {"none", "ok", "error"}]
    /\ \A r \in Requests : SlotOK(r)

Init ==
    /\ peers = [c \in Controllers |-> {}]
    /\ ask = [r \in Requests |-> None]
    /\ pc = [r \in Requests |-> "idle"]
    /\ hs = [r \in Requests |-> "idle"]
    /\ reply = Silence

\* The caller of r goes on at p and the handshake at h; a slot is free when both
\* have ended.
Goto(r, p, h) ==
    /\ pc' = [pc EXCEPT ![r] = p]
    /\ hs' = [hs EXCEPT ![r] = h]
    /\ ask' = [ask EXCEPT ![r] = IF p = "idle" /\ h = "idle" THEN None ELSE @]

\* The caller of r is told the outcome, and what was left of the handshake
\* goes on without it.
Answer(r, outcome) ==
    /\ Goto(r, "idle", IF hs[r] \in {"ok", "error"} THEN "idle" ELSE hs[r])
    /\ reply' = [Silence EXCEPT ![r] = outcome]

\* Fault seeded into HandshakeEnds: the answer is kept for a caller that is gone.
HandshakeEndsAnyway(r, status) ==
    /\ Goto(r, pc[r], status)
    /\ reply' = Silence

\* The callee's answer finds a caller only if that is still waiting.
HandshakeEnds(r, status) ==
    /\ Goto(r, pc[r], IF pc[r] = "await" THEN status ELSE "idle")
    /\ reply' = Silence

(***************************************************************************)
(* POST /cr/peer, up to the handshake.                                     *)
(***************************************************************************)
Peer(r) ==
    /\ ask[r] = None
    /\ \E c \in Controllers, u \in Urls :
        /\ ask' = [ask EXCEPT ![r] = [from |-> c, to |-> u]]
        /\ hs' = [hs EXCEPT ![r] = IF u = Nowhere THEN "idle" ELSE "sent"]
    /\ pc' = [pc EXCEPT ![r] = "await"]
    /\ reply' = Silence
    /\ UNCHANGED peers

\* The handshake never arrives.
Lose(r) ==
    /\ hs[r] = "sent"
    /\ Goto(r, pc[r], "idle")
    /\ reply' = Silence
    /\ UNCHANGED peers

(***************************************************************************)
(* POST /cr/handshake at the other controller.                             *)
(***************************************************************************)
\* An existing row is marked PEERED, which it was already.
HandshakeFinds(r) ==
    /\ hs[r] = "sent"
    /\ Local \in peers[Target(r)]
    /\ HandshakeEnds(r, "ok")
    /\ UNCHANGED peers

HandshakeMisses(r) ==
    /\ hs[r] = "sent"
    /\ Local \notin peers[Target(r)]
    /\ Goto(r, pc[r], "insert")
    /\ reply' = Silence
    /\ UNCHANGED peers

HandshakeInsert(r) ==
    /\ hs[r] = "insert"
    /\ Local \notin peers[Target(r)]
    /\ peers' = [peers EXCEPT ![Target(r)] = @ \cup {Local}]
    /\ HandshakeEnds(r, "ok")

\* The URL is there by now (UNIQUE), or the database is locked for too long.
HandshakeFails(r) ==
    /\ hs[r] = "insert"
    /\ HandshakeEnds(r, "error")
    /\ UNCHANGED peers

(***************************************************************************)
(* POST /cr/peer, after the handshake.                                     *)
(***************************************************************************)
\* Fault seeded into Accepted: the status of the response is not looked at.
AnyResponse(r) ==
    /\ pc[r] = "await"
    /\ hs[r] \in {"ok", "error"}
    /\ Goto(r, "select", "idle")
    /\ reply' = Silence
    /\ UNCHANGED peers

Accepted(r) ==
    /\ pc[r] = "await"
    /\ hs[r] = "ok"
    /\ Goto(r, "select", "idle")
    /\ reply' = Silence
    /\ UNCHANGED peers

\* A status other than 200.
Rejected(r) ==
    /\ pc[r] = "await"
    /\ hs[r] = "error"
    /\ Answer(r, "error")
    /\ UNCHANGED peers

\* Fault seeded into TimesOut: only a handshake that was delivered times out.
TimesOutIfSent(r) ==
    /\ pc[r] = "await"
    /\ hs[r] # "idle"
    /\ Answer(r, "error")
    /\ UNCHANGED peers

\* No connection, or no answer within 10 seconds.
TimesOut(r) ==
    /\ pc[r] = "await"
    /\ Answer(r, "error")
    /\ UNCHANGED peers

\* An existing row is marked PEERED, which it was already.
SelectFinds(r) ==
    /\ pc[r] = "select"
    /\ ask[r].to \in peers[ask[r].from]
    /\ Answer(r, "ok")
    /\ UNCHANGED peers

SelectMisses(r) ==
    /\ pc[r] = "select"
    /\ ask[r].to \notin peers[ask[r].from]
    /\ Goto(r, "insert", hs[r])
    /\ reply' = Silence
    /\ UNCHANGED peers

Insert(r) ==
    /\ pc[r] = "insert"
    /\ ask[r].to \notin peers[ask[r].from]
    /\ peers' = [peers EXCEPT ![ask[r].from] = @ \cup {ask[r].to}]
    /\ Answer(r, "ok")

\* Fault seeded into InsertFails: the exception is swallowed.
InsertFailsSilently(r) ==
    /\ pc[r] = "insert"
    /\ Answer(r, "ok")
    /\ UNCHANGED peers

\* The URL is there by now (UNIQUE), or the database is locked for too long.
InsertFails(r) ==
    /\ pc[r] = "insert"
    /\ Answer(r, "error")
    /\ UNCHANGED peers

(***************************************************************************)
(* A controller stops and starts again: its handlers are gone, and callers *)
(* that wait for one of them see the connection end.                       *)
(***************************************************************************)
Restart(c) ==
    LET gone(r) == ask[r] # None /\ ask[r].from = c
        cut(r) == hs[r] \in {"sent", "insert"} /\ Target(r) = c
        next(r) == IF gone(r) THEN "idle" ELSE pc[r]
        rest(r) ==
            IF cut(r) THEN IF next(r) = "await" THEN "error" ELSE "idle"
            ELSE IF gone(r) /\ hs[r] \in {"ok", "error"} THEN "idle"
            ELSE hs[r] IN
    /\ pc' = [r \in Requests |-> next(r)]
    /\ hs' = [r \in Requests |-> rest(r)]
    /\ ask' = [r \in Requests |->
                IF next(r) = "idle" /\ rest(r) = "idle" THEN None ELSE ask[r]]
    /\ reply' = Silence
    /\ UNCHANGED peers

\* What the caller's controller does without waiting for anybody, or after its
\* timeout.
Run(r) ==
    \/ Accepted(r) \/ Rejected(r) \/ TimesOut(r)
    \/ SelectFinds(r) \/ SelectMisses(r) \/ Insert(r) \/ InsertFails(r)

Handshake(r) ==
    \/ HandshakeFinds(r) \/ HandshakeMisses(r)
    \/ HandshakeInsert(r) \/ HandshakeFails(r)

Next ==
    \/ \E r \in Requests : Peer(r) \/ Lose(r) \/ Handshake(r) \/ Run(r)
    \/ \E c \in Controllers : Restart(c)

Spec == Init /\ [][Next]_vars

\* The event loop runs a ready coroutine and the timeout expires.
FairSpec == Spec /\ \A r \in Requests : WF_vars(Run(r))

(***************************************************************************)
(* Properties.                                                             *)
(***************************************************************************)

\* When a controller lists another one, its announcement has left a row there:
\* the remote row is committed before the local one, whatever is lost, late or
\* restarted (federation.py:36-60).  The row is the URL that every controller
\* announces, http://localhost:8000 (api.py:391), and not the caller's own:
\* the other side cannot tell who has listed it, and the peering is not mutual.
AnnouncedFirst ==
    \A c, d \in Controllers : d \in peers[c] => Local \in peers[d]

\* A peering that is answered with success has left both of its rows, the URL
\* asked for at the caller and the announced URL at the other controller,
\* although other peerings insert the same rows meanwhile (federation.py:44-62).
SuccessIsRecorded ==
    [][\A r \in Requests :
        reply'[r] = "ok" => /\ ask[r].to \in peers'[ask[r].from]
                            /\ Local \in peers'[Target(r)]]_vars

\* Every request to peer ends, even if the other side never answers, and also
\* when a controller peers with itself (federation.py:36).
EveryPeeringEnds ==
    \A r \in Requests : pc[r] # "idle" ~> pc[r] = "idle"
==============================================================================
