-------------------------- MODULE FederationProofs --------------------------
(***************************************************************************)
(* Proofs about Federation for every set of controllers and requests.  The *)
(* inductive invariant is                                                  *)
(*     TypeOK /\ HandshakesAreRecorded /\ AnnouncedFirst.                  *)
(***************************************************************************)
EXTENDS Federation, TLAPS

Labels == {"idle", "await", "select", "insert"}
Stages == {"idle", "sent", "insert", "ok", "error"}
Outcomes == {"none", "ok", "error"}
Asks == [from : Controllers, to : Urls]

\* The callee of r has recorded the caller once it has said so.
Recorded(r) ==
    (hs[r] = "ok" \/ pc[r] \in {"select", "insert"}) => Local \in peers[Target(r)]

HandshakesAreRecorded == \A r \in Requests : Recorded(r)

IInv == TypeOK /\ HandshakesAreRecorded /\ AnnouncedFirst

(***************************************************************************)
(* Types.                                                                  *)
(***************************************************************************)

\* A slot that goes on stays well-formed, and so do all the others.
LEMMA GotoOK ==
    ASSUME TypeOK, NEW r \in Requests, NEW p \in Labels, NEW h \in Stages,
           ask[r] # None, Goto(r, p, h),
           p \in {"select", "insert"} => h = "idle",
           h \in {"ok", "error"} => p = "await",
           (h # "idle" \/ p \in {"select", "insert"}) => Target(r) \in Controllers,
           peers' \in [Controllers -> SUBSET Urls],
           reply' \in [Requests -> Outcomes]
    PROVE  TypeOK'
<1>1. /\ ask' \in [Requests -> Asks \cup {None}]
      /\ pc' \in [Requests -> Labels]
      /\ hs' \in [Requests -> Stages]
  BY DEF TypeOK, Goto, Labels, Stages, Asks
<1>2. ASSUME NEW q \in Requests PROVE SlotOK(q)'
  <2>1. CASE q = r
    BY <2>1 DEF TypeOK, Goto, SlotOK, Target
  <2>2. CASE q # r
    <3>1. ask'[q] = ask[q] /\ pc'[q] = pc[q] /\ hs'[q] = hs[q]
      BY <2>2 DEF Goto, TypeOK
    <3>. QED  BY <3>1 DEF TypeOK, SlotOK, Target
  <2>. QED  BY <2>1, <2>2
<1>. QED  BY <1>1, <1>2 DEF TypeOK, Labels, Stages, Asks, Outcomes

LEMMA SilenceOK == Silence \in [Requests -> Outcomes]
BY DEF Silence, Outcomes

\* A caller that is answered leaves its slot well-formed.
LEMMA AnswerOK ==
    ASSUME TypeOK, NEW r \in Requests, NEW outcome \in Outcomes,
           pc[r] # "idle", Answer(r, outcome),
           peers' \in [Controllers -> SUBSET Urls]
    PROVE  TypeOK'
<1>. DEFINE h == IF hs[r] \in {"ok", "error"} THEN "idle" ELSE hs[r]
<1>1. h \in Stages /\ "idle" \in Labels
  BY DEF TypeOK, Stages, Labels
<1>2. ask[r] # None /\ (h # "idle" => Target(r) \in Controllers)
  BY DEF TypeOK, SlotOK
<1>3. reply' \in [Requests -> Outcomes]
  BY DEF Answer, Silence, Outcomes
<1>4. Goto(r, "idle", h)
  BY DEF Answer
<1>. QED  BY <1>1, <1>2, <1>3, <1>4, GotoOK

\* So does a handshake that ends.
LEMMA HandshakeEndsOK ==
    ASSUME TypeOK, NEW r \in Requests, NEW status \in {"ok", "error"},
           hs[r] \in {"sent", "insert"}, HandshakeEnds(r, status),
           peers' \in [Controllers -> SUBSET Urls]
    PROVE  TypeOK'
<1>. DEFINE h == IF pc[r] = "await" THEN status ELSE "idle"
<1>1. h \in Stages /\ pc[r] \in Labels
  BY DEF TypeOK, Stages, Labels
<1>2. ask[r] # None /\ Target(r) \in Controllers /\ pc[r] \notin {"select", "insert"}
  BY DEF TypeOK, SlotOK
<1>3. Goto(r, pc[r], h) /\ reply' = Silence
  BY DEF HandshakeEnds
<1>. QED  BY <1>1, <1>2, <1>3, GotoOK, SilenceOK

LEMMA TypeInit == Init => TypeOK
BY DEF Init, TypeOK, SlotOK, Silence

LEMMA TypePeer ==
    ASSUME TypeOK, NEW r \in Requests, Peer(r)
    PROVE  TypeOK'
<1>1. PICK c \in Controllers, u \in Urls :
        /\ ask' = [ask EXCEPT ![r] = [from |-> c, to |-> u]]
        /\ hs' = [hs EXCEPT ![r] = IF u = Nowhere THEN "idle" ELSE "sent"]
  BY DEF Peer
<1>2. [from |-> c, to |-> u] \in Asks /\ None \notin Asks
  BY FederationAssumption DEF Asks, Urls
<1>3. /\ ask' \in [Requests -> Asks \cup {None}]
      /\ pc' \in [Requests -> Labels]
      /\ hs' \in [Requests -> Stages]
      /\ peers' \in [Controllers -> SUBSET Urls]
      /\ reply' \in [Requests -> Outcomes]
  BY <1>1, <1>2, SilenceOK DEF Peer, TypeOK, Asks, Labels, Stages
<1>4. ASSUME NEW q \in Requests PROVE SlotOK(q)'
  <2>1. CASE q = r
    <3>1. ask'[r] = [from |-> c, to |-> u] /\ pc'[r] = "await" /\ ask'[r] # None
      BY <1>1, <1>2 DEF Peer, TypeOK
    <3>2. hs'[r] = IF u = Nowhere THEN "idle" ELSE "sent"
      BY <1>1 DEF TypeOK
    <3>3. hs'[r] # "idle" => Target(r)' \in Controllers
      BY <3>1, <3>2 DEF Target, Urls
    <3>. QED  BY <2>1, <3>1, <3>2, <3>3 DEF SlotOK
  <2>2. CASE q # r
    <3>1. ask'[q] = ask[q] /\ pc'[q] = pc[q] /\ hs'[q] = hs[q]
      BY <1>1, <2>2 DEF Peer, TypeOK
    <3>. QED  BY <3>1 DEF TypeOK, SlotOK, Target
  <2>. QED  BY <2>1, <2>2
<1>. QED  BY <1>3, <1>4 DEF TypeOK, Labels, Stages, Asks, Outcomes

LEMMA TypeHandshake ==
    ASSUME TypeOK, NEW r \in Requests, Lose(r) \/ Handshake(r)
    PROVE  TypeOK'
<1>1. CASE Lose(r) \/ HandshakeMisses(r)
  <2>1. /\ hs[r] = "sent" /\ ask[r] # None /\ pc[r] \in Labels
        /\ Target(r) \in Controllers /\ pc[r] \notin {"select", "insert"}
    BY <1>1 DEF Lose, HandshakeMisses, TypeOK, SlotOK, Labels
  <2>2. PICK h \in {"idle", "insert"} : Goto(r, pc[r], h)
    BY <1>1 DEF Lose, HandshakeMisses
  <2>3. reply' = Silence /\ peers' \in [Controllers -> SUBSET Urls]
    BY <1>1 DEF Lose, HandshakeMisses, TypeOK
  <2>. QED  BY <2>1, <2>2, <2>3, GotoOK, SilenceOK DEF Stages
<1>2. CASE HandshakeFinds(r)
  BY <1>2, HandshakeEndsOK DEF HandshakeFinds, TypeOK
<1>3. CASE HandshakeInsert(r)
  <2>1. peers' \in [Controllers -> SUBSET Urls]
    BY <1>3 DEF HandshakeInsert, TypeOK, Urls
  <2>. QED  BY <1>3, <2>1, HandshakeEndsOK DEF HandshakeInsert
<1>4. CASE HandshakeFails(r)
  BY <1>4, HandshakeEndsOK DEF HandshakeFails, TypeOK
<1>. QED  BY <1>1, <1>2, <1>3, <1>4 DEF Handshake

LEMMA TypeRun ==
    ASSUME TypeOK, NEW r \in Requests, Run(r)
    PROVE  TypeOK'
<1>1. CASE Accepted(r) \/ SelectMisses(r)
  <2>1. ask[r] # None /\ Target(r) \in Controllers
    BY <1>1 DEF Accepted, SelectMisses, TypeOK, SlotOK
  <2>2. PICK p \in {"select", "insert"} : Goto(r, p, "idle")
    BY <1>1 DEF Accepted, SelectMisses, TypeOK, SlotOK
  <2>3. reply' = Silence /\ peers' \in [Controllers -> SUBSET Urls]
    BY <1>1 DEF Accepted, SelectMisses, TypeOK
  <2>. QED  BY <2>1, <2>2, <2>3, GotoOK, SilenceOK DEF Labels, Stages
<1>2. CASE Rejected(r) \/ TimesOut(r) \/ SelectFinds(r) \/ InsertFails(r)
  <2>1. PICK outcome \in Outcomes : Answer(r, outcome)
    BY <1>2 DEF Rejected, TimesOut, SelectFinds, InsertFails, Outcomes
  <2>2. pc[r] # "idle" /\ peers' \in [Controllers -> SUBSET Urls]
    BY <1>2 DEF Rejected, TimesOut, SelectFinds, InsertFails, TypeOK
  <2>. QED  BY <2>1, <2>2, AnswerOK
<1>3. CASE Insert(r)
  <2>1. ask[r] \in Asks
    BY <1>3 DEF Insert, TypeOK, SlotOK, Asks
  <2>2. peers' \in [Controllers -> SUBSET Urls]
    BY <1>3, <2>1 DEF Insert, TypeOK, Asks
  <2>. QED  BY <1>3, <2>2, AnswerOK DEF Insert, Outcomes
<1>. QED  BY <1>1, <1>2, <1>3 DEF Run

LEMMA TypeRestart ==
    ASSUME TypeOK, NEW c \in Controllers, Restart(c)
    PROVE  TypeOK'
<1>1. /\ ask' \in [Requests -> Asks \cup {None}]
      /\ pc' \in [Requests -> Labels]
      /\ hs' \in [Requests -> Stages]
      /\ peers' \in [Controllers -> SUBSET Urls]
      /\ reply' \in [Requests -> Outcomes]
  BY SilenceOK DEF Restart, TypeOK, Asks, Labels, Stages
<1>2. ASSUME NEW q \in Requests PROVE SlotOK(q)'
  BY DEF Restart, TypeOK, SlotOK, Target
<1>. QED  BY <1>1, <1>2 DEF TypeOK, Labels, Stages, Asks, Outcomes

LEMMA TypeNext == TypeOK /\ [Next]_vars => TypeOK'
<1>. SUFFICES ASSUME TypeOK, [Next]_vars PROVE TypeOK'
  OBVIOUS
<1>1. CASE UNCHANGED vars
  BY <1>1 DEF vars, TypeOK, SlotOK, Target
<1>2. CASE Next
  BY <1>2, TypePeer, TypeHandshake, TypeRun, TypeRestart DEF Next
<1>. QED  BY <1>1, <1>2

\* Every variable has its type, and the two sides of a peering fit together at
\* every statement of the handlers.
THEOREM TypeCorrect == Spec => []TypeOK
BY TypeInit, TypeNext, PTL DEF Spec

(***************************************************************************)
(* A callee has recorded what it has accepted.                             *)
(***************************************************************************)

\* Rows are never removed.
LEMMA PeersGrow ==
    ASSUME TypeOK, [Next]_vars
    PROVE  \A c \in Controllers : peers[c] \subseteq peers'[c]
<1>1. CASE UNCHANGED vars
  BY <1>1 DEF vars
<1>2. ASSUME NEW r \in Requests, HandshakeInsert(r) \/ Insert(r)
      PROVE  \A c \in Controllers : peers[c] \subseteq peers'[c]
  BY <1>2 DEF HandshakeInsert, Insert, TypeOK
<1>3. ASSUME NEW r \in Requests,
             \/ Peer(r) \/ Lose(r)
             \/ HandshakeFinds(r) \/ HandshakeMisses(r) \/ HandshakeFails(r)
             \/ Accepted(r) \/ Rejected(r) \/ TimesOut(r)
             \/ SelectFinds(r) \/ SelectMisses(r) \/ InsertFails(r)
      PROVE  peers' = peers
  BY <1>3 DEF Peer, Lose, HandshakeFinds, HandshakeMisses, HandshakeFails, Accepted,
              Rejected, TimesOut, SelectFinds, SelectMisses, InsertFails
<1>4. ASSUME NEW c \in Controllers, Restart(c) PROVE peers' = peers
  BY <1>4 DEF Restart
<1>. QED  BY <1>1, <1>2, <1>3, <1>4 DEF Next, Handshake, Run

\* What a slot had recorded stays recorded if it is at the same point or ends.
LEMMA StaysRecorded ==
    ASSUME TypeOK, HandshakesAreRecorded, [Next]_vars, NEW q \in Requests,
           hs'[q] = "ok" \/ pc'[q] \in {"select", "insert"} =>
                /\ hs[q] = "ok" \/ pc[q] \in {"select", "insert"}
                /\ ask'[q] = ask[q]
    PROVE  Recorded(q)'
<1>1. SUFFICES ASSUME hs'[q] = "ok" \/ pc'[q] \in {"select", "insert"}
               PROVE  Local \in peers'[Target(q)]
  BY DEF Recorded, Target
<1>2. Target(q) \in Controllers /\ Local \in peers[Target(q)]
  BY <1>1 DEF HandshakesAreRecorded, Recorded, TypeOK, SlotOK
<1>. QED  BY <1>2, PeersGrow

LEMMA RecordedNext ==
    ASSUME TypeOK, HandshakesAreRecorded, [Next]_vars
    PROVE  HandshakesAreRecorded'
<1>. SUFFICES ASSUME NEW q \in Requests PROVE Recorded(q)'
  BY DEF HandshakesAreRecorded
<1>1. CASE UNCHANGED vars
  BY <1>1, StaysRecorded DEF vars
<1>2. ASSUME NEW r \in Requests, Peer(r) PROVE Recorded(q)'
  <2>1. hs'[r] # "ok" /\ pc'[r] \notin {"select", "insert"}
    BY <1>2 DEF Peer, TypeOK
  <2>2. q # r => hs'[q] = hs[q] /\ pc'[q] = pc[q] /\ ask'[q] = ask[q]
    BY <1>2 DEF Peer, TypeOK
  <2>. QED  BY <2>1, <2>2, StaysRecorded
<1>3. ASSUME NEW r \in Requests, HandshakeFinds(r) \/ HandshakeInsert(r)
      PROVE  Recorded(q)'
  <2>1. q # r => hs'[q] = hs[q] /\ pc'[q] = pc[q] /\ ask'[q] = ask[q]
    BY <1>3 DEF HandshakeFinds, HandshakeInsert, HandshakeEnds, Goto, TypeOK
  <2>2. Target(r) \in Controllers
    BY <1>3 DEF HandshakeFinds, HandshakeInsert, TypeOK, SlotOK
  <2>3. Local \in peers'[Target(r)]
    BY <1>3, <2>2 DEF HandshakeFinds, HandshakeInsert, TypeOK
  <2>4. /\ pc'[r] = pc[r] /\ pc[r] \notin {"select", "insert"}
        /\ hs'[r] = "ok" => ask'[r] = ask[r]
    BY <1>3 DEF HandshakeFinds, HandshakeInsert, HandshakeEnds, Goto, TypeOK, SlotOK
  <2>5. CASE q = r
    BY <2>3, <2>4, <2>5 DEF Recorded, Target
  <2>6. CASE q # r
    BY <2>1, <2>6, StaysRecorded
  <2>. QED  BY <2>5, <2>6
<1>4. ASSUME NEW r \in Requests,
             \/ Lose(r) \/ HandshakeMisses(r) \/ HandshakeFails(r)
             \/ Accepted(r) \/ SelectMisses(r)
      PROVE  Recorded(q)'
  <2>1. q # r => hs'[q] = hs[q] /\ pc'[q] = pc[q] /\ ask'[q] = ask[q]
    BY <1>4 DEF Lose, HandshakeMisses, HandshakeFails, HandshakeEnds, Accepted,
                SelectMisses, Goto, TypeOK
  <2>2. hs'[r] = "ok" \/ pc'[r] \in {"select", "insert"} =>
            /\ hs[r] = "ok" \/ pc[r] \in {"select", "insert"}
            /\ ask'[r] = ask[r]
    BY <1>4 DEF Lose, HandshakeMisses, HandshakeFails, HandshakeEnds, Accepted,
                SelectMisses, Goto, TypeOK, SlotOK
  <2>. QED  BY <2>1, <2>2, StaysRecorded
<1>5. ASSUME NEW r \in Requests, NEW outcome \in Outcomes, Answer(r, outcome)
      PROVE  Recorded(q)'
  <2>1. q # r => hs'[q] = hs[q] /\ pc'[q] = pc[q] /\ ask'[q] = ask[q]
    BY <1>5 DEF Answer, Goto, TypeOK
  <2>2. hs'[r] # "ok" /\ pc'[r] = "idle"
    BY <1>5 DEF Answer, Goto, TypeOK
  <2>. QED  BY <2>1, <2>2, StaysRecorded
<1>6. ASSUME NEW c \in Controllers, Restart(c) PROVE Recorded(q)'
  <2>1. hs'[q] = "ok" \/ pc'[q] \in {"select", "insert"} =>
            /\ hs[q] = "ok" \/ pc[q] \in {"select", "insert"}
            /\ ask'[q] = ask[q]
    BY <1>6 DEF Restart
  <2>. QED  BY <2>1, StaysRecorded
<1>7. ASSUME NEW r \in Requests, Run(r) PROVE Recorded(q)'
  <2>1. \/ Accepted(r) \/ SelectMisses(r)
        \/ \E outcome \in Outcomes : Answer(r, outcome)
    BY <1>7 DEF Run, Rejected, TimesOut, SelectFinds, Insert, InsertFails, Outcomes
  <2>. QED  BY <2>1, <1>4, <1>5
<1>. QED  BY <1>1, <1>2, <1>3, <1>4, <1>6, <1>7 DEF Next, Handshake

(***************************************************************************)
(* Rows.                                                                   *)
(***************************************************************************)

\* The table of c gains another controller only by an INSERT of c's own request.
LEMMA OnlyOwnInsert ==
    ASSUME TypeOK, [Next]_vars, NEW c \in Controllers, NEW d \in Controllers,
           d \in peers'[c], d \notin peers[c]
    PROVE  \E r \in Requests : Insert(r) /\ ask[r] = [from |-> c, to |-> d]
<1>1. PICK r \in Requests : HandshakeInsert(r) \/ Insert(r)
  BY DEF Next, vars, Handshake, Run, Restart, Peer, Lose, HandshakeFinds,
         HandshakeMisses, HandshakeFails, Accepted, Rejected, TimesOut,
         SelectFinds, SelectMisses, InsertFails
<1>2. ~HandshakeInsert(r)
  BY FederationAssumption DEF HandshakeInsert, TypeOK
<1>3. Insert(r) /\ pc[r] = "insert"
  BY <1>1, <1>2 DEF Insert
<1>4. ask[r] \in Asks
  BY <1>3 DEF TypeOK, SlotOK, Asks
<1>5. ask[r].from = c /\ ask[r].to = d
  BY <1>3, <1>4 DEF Insert, TypeOK, Asks
<1>. QED  BY <1>3, <1>4, <1>5 DEF Asks

LEMMA AnnouncedNext ==
    ASSUME TypeOK, HandshakesAreRecorded, AnnouncedFirst, [Next]_vars
    PROVE  AnnouncedFirst'
<1>. SUFFICES ASSUME NEW c \in Controllers, NEW d \in Controllers, d \in peers'[c]
              PROVE  Local \in peers'[d]
  BY DEF AnnouncedFirst
<1>1. CASE d \in peers[c]
  BY <1>1, PeersGrow DEF AnnouncedFirst
<1>2. CASE d \notin peers[c]
  <2>1. PICK r \in Requests : Insert(r) /\ ask[r] = [from |-> c, to |-> d]
    BY <1>2, OnlyOwnInsert
  <2>2. pc[r] = "insert" /\ Target(r) = d
    BY <2>1, FederationAssumption DEF Insert, Target
  <2>3. Local \in peers[d]
    BY <2>2 DEF HandshakesAreRecorded, Recorded
  <2>. QED  BY <2>3, PeersGrow
<1>. QED  BY <1>1, <1>2

LEMMA Inductive ==
    /\ Init => IInv
    /\ IInv /\ [Next]_vars => IInv'
<1>1. Init => HandshakesAreRecorded /\ AnnouncedFirst
  BY DEF Init, HandshakesAreRecorded, Recorded, AnnouncedFirst
<1>. QED  BY <1>1, TypeInit, TypeNext, RecordedNext, AnnouncedNext DEF IInv

LEMMA Invariance == Spec => []IInv
BY Inductive, PTL DEF Spec

\* A controller is listed only where a caller's announcement has left its row
\* first, for any number of controllers and peerings, whatever is lost, late or
\* restarted; the row is the announced URL, not the caller's own.
THEOREM RemoteRowFirst == Spec => []AnnouncedFirst
<1>1. IInv => AnnouncedFirst
  BY DEF IInv
<1>. QED  BY <1>1, Invariance, PTL

\* A peering is one-sided: a controller lists another one only because it has
\* itself asked to peer with it, never because the other one did, for any
\* number of controllers and peerings (federation.py:30, api.py:391).
THEOREM PeeringIsOneSided ==
    Spec => [][\A c, d \in Controllers :
                (d \in peers'[c] /\ d \notin peers[c]) =>
                    \E r \in Requests : /\ ask[r] = [from |-> c, to |-> d]
                                        /\ reply'[r] = "ok"]_vars
<1>1. IInv /\ [Next]_vars =>
        [\A c, d \in Controllers :
            (d \in peers'[c] /\ d \notin peers[c]) =>
                \E r \in Requests : /\ ask[r] = [from |-> c, to |-> d]
                                    /\ reply'[r] = "ok"]_vars
  <2>. SUFFICES ASSUME IInv, [Next]_vars, NEW c \in Controllers, NEW d \in Controllers,
                       d \in peers'[c], d \notin peers[c]
                PROVE  \E r \in Requests : ask[r] = [from |-> c, to |-> d] /\ reply'[r] = "ok"
    OBVIOUS
  <2>1. PICK r \in Requests : Insert(r) /\ ask[r] = [from |-> c, to |-> d]
    BY OnlyOwnInsert DEF IInv
  <2>2. reply'[r] = "ok"
    BY <2>1 DEF Insert, Answer, Silence
  <2>. QED  BY <2>1, <2>2
<1>. QED  BY <1>1, Invariance, PTL DEF Spec

\* A peering answered with success has left both of its rows.
THEOREM SuccessRecorded == Spec => SuccessIsRecorded
<1>. DEFINE A(r) == reply'[r] = "ok" => /\ ask[r].to \in peers'[ask[r].from]
                                        /\ Local \in peers'[Target(r)]
<1>1. IInv /\ [Next]_vars => [\A r \in Requests : A(r)]_vars
  <2>. SUFFICES ASSUME IInv, Next, NEW r \in Requests, reply'[r] = "ok"
                PROVE  A(r)
    OBVIOUS
  <2>1. SelectFinds(r) \/ Insert(r)
    <3>1. ASSUME NEW q \in Requests,
                 \/ Peer(q) \/ Lose(q) \/ Handshake(q)
                 \/ Accepted(q) \/ SelectMisses(q)
          PROVE  FALSE
      BY <3>1 DEF Peer, Lose, Handshake, HandshakeFinds, HandshakeMisses,
                  HandshakeInsert, HandshakeFails, HandshakeEnds, Accepted,
                  SelectMisses, Silence
    <3>2. ASSUME NEW q \in Requests, Rejected(q) \/ TimesOut(q) \/ InsertFails(q)
          PROVE  FALSE
      BY <3>2 DEF Rejected, TimesOut, InsertFails, Answer, Silence
    <3>3. ASSUME NEW q \in Requests, SelectFinds(q) \/ Insert(q)
          PROVE  q = r
      BY <3>3 DEF SelectFinds, Insert, Answer, Silence
    <3>4. ASSUME NEW c \in Controllers, Restart(c) PROVE FALSE
      BY <3>4 DEF Restart, Silence
    <3>. QED  BY <3>1, <3>2, <3>3, <3>4 DEF Next, Run
  <2>2. Target(r) \in Controllers /\ ask[r] \in Asks /\ Local \in peers[Target(r)]
    BY <2>1 DEF SelectFinds, Insert, IInv, TypeOK, SlotOK, HandshakesAreRecorded,
                Recorded, Asks
  <2>3. Local \in peers'[Target(r)]
    BY <2>2, PeersGrow DEF IInv
  <2>4. ask[r].to \in peers'[ask[r].from]
    BY <2>1, <2>2 DEF SelectFinds, Insert, Asks, IInv, TypeOK
  <2>. QED  BY <2>3, <2>4
<1>2. QED  BY <1>1, Invariance, PTL DEF Spec, SuccessIsRecorded
=============================================================================
