---------------------------- MODULE ForwardProofs ----------------------------
(***************************************************************************)
(* Proofs about Forward for every amount of data, every read-ahead limit   *)
(* and every write window.  The inductive invariant is                     *)
(*     Types /\ Conserved /\ Windowed /\ Closing /\ Whole:                *)
(* chunks are only moved, a pipe that may write finds room to do so, and a *)
(* connection is closed in an order that loses nothing towards a patient   *)
(* end.                                                                    *)
(***************************************************************************)
EXTENDS Forward, TLAPS

\* TypeOK without the bounds that follow from Conserved.
Types ==
    /\ stage \in {"connecting", "failed", "piping", "done"}
    /\ sent \in [Ends -> 0 .. MaxData] /\ got \in [Ends -> Nat]
    /\ finished \subseteq Ends /\ gone \subseteq finished
    /\ transit \in [Ends -> Nat] /\ fed \in [Ends -> 0 .. Limit]
    /\ out \in [Ends -> Nat]
    /\ pipe \in [Ends -> {"read", "drain", "end"}]
    /\ open \subseteq Ends /\ broken \subseteq Ends

\* What end s has sent is in one of four places, or lost.
Account(s) == got[Peer(s)] + out[Peer(s)] + fed[s] + transit[s] <= sent[s]
Conserved == \A s \in Ends : Account(s)

\* drain() has returned before the next read.
Room(s) ==
    /\ out[Peer(s)] <= Window
    /\ pipe[s] = "read" => out[Peer(s)] < Window
Windowed == \A s \in Ends : Room(s)

\* Nothing that t sent is lost, and t may send more.
Intact(t) ==
    /\ stage # "failed" /\ t \notin finished
    /\ got[Peer(t)] + out[Peer(t)] + fed[t] + transit[t] = sent[t]

\* How a connection is closed: after its pipe has ended, or by a reset.
Closing ==
    /\ broken \subseteq gone
    /\ stage = "connecting" =>
        /\ open = {"client"} /\ broken = {}
        /\ \A s \in Ends : pipe[s] = "read" /\ out[s] = 0 /\ got[s] = 0
    /\ stage = "done" => \A s \in Ends : pipe[s] = "end"
    /\ stage \in {"piping", "done"} =>
        \A s \in Ends : s \in open \/ s \in broken \/ pipe[Peer(s)] = "end"

\* While nothing of t is lost, nothing on its way to t is, and the pipe towards t
\* ends first, and only at the other end's FIN.
WholeFor(t) ==
    Intact(t) =>
        /\ Peer(t) \notin broken
        /\ got[t] + out[t] + fed[Peer(t)] + transit[Peer(t)] = sent[Peer(t)]
        /\ pipe[t] = "end" => pipe[Peer(t)] = "end"
        /\ pipe[Peer(t)] = "end" =>
            Peer(t) \in finished /\ fed[Peer(t)] = 0 /\ transit[Peer(t)] = 0
Whole == \A t \in Ends : WholeFor(t)

IInv == Types /\ Conserved /\ Windowed /\ Closing /\ Whole

LEMMA PeerFacts ==
    \A s \in Ends : Peer(s) \in Ends /\ Peer(Peer(s)) = s /\ Peer(s) # s
BY DEF Ends, Peer

LEMMA Initially == Init => IInv
BY ForwardAssumption, PeerFacts
DEF Init, IInv, Types, Conserved, Account, Windowed, Room, Zero, Ends,
    Closing, Whole, WholeFor, Intact

\* No step leaves the types.
LEMMA TypesKept ==
    ASSUME Types, [Next]_vars
    PROVE  Types'
<1>. USE ForwardAssumption
<1>1. CASE Connect
  BY <1>1 DEF Connect, Types, Ends, ends, proxy
<1>2. CASE ConnectFails
  BY <1>2 DEF ConnectFails, Zero, Types, ends, proxy
<1>3. CASE Done
  BY <1>3 DEF Done, Types, ends, proxy
<1>4. ASSUME NEW s \in Ends, Send(s) PROVE Types'
  BY <1>4, PeerFacts DEF Send, Connected, MayLose, Types, ends, proxy
<1>5. ASSUME NEW s \in Ends, Finish(s) PROVE Types'
  BY <1>5, PeerFacts DEF Finish, Types, ends, proxy
<1>6. ASSUME NEW s \in Ends, Leave(s) PROVE Types'
  BY <1>6, PeerFacts DEF Leave, Types, ends, proxy
<1>7. ASSUME NEW s \in Ends, Deliver(s) PROVE Types'
  BY <1>7, PeerFacts DEF Deliver, Types, ends, proxy
<1>8. ASSUME NEW s \in Ends, Reset(s) PROVE Types'
  BY <1>8, PeerFacts DEF Reset, Types, ends, proxy
<1>9. ASSUME NEW s \in Ends, Feed(s) PROVE Types'
  BY <1>9, PeerFacts DEF Feed, Types, ends, proxy
<1>10. ASSUME NEW s \in Ends, Read(s) PROVE Types'
  BY <1>10, PeerFacts DEF Read, Piping, Types, ends, proxy
<1>11. ASSUME NEW s \in Ends, Drain(s) PROVE Types'
  BY <1>11, PeerFacts DEF Drain, Piping, Types, ends, proxy
<1>12. ASSUME NEW s \in Ends, PipeEnds(s) PROVE Types'
  BY <1>12, PeerFacts
  DEF PipeEnds, CloseWriter, MayLose, Piping, Types, ends, proxy
<1>13. ASSUME NEW s \in Ends, PipeFails(s) PROVE Types'
  BY <1>13, PeerFacts
  DEF PipeFails, CloseWriter, MayLose, Piping, Types, ends, proxy
<1>14. CASE UNCHANGED vars
  BY <1>14 DEF vars, Types, ends, proxy
<1>. QED
  BY <1>1, <1>2, <1>3, <1>4, <1>5, <1>6, <1>7, <1>8, <1>9, <1>10, <1>11,
     <1>12, <1>13, <1>14
  DEF Next, Handler, Proxy

\* Every step moves chunks or loses them.
LEMMA ConservedKept ==
    ASSUME Types, Conserved, [Next]_vars
    PROVE  Conserved'
<1>. USE ForwardAssumption
<1>1. CASE Connect
  BY <1>1 DEF Connect, Types, Conserved, Account, ends, proxy
<1>2. CASE ConnectFails
  BY <1>2, PeerFacts
  DEF ConnectFails, Zero, Types, Conserved, Account, ends, proxy
<1>3. CASE Done
  BY <1>3 DEF Done, Types, Conserved, Account, ends, proxy
<1>4. ASSUME NEW s \in Ends, Send(s) PROVE Conserved'
  BY <1>4, PeerFacts
  DEF Send, Connected, MayLose, Types, Conserved, Account, ends, proxy
<1>5. ASSUME NEW s \in Ends, Finish(s) PROVE Conserved'
  BY <1>5, PeerFacts DEF Finish, Types, Conserved, Account, ends, proxy
<1>6. ASSUME NEW s \in Ends, Leave(s) PROVE Conserved'
  BY <1>6, PeerFacts DEF Leave, Types, Conserved, Account, ends, proxy
<1>7. ASSUME NEW s \in Ends, Deliver(s) PROVE Conserved'
  BY <1>7, PeerFacts DEF Deliver, Types, Conserved, Account, ends, proxy
<1>8. ASSUME NEW s \in Ends, Reset(s) PROVE Conserved'
  BY <1>8, PeerFacts DEF Reset, Types, Conserved, Account, ends, proxy
<1>9. ASSUME NEW s \in Ends, Feed(s) PROVE Conserved'
  BY <1>9, PeerFacts DEF Feed, Types, Conserved, Account, ends, proxy
<1>10. ASSUME NEW s \in Ends, Read(s) PROVE Conserved'
  BY <1>10, PeerFacts DEF Read, Piping, Types, Conserved, Account, ends, proxy
<1>11. ASSUME NEW s \in Ends, Drain(s) PROVE Conserved'
  BY <1>11, PeerFacts DEF Drain, Piping, Types, Conserved, Account, ends, proxy
<1>12. ASSUME NEW s \in Ends, PipeEnds(s) PROVE Conserved'
  BY <1>12, PeerFacts
  DEF PipeEnds, CloseWriter, MayLose, Piping, Types, Conserved, Account, ends,
      proxy
<1>13. ASSUME NEW s \in Ends, PipeFails(s) PROVE Conserved'
  BY <1>13, PeerFacts
  DEF PipeFails, CloseWriter, MayLose, Piping, Types, Conserved, Account,
      ends, proxy
<1>14. CASE UNCHANGED vars
  BY <1>14 DEF vars, Types, Conserved, Account, ends, proxy
<1>. QED
  BY <1>1, <1>2, <1>3, <1>4, <1>5, <1>6, <1>7, <1>8, <1>9, <1>10, <1>11,
     <1>12, <1>13, <1>14
  DEF Next, Handler, Proxy

\* Only a pipe that reads adds to a backlog, and drains before it reads again.
LEMMA WindowedKept ==
    ASSUME Types, Windowed, [Next]_vars
    PROVE  Windowed'
<1>. USE ForwardAssumption
<1>1. CASE Connect
  BY <1>1 DEF Connect, Types, Windowed, Room, ends, proxy
<1>2. CASE ConnectFails
  BY <1>2 DEF ConnectFails, Zero, Types, Windowed, Room, ends, proxy
<1>3. CASE Done
  BY <1>3 DEF Done, Types, Windowed, Room, ends, proxy
<1>4. ASSUME NEW s \in Ends, Send(s) PROVE Windowed'
  BY <1>4, PeerFacts
  DEF Send, Connected, MayLose, Types, Windowed, Room, ends, proxy
<1>5. ASSUME NEW s \in Ends, Finish(s) PROVE Windowed'
  BY <1>5, PeerFacts DEF Finish, Types, Windowed, Room, ends, proxy
<1>6. ASSUME NEW s \in Ends, Leave(s) PROVE Windowed'
  BY <1>6, PeerFacts DEF Leave, Types, Windowed, Room, ends, proxy
<1>7. ASSUME NEW s \in Ends, Deliver(s) PROVE Windowed'
  BY <1>7, PeerFacts DEF Deliver, Types, Windowed, Room, ends, proxy
<1>8. ASSUME NEW s \in Ends, Reset(s) PROVE Windowed'
  BY <1>8, PeerFacts DEF Reset, Types, Windowed, Room, ends, proxy
<1>9. ASSUME NEW s \in Ends, Feed(s) PROVE Windowed'
  BY <1>9, PeerFacts DEF Feed, Types, Windowed, Room, ends, proxy
<1>10. ASSUME NEW s \in Ends, Read(s) PROVE Windowed'
  BY <1>10, PeerFacts DEF Read, Piping, Types, Windowed, Room, ends, proxy
<1>11. ASSUME NEW s \in Ends, Drain(s) PROVE Windowed'
  BY <1>11, PeerFacts DEF Drain, Piping, Types, Windowed, Room, ends, proxy
<1>12. ASSUME NEW s \in Ends, PipeEnds(s) PROVE Windowed'
  BY <1>12, PeerFacts
  DEF PipeEnds, CloseWriter, MayLose, Piping, Types, Windowed, Room, ends,
      proxy
<1>13. ASSUME NEW s \in Ends, PipeFails(s) PROVE Windowed'
  BY <1>13, PeerFacts
  DEF PipeFails, CloseWriter, MayLose, Piping, Types, Windowed, Room, ends,
      proxy
<1>14. CASE UNCHANGED vars
  BY <1>14 DEF vars, Types, Windowed, Room, ends, proxy
<1>. QED
  BY <1>1, <1>2, <1>3, <1>4, <1>5, <1>6, <1>7, <1>8, <1>9, <1>10, <1>11,
     <1>12, <1>13, <1>14
  DEF Next, Handler, Proxy

\* Only pipes that end and resets close connections.
LEMMA ClosingKept ==
    ASSUME Types, Closing, [Next]_vars
    PROVE  Closing'
<1>. USE ForwardAssumption
<1>1. CASE Connect
  BY <1>1, PeerFacts DEF Connect, Types, Closing, ends, proxy, Ends
<1>2. CASE ConnectFails
  BY <1>2, PeerFacts DEF ConnectFails, Zero, Types, Closing, ends, proxy, Ends
<1>3. CASE Done
  BY <1>3, PeerFacts DEF Done, Types, Closing, ends, proxy, Ends
<1>4. ASSUME NEW s \in Ends, Send(s) PROVE Closing'
  BY <1>4, PeerFacts
  DEF Send, Connected, MayLose, Types, Closing, ends, proxy, Ends
<1>5. ASSUME NEW s \in Ends, Finish(s) PROVE Closing'
  BY <1>5, PeerFacts DEF Finish, Types, Closing, ends, proxy, Ends
<1>6. ASSUME NEW s \in Ends, Leave(s) PROVE Closing'
  BY <1>6, PeerFacts DEF Leave, Types, Closing, ends, proxy, Ends
<1>7. ASSUME NEW s \in Ends, Deliver(s) PROVE Closing'
  BY <1>7, PeerFacts DEF Deliver, Types, Closing, ends, proxy, Ends
<1>8. ASSUME NEW s \in Ends, Reset(s) PROVE Closing'
  BY <1>8, PeerFacts DEF Reset, Types, Closing, ends, proxy, Ends
<1>9. ASSUME NEW s \in Ends, Feed(s) PROVE Closing'
  BY <1>9, PeerFacts DEF Feed, Connected, Types, Closing, ends, proxy, Ends
<1>10. ASSUME NEW s \in Ends, Read(s) PROVE Closing'
  BY <1>10, PeerFacts DEF Read, Piping, Types, Closing, ends, proxy, Ends
<1>11. ASSUME NEW s \in Ends, Drain(s) PROVE Closing'
  BY <1>11, PeerFacts DEF Drain, Piping, Types, Closing, ends, proxy, Ends
<1>12. ASSUME NEW s \in Ends, PipeEnds(s) PROVE Closing'
  BY <1>12, PeerFacts
  DEF PipeEnds, Ended, CloseWriter, MayLose, Piping, Types, Closing, ends,
      proxy, Ends
<1>13. ASSUME NEW s \in Ends, PipeFails(s) PROVE Closing'
  BY <1>13, PeerFacts
  DEF PipeFails, CloseWriter, MayLose, Piping, Types, Closing, ends, proxy,
      Ends
<1>14. CASE UNCHANGED vars
  BY <1>14 DEF vars, Types, Closing, ends, proxy, Ends
<1>. QED
  BY <1>1, <1>2, <1>3, <1>4, <1>5, <1>6, <1>7, <1>8, <1>9, <1>10, <1>11,
     <1>12, <1>13, <1>14
  DEF Next, Handler, Proxy

\* A step that loses a chunk towards t has lost one of t, or t has finished.
LEMMA WholeKept ==
    ASSUME Types, Conserved, Closing, Whole, [Next]_vars
    PROVE  Whole'
<1>. USE ForwardAssumption
<1>1. CASE Connect
  BY <1>1, PeerFacts
  DEF Connect, Types, Conserved, Account, Closing, Intact, WholeFor, Whole,
      ends, proxy
<1>2. CASE ConnectFails
  BY <1>2, PeerFacts
  DEF ConnectFails, Zero, Types, Conserved, Account, Closing, Intact,
      WholeFor, Whole, ends, proxy
<1>3. CASE Done
  BY <1>3, PeerFacts
  DEF Done, Types, Conserved, Account, Closing, Intact, WholeFor, Whole, ends,
      proxy
<1>4. ASSUME NEW s \in Ends, Send(s) PROVE Whole'
  BY <1>4, PeerFacts
  DEF Send, Connected, MayLose, Types, Conserved, Account, Closing, Intact,
      WholeFor, Whole, ends, proxy
<1>5. ASSUME NEW s \in Ends, Finish(s) PROVE Whole'
  BY <1>5, PeerFacts
  DEF Finish, Types, Conserved, Account, Closing, Intact, WholeFor, Whole,
      ends, proxy
<1>6. ASSUME NEW s \in Ends, Leave(s) PROVE Whole'
  BY <1>6, PeerFacts
  DEF Leave, Types, Conserved, Account, Closing, Intact, WholeFor, Whole,
      ends, proxy
<1>7. ASSUME NEW s \in Ends, Deliver(s) PROVE Whole'
  <2>1. ASSUME NEW t \in Ends PROVE WholeFor(t)'
    <3>1. t = s \/ t = Peer(s)
      BY DEF Ends, Peer
    <3>2. WholeFor(t) /\ Account(t)
      BY DEF Whole, Conserved
    <3>3. CASE t = s
      BY <1>7, <3>2, <3>3, PeerFacts
      DEF Deliver, Types, Account, Closing, Intact, WholeFor, ends, proxy
    <3>4. CASE t = Peer(s)
      BY <1>7, <3>2, <3>4, PeerFacts
      DEF Deliver, Types, Account, Closing, Intact, WholeFor, ends, proxy
    <3>. QED
      BY <3>1, <3>3, <3>4
  <2>. QED
    BY <2>1 DEF Whole
<1>8. ASSUME NEW s \in Ends, Reset(s) PROVE Whole'
  BY <1>8, PeerFacts
  DEF Reset, Types, Conserved, Account, Closing, Intact, WholeFor, Whole,
      ends, proxy
<1>9. ASSUME NEW s \in Ends, Feed(s) PROVE Whole'
  BY <1>9, PeerFacts
  DEF Feed, Connected, Types, Conserved, Account, Closing, Intact, WholeFor,
      Whole, ends, proxy
<1>10. ASSUME NEW s \in Ends, Read(s) PROVE Whole'
  <2>1. ASSUME NEW t \in Ends PROVE WholeFor(t)'
    <3>1. t = s \/ t = Peer(s)
      BY DEF Ends, Peer
    <3>2. WholeFor(t) /\ Account(t)
      BY DEF Whole, Conserved
    <3>3. CASE t = s
      BY <1>10, <3>2, <3>3, PeerFacts
      DEF Read, Piping, Types, Account, Closing, Intact, WholeFor, ends, proxy
    <3>4. CASE t = Peer(s)
      BY <1>10, <3>2, <3>4, PeerFacts
      DEF Read, Piping, Types, Account, Closing, Intact, WholeFor, ends, proxy
    <3>. QED
      BY <3>1, <3>3, <3>4
  <2>. QED
    BY <2>1 DEF Whole
<1>11. ASSUME NEW s \in Ends, Drain(s) PROVE Whole'
  BY <1>11, PeerFacts
  DEF Drain, Piping, Types, Conserved, Account, Closing, Intact, WholeFor,
      Whole, ends, proxy
<1>12. ASSUME NEW s \in Ends, PipeEnds(s) PROVE Whole'
  BY <1>12, PeerFacts
  DEF PipeEnds, Ended, CloseWriter, MayLose, Piping, Types, Conserved,
      Account, Closing, Intact, WholeFor, Whole, ends, proxy
<1>13. ASSUME NEW s \in Ends, PipeFails(s) PROVE Whole'
  BY <1>13, PeerFacts
  DEF PipeFails, CloseWriter, MayLose, Piping, Types, Conserved, Account,
      Closing, Intact, WholeFor, Whole, ends, proxy
<1>14. CASE UNCHANGED vars
  BY <1>14
  DEF vars, Types, Conserved, Account, Closing, Intact, WholeFor, Whole, ends,
      proxy
<1>. QED
  BY <1>1, <1>2, <1>3, <1>4, <1>5, <1>6, <1>7, <1>8, <1>9, <1>10, <1>11,
     <1>12, <1>13, <1>14
  DEF Next, Handler, Proxy

THEOREM Invariance == Spec => []IInv
<1>1. IInv /\ [Next]_vars => IInv'
  BY TypesKept, ConservedKept, WindowedKept, ClosingKept, WholeKept DEF IInv
<1>. QED
  BY Initially, <1>1, PTL DEF Spec

\* Every variable has its type; no count exceeds the chunks an end may send.
THEOREM TypeCorrect == Spec => []TypeOK
<1>1. IInv => TypeOK
  <2>. SUFFICES ASSUME IInv PROVE TypeOK
    OBVIOUS
  <2>1. ASSUME NEW s \in Ends
        PROVE  /\ got[s] \in 0 .. MaxData /\ out[s] \in 0 .. MaxData
               /\ transit[s] \in 0 .. MaxData
    <3>1. Account(s) /\ Account(Peer(s))
      BY PeerFacts DEF IInv, Conserved
    <3>. QED
      BY <3>1, PeerFacts, ForwardAssumption DEF IInv, Types, Account
  <2>. QED
    BY <2>1 DEF IInv, Types, TypeOK
<1>. QED
  BY Invariance, <1>1, PTL

\* No chunk is made up or copied twice, whatever is reset and whenever a pipe
\* stops.
THEOREM NoInvention == Spec => []NothingInvented
<1>1. IInv => NothingInvented
  BY DEF IInv, Conserved, Account, NothingInvented
<1>. QED
  BY Invariance, <1>1, PTL

\* However slow the receiving end, the proxy holds a bounded backlog for it.
THEOREM BacklogBounded == Spec => []BacklogIsBounded
<1>1. IInv => BacklogIsBounded
  <2>. SUFFICES ASSUME IInv, NEW s \in Ends PROVE out[s] <= Window /\ fed[s] <= Limit
    BY DEF BacklogIsBounded
  <2>1. Room(Peer(s))
    BY PeerFacts DEF IInv, Windowed
  <2>. QED
    BY <2>1, PeerFacts, ForwardAssumption DEF IInv, Types, Room
<1>. QED
  BY Invariance, <1>1, PTL

\* An end that keeps its side open and whose data were all taken has received,
\* once everything has arrived, all that the other end sent.
THEOREM PatientEndServed == Spec => []PatientEndGetsAll
<1>1. IInv => PatientEndGetsAll
  <2>. SUFFICES ASSUME IInv, NEW t \in Ends, Settled, Patient(t)
                PROVE got[t] = sent[Peer(t)]
    BY DEF PatientEndGetsAll
  <2>1. Account(t) /\ WholeFor(t) /\ pipe[Peer(t)] = "end"
    BY PeerFacts DEF IInv, Conserved, Whole, Closing, Settled
  <2>2. Intact(t)
    <3>1. /\ got[Peer(t)] = sent[t] /\ out[Peer(t)] = 0
          /\ stage # "failed" /\ t \notin finished
      BY PeerFacts DEF Settled, Patient
    <3>2. fed[t] \in Nat /\ transit[t] \in Nat /\ sent[t] \in Nat
      BY ForwardAssumption DEF IInv, Types
    <3>. QED
      BY <2>1, <3>1, <3>2 DEF Account, Intact
  <2>. QED
    BY <2>1, <2>2, PeerFacts DEF IInv, Types, WholeFor, Settled
<1>. QED
  BY Invariance, <1>1, PTL

(***************************************************************************)
(* The two pipes implement the stream.                                     *)
(***************************************************************************)
LEMMA SameEnds == Wire!Ends = Ends /\ \A s \in Ends : Wire!Peer(s) = Peer(s)
BY DEF Wire!Ends, Wire!Peer, Ends, Peer

LEMMA Flights ==
    ASSUME Types
    PROVE  /\ flight \in [Ends -> Nat]
           /\ \A t \in Ends : flight[t] = out[t] + fed[Peer(t)] + transit[Peer(t)]
BY PeerFacts, ForwardAssumption DEF Types, flight

LEMMA FlightsNext ==
    ASSUME Types'
    PROVE  /\ flight' \in [Ends -> Nat]
           /\ \A t \in Ends : flight'[t] = out'[t] + fed'[Peer(t)] + transit'[Peer(t)]
BY PeerFacts, ForwardAssumption DEF Types, flight

\* What Whole says of an end, said of the stream.
LEMMA Excused == IInv => Wire!LossIsExcused
<1>. SUFFICES ASSUME IInv, NEW t \in Ends, ~(stage = "failed"), t \notin finished,
                     Wire!Kept(Peer(t))
              PROVE  Wire!Kept(t)
  BY SameEnds, PeerFacts DEF Wire!LossIsExcused
<1>. Types
  BY DEF IInv
<1>1. /\ out[t] \in Nat /\ fed[t] \in Nat /\ transit[t] \in Nat /\ got[t] \in Nat
      /\ out[Peer(t)] \in Nat /\ fed[Peer(t)] \in Nat
      /\ transit[Peer(t)] \in Nat /\ got[Peer(t)] \in Nat
  BY PeerFacts, ForwardAssumption DEF Types
<1>2. got[Peer(t)] + (out[Peer(t)] + fed[t] + transit[t]) = sent[t]
  BY SameEnds, PeerFacts, Flights DEF Wire!Kept
<1>3. Intact(t)
  BY <1>1, <1>2 DEF Intact
<1>4. got[t] + out[t] + fed[Peer(t)] + transit[Peer(t)] = sent[Peer(t)]
  BY <1>3 DEF IInv, Whole, WholeFor
<1>5. got[t] + (out[t] + fed[Peer(t)] + transit[Peer(t)]) = sent[Peer(t)]
  BY <1>1, <1>4
<1>. QED  BY <1>5, SameEnds, PeerFacts, Flights DEF Wire!Kept

LEMMA ExcusedNext == IInv' => Wire!LossIsExcused'
BY Excused, PTL

\* The moves of the stream, before losses are judged.
Moves ==
    \/ UNCHANGED Wire!vars
    \/ \E s \in Ends : Wire!Send(s) \/ Wire!Receive(s) \/ Wire!Finish(s)
    \/ Wire!Lose \/ Wire!Refuse

\* A step that puts no chunk on its way is a loss, at most.
LEMMA LosesAtMost ==
    ASSUME Types, Types', \A t \in Ends : flight'[t] <= flight[t],
           UNCHANGED <<sent, got, finished>>, stage # "failed", stage' # "failed"
    PROVE  Moves
<1>1. Wire!Remain(flight)
  BY SameEnds, FlightsNext DEF Wire!Remain
<1>. QED  BY <1>1 DEF Moves, Wire!Lose

LEMMA HandlerMoves ==
    ASSUME IInv, Types', Handler PROVE Moves
<1>. Types /\ Closing
  BY DEF IInv
<1>. USE ForwardAssumption
<1>1. CASE Connect \/ Done
  <2>1. UNCHANGED <<sent, got, finished, out, fed, transit>>
    BY <1>1 DEF Connect, Done, ends
  <2>2. (stage = "failed") = (stage' = "failed")
    BY <1>1 DEF Connect, Done
  <2>. QED  BY <2>1, <2>2 DEF flight, Moves, Wire!vars
<1>2. CASE ConnectFails
  <2>1. \A t \in Ends : flight'[t] <= flight[t]
    BY <1>2, Flights, FlightsNext, PeerFacts DEF ConnectFails, Zero, Types
  <2>2. Wire!Remain(flight)
    BY <2>1, SameEnds, FlightsNext DEF Wire!Remain
  <2>3. got = Wire!Zero
    BY <1>2, SameEnds DEF ConnectFails, Closing, Types, Wire!Zero
  <2>. QED  BY <1>2, <2>2, <2>3 DEF ConnectFails, ends, Moves, Wire!Refuse
<1>. QED  BY <1>1, <1>2 DEF Handler

LEMMA EndMoves ==
    ASSUME IInv, Types', NEW s \in Ends,
           Send(s) \/ Finish(s) \/ Leave(s) \/ Deliver(s) \/ Reset(s)
    PROVE  Moves
<1>. Types
  BY DEF IInv
<1>. USE ForwardAssumption
<1>1. CASE Send(s)
  <2>. DEFINE f == [flight EXCEPT ![Peer(s)] = @ + 1]
  <2>1. \A t \in Ends : flight'[t] <= f[t]
    BY <1>1, Flights, FlightsNext, PeerFacts DEF Send, MayLose, Types
  <2>2. Wire!Remain(f)
    BY <2>1, SameEnds, FlightsNext DEF Wire!Remain
  <2>. QED  BY <1>1, <2>2, SameEnds DEF Send, proxy, Moves, Wire!Send
<1>2. CASE Finish(s) \/ (Leave(s) /\ s \notin finished)
  BY <1>2 DEF Finish, Leave, proxy, flight, Moves, Wire!Finish
<1>3. CASE Leave(s) /\ s \in finished
  <2>1. finished' = finished
    BY <1>3 DEF Leave
  <2>. QED  BY <1>3, <2>1 DEF Leave, proxy, flight, Moves, Wire!vars
<1>4. CASE Deliver(s)
  <2>1. flight' = [flight EXCEPT ![s] = @ - 1]
    BY <1>4, Flights, FlightsNext, PeerFacts DEF Deliver, Types
  <2>2. flight[s] > 0
    BY <1>4, Flights, PeerFacts DEF Deliver, Types
  <2>. QED  BY <1>4, <2>1, <2>2 DEF Deliver, ends, proxy, Moves, Wire!Receive
<1>5. CASE Reset(s)
  <2>1. \A t \in Ends : flight'[t] <= flight[t]
    BY <1>5, Flights, FlightsNext, PeerFacts DEF Reset, Types
  <2>2. Wire!Remain(flight)
    BY <2>1, SameEnds, FlightsNext DEF Wire!Remain
  <2>. QED  BY <1>5, <2>2 DEF Reset, ends, Moves, Wire!Lose
<1>. QED  BY <1>1, <1>2, <1>3, <1>4, <1>5

LEMMA ProxyMoves ==
    ASSUME IInv, Types', NEW s \in Ends, Proxy(s) PROVE Moves
<1>. Types
  BY DEF IInv
<1>. USE ForwardAssumption
<1>1. /\ UNCHANGED <<sent, got, finished, stage>>
      /\ \A t \in Ends : flight'[t] <= flight[t]
  <2>1. CASE Feed(s)
    BY <2>1, Flights, FlightsNext, PeerFacts DEF Feed, proxy, ends, Types
  <2>2. CASE Read(s)
    BY <2>2, Flights, FlightsNext, PeerFacts DEF Read, proxy, ends, Types
  <2>3. CASE Drain(s)
    BY <2>3, Flights, FlightsNext, PeerFacts DEF Drain, proxy, ends, Types
  <2>4. CASE PipeEnds(s) \/ PipeFails(s)
    BY <2>4, Flights, FlightsNext, PeerFacts
    DEF PipeEnds, PipeFails, CloseWriter, MayLose, ends, Types
  <2>. QED  BY <2>1, <2>2, <2>3, <2>4 DEF Proxy
<1>2. Wire!Remain(flight)
  BY <1>1, SameEnds, FlightsNext DEF Wire!Remain
<1>. QED  BY <1>1, <1>2 DEF Moves, Wire!Lose

LEMMA StreamStep ==
    ASSUME IInv, IInv', [Next]_vars PROVE [Wire!Next]_(Wire!vars)
<1>. Types /\ Types'
  BY DEF IInv
<1>1. Wire!LossIsExcused'
  BY ExcusedNext
<1>2. Moves
  <2>1. CASE UNCHANGED vars
    BY <2>1 DEF vars, flight, Moves, Wire!vars
  <2>. QED  BY <2>1, HandlerMoves, EndMoves, ProxyMoves DEF Next
<1>. QED  BY <1>1, <1>2, SameEnds DEF Moves, Wire!Next

\* Whatever is buffered, drained, closed or reset on the way, and for every amount
\* of data and every size of the buffers, the handler with its two pipes is a
\* stream: chunks arrive at most once, and on the way to an end that has not
\* half-closed none is lost unless one of that end's own is.
THEOREM Refinement == Spec => ImplementsStream
<1>1. Init => Wire!Init
  BY SameEnds, PeerFacts DEF Init, Zero, flight, Wire!Init, Wire!Zero
<1>2. IInv /\ IInv' /\ [Next]_vars => [Wire!Next]_(Wire!vars)
  BY StreamStep
<1>. QED  BY <1>1, <1>2, Invariance, PTL DEF Spec, ImplementsStream, Wire!Spec
==============================================================================
