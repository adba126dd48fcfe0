-------------------------------- MODULE Stream --------------------------------
(***************************************************************************)
(* What a connection through `pymesh forward` promises its two ends, with  *)
(* no proxy, no buffers and no sockets in sight: each end sends chunks to  *)
(* the other, which arrive at most once; and a chunk on its way to an end  *)
(* is lost only if that end has half-closed, or chunks of its own are lost,*)
(* or the connection was refused.  The module Forward implements it.       *)
(***************************************************************************)
EXTENDS Naturals

Ends == {"client", "service"}
Peer(s) == IF s = "client" THEN "service" ELSE "client"

VARIABLES
    sent,      \* chunks each end has sent
    got,       \* chunks each end has received
    flight,    \* chunks on their way to each end
    finished,  \* the ends that will send no more
    refused    \* there is no connection after all

vars == <<sent, got, flight, finished, refused>>

Zero == [s \in Ends |-> 0]

Init ==
    /\ sent = Zero /\ got = Zero /\ flight = Zero
    /\ finished = {} /\ refused = FALSE

\* Every chunk for t has been received or will be.
Kept(t) == got[t] + flight[t] = sent[Peer(t)]

LossIsExcused ==
    \A t \in Ends : Kept(t) \/ refused \/ t \in finished \/ ~Kept(Peer(t))

\* Of the chunks in f some may be lost.
Remain(f) ==
    /\ flight' \in [Ends -> Nat]
    /\ \A t \in Ends : flight'[t] <= f[t]

Send(s) ==
    /\ s \notin finished
    /\ sent' = [sent EXCEPT ![s] = @ + 1]
    /\ Remain([flight EXCEPT ![Peer(s)] = @ + 1])
    /\ UNCHANGED <<got, finished, refused>>

Receive(t) ==
    /\ flight[t] > 0
    /\ flight' = [flight EXCEPT ![t] = @ - 1]
    /\ got' = [got EXCEPT ![t] = @ + 1]
    /\ UNCHANGED <<sent, finished, refused>>

Finish(s) ==
    /\ s \notin finished
    /\ finished' = finished \cup {s}
    /\ UNCHANGED <<sent, got, flight, refused>>

Lose ==
    /\ Remain(flight)
    /\ UNCHANGED <<sent, got, finished, refused>>

\* The service cannot be reached; nothing has been received then.
Refuse ==
    /\ ~refused /\ got = Zero
    /\ refused' = TRUE
    /\ Remain(flight)
    /\ UNCHANGED <<sent, got, finished>>

Next ==
    /\ \/ \E s \in Ends : Send(s) \/ Receive(s) \/ Finish(s)
       \/ Lose \/ Refuse
    /\ LossIsExcused'

Spec == Init /\ [][Next]_vars
==============================================================================
