------------------------------- MODULE Forward -------------------------------
(***************************************************************************)
(* One connection through `pymesh forward` (cli/commands.py): the handler  *)
(* that connects to the service on the target node and two pipes, each of  *)
(* which copies what one end sends to the other.  A pipe named s reads     *)
(* from end s and writes to Peer(s).  Connections share nothing but the    *)
(* listener, so one is enough.                                             *)
(*                                                                         *)
(* Data are counted in chunks of one read.  What the kernel and asyncio    *)
(* do with a socket is modelled by its effects: closing a transport stops  *)
(* reading at once, flushes what was written, and only then ends the       *)
(* reader; a socket that is closed while its other end has sent more than  *)
(* was read is reset, and a reset may take undelivered data with it.       *)
(***************************************************************************)
EXTENDS Naturals

CONSTANTS
    MaxData,   \* bound on the chunks an end sends
    Limit,     \* chunks asyncio reads ahead of the pipe (StreamReader limit)
    Window     \* chunks a writer may hold before drain() waits

ASSUME ForwardAssumption ==
    MaxData \in Nat /\ Limit \in Nat \ {0} /\ Window \in Nat \ {0}

Ends == {"client", "service"}
Peer(s) == IF s = "client" THEN "service" ELSE "client"

VARIABLES
    stage,     \* the handler: connecting, failed to, piping or done
    sent,      \* chunks each end has sent
    got,       \* chunks each end has received
    finished,  \* the ends that will send no more (FIN)
    gone,      \* the ends that have closed their socket
    transit,   \* chunks on their way from an end to the proxy's reader
    fed,       \* chunks in the proxy's reader for an end
    out,       \* chunks written towards an end and not received yet
    pipe,      \* what the pipe reading from an end does next
    open,      \* the ends towards which the proxy's transport is not closed
    broken     \* the ends towards which the proxy's socket was reset

ends == <<sent, finished, gone>>
proxy == <<stage, pipe, open>>
vars == <<stage, sent, got, finished, gone, transit, fed, out, pipe, open, broken>>

TypeOK ==
    /\ stage \in {"connecting", "failed", "piping", "done"}
    /\ sent \in [Ends -> 0 .. MaxData] /\ got \in [Ends -> 0 .. MaxData]
    /\ finished \subseteq Ends /\ gone \subseteq finished
    /\ transit \in [Ends -> 0 .. MaxData] /\ fed \in [Ends -> 0 .. Limit]
    /\ out \in [Ends -> 0 .. MaxData]
    /\ pipe \in [Ends -> {"read", "drain", "end"}]
    /\ open \subseteq Ends /\ broken \subseteq Ends

Zero == [s \in Ends |-> 0]

\* The listener has accepted the client; the service is not connected yet.
Init ==
    /\ stage = "connecting"
    /\ sent = Zero /\ got = Zero /\ transit = Zero /\ fed = Zero /\ out = Zero
    /\ finished = {} /\ gone = {} /\ broken = {}
    /\ pipe = [s \in Ends |-> "read"]
    /\ open = {"client"}

(***************************************************************************)
(* The two ends and the network.                                           *)
(***************************************************************************)
Connected(s) == s = "client" \/ stage \in {"piping", "done"}

\* A reset of the socket towards s may take up to all of out[s] with it.
MayLose(s) == \E n \in 0 .. out[s] : out' = [out EXCEPT ![s] = n]

\* What arrives at a socket the proxy has closed is thrown away and answered
\* by a reset.
Send(s) ==
    /\ Connected(s) /\ s \notin finished /\ sent[s] < MaxData
    /\ sent' = [sent EXCEPT ![s] = @ + 1]
    /\ IF s \in open
         THEN transit' = [transit EXCEPT ![s] = @ + 1] /\ UNCHANGED out
         ELSE MayLose(s) /\ UNCHANGED transit
    /\ UNCHANGED <<proxy, got, finished, gone, fed, broken>>

\* shutdown(SHUT_WR): the end still reads.
Finish(s) ==
    /\ Connected(s) /\ s \notin finished
    /\ finished' = finished \cup {s}
    /\ UNCHANGED <<proxy, sent, got, gone, transit, fed, out, broken>>

\* close(), or the process ends.
Leave(s) ==
    /\ Connected(s) /\ s \notin gone
    /\ finished' = finished \cup {s}
    /\ gone' = gone \cup {s}
    /\ UNCHANGED <<proxy, sent, got, transit, fed, out, broken>>

\* Data reach the end, even after the proxy has closed its side.
Deliver(s) ==
    /\ out[s] > 0 /\ s \notin gone
    /\ out' = [out EXCEPT ![s] = @ - 1]
    /\ got' = [got EXCEPT ![s] = @ + 1]
    /\ UNCHANGED <<proxy, ends, transit, fed, broken>>

\* Data reach an end that has closed its socket: the connection is reset, and
\* asyncio ends the transport; what it has read no longer reaches the pipe.
Reset(s) ==
    /\ out[s] > 0 /\ s \in gone
    /\ out' = [out EXCEPT ![s] = 0]
    /\ transit' = [transit EXCEPT ![s] = 0]
    /\ fed' = [fed EXCEPT ![s] = 0]
    /\ broken' = broken \cup {s}
    /\ open' = open \ {s}
    /\ UNCHANGED <<stage, ends, got, pipe>>

\* The event loop reads ahead while the reader is below its limit.
Feed(s) ==
    /\ s \in open /\ Connected(s)
    /\ transit[s] > 0 /\ fed[s] < Limit
    /\ transit' = [transit EXCEPT ![s] = @ - 1]
    /\ fed' = [fed EXCEPT ![s] = @ + 1]
    /\ UNCHANGED <<proxy, ends, got, out, broken>>

(***************************************************************************)
(* The handler.                                                            *)
(***************************************************************************)
\* asyncio.open_connection returns; gather starts both pipes.
Connect ==
    /\ stage = "connecting"
    /\ stage' = "piping"
    /\ open' = open \cup {"service"}
    /\ UNCHANGED <<ends, got, transit, fed, out, pipe, broken>>

\* Seeded fault: the exception is reported and the client's socket kept.
ConnectFailsQuietly ==
    /\ stage = "connecting"
    /\ stage' = "failed"
    /\ pipe' = [s \in Ends |-> "end"]
    /\ UNCHANGED <<ends, got, transit, fed, out, open, broken>>

\* It raises: only the client's writer is there to be closed.
ConnectFails ==
    /\ stage = "connecting"
    /\ stage' = "failed"
    /\ pipe' = [s \in Ends |-> "end"]
    /\ open' = {}
    /\ transit' = Zero
    /\ UNCHANGED <<ends, got, fed, out, broken>>

Piping(s, what) == stage = "piping" /\ pipe[s] = what

\* Seeded fault: the next read does not wait for drain().
ReadAhead(s) ==
    /\ Piping(s, "read") /\ s \notin broken /\ fed[s] > 0
    /\ fed' = [fed EXCEPT ![s] = @ - 1]
    /\ out' = [out EXCEPT ![Peer(s)] = @ + 1]
    /\ UNCHANGED <<proxy, ends, got, transit, broken>>

\* Seeded fault: the chunk stays in the buffer and is copied again.
ReadAgain(s) ==
    /\ Piping(s, "read") /\ s \notin broken /\ fed[s] > 0
    /\ out' = IF Peer(s) \in broken THEN out ELSE [out EXCEPT ![Peer(s)] = @ + 1]
    /\ pipe' = [pipe EXCEPT ![s] = "drain"]
    /\ UNCHANGED <<stage, ends, got, transit, fed, open, broken>>

\* read() returns a chunk; write() hands it to the transport, or drops it if
\* that connection is lost.
Read(s) ==
    /\ Piping(s, "read") /\ s \notin broken /\ fed[s] > 0
    /\ fed' = [fed EXCEPT ![s] = @ - 1]
    /\ out' = IF Peer(s) \in broken THEN out ELSE [out EXCEPT ![Peer(s)] = @ + 1]
    /\ pipe' = [pipe EXCEPT ![s] = "drain"]
    /\ UNCHANGED <<stage, ends, got, transit, open, broken>>

\* drain() returns once the writer is below its high-water mark.
Drain(s) ==
    /\ Piping(s, "drain") /\ Peer(s) \notin broken
    /\ out[Peer(s)] < Window
    /\ pipe' = [pipe EXCEPT ![s] = "read"]
    /\ UNCHANGED <<stage, ends, got, transit, fed, out, open, broken>>

\* The end's FIN, or the transport that the other pipe has closed and flushed.
Ended(s) ==
    /\ fed[s] = 0
    /\ \/ s \in finished /\ transit[s] = 0
       \/ s \notin open /\ out[s] = 0

\* Seeded fault: transport.abort() in place of close(): nothing is flushed.
AbortWriter(s) ==
    LET t == Peer(s) IN
    /\ pipe' = [pipe EXCEPT ![s] = "end"]
    /\ open' = open \ {t}
    /\ transit' = [transit EXCEPT ![t] = 0]
    /\ out' = [out EXCEPT ![t] = 0]

\* The pipe's finally clause: writer.close() closes the whole connection, and
\* what the end at that side has sent and the proxy has not read is lost.
CloseWriter(s) ==
    LET t == Peer(s) IN
    /\ pipe' = [pipe EXCEPT ![s] = "end"]
    /\ open' = open \ {t}
    /\ transit' = [transit EXCEPT ![t] = 0]
    /\ IF transit[t] > 0 THEN MayLose(t) ELSE UNCHANGED out

\* read() returns b"".
PipeEnds(s) ==
    /\ Piping(s, "read") /\ s \notin broken /\ Ended(s)
    /\ CloseWriter(s)
    /\ UNCHANGED <<stage, ends, got, fed, broken>>

\* read() or drain() raises because a connection was reset.
PipeFails(s) ==
    /\ \/ Piping(s, "read") /\ s \in broken
       \/ Piping(s, "drain") /\ Peer(s) \in broken
    /\ CloseWriter(s)
    /\ UNCHANGED <<stage, ends, got, fed, broken>>

\* gather has both results.
Done ==
    /\ stage = "piping"
    /\ \A s \in Ends : pipe[s] = "end"
    /\ stage' = "done"
    /\ UNCHANGED <<ends, got, transit, fed, out, pipe, open, broken>>

Proxy(s) == Feed(s) \/ Read(s) \/ Drain(s) \/ PipeEnds(s) \/ PipeFails(s)
Handler == Connect \/ ConnectFails \/ Done

Next ==
    \/ Handler
    \/ \E s \in Ends :
        \/ Proxy(s)
        \/ Send(s) \/ Finish(s) \/ Leave(s) \/ Deliver(s) \/ Reset(s)

Spec == Init /\ [][Next]_vars

\* The event loop runs, a connection attempt ends by itself, and a closed
\* socket answers data with a reset.  No end has to read, send or finish.
FairSpec ==
    /\ Spec /\ WF_vars(Handler)
    /\ \A s \in Ends : WF_vars(Proxy(s)) /\ WF_vars(Reset(s))

(***************************************************************************)
(* Properties.                                                             *)
(***************************************************************************)

\* Nothing is on its way any more.
Settled == stage = "done" /\ \A s \in Ends : out[s] = 0

\* End t has neither finished sending nor left, and all it sent was received.
Patient(t) == t \notin finished /\ got[Peer(t)] = sent[t]

\* An end that keeps its side of the connection open, and whose data were all
\* taken, receives everything the other end sent before finishing: data are
\* cut off only towards an end that half-closed, left, or went on sending to an
\* end that had stopped reading (commands.py:293-313).
PatientEndGetsAll ==
    \A t \in Ends :
        (Settled /\ Patient(t)) => got[t] = sent[Peer(t)]

\* However slow the receiving end, the proxy holds a bounded number of chunks
\* for it: each write waits for the one before it (commands.py:299-300).
BacklogIsBounded ==
    \A s \in Ends : out[s] <= Window /\ fed[s] <= Limit

\* No chunk is made up or copied twice, wherever a pipe stops.
NothingInvented ==
    \A s \in Ends :
        got[Peer(s)] + out[Peer(s)] + fed[s] + transit[s] <= sent[s]

\* The chunks on their way to each end.
flight == [t \in Ends |-> out[t] + fed[Peer(t)] + transit[Peer(t)]]

\* Whatever is buffered, drained, closed or reset on the way, the two pipes are a
\* stream: chunks arrive at most once, and on the way to an end that has not
\* half-closed none is lost unless one of that end's own is (commands.py:289-319).
Wire == INSTANCE Stream WITH
    sent <- sent, got <- got, flight <- flight, finished <- finished,
    refused <- stage = "failed"
ImplementsStream == Wire!Spec

\* When the service cannot be reached or both ends have gone, the handler ends
\* and both of its connections are closed, even if a pipe was waiting for a
\* reader that never read (commands.py:303-319).
NoConnectionLeaks ==
    (stage = "failed" \/ gone = Ends) ~>
        (stage \in {"failed", "done"} /\ open = {})
==============================================================================
