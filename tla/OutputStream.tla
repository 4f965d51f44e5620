----------------------------- MODULE OutputStream -----------------------------
(***************************************************************************)
(* Terminal output from the shared program to the browsers:                *)
(* cmd/shell/session_unix.go (outputEmitter, batchOutput, the              *)
(* snapshot_request case of readRelay), internal/ringbuffer,               *)
(* internal/relay (TrySend, run, serve), the relay's forwarding            *)
(* (worker/index.ts) and the viewer (app/src/terminal/connection.ts,       *)
(* web/terminal-writes.ts).                                                *)
(*                                                                         *)
(* Output is a stream of units, a unit being what one Output frame         *)
(* carries; a screen is represented by the number of units it shows.  The  *)
(* frames of the emitter go through the connection's queue, which          *)
(* outlives a socket, over the socket, of whose frames a prefix arrives    *)
(* when it breaks, to the relay and its viewers.                           *)
(***************************************************************************)
EXTENDS Naturals, Sequences, FiniteSets, SequencesExt

CONSTANTS
    Viewers,
    Ring,      \* units the ring buffer retains
    Cap,       \* frames the connection queues (128)
    Limit,     \* pendingSnapshotLimit (16)
    MaxUnits,  \* bound: units the program prints
    MaxDrops,  \* bound: sockets that break
    MaxAsks,   \* bound: times a viewer falls behind and asks again
    NoViewer   \* no viewer's id

OutputAssumption ==
    /\ Ring \in Nat \ {0} /\ Cap \in Nat \ {0} /\ Limit \in Nat
    /\ MaxUnits \in Nat /\ MaxDrops \in Nat /\ MaxAsks \in Nat
    /\ IsFiniteSet(Viewers) /\ NoViewer \notin Viewers

VARIABLES
    end,        \* units the program has printed (endOffset)
    safe,       \* can the screen be serialised now? (View.Replay # nil)
    cut,        \* emitter: every unit up to here has been enqueued
    emGen,      \* emitter: the connection generation it has broadcast for
    pendSnap,   \* emitter: viewers whose reply was deferred
    pendAll,    \* emitter: a recovery broadcast is owed
    cooling,    \* emitter: less than 250 ms since the last recovery attempt
    mutex,      \* who holds the emitter's mutex, and where he stands
    client,     \* the viewer snapshotFor answers
    queue,      \* connection.outgoing
    conn,       \* "down", "active" (set before the generation), "open"
    gen,        \* connection.generation
    wire,       \* frames written to the socket and not yet handled by the relay
    asked,      \* snapshot requests on their way to the host
    relayUp,    \* does the relay hold an open host socket?
    cached,     \* the screen the relay keeps
    status,     \* of each viewer: "new", "in", "left"
    screen,     \* what a viewer shows: units, and whether any is missing or doubled
    waiting,    \* does it discard output until a snapshot comes? "refused": and the relay
                \* ignored its request
    limited,    \* was it granted a snapshot request in the last second?
    asks

hostVars   == <<end, safe, cut, emGen, pendSnap, pendAll, cooling, mutex, client>>
viewerVars == <<status, screen, waiting, limited, asks>>
outputVars == <<hostVars, queue, conn, gen, wire, asked, relayUp, cached, viewerVars>>

Output(n)      == [kind |-> "output", to |-> n, for |-> NoViewer]
Broadcast      == [kind |-> "broadcast", to |-> end, for |-> NoViewer]
Snapshot(v)    == [kind |-> "snapshot", to |-> end, for |-> v]
Frame == [kind : {"output", "broadcast", "snapshot"}, to : 0..MaxUnits, for : Viewers \cup {NoViewer}]

OutputTypeOK ==
    /\ end \in 0..MaxUnits /\ cut \in 0..end /\ safe \in BOOLEAN
    /\ gen \in 1..(MaxDrops + 1) /\ emGen \in 1..gen
    /\ pendSnap \subseteq Viewers /\ Cardinality(pendSnap) <= Limit
    /\ pendAll \in BOOLEAN /\ cooling \in BOOLEAN
    /\ mutex \in {"free", "broadcast", "snapshots", "rest", "answer", "defer"}
    /\ client \in Viewers \cup {NoViewer}
    /\ (client # NoViewer) <=> (mutex \in {"answer", "defer"})
    /\ queue \in Seq(Frame) /\ Len(queue) <= Cap /\ wire \in Seq(Frame)
    /\ conn \in {"down", "active", "open"}
    /\ asked \in Seq(Viewers)
    /\ relayUp \in BOOLEAN /\ (conn # "down" => relayUp)
    /\ cached \in 0..end
    /\ status \in [Viewers -> {"new", "in", "left"}]
    /\ screen \in [Viewers -> [pos : 0..end, fit : {"whole", "gap", "twice"}]]
    /\ waiting \in [Viewers -> {"no", "asked", "refused"}]
    /\ limited \in [Viewers -> BOOLEAN] /\ asks \in [Viewers -> 0..MaxAsks]

Blank == [pos |-> 0, fit |-> "whole"]

OutputInit ==
    /\ end = 0 /\ safe = TRUE
    /\ cut = 0 /\ emGen = 1 /\ pendSnap = {} /\ pendAll = FALSE /\ cooling = FALSE
    /\ mutex = "free" /\ client = NoViewer
    /\ queue = <<>> /\ conn = "open" /\ gen = 1 /\ wire = <<>>
    /\ asked = <<>> /\ relayUp = TRUE /\ cached = 0
    /\ status = [v \in Viewers |-> "new"] /\ screen = [v \in Viewers |-> Blank]
    /\ waiting = [v \in Viewers |-> "no"] /\ limited = [v \in Viewers |-> FALSE]
    /\ asks = [v \in Viewers |-> 0]

-----------------------------------------------------------------------------
(* The program and its ring buffer *)

\* Bytes that end inside an oversized control string leave no screen to serialise.
Write ==
    /\ end < MaxUnits
    /\ end' = end + 1
    /\ safe' \in BOOLEAN
    /\ UNCHANGED <<cut, emGen, pendSnap, pendAll, cooling, mutex, client, queue, conn, gen, wire,
                   asked, relayUp, cached, viewerVars>>

\* the oldest retained unit is Start + 1
Start == IF end > Ring THEN end - Ring ELSE 0

-----------------------------------------------------------------------------
(* The emitter. enqueueFrame refuses a frame without an active socket or when the queue is full.
   A frame refused in mid-step because the socket breaks is the same as a break before the step. *)

Room(q) == IF conn = "down" THEN 0 ELSE Cap - Len(q)

\* emitPending, on a view taken now: what it enqueues and the cut and throttle it leaves
Emitted ==
    LET n       == IF end - cut <= Room(queue) THEN end - cut ELSE Room(queue)
        same    == [queue |-> queue, cut |-> cut, cooling |-> cooling]
        outputs == [i \in 1..n |-> Output(cut + i)]
    IN  IF cut >= Start
        THEN [same EXCEPT !.queue = queue \o outputs, !.cut = cut + n]
        ELSE IF ~safe \/ cooling THEN same
        ELSE IF Room(queue) = 0 THEN [same EXCEPT !.cooling = TRUE]
        ELSE [queue |-> Append(queue, Broadcast), cut |-> end, cooling |-> TRUE]

Take(e) == /\ queue' = e.queue /\ cut' = e.cut /\ cooling' = e.cooling

\* may a screen follow in the queue that e leaves, at the cut it belongs to?
Fits(e) == safe /\ e.cut = end /\ Room(e.queue) > 0

\* flush after a reconnect: the screen is broadcast, whether or not anything is new.
FlushReconnect ==
    /\ mutex = "free" /\ gen # emGen
    /\ safe /\ Room(queue) > 0
    /\ queue' = Append(queue, Broadcast)
    /\ emGen' = gen /\ cut' = end
    /\ UNCHANGED <<end, safe, pendSnap, pendAll, cooling, mutex, client, conn, gen, wire, asked,
                   relayUp, cached, viewerVars>>

\* Otherwise flush goes through what is due, under the mutex. (With nothing due it does nothing.)
FlushStart ==
    /\ mutex = "free" /\ gen = emGen
    /\ pendAll \/ pendSnap # {} \/ end # cut
    /\ mutex' = IF pendAll THEN "broadcast" ELSE IF pendSnap # {} THEN "snapshots" ELSE "rest"
    /\ UNCHANGED <<end, safe, cut, emGen, pendSnap, pendAll, cooling, client, queue, conn, gen,
                   wire, asked, relayUp, cached, viewerVars>>

\* retryPendingBroadcast
FlushBroadcast ==
    /\ mutex = "broadcast"
    /\ LET e == IF safe THEN Emitted ELSE [queue |-> queue, cut |-> cut, cooling |-> cooling]
       IN  /\ Take(IF Fits(e) THEN [e EXCEPT !.queue = Append(@, Broadcast)] ELSE e)
           /\ pendAll' = ~Fits(e)
           /\ pendSnap' = IF Fits(e) THEN {} ELSE pendSnap
    /\ mutex' = IF pendSnap' # {} THEN "snapshots" ELSE "rest"
    /\ UNCHANGED <<end, safe, emGen, client, conn, gen, wire, asked, relayUp, cached, viewerVars>>

\* retryPendingSnapshots: one cut for all of them, until one is refused; in any order (a Go map)
FlushSnapshots ==
    /\ mutex = "snapshots"
    /\ LET e == Emitted
           n == IF Room(e.queue) < Cardinality(pendSnap) THEN Room(e.queue) ELSE Cardinality(pendSnap)
       IN  \/ /\ ~Fits(e)
              /\ Take(e)
              /\ UNCHANGED pendSnap
           \/ /\ Fits(e)
              /\ \E replies \in UNION {SetToSeqs(s) : s \in SUBSET pendSnap} :
                    /\ Len(replies) = n
                    /\ Take([e EXCEPT !.queue = @ \o [i \in 1..n |-> Snapshot(replies[i])]])
                    /\ pendSnap' = pendSnap \ {replies[i] : i \in 1..n}
    /\ mutex' = "rest"
    /\ UNCHANGED <<end, safe, emGen, pendAll, client, conn, gen, wire, asked, relayUp, cached,
                   viewerVars>>

FlushRest ==
    /\ mutex = "rest"
    /\ Take(Emitted)
    /\ mutex' = "free"
    /\ UNCHANGED <<end, safe, emGen, pendSnap, pendAll, client, conn, gen, wire, asked, relayUp,
                   cached, viewerVars>>

\* 250 ms after the last recovery attempt
Cool ==
    /\ cooling
    /\ cooling' = FALSE
    /\ UNCHANGED <<end, safe, cut, emGen, pendSnap, pendAll, mutex, client, queue, conn, gen, wire,
                   asked, relayUp, cached, viewerVars>>

\* readRelay takes a snapshot_request; snapshotFor takes the mutex and keeps it while it retries.
ReadRequest ==
    /\ mutex = "free" /\ asked # <<>>
    /\ client' = Head(asked) /\ asked' = Tail(asked)
    /\ mutex' = "answer"
    /\ UNCHANGED <<end, safe, cut, emGen, pendSnap, pendAll, cooling, queue, conn, gen, wire,
                   relayUp, cached, viewerVars>>

\* Mutant: the reply is sent without committing what it shows beyond the cut.
AnswerAhead ==
    /\ mutex = "answer"
    /\ IF safe /\ Room(queue) > 0
       THEN /\ queue' = Append(queue, Snapshot(client))
            /\ mutex' = "free" /\ client' = NoViewer
       ELSE /\ mutex' \in {"answer", "defer"}
            /\ UNCHANGED <<queue, client>>
    /\ UNCHANGED <<end, safe, cut, emGen, pendSnap, pendAll, cooling, conn, gen, wire, asked,
                   relayUp, cached, viewerVars>>

\* Mutant: a refused reply is given up.
AnswerOnce ==
    /\ mutex = "answer"
    /\ LET e == Emitted
       IN  Take(IF Fits(e) THEN [e EXCEPT !.queue = Append(@, Snapshot(client))] ELSE e)
    /\ mutex' = "free" /\ client' = NoViewer
    /\ UNCHANGED <<end, safe, emGen, pendSnap, pendAll, conn, gen, wire, asked, relayUp, cached,
                   viewerVars>>

\* One turn of snapshotFor: what is pending, then the reply. Refused, it is tried again, or, a
\* second having passed, deferred.
Answer ==
    /\ mutex = "answer"
    /\ LET e == Emitted
       IN  IF Fits(e)
           THEN /\ Take([e EXCEPT !.queue = Append(@, Snapshot(client))])
                /\ mutex' = "free" /\ client' = NoViewer
           ELSE /\ Take(e)
                /\ mutex' \in {"answer", "defer"}
                /\ UNCHANGED client
    /\ UNCHANGED <<end, safe, emGen, pendSnap, pendAll, conn, gen, wire, asked, relayUp, cached,
                   viewerVars>>

\* Mutant: at the limit the reply is given up.
DeferOrDrop ==
    /\ mutex = "defer"
    /\ pendSnap' = IF Cardinality(pendSnap) < Limit THEN pendSnap \cup {client} ELSE pendSnap
    /\ mutex' = "free" /\ client' = NoViewer
    /\ UNCHANGED <<end, safe, cut, emGen, pendAll, cooling, queue, conn, gen, wire, asked,
                   relayUp, cached, viewerVars>>

\* deferSnapshot: beyond the limit one broadcast covers every viewer that waits.
Defer ==
    /\ mutex = "defer"
    /\ \/ /\ client \in pendSnap \/ Cardinality(pendSnap) < Limit
          /\ pendSnap' = pendSnap \cup {client}
          /\ UNCHANGED <<queue, cut, cooling, pendAll>>
       \/ /\ client \notin pendSnap /\ Cardinality(pendSnap) >= Limit
          /\ LET e == Emitted
             IN  /\ Take(IF Fits(e) THEN [e EXCEPT !.queue = Append(@, Broadcast)] ELSE e)
                 /\ pendAll' = (pendAll \/ ~Fits(e))
                 /\ pendSnap' = IF Fits(e) THEN {} ELSE pendSnap
    /\ mutex' = "free" /\ client' = NoViewer
    /\ UNCHANGED <<end, safe, emGen, conn, gen, wire, asked, relayUp, cached, viewerVars>>

-----------------------------------------------------------------------------
(* The connection *)

\* serve writes the next frame to the socket.
Transmit ==
    /\ conn = "open" /\ queue # <<>>
    /\ queue' = Tail(queue) /\ wire' = Append(wire, Head(queue))
    /\ UNCHANGED <<hostVars, conn, gen, asked, relayUp, cached, viewerVars>>

\* The socket breaks: of what was written to it, either way, a prefix still arrives.
Drop ==
    /\ conn = "open" /\ gen <= MaxDrops
    /\ conn' = "down"
    /\ \E n \in 0..Len(wire) : wire' = SubSeq(wire, 1, n)
    /\ \E n \in 0..Len(asked) : asked' = SubSeq(asked, 1, n)
    /\ UNCHANGED <<hostVars, queue, gen, relayUp, cached, viewerVars>>

Joined == {v \in Viewers : status[v] = "in"}

\* run dials again, and the relay asks the new socket for every viewer's screen. The frames that
\* arrive over the old socket are handled before those of the new one.
Dial ==
    /\ conn = "down" /\ wire = <<>>
    /\ conn' = "active" /\ relayUp' = TRUE
    /\ \E order \in SetToSeqs(Joined) : asked' = asked \o order
    /\ UNCHANGED <<hostVars, queue, gen, wire, cached, viewerVars>>

\* The generation is counted after the connection was made active, and before serve.
Serve ==
    /\ conn = "active"
    /\ conn' = "open" /\ gen' = gen + 1
    /\ UNCHANGED <<hostVars, queue, wire, asked, relayUp, cached, viewerVars>>

-----------------------------------------------------------------------------
(* The relay and the viewers *)

\* what a viewer shows after frame f
Shows(f, v, s, w) ==
    IF f.kind = "broadcast" \/ f.for = v THEN [pos |-> f.to, fit |-> "whole"]
    ELSE IF f.kind = "snapshot" \/ w # "no" THEN s
    ELSE [pos |-> f.to,
          fit |-> IF f.to <= s.pos THEN "twice"
                  ELSE IF f.to > s.pos + 1 /\ s.fit = "whole" THEN "gap" ELSE s.fit]

WaitsAfter(f, v, w) == IF f.kind = "broadcast" \/ f.for = v THEN "no" ELSE w

\* handleHostFrame: output and broadcasts go to every viewer, a snapshot to the one it is for, if he
\* is still there; screens are also kept, not more often than every two seconds.
Forward ==
    /\ wire # <<>>
    /\ wire' = Tail(wire)
    /\ LET f == Head(wire)
       IN  /\ screen' = [v \in Viewers |-> IF v \in Joined THEN Shows(f, v, screen[v], waiting[v])
                                                         ELSE screen[v]]
           /\ waiting' = [v \in Viewers |-> IF v \in Joined THEN WaitsAfter(f, v, waiting[v])
                                                          ELSE waiting[v]]
           /\ cached' \in IF f.kind = "output" THEN {cached} ELSE {cached, f.to}
    /\ UNCHANGED <<hostVars, queue, conn, gen, asked, relayUp, status, limited, asks>>

\* handleSocketEnd of the host's socket
HostEnds ==
    /\ relayUp /\ conn = "down" /\ wire = <<>>
    /\ relayUp' = FALSE
    /\ UNCHANGED <<hostVars, queue, conn, gen, wire, asked, cached, viewerVars>>

\* A request to the host; on a socket that broke unnoticed it is lost.
Ask(v) == asked' = IF conn = "down" THEN asked ELSE Append(asked, v)

\* A viewer comes. With the machine away it is shown the kept screen.
Join(v) ==
    /\ status[v] = "new"
    /\ status' = [status EXCEPT ![v] = "in"]
    /\ IF relayUp THEN Ask(v) /\ UNCHANGED screen
                  ELSE screen' = [screen EXCEPT ![v].pos = cached] /\ UNCHANGED asked
    /\ UNCHANGED <<hostVars, queue, conn, gen, wire, relayUp, cached, waiting, limited, asks>>

\* Its id is never given to another.
Leave(v) ==
    /\ status[v] = "in"
    /\ status' = [status EXCEPT ![v] = "left"]
    /\ UNCHANGED <<hostVars, queue, conn, gen, wire, asked, relayUp, cached, screen, waiting,
                   limited, asks>>

\* A viewer whose renderer overflowed, or who was unlocked on an open socket, discards output and
\* asks for a snapshot. The relay ignores a second request within a second. With the machine away it
\* is shown the kept screen, if there is one and it has not opened that very frame before (ReplayWindow).
FallBehind(v) ==
    /\ status[v] = "in" /\ waiting[v] = "no" /\ asks[v] < MaxAsks
    /\ asks' = [asks EXCEPT ![v] = @ + 1]
    /\ \/ /\ limited[v]
          /\ waiting' = [waiting EXCEPT ![v] = "refused"]
          /\ UNCHANGED <<asked, screen, limited>>
       \/ /\ ~limited[v] /\ relayUp
          /\ waiting' = [waiting EXCEPT ![v] = "asked"]
          /\ Ask(v)
          /\ limited' = [limited EXCEPT ![v] = TRUE]
          /\ UNCHANGED screen
       \/ /\ ~limited[v] /\ ~relayUp /\ cached # 0
          /\ waiting' = [waiting EXCEPT ![v] = "no"]
          /\ screen'  = [screen EXCEPT ![v] = [pos |-> cached, fit |-> "whole"]]
          /\ limited' = [limited EXCEPT ![v] = TRUE]
          /\ UNCHANGED asked
       \/ /\ ~limited[v] /\ ~relayUp
          /\ waiting' = [waiting EXCEPT ![v] = "asked"]
          /\ limited' = [limited EXCEPT ![v] = TRUE]
          /\ UNCHANGED <<asked, screen>>
    /\ UNCHANGED <<hostVars, queue, conn, gen, wire, relayUp, cached, status>>

SecondPasses(v) ==
    /\ limited[v]
    /\ limited' = [limited EXCEPT ![v] = FALSE]
    /\ UNCHANGED <<hostVars, queue, conn, gen, wire, asked, relayUp, cached, status, screen, waiting,
                   asks>>

-----------------------------------------------------------------------------
Emitter == FlushReconnect \/ FlushStart \/ FlushBroadcast \/ FlushSnapshots \/ FlushRest
           \/ ReadRequest \/ Answer \/ Defer \/ Cool
Path    == Transmit \/ Drop \/ Dial \/ Serve \/ Forward \/ HostEnds
Viewer  == \E v \in Viewers : Join(v) \/ Leave(v) \/ FallBehind(v) \/ SecondPasses(v)

OutputNext == Write \/ Emitter \/ Path \/ Viewer

OutputSpec == OutputInit /\ [][OutputNext]_outputVars

\* The flush ticker runs every 15 ms and readRelay blocks on the emitter's mutex, which Go hands to
\* whoever has waited a millisecond: strong fairness for both. A reply is tried at least once a
\* second. Go's run loop, the socket and the relay keep working.
Fairness ==
    /\ SF_outputVars(FlushReconnect) /\ SF_outputVars(FlushStart) /\ SF_outputVars(ReadRequest)
    /\ WF_outputVars(FlushBroadcast) /\ WF_outputVars(FlushSnapshots) /\ WF_outputVars(FlushRest)
    /\ WF_outputVars(Answer) /\ SF_outputVars(Answer /\ mutex' # "answer") /\ WF_outputVars(Defer) /\ WF_outputVars(Cool)
    /\ WF_outputVars(Transmit) /\ WF_outputVars(Serve) /\ WF_outputVars(Forward)

LiveSpec == OutputSpec /\ Fairness

-----------------------------------------------------------------------------
(* Properties *)

\* A viewer receives each byte in its last snapshot or in output after it, never both (outputEmitter's
\* comment), whatever is refused, deferred, lost with a socket or kept by the relay.
NeverTwice == \A v \in Viewers : screen[v].fit # "twice"

\* What the viewer will show when the frames under way have arrived: the last screen among them
\* that is his, or the one he shows, and behind it exactly what it lacks of the cut, in order.
UnderWay == wire \o queue
IsOutput(f)  == f.kind = "output"
IsFor(f, v)  == f.kind = "broadcast" \/ f.for = v
UpToDate(v) ==
    \E k \in 0..Len(UnderWay) :
        LET base  == IF k = 0 THEN screen[v].pos ELSE UnderWay[k].to
            after == {j \in k + 1..Len(UnderWay) : IsOutput(UnderWay[j])}
        IN  /\ IF k = 0 THEN waiting[v] = "no" /\ screen[v].fit = "whole" ELSE IsFor(UnderWay[k], v)
            /\ \A j \in k + 1..Len(UnderWay) : ~IsFor(UnderWay[j], v)
            /\ {UnderWay[j].to : j \in after} = base + 1..cut
            /\ \A i, j \in after : i < j => UnderWay[i].to < UnderWay[j].to

RepairDue(v) ==
    \/ conn # "open" \/ emGen # gen          \* the reconnect's broadcast
    \/ pendAll \/ v \in pendSnap             \* the flush cadence
    \/ client = v                            \* snapshotFor
    \/ \E i \in DOMAIN asked : asked[i] = v  \* readRelay

\* Whatever was refused, lost or deferred, a viewer ends up with the screen of the emitter's cut once
\* the frames under way arrive, or the emitter still owes him one: nobody's snapshot is forgotten.
Repaired == \A v \in Joined : RepairDue(v) \/ waiting[v] = "refused" \/ UpToDate(v)

\* "Recover renderer backpressure with a new host snapshot" (terminal/connection.ts): a viewer that
\* fell behind and asked has a snapshot coming.
BehindIsRecovered == \A v \in Joined : waiting[v] # "no" => UpToDate(v) \/ RepairDue(v)

\* Once the connection holds and the screen can be serialised, every viewer is shown all that was
\* printed, and stays so; unless the relay ignored his request.
CatchUp ==
    <>[](conn = "open" /\ safe) =>
        \A v \in Viewers : <>[](status[v] = "in" =>
            \/ waiting[v] = "refused"
            \/ waiting[v] = "no" /\ screen[v] = [pos |-> end, fit |-> "whole"])
=============================================================================
