------------------------------ MODULE GridControl ------------------------------
(* The size of a session's terminal (cmd/shell/terminal_grid.go): the host's  *)
(* gridController under its mutex, the terminals that show the session on     *)
(* the machine, the connection that tells the relay (internal/relay), and     *)
(* what the relay believes (worker/index.ts).  A grid is a number: cols and   *)
(* rows are treated alike.  Other messages share the queue: they only take    *)
(* room, and a send may wait for room at any time.                            *)
EXTENDS Naturals, Sequences

CONSTANTS Grids,
          Terminals,   \* terminals that may be attached
          NoTerminal,
          Capacity,    \* of the connection's queue: 128
          MaxOnSocket, MaxSockets  \* bounds: messages on a socket either way, sockets

GridAssumption ==
  /\ Grids \subseteq Nat \ {0} /\ NoTerminal \notin Terminals
  /\ Capacity \in Nat \ {0} /\ MaxOnSocket \in Nat /\ MaxSockets \in Nat

VARIABLES
  current,    \* the grid the PTY is at
  limit,      \* localLimit, 0 for nil
  announcing, \* the relay on the current socket has said that it takes terminal_grid
  holder,     \* who holds mu while its announcement waits for room: "nobody", "local" or "reader"
  teller,     \* readRelay in RelayTakesGrid: at "idle", "swapped", or "read" with the grid it read
  outgoing,   \* announcements in the connection's queue, which outlives a socket
  link,       \* the connection: "down", "dialed" (before the greeting) or "open"
  socketOut,  \* written to the socket, not yet handled by the relay
  socketIn,   \* the relay's messages readRelay has not read: Features, or a grid asked for
  takes,      \* the relay on the current socket understands terminal_grid
  dials,      \* sockets so far
  hostGrid,   \* the relay's meta.hostCols and hostRows, 0 for none
  foreground, \* the terminal the session was started in shows it
  attached,   \* session.attached
  resizes,    \* resize commands that found a terminal attached and have not taken effect
  leaving,    \* terminals that are not attached any more and have not said so
  overtaken,  \* history: the grid was changed while RelayTakesGrid had one in hand
  outlived,       \* history: the limit is of a terminal that had left when it was set
  forgotten   \* history: a terminal has left, and the limit was not set since

controlVars == <<current, limit, announcing, holder, teller, overtaken>>
pathVars    == <<outgoing, link, socketOut, socketIn, takes, dials, hostGrid>>
attachVars  == <<foreground, attached, resizes, leaving, outlived, forgotten>>
gridVars    == <<controlVars, pathVars, attachVars>>

Features == 0
NotTelling == [at |-> "idle", grid |-> 0]

\* newGridController, on a connection that is already open and has not been greeted
GridInit ==
  /\ current \in Grids
  /\ foreground \in BOOLEAN
  /\ limit = (IF foreground THEN current ELSE 0)
  /\ announcing = FALSE /\ holder = "nobody" /\ teller = NotTelling
  /\ outgoing = <<>> /\ link = "open" /\ socketOut = <<>> /\ dials = 1
  /\ takes \in BOOLEAN
  /\ socketIn = (IF takes THEN <<Features>> ELSE <<>>)
  /\ hostGrid = 0
  /\ attached = NoTerminal /\ resizes = {} /\ leaving = {}
  /\ overtaken = FALSE /\ outlived = FALSE /\ forgotten = FALSE

------------------------------------------------------------------------------
(* The controller.                                                            *)

\* applyLocked: whoever has mu keeps it until its announcement is in the queue.
Apply(who, g) ==
  /\ holder = "nobody"
  /\ current' = g
  /\ holder' = IF g # current /\ announcing THEN who ELSE "nobody"
  /\ overtaken' = IF g = current THEN overtaken ELSE teller.at = "read"

\* SetLocal
SetLocal(g) ==
  /\ Apply("local", g)
  /\ limit' = g /\ forgotten' = FALSE
  /\ UNCHANGED <<announcing, teller>>

\* Request: a browser's grid, within the local terminal's
Within(g) == IF limit # 0 /\ limit < g THEN limit ELSE g

\* announce, with mu held: Send waits for room.
Announce ==
  /\ holder # "nobody" /\ Len(outgoing) < Capacity
  /\ outgoing' = Append(outgoing, current)
  /\ holder' = "nobody"
  /\ UNCHANGED <<current, limit, announcing, teller, overtaken, link, socketOut, socketIn, takes, dials, hostGrid,
                 attachVars>>

\* readRelay: relay_features (RelayTakesGrid) or a request.  It reads nothing while it waits.
ReadRelay ==
  /\ teller = NotTelling /\ holder # "reader" /\ socketIn # <<>>
  /\ socketIn' = Tail(socketIn)
  /\ \/ /\ Head(socketIn) = Features
        /\ announcing' = TRUE
        /\ teller' = IF announcing THEN NotTelling ELSE [at |-> "swapped", grid |-> 0]
        /\ overtaken' = (announcing /\ overtaken)
        /\ UNCHANGED <<current, holder>>
     \/ /\ Head(socketIn) # Features
        /\ Apply("reader", Within(Head(socketIn)))
        /\ UNCHANGED <<announcing, teller>>
  /\ UNCHANGED <<limit, outgoing, link, socketOut, takes, dials, hostGrid, attachVars>>

\* Current, under mu
ReadCurrent ==
  /\ teller.at = "swapped" /\ holder = "nobody"
  /\ teller' = [at |-> "read", grid |-> current]
  /\ UNCHANGED <<current, limit, announcing, holder, overtaken, pathVars, attachVars>>

\* announce, without mu
Tell ==
  /\ teller.at = "read" /\ Len(outgoing) < Capacity
  /\ outgoing' = Append(outgoing, teller.grid)
  /\ teller' = NotTelling
  /\ UNCHANGED <<current, limit, announcing, holder, overtaken, link, socketOut, socketIn, takes, dials, hostGrid,
                 attachVars>>

------------------------------------------------------------------------------
(* The terminals on the machine.                                              *)

\* watchTerminalSize: the window of the terminal the session was started in
ForegroundResized(g) ==
  /\ foreground
  /\ SetLocal(g)
  /\ UNCHANGED <<foreground, attached, resizes, leaving, outlived, pathVars>>

\* handleAttach, until the terminal is bound
Attach(t) ==
  /\ attached = NoTerminal /\ t \notin leaving
  /\ attached' = t
  /\ UNCHANGED <<controlVars, pathVars, foreground, resizes, leaving, outlived, forgotten>>

\* Mutant: a resize does not ask whether a terminal is attached.
ResizeUnasked(g) ==
  /\ resizes' = resizes \cup {[grid |-> g, of |-> attached]}
  /\ UNCHANGED <<controlVars, pathVars, foreground, attached, leaving, outlived, forgotten>>

\* "resize": the terminal is looked for under terminalMu, and resized without it.
Resize(g) ==
  /\ attached # NoTerminal
  /\ resizes' = resizes \cup {[grid |-> g, of |-> attached]}
  /\ UNCHANGED <<controlVars, pathVars, foreground, attached, leaving, outlived, forgotten>>

Resized(r) ==
  /\ r \in resizes
  /\ SetLocal(r.grid)
  /\ resizes' = resizes \ {r}
  /\ outlived' = (r.of # NoTerminal /\ r.of \notin leaving \cup {attached})
  /\ UNCHANGED <<foreground, attached, leaving, pathVars>>

\* The terminal is gone: handleAttach unbinds it, ...
Detach ==
  /\ attached # NoTerminal
  /\ leaving' = leaving \cup {attached}
  /\ attached' = NoTerminal
  /\ UNCHANGED <<controlVars, pathVars, foreground, resizes, outlived, forgotten>>

\* ... and then says so: ClearLocal.
SayLeft(t) ==
  /\ t \in leaving /\ holder = "nobody"
  /\ leaving' = leaving \ {t}
  /\ limit' = 0 /\ outlived' = FALSE
  /\ forgotten' = TRUE
  /\ UNCHANGED <<current, announcing, holder, teller, overtaken, pathVars, foreground, attached, resizes>>

------------------------------------------------------------------------------
(* The connection and the relay.                                              *)

\* serve writes the next message.
WriteNext ==
  /\ link = "open" /\ outgoing # <<>> /\ Len(socketOut) < MaxOnSocket
  /\ socketOut' = Append(socketOut, Head(outgoing)) /\ outgoing' = Tail(outgoing)
  /\ UNCHANGED <<controlVars, link, socketIn, takes, dials, hostGrid, attachVars>>

SocketEnds ==
  /\ link' = "down"
  /\ \E n \in 0..Len(socketIn) : socketIn' = SubSeq(socketIn, 1, n)

\* The socket breaks: a prefix of what was under way still arrives, on either side.
LoseSocket ==
  /\ link = "open" /\ SocketEnds
  /\ \E n \in 0..Len(socketOut) : socketOut' = SubSeq(socketOut, 1, n)
  /\ UNCHANGED <<controlVars, outgoing, takes, dials, hostGrid, attachVars>>

\* A new socket, to a relay that says what it understands as soon as it has accepted it; an older
\* one says nothing.  What arrived over the old socket was handled before.
Redial ==
  /\ link = "down" /\ socketOut = <<>> /\ dials < MaxSockets
  /\ link' = "dialed" /\ dials' = dials + 1
  /\ takes' \in BOOLEAN
  /\ socketIn' = IF takes' THEN Append(socketIn, Features) ELSE socketIn
  /\ UNCHANGED <<controlVars, outgoing, socketOut, hostGrid, attachVars>>

\* Mutant: a new socket goes on as the old one was.
GreetAgain ==
  /\ link = "dialed"
  /\ link' = "open"
  /\ UNCHANGED <<controlVars, outgoing, socketOut, socketIn, takes, dials, hostGrid, attachVars>>

\* Mutant: NewSocket takes mu.
GreetLocking ==
  /\ link = "dialed" /\ holder = "nobody"
  /\ announcing' = FALSE
  /\ link' = "open"
  /\ UNCHANGED <<current, limit, holder, teller, overtaken, outgoing, socketOut, socketIn, takes, dials, hostGrid,
                 attachVars>>

\* The greeting, before anything queued is written: NewSocket, which waits for nobody.
Greet ==
  /\ link = "dialed"
  /\ announcing' = FALSE
  /\ link' = "open"
  /\ UNCHANGED <<current, limit, holder, teller, overtaken, outgoing, socketOut, socketIn, takes, dials, hostGrid,
                 attachVars>>

\* adoptHostGrid; an older relay closes a host over a message it does not know.
Adopt ==
  /\ socketOut # <<>>
  /\ \/ /\ takes
        /\ hostGrid' = Head(socketOut) /\ socketOut' = Tail(socketOut)
        /\ UNCHANGED <<link, socketIn>>
     \/ /\ ~takes
        /\ socketOut' = <<>> /\ hostGrid' = hostGrid
        /\ SocketEnds
  /\ UNCHANGED <<controlVars, outgoing, takes, dials, attachVars>>

\* A browser asks for its grid (forwardGridRequest), or an older relay chooses one.
GridRequest(g) ==
  /\ link # "down" /\ Len(socketIn) < MaxOnSocket
  /\ socketIn' = Append(socketIn, g)
  /\ UNCHANGED <<controlVars, outgoing, link, socketOut, takes, dials, hostGrid, attachVars>>

GridNext ==
  \/ Announce \/ ReadRelay \/ ReadCurrent \/ Tell
  \/ Detach \/ \E t \in Terminals : Attach(t) \/ SayLeft(t)
  \/ \E g \in Grids : ForegroundResized(g) \/ Resize(g) \/ GridRequest(g)
  \/ \E r \in resizes : Resized(r)
  \/ WriteNext \/ LoseSocket \/ Redial \/ Greet \/ Adopt

GridSpec == GridInit /\ [][GridNext]_gridVars

\* Whoever waits for room sends when there is room and nobody took it first; run, serve and the relay
\* keep working.
GridFairness ==
  /\ WF_gridVars(Announce) /\ WF_gridVars(Tell)
  /\ WF_gridVars(WriteNext) /\ WF_gridVars(Redial) /\ WF_gridVars(Greet) /\ WF_gridVars(Adopt)

------------------------------------------------------------------------------
(* Properties.                                                                *)

GridTypeOK ==
  /\ current \in Grids /\ limit \in Grids \cup {0} /\ hostGrid \in Grids \cup {0}
  /\ {announcing, takes, foreground, overtaken, outlived, forgotten} \subseteq BOOLEAN
  /\ holder \in {"nobody", "local", "reader"}
  /\ teller \in [at : {"idle", "swapped", "read"}, grid : Grids \cup {0}]
  /\ link \in {"down", "dialed", "open"} /\ dials \in Nat
  /\ outgoing \in Seq(Grids) /\ socketOut \in Seq(Grids) /\ socketIn \in Seq(Grids \cup {Features})
  /\ attached \in Terminals \cup {NoTerminal} /\ leaving \subseteq Terminals
  /\ resizes \subseteq [grid : Grids, of : Terminals \cup {NoTerminal}]

\* From relay_features on "every change is announced, starting with the grid as it is"
\* (terminal_grid.go:221-222): with nothing more under way on a socket, the relay has the grid the
\* PTY is at; unless it was changed between RelayTakesGrid's reading and telling it.
GridFollows ==
  link = "open" /\ announcing /\ teller.at = "idle" /\ holder = "nobody" /\ outgoing = <<>> /\ socketOut = <<>>
    => overtaken \/ hostGrid = current

\* A local terminal cannot scale its text, so while it is present it is a limit (terminal_grid.go:124-126);
\* and there is none "that no detach would ever clear" (sessions_unix.go:301-302), unless a resize was
\* overtaken by the whole of a detach; the terminal a session was started in stays one until another leaves.
LimitHolds ==
  /\ limit # 0 => current <= limit
  /\ limit # 0 /\ ~outlived => foreground \/ attached # NoTerminal \/ leaving # {}
  /\ foreground /\ ~forgotten => limit # 0

\* The queue is only drained by the goroutine that greets: it must never wait for a lock that is held
\* by a send it has to drain (terminal_grid.go:145-147).  Where the relay can be reached, mu is free
\* again and again.
LockReturned == []<>(holder = "nobody")
===============================================================================
