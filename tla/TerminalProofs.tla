---------------------------- MODULE TerminalProofs -----------------------------
(* Proofs about what goes between the terminal and those who see it: the size *)
(* everybody works at (GridControl), for any grids, terminals and sockets;    *)
(* who may type (InputArbitration), for any number of browsers and any times; *)
(* and the window that refuses a frame seen before (ReplayWindow), for any    *)
(* number of frames, sealers and bits.                                        *)
EXTENDS GridControl, InputArbitration, ReplayWindow, SequenceTheorems, TLAPS

------------------------------------------------------------------------------
(* The grid.                                                                  *)

\* The last grid the host has said: in its queue, on the socket, or with the relay.
Said ==
  IF outgoing # <<>> THEN outgoing[Len(outgoing)]
  ELSE IF socketOut # <<>> THEN socketOut[Len(socketOut)] ELSE hostGrid

\* While RelayTakesGrid has a grid in hand that nobody changed, nobody waits to announce another.
InHandIsCurrent == teller.at = "read" /\ ~overtaken => teller.grid = current /\ holder = "nobody"

\* When nobody is about to say a grid, the last that was said is the PTY's.
SaidIsCurrent ==
  announcing /\ link = "open" /\ ~overtaken /\ teller.at = "idle" /\ holder = "nobody" => Said = current

Shape ==
  /\ teller.at = "idle" => teller = NotTelling
  /\ teller.at = "read" => teller.grid \in Grids
  /\ \A r \in resizes : r.of # NoTerminal

GridInv == GridTypeOK /\ Shape /\ InHandIsCurrent /\ SaidIsCurrent /\ LimitHolds

\* The first grid is the first limit, if there is a terminal to show it; nothing was said yet.
LEMMA GridInitHolds == ASSUME GridAssumption, GridInit PROVE GridInv
<1>1. GridTypeOK
  <2>1. socketIn = <<>> \/ socketIn = <<Features>>
    BY DEF GridInit
  <2>2. socketIn \in Seq(Grids \cup {Features})
    <3>1. Features \in Grids \cup {Features}
      OBVIOUS
    <3>2. <<>> \in Seq(Grids \cup {Features}) /\ <<Features>> \in Seq(Grids \cup {Features})
      BY <3>1
    <3>. QED BY <2>1, <3>2
  <2>3. outgoing \in Seq(Grids) /\ socketOut \in Seq(Grids)
    BY DEF GridInit
  <2>4. teller \in [at : {"idle", "swapped", "read"}, grid : Grids \cup {0}]
    BY DEF GridInit, NotTelling
  <2>5. dials \in Nat /\ resizes = {} /\ leaving = {}
    BY DEF GridInit
  <2>. QED BY <2>2, <2>3, <2>4, <2>5 DEF GridInit, GridTypeOK
<1>2. Shape /\ InHandIsCurrent /\ SaidIsCurrent /\ LimitHolds
  BY DEF GridAssumption, GridInit, Shape, InHandIsCurrent, SaidIsCurrent, LimitHolds, NotTelling
<1>. QED BY <1>1, <1>2 DEF GridInv

\* A grid is applied and announced, and if one was in hand meanwhile, that is remembered.
LEMMA ApplyKeeps ==
  ASSUME GridAssumption, GridInv, NEW who \in {"local", "reader"}, NEW g \in Grids, Apply(who, g),
         UNCHANGED <<announcing, teller, outgoing, link, socketOut, hostGrid>>
  PROVE  /\ current' = g /\ holder' \in {"nobody", "local", "reader"} /\ overtaken' \in BOOLEAN
         /\ InHandIsCurrent' /\ SaidIsCurrent'
<1>1. holder = "nobody" /\ current' = g
  BY DEF Apply
<1>2. CASE g = current
  BY <1>1, <1>2 DEF Apply, GridInv, GridTypeOK, InHandIsCurrent, SaidIsCurrent, Said
<1>3. CASE g # current
  <2>1. holder' = (IF announcing THEN who ELSE "nobody") /\ overtaken' = (teller.at = "read")
    BY <1>3 DEF Apply
  <2>2. InHandIsCurrent'
    BY <2>1 DEF InHandIsCurrent
  <2>3. SaidIsCurrent'
    BY <2>1 DEF SaidIsCurrent
  <2>. QED BY <1>1, <2>1, <2>2, <2>3
<1>. QED BY <1>2, <1>3

\* SetLocal makes the grid applied the limit.
LEMMA SetLocalKeeps ==
  ASSUME GridAssumption, GridInv, NEW g \in Grids, SetLocal(g),
         UNCHANGED <<outgoing, link, socketOut, hostGrid>>
  PROVE  /\ current' = g /\ limit' = g /\ holder' \in {"nobody", "local", "reader"} /\ overtaken' \in BOOLEAN
         /\ forgotten' = FALSE /\ UNCHANGED <<announcing, teller>>
         /\ InHandIsCurrent' /\ SaidIsCurrent'
  BY ApplyKeeps DEF SetLocal

\* With mu held, what is announced is the current grid.
LEMMA AnnounceKeeps == ASSUME GridAssumption, GridInv, Announce PROVE GridInv'
<1>1. outgoing \in Seq(Grids) /\ current \in Grids /\ outgoing' = Append(outgoing, current)
  BY DEF Announce, GridInv, GridTypeOK
<1>2. outgoing' \in Seq(Grids) /\ outgoing' # <<>> /\ outgoing'[Len(outgoing')] = current
  BY <1>1, AppendProperties
<1>3. GridTypeOK'
  BY <1>2 DEF Announce, attachVars, GridInv, GridTypeOK
<1>4. Shape' /\ LimitHolds'
  BY DEF Announce, attachVars, GridInv, Shape, LimitHolds
<1>5. InHandIsCurrent'
  BY DEF Announce, attachVars, GridInv, InHandIsCurrent
<1>6. SaidIsCurrent'
  BY <1>2 DEF Announce, SaidIsCurrent, Said
<1>. QED BY <1>3, <1>4, <1>5, <1>6 DEF GridInv

\* What RelayTakesGrid tells is the current grid, unless it was overtaken.
LEMMA TellKeeps == ASSUME GridAssumption, GridInv, Tell PROVE GridInv'
<1>1. outgoing \in Seq(Grids) /\ teller.grid \in Grids /\ outgoing' = Append(outgoing, teller.grid)
  BY DEF Tell, GridInv, GridTypeOK, Shape
<1>2. outgoing' \in Seq(Grids) /\ outgoing' # <<>> /\ outgoing'[Len(outgoing')] = teller.grid
  BY <1>1, AppendProperties
<1>3. GridTypeOK'
  BY <1>2 DEF Tell, attachVars, GridInv, GridTypeOK, NotTelling
<1>4. Shape' /\ LimitHolds' /\ InHandIsCurrent'
  BY DEF Tell, attachVars, GridInv, Shape, LimitHolds, NotTelling, InHandIsCurrent
<1>5. SaidIsCurrent'
  BY <1>2 DEF Tell, GridInv, InHandIsCurrent, SaidIsCurrent, Said
<1>. QED BY <1>3, <1>4, <1>5 DEF GridInv

\* readRelay takes relay_features, or a request, which the limit bounds.
LEMMA ReadRelayKeeps == ASSUME GridAssumption, GridInv, ReadRelay PROVE GridInv'
<1>1. /\ Head(socketIn) \in Grids \cup {Features} /\ socketIn' \in Seq(Grids \cup {Features})
      /\ teller = NotTelling
      /\ UNCHANGED <<limit, outgoing, link, socketOut, takes, dials, hostGrid, attachVars>>
  <2>1. socketIn \in Seq(Grids \cup {Features}) /\ socketIn # <<>> /\ socketIn' = Tail(socketIn)
    BY DEF ReadRelay, GridInv, GridTypeOK
  <2>2. Head(socketIn) \in Grids \cup {Features} /\ Tail(socketIn) \in Seq(Grids \cup {Features})
    BY <2>1, HeadTailProperties
  <2>. QED BY <2>1, <2>2 DEF ReadRelay
<1>2. CASE /\ Head(socketIn) = Features
           /\ announcing' = TRUE
           /\ teller' = IF announcing THEN NotTelling ELSE [at |-> "swapped", grid |-> 0]
           /\ overtaken' = (announcing /\ overtaken)
           /\ UNCHANGED <<current, holder>>
  <2>1. GridTypeOK'
    BY <1>1, <1>2 DEF GridInv, GridTypeOK, NotTelling, attachVars
  <2>2. Shape' /\ LimitHolds' /\ InHandIsCurrent'
    BY <1>1, <1>2 DEF GridInv, Shape, LimitHolds, InHandIsCurrent, NotTelling, attachVars
  <2>3. SaidIsCurrent'
    <3>1. CASE announcing
      BY <1>1, <1>2, <3>1 DEF GridInv, GridTypeOK, SaidIsCurrent, Said, NotTelling
    <3>2. CASE ~announcing
      BY <1>2, <3>2 DEF SaidIsCurrent
    <3>. QED BY <3>1, <3>2
  <2>. QED BY <2>1, <2>2, <2>3 DEF GridInv
<1>3. CASE /\ Head(socketIn) # Features
           /\ Apply("reader", Within(Head(socketIn)))
           /\ UNCHANGED <<announcing, teller>>
  <2> DEFINE g == Within(Head(socketIn))
  <2>1. g \in Grids /\ (limit # 0 => g <= limit)
    <3>1. Head(socketIn) \in Grids /\ limit \in Grids \cup {0} /\ Grids \subseteq Nat
      BY <1>1, <1>3 DEF GridInv, GridTypeOK, GridAssumption
    <3>2. g = (IF limit # 0 /\ limit < Head(socketIn) THEN limit ELSE Head(socketIn))
      BY DEF Within
    <3> HIDE DEF g
    <3>. QED BY <3>1, <3>2
  <2>2. /\ current' = g /\ holder' \in {"nobody", "local", "reader"} /\ overtaken' \in BOOLEAN
        /\ InHandIsCurrent' /\ SaidIsCurrent'
    BY <1>1, <1>3, <2>1, ApplyKeeps
  <2> HIDE DEF g
  <2>3. GridTypeOK'
    BY <1>1, <1>3, <2>1, <2>2 DEF GridInv, GridTypeOK, attachVars
  <2>4. Shape' /\ LimitHolds'
    BY <1>1, <1>3, <2>1, <2>2 DEF GridInv, Shape, LimitHolds, NotTelling, attachVars
  <2>. QED BY <2>2, <2>3, <2>4 DEF GridInv
<1>. QED BY <1>2, <1>3 DEF ReadRelay

\* RelayTakesGrid reads the grid while nobody has one to announce.
LEMMA ReadCurrentKeeps == ASSUME GridAssumption, GridInv, ReadCurrent PROVE GridInv'
<1> USE DEF ReadCurrent, pathVars, attachVars, GridInv
<1>1. GridTypeOK'
  BY DEF GridTypeOK
<1>2. Shape' /\ LimitHolds'
  BY DEF Shape, LimitHolds, GridTypeOK
<1>3. InHandIsCurrent' /\ SaidIsCurrent'
  BY DEF InHandIsCurrent, SaidIsCurrent
<1>. QED BY <1>1, <1>2, <1>3

\* The terminal the session was started in is resized: it is there to show the limit.
LEMMA ForegroundKeeps == ASSUME GridAssumption, GridInv, NEW g \in Grids, ForegroundResized(g) PROVE GridInv'
<1>1. /\ current' = g /\ limit' = g /\ holder' \in {"nobody", "local", "reader"} /\ overtaken' \in BOOLEAN
      /\ forgotten' = FALSE /\ UNCHANGED <<announcing, teller>> /\ InHandIsCurrent' /\ SaidIsCurrent'
  BY SetLocalKeeps DEF ForegroundResized, pathVars
<1>2. foreground /\ UNCHANGED <<foreground, attached, resizes, leaving, outlived, pathVars>>
  BY DEF ForegroundResized
<1>3. GridTypeOK'
  BY <1>1, <1>2 DEF GridInv, GridTypeOK, pathVars
<1>4. Shape'
  BY <1>1, <1>2 DEF GridInv, Shape
<1>5. LimitHolds'
  BY <1>1, <1>2 DEF LimitHolds, GridAssumption
<1>. QED BY <1>1, <1>3, <1>4, <1>5 DEF GridInv

\* A resize takes effect: its terminal is there, leaving, or gone.
LEMMA ResizedKeeps == ASSUME GridAssumption, GridInv, NEW r \in resizes, Resized(r) PROVE GridInv'
<1> DEFINE g == r.grid
<1>1. g \in Grids /\ r.of \in Terminals /\ SetLocal(g)
  BY DEF GridInv, GridTypeOK, Shape, Resized
<1>2. /\ resizes' = resizes \ {r} /\ outlived' = (r.of # NoTerminal /\ r.of \notin leaving \cup {attached})
      /\ UNCHANGED <<foreground, attached, leaving, pathVars>>
  BY DEF Resized
<1> HIDE DEF g
<1>3. /\ current' = g /\ limit' = g /\ holder' \in {"nobody", "local", "reader"} /\ overtaken' \in BOOLEAN
      /\ forgotten' = FALSE /\ UNCHANGED <<announcing, teller>> /\ InHandIsCurrent' /\ SaidIsCurrent'
  BY <1>1, <1>2, SetLocalKeeps DEF pathVars
<1>4. GridTypeOK'
  BY <1>1, <1>2, <1>3 DEF GridInv, GridTypeOK, pathVars
<1>5. Shape'
  BY <1>2, <1>3 DEF GridInv, Shape
<1>6. LimitHolds'
  <2>1. current' = limit' /\ limit' # 0 /\ current' <= limit'
    BY <1>1, <1>3 DEF GridAssumption
  <2>2. ~outlived' => r.of \in leaving \cup {attached} /\ r.of # NoTerminal
    BY <1>1, <1>2 DEF GridAssumption
  <2>3. ~outlived' => attached' # NoTerminal \/ leaving' # {}
    BY <1>2, <2>2
  <2>. QED BY <2>1, <2>3 DEF LimitHolds
<1>. QED BY <1>3, <1>4, <1>5, <1>6 DEF GridInv

\* Terminals come, ask, go, and say so.
LEMMA TerminalKeeps ==
  ASSUME GridAssumption, GridInv,
         \/ Detach
         \/ \E t \in Terminals : Attach(t) \/ SayLeft(t)
         \/ \E g \in Grids : Resize(g)
  PROVE  GridInv'
<1> USE DEF controlVars, pathVars
<1>1. UNCHANGED <<current, announcing, holder, teller, overtaken, pathVars>>
  BY DEF Detach, Attach, SayLeft, Resize
<1>2. InHandIsCurrent' /\ SaidIsCurrent'
  BY <1>1 DEF GridInv, InHandIsCurrent, SaidIsCurrent, Said
<1>3. CASE Detach
  BY <1>1, <1>2, <1>3 DEF Detach, GridInv, GridTypeOK, Shape, LimitHolds
<1>4. ASSUME NEW t \in Terminals, Attach(t) PROVE GridInv'
  BY <1>1, <1>2, <1>4 DEF Attach, GridInv, GridTypeOK, Shape, LimitHolds, GridAssumption
<1>5. ASSUME NEW t \in Terminals, SayLeft(t) PROVE GridInv'
  BY <1>1, <1>2, <1>5 DEF SayLeft, GridInv, GridTypeOK, Shape, LimitHolds
<1>6. ASSUME NEW g \in Grids, Resize(g) PROVE GridInv'
  <2>1. GridTypeOK'
    BY <1>1, <1>6 DEF Resize, GridInv, GridTypeOK
  <2>2. Shape' /\ LimitHolds'
    BY <1>1, <1>6 DEF Resize, GridInv, Shape, LimitHolds
  <2>. QED BY <1>2, <2>1, <2>2 DEF GridInv
<1>. QED BY <1>3, <1>4, <1>5, <1>6

\* A message goes from the queue to the socket: the last one said stays the last.
LEMMA WriteNextKeeps == ASSUME GridAssumption, GridInv, WriteNext PROVE GridInv'
<1>1. /\ outgoing \in Seq(Grids) /\ outgoing # <<>> /\ socketOut \in Seq(Grids)
      /\ socketOut' = Append(socketOut, Head(outgoing)) /\ outgoing' = Tail(outgoing)
      /\ UNCHANGED <<controlVars, link, socketIn, takes, dials, hostGrid, attachVars>>
  BY DEF WriteNext, GridInv, GridTypeOK
<1>2. Head(outgoing) = outgoing[1] /\ Head(outgoing) \in Grids
  BY <1>1
<1>3. /\ outgoing' \in Seq(Grids) /\ Len(outgoing') = Len(outgoing) - 1
      /\ \A i \in 1..Len(outgoing') : outgoing'[i] = outgoing[i + 1]
  BY <1>1, HeadTailProperties
<1>4. socketOut' \in Seq(Grids) /\ socketOut' # <<>> /\ socketOut'[Len(socketOut')] = outgoing[1]
  BY <1>1, <1>2, AppendProperties
<1>5. Said' = Said
  <2>1. Len(outgoing) \in Nat /\ Len(outgoing) > 0
    BY <1>1
  <2>2. CASE Len(outgoing) = 1
    BY <1>1, <1>3, <1>4, <2>2 DEF Said
  <2>3. CASE Len(outgoing) # 1
    <3>1. outgoing' # <<>> /\ outgoing'[Len(outgoing')] = outgoing[Len(outgoing)]
      BY <1>3, <2>1, <2>3
    <3>. QED BY <1>1, <3>1 DEF Said
  <2>. QED BY <2>2, <2>3
<1>6. GridTypeOK'
  BY <1>1, <1>3, <1>4 DEF GridInv, GridTypeOK, controlVars, attachVars
<1>7. Shape' /\ LimitHolds' /\ InHandIsCurrent' /\ SaidIsCurrent'
  BY <1>1, <1>5 DEF GridInv, Shape, LimitHolds, InHandIsCurrent, SaidIsCurrent, controlVars, attachVars
<1>. QED BY <1>6, <1>7 DEF GridInv

\* A socket that breaks keeps a prefix.
LEMMA Prefix ==
  ASSUME NEW S, NEW s \in Seq(S), NEW n \in 0..Len(s)
  PROVE  SubSeq(s, 1, n) \in Seq(S)
<1>1. \A i \in 1..n : s[i] \in S
  OBVIOUS
<1>. QED BY <1>1, SubSeqProperties

\* What is left to read after it broke.
LEMMA SocketEndsType ==
  ASSUME GridTypeOK, SocketEnds
  PROVE  link' = "down" /\ socketIn' \in Seq(Grids \cup {Features})
  BY Prefix DEF SocketEnds, GridTypeOK

\* Nothing is claimed of a connection that is down.
LEMMA LoseSocketKeeps == ASSUME GridAssumption, GridInv, LoseSocket PROVE GridInv'
<1>1. link' = "down" /\ socketIn' \in Seq(Grids \cup {Features})
  BY SocketEndsType DEF LoseSocket, GridInv
<1>2. socketOut' \in Seq(Grids) /\ UNCHANGED <<controlVars, outgoing, takes, dials, hostGrid, attachVars>>
  BY Prefix DEF LoseSocket, GridInv, GridTypeOK
<1>3. GridTypeOK'
  BY <1>1, <1>2 DEF GridInv, GridTypeOK, controlVars, attachVars
<1>4. Shape' /\ LimitHolds' /\ InHandIsCurrent' /\ SaidIsCurrent'
  BY <1>1, <1>2 DEF GridInv, Shape, LimitHolds, InHandIsCurrent, SaidIsCurrent, controlVars, attachVars
<1>. QED BY <1>3, <1>4 DEF GridInv

\* A new socket has not been greeted yet.
LEMMA RedialKeeps == ASSUME GridAssumption, GridInv, Redial PROVE GridInv'
<1>1. /\ link' = "dialed" /\ dials' = dials + 1 /\ takes' \in BOOLEAN
      /\ UNCHANGED <<controlVars, outgoing, socketOut, hostGrid, attachVars>>
  BY DEF Redial
<1>2. socketIn' \in Seq(Grids \cup {Features})
  <2>1. socketIn \in Seq(Grids \cup {Features}) /\ Features \in Grids \cup {Features}
    BY DEF GridInv, GridTypeOK
  <2>2. Append(socketIn, Features) \in Seq(Grids \cup {Features})
    BY <2>1, AppendProperties
  <2>. QED BY <2>1, <2>2 DEF Redial
<1>3. GridTypeOK'
  BY <1>1, <1>2 DEF GridInv, GridTypeOK, controlVars, attachVars
<1>4. Shape' /\ LimitHolds' /\ InHandIsCurrent' /\ SaidIsCurrent'
  BY <1>1 DEF GridInv, Shape, LimitHolds, InHandIsCurrent, SaidIsCurrent, controlVars, attachVars
<1>. QED BY <1>3, <1>4 DEF GridInv

\* Greeted, the host has not been told that announcements are understood.
LEMMA GreetKeeps == ASSUME GridAssumption, GridInv, Greet PROVE GridInv'
<1>1. GridTypeOK'
  BY DEF Greet, GridInv, GridTypeOK, attachVars
<1>2. Shape' /\ LimitHolds' /\ InHandIsCurrent' /\ SaidIsCurrent'
  BY DEF Greet, GridInv, Shape, LimitHolds, InHandIsCurrent, SaidIsCurrent, attachVars
<1>. QED BY <1>1, <1>2 DEF GridInv

\* The relay adopts the grid, or closes the socket over it.
LEMMA AdoptKeeps == ASSUME GridAssumption, GridInv, Adopt PROVE GridInv'
<1>1. socketOut \in Seq(Grids) /\ socketOut # <<>> /\ UNCHANGED <<controlVars, outgoing, takes, dials, attachVars>>
  BY DEF Adopt, GridInv, GridTypeOK
<1>2. CASE hostGrid' = Head(socketOut) /\ socketOut' = Tail(socketOut) /\ UNCHANGED <<link, socketIn>>
  <2>1. /\ hostGrid' \in Grids /\ hostGrid' = socketOut[1] /\ socketOut' \in Seq(Grids)
        /\ Len(socketOut') = Len(socketOut) - 1 /\ \A i \in 1..Len(socketOut') : socketOut'[i] = socketOut[i + 1]
    BY <1>1, <1>2, HeadTailProperties
  <2>2. Said' = Said
    <3>1. Len(socketOut) \in Nat /\ Len(socketOut) > 0
      BY <1>1
    <3>2. CASE outgoing # <<>>
      BY <1>1, <3>2 DEF Said
    <3>3. CASE outgoing = <<>> /\ Len(socketOut) = 1
      BY <1>1, <2>1, <3>3 DEF Said
    <3>4. CASE outgoing = <<>> /\ Len(socketOut) > 1
      <4>1. socketOut' # <<>> /\ socketOut'[Len(socketOut')] = socketOut[Len(socketOut)]
        BY <2>1, <3>1, <3>4
      <4>. QED BY <1>1, <3>4, <4>1 DEF Said
    <3>. QED BY <3>1, <3>2, <3>3, <3>4
  <2>3. GridTypeOK'
    BY <1>1, <1>2, <2>1 DEF GridInv, GridTypeOK, controlVars, attachVars
  <2>4. Shape' /\ LimitHolds' /\ InHandIsCurrent' /\ SaidIsCurrent'
    BY <1>1, <1>2, <2>2 DEF GridInv, Shape, LimitHolds, InHandIsCurrent, SaidIsCurrent, controlVars, attachVars
  <2>. QED BY <2>3, <2>4 DEF GridInv
<1>3. CASE socketOut' = <<>> /\ hostGrid' = hostGrid /\ SocketEnds
  <2>1. link' = "down" /\ socketIn' \in Seq(Grids \cup {Features})
    BY <1>3, SocketEndsType DEF GridInv
  <2>2. GridTypeOK'
    BY <1>1, <1>3, <2>1 DEF GridInv, GridTypeOK, controlVars, attachVars
  <2>3. Shape' /\ LimitHolds' /\ InHandIsCurrent' /\ SaidIsCurrent'
    BY <1>1, <2>1 DEF GridInv, Shape, LimitHolds, InHandIsCurrent, SaidIsCurrent, controlVars, attachVars
  <2>. QED BY <2>2, <2>3 DEF GridInv
<1>. QED BY <1>2, <1>3 DEF Adopt

\* A request only waits to be read.
LEMMA GridRequestKeeps == ASSUME GridAssumption, GridInv, NEW g \in Grids, GridRequest(g) PROVE GridInv'
<1>1. socketIn' = Append(socketIn, g)
      /\ UNCHANGED <<controlVars, outgoing, link, socketOut, takes, dials, hostGrid, attachVars>>
  BY DEF GridRequest
<1>2. socketIn \in Seq(Grids \cup {Features}) /\ g \in Grids \cup {Features}
  BY DEF GridInv, GridTypeOK
<1>3. socketIn' \in Seq(Grids \cup {Features})
  BY <1>1, <1>2, AppendProperties
<1>4. GridTypeOK'
  BY <1>1, <1>3 DEF GridInv, GridTypeOK, controlVars, attachVars
<1>5. Shape' /\ LimitHolds' /\ InHandIsCurrent' /\ SaidIsCurrent'
  BY <1>1 DEF GridInv, Shape, LimitHolds, InHandIsCurrent, SaidIsCurrent, Said, controlVars, attachVars
<1>. QED BY <1>4, <1>5 DEF GridInv

\* One case for each action.
LEMMA GridStep == ASSUME GridAssumption, GridInv, [GridNext]_gridVars PROVE GridInv'
<1>1. CASE UNCHANGED gridVars
  <2>1. GridTypeOK'
    BY <1>1 DEF gridVars, controlVars, pathVars, attachVars, GridInv, GridTypeOK
  <2>2. Shape' /\ LimitHolds' /\ InHandIsCurrent' /\ SaidIsCurrent'
    BY <1>1 DEF gridVars, controlVars, pathVars, attachVars, GridInv, Shape, LimitHolds, InHandIsCurrent,
                SaidIsCurrent, Said
  <2>. QED BY <2>1, <2>2 DEF GridInv
<1>2. CASE Announce \/ ReadRelay \/ ReadCurrent \/ Tell
  BY <1>2, AnnounceKeeps, ReadRelayKeeps, ReadCurrentKeeps, TellKeeps
<1>3. CASE Detach \/ \E t \in Terminals : Attach(t) \/ SayLeft(t)
  BY <1>3, TerminalKeeps
<1>4. CASE \E g \in Grids : ForegroundResized(g) \/ Resize(g) \/ GridRequest(g)
  BY <1>4, ForegroundKeeps, TerminalKeeps, GridRequestKeeps
<1>5. CASE \E r \in resizes : Resized(r)
  BY <1>5, ResizedKeeps
<1>6. CASE WriteNext \/ LoseSocket \/ Redial \/ Greet \/ Adopt
  BY <1>6, WriteNextKeeps, LoseSocketKeeps, RedialKeeps, GreetKeeps, AdoptKeeps
<1>. QED BY <1>1, <1>2, <1>3, <1>4, <1>5, <1>6 DEF GridNext

\* The invariant holds after any number of steps.
LEMMA GridCorrect == ASSUME GridAssumption PROVE GridSpec => []GridInv
  BY GridInitHolds, GridStep, PTL DEF GridSpec

\* The PTY, the limit and the relay are always at a grid that somebody asked for (terminal_grid.go:168-219).
THEOREM GridTypeCorrect == ASSUME GridAssumption PROVE GridSpec => []GridTypeOK
<1>1. GridInv => GridTypeOK
  BY DEF GridInv
<1>. QED BY <1>1, GridCorrect, PTL

\* Every change is announced, starting with the grid as it is (terminal_grid.go:221-222): with nothing
\* under way the relay has the PTY's grid, for any grids, terminals, capacity of the queue and number of sockets,
\* unless the grid was changed between RelayTakesGrid's reading and telling it.
THEOREM RelayFollowsGrid == ASSUME GridAssumption PROVE GridSpec => []GridFollows
<1>1. GridInv => GridFollows
  BY DEF GridInv, GridFollows, SaidIsCurrent, Said
<1>. QED BY <1>1, GridCorrect, PTL

\* The PTY is never wider than the local terminal's limit (terminal_grid.go:124-126, 190-203), there is no
\* limit that no detach would clear (sessions_unix.go:301-302), and a foreground terminal stays one until
\* another leaves, with the two exceptions the history names.
THEOREM LocalTerminalLimits == ASSUME GridAssumption PROVE GridSpec => []LimitHolds
<1>1. GridInv => LimitHolds
  BY DEF GridInv
<1>. QED BY <1>1, GridCorrect, PTL

------------------------------------------------------------------------------
(* Who may type.                                                              *)

InputFrame == [who : Typists \cup {Agent}, at : Nat]

\* What the program was given, and then what is under way to it.
Line == typed \o inputs

\* Nobody typed later than now.
RecentIn(l, t) == \A i \in 1..Len(l) : l[i].at <= t

\* Who has not come has not typed; whoever is there renewed its lease shortly before it last typed.
SeatedIn(l, s, ty) ==
  \A i \in 1..Len(l), v \in Typists :
    l[i].who = v => s[v] # "new" /\ (s[v] = "in" => l[i].at < ty[v] + Refresh)

\* Whoever types after one who is still there waited for that one's lease.
WaitedIn(l, s) ==
  \A i, j \in 1..Len(l), v \in Typists :
    i < j /\ l[i].who = v /\ s[v] = "in" /\ l[j].who # v => l[j].at - l[i].at > Lease - Refresh

UncutIn(l) ==
  \A i, j, k \in 1..Len(l) :
    i < j /\ j < k /\ l[i].who = l[k].who /\ l[j].who # l[i].who /\ l[i].who # Agent
      => l[k].at - l[i].at > Lease - Refresh

LineInv(l, t, s, ty) == RecentIn(l, t) /\ SeatedIn(l, s, ty) /\ WaitedIn(l, s) /\ UncutIn(l)

Clock ==
  /\ \A v \in Typists : typingAt[v] <= now
  /\ localAt <= now /\ heardAt <= now
  /\ heardAt # 0 => hostOpen /\ heardAt < localAt + Refresh
  /\ sinceLocal > Lease - Refresh

InputInv == ArbitrationTypeOK /\ Clock /\ LineInv(Line, now, seat, typingAt)

\* The elements of the line, in two parts.
LEMMA LineProperties ==
  ASSUME NEW a \in Seq(InputFrame), NEW b \in Seq(InputFrame), NEW c, c = a \o b
  PROVE  /\ c \in Seq(InputFrame) /\ Len(a) \in Nat /\ Len(b) \in Nat /\ Len(c) = Len(a) + Len(b)
         /\ \A i \in 1..Len(a) + Len(b) : c[i] = IF i <= Len(a) THEN a[i] ELSE b[i - Len(a)]
  BY ConcatProperties

\* What a frame of the line is.
LEMMA FrameOf ==
  ASSUME NEW l \in Seq(InputFrame), NEW i \in 1..Len(l)
  PROVE  l[i] \in InputFrame /\ l[i].who \in Typists \cup {Agent} /\ l[i].at \in Nat
<1>1. l[i] \in InputFrame
  BY ElementOfSeq
<1>. QED BY <1>1 DEF InputFrame

\* What the two durations are.
LEMMA Durations ==
  ASSUME ArbitrationAssumption
  PROVE  Lease \in Nat /\ Refresh \in Nat /\ 0 < Refresh /\ Refresh <= Lease
  BY DEF ArbitrationAssumption

\* Sums and differences of times.
LEMMA Waits ==
  ASSUME NEW p \in Nat, NEW q \in Nat, NEW r \in Nat, NEW lease \in Nat, NEW refresh \in Nat,
         p < q + refresh, r - q >= lease
  PROVE  r - p > lease - refresh
  OBVIOUS

LEMMA WaitsLonger ==
  ASSUME NEW p \in Nat, NEW q \in Nat, NEW r \in Nat, NEW lease \in Nat, NEW refresh \in Nat,
         q - p > lease - refresh, q <= r
  PROVE  r - p > lease - refresh
  OBVIOUS

\* A line that lost some of its frames.
LEMMA Thinned ==
  ASSUME NEW l, NEW m, NEW e, NEW t, NEW s, NEW ty, LineInv(l, t, s, ty), Len(m) \in Nat, Len(l) \in Nat,
         \A i \in 1..Len(m) : e[i] \in 1..Len(l) /\ m[i] = l[e[i]],
         \A i, j \in 1..Len(m) : i < j => e[i] < e[j]
  PROVE  LineInv(m, t, s, ty)
<1>1. RecentIn(m, t)
  BY DEF LineInv, RecentIn
<1>2. SeatedIn(m, s, ty)
  <2>1. \A i \in 1..Len(l), v \in Typists :
          l[i].who = v => s[v] # "new" /\ (s[v] = "in" => l[i].at < ty[v] + Refresh)
    BY DEF LineInv, SeatedIn
  <2> SUFFICES ASSUME NEW i \in 1..Len(m), NEW v \in Typists, m[i].who = v
               PROVE  s[v] # "new" /\ (s[v] = "in" => m[i].at < ty[v] + Refresh)
    BY DEF SeatedIn
  <2>2. e[i] \in 1..Len(l) /\ m[i] = l[e[i]]
    OBVIOUS
  <2>. QED BY <2>1, <2>2
<1>3. WaitedIn(m, s)
  <2> SUFFICES ASSUME NEW i \in 1..Len(m), NEW j \in 1..Len(m), NEW v \in Typists,
                      i < j, m[i].who = v, s[v] = "in", m[j].who # v
               PROVE  m[j].at - m[i].at > Lease - Refresh
    BY DEF WaitedIn
  <2>1. e[i] \in 1..Len(l) /\ e[j] \in 1..Len(l) /\ e[i] < e[j] /\ m[i] = l[e[i]] /\ m[j] = l[e[j]]
    OBVIOUS
  <2>. QED BY <2>1 DEF LineInv, WaitedIn
<1>4. UncutIn(m)
  <2> SUFFICES ASSUME NEW i \in 1..Len(m), NEW j \in 1..Len(m), NEW k \in 1..Len(m), i < j, j < k,
                      m[i].who = m[k].who, m[j].who # m[i].who, m[i].who # Agent
               PROVE  m[k].at - m[i].at > Lease - Refresh
    BY DEF UncutIn
  <2>1. /\ e[i] \in 1..Len(l) /\ e[j] \in 1..Len(l) /\ e[k] \in 1..Len(l) /\ e[i] < e[j] /\ e[j] < e[k]
        /\ m[i] = l[e[i]] /\ m[j] = l[e[j]] /\ m[k] = l[e[k]]
    OBVIOUS
  <2>2. \A a, b, c \in 1..Len(l) :
          a < b /\ b < c /\ l[a].who = l[c].who /\ l[b].who # l[a].who /\ l[a].who # Agent
            => l[c].at - l[a].at > Lease - Refresh
    BY DEF LineInv, UncutIn
  <2>3. l[e[i]].who = l[e[k]].who /\ l[e[j]].who # l[e[i]].who /\ l[e[i]].who # Agent
    BY <2>1
  <2>4. l[e[k]].at - l[e[i]].at > Lease - Refresh
    BY <2>1, <2>2, <2>3
  <2>. QED BY <2>1, <2>4
<1>. QED BY <1>1, <1>2, <1>3, <1>4 DEF LineInv

\* The clock goes on, leases are renewed.
LEMMA Later ==
  ASSUME ArbitrationAssumption, NEW l \in Seq(InputFrame), NEW t \in Nat, NEW u \in Nat, t <= u, NEW s,
         NEW ty \in [Typists -> Nat], NEW uy \in [Typists -> Nat], \A v \in Typists : s[v] = "in" => ty[v] <= uy[v],
         LineInv(l, t, s, ty)
  PROVE  LineInv(l, u, s, uy)
<1> USE DEF ArbitrationAssumption
<1>0. \A i \in 1..Len(l) : l[i].at \in Nat
  BY FrameOf
<1>1. RecentIn(l, u)
  BY <1>0 DEF LineInv, RecentIn
<1>2. SeatedIn(l, s, uy)
  <2> SUFFICES ASSUME NEW i \in 1..Len(l), NEW v \in Typists, l[i].who = v
               PROVE  s[v] # "new" /\ (s[v] = "in" => l[i].at < uy[v] + Refresh)
    BY DEF SeatedIn
  <2>1. s[v] # "new" /\ (s[v] = "in" => l[i].at < ty[v] + Refresh /\ ty[v] <= uy[v])
    BY DEF LineInv, SeatedIn
  <2>2. l[i].at \in Nat /\ ty[v] \in Nat /\ uy[v] \in Nat /\ Refresh \in Nat
    BY <1>0
  <2>. QED BY <2>1, <2>2
<1>. QED BY <1>1, <1>2 DEF LineInv

\* w types: it is there, nobody else's lease runs, and its own has been renewed.
LEMMA Typed ==
  ASSUME ArbitrationAssumption, NEW l \in Seq(InputFrame), NEW m \in Seq(InputFrame), NEW t \in Nat,
         NEW s \in [Typists -> {"new", "in", "left"}], NEW ty \in [Typists -> Nat], LineInv(l, t, s, ty),
         NEW w \in Typists \cup {Agent},
         Len(m) = Len(l) + 1, \A i \in 1..Len(l) : m[i] = l[i], m[Len(m)] = [who |-> w, at |-> t],
         \A v \in Typists \ {w} : s[v] = "in" => t - ty[v] >= Lease,
         w \in Typists => s[w] = "in" /\ t < ty[w] + Refresh
  PROVE  LineInv(m, t, s, ty)
<1> USE DEF ArbitrationAssumption
<1> DEFINE n == Len(l)
<1>0. n \in Nat /\ Len(m) = n + 1 /\ m[n + 1].who = w /\ m[n + 1].at = t
      /\ \A i \in 1..n : m[i] = l[i] /\ l[i].at \in Nat /\ l[i].who \in Typists \cup {Agent}
  <2>1. n \in Nat /\ m[n + 1] = [who |-> w, at |-> t]
    OBVIOUS
  <2>2. \A i \in 1..n : l[i].at \in Nat /\ l[i].who \in Typists \cup {Agent}
    BY FrameOf
  <2>. QED BY <2>1, <2>2
<1> HIDE DEF n
<1>1. RecentIn(l, t) /\ SeatedIn(l, s, ty) /\ WaitedIn(l, s) /\ UncutIn(l) /\ Len(l) = n
  BY DEF LineInv, n
<1>2. RecentIn(m, t)
  BY <1>0, <1>1 DEF RecentIn
<1>3. SeatedIn(m, s, ty)
  <2> SUFFICES ASSUME NEW i \in 1..(n + 1), NEW v \in Typists, m[i].who = v
               PROVE  s[v] # "new" /\ (s[v] = "in" => m[i].at < ty[v] + Refresh)
    BY <1>0 DEF SeatedIn
  <2>1. CASE i = n + 1
    BY <1>0, <2>1
  <2>2. CASE i \in 1..n
    BY <1>0, <1>1, <2>2 DEF SeatedIn
  <2>. QED BY <1>0, <2>1, <2>2
<1>4. ASSUME NEW i \in 1..n, NEW v \in Typists, m[i].who = v, s[v] = "in", w # v PROVE t - m[i].at > Lease - Refresh
  <2>1. m[i].at < ty[v] + Refresh /\ t - ty[v] >= Lease /\ m[i].at \in Nat /\ ty[v] \in Nat
    BY <1>0, <1>1, <1>4 DEF SeatedIn
  <2>. QED BY <2>1, Durations, Waits
<1>5. WaitedIn(m, s)
  <2> SUFFICES ASSUME NEW i \in 1..(n + 1), NEW j \in 1..(n + 1), NEW v \in Typists,
                      i < j, m[i].who = v, s[v] = "in", m[j].who # v
               PROVE  m[j].at - m[i].at > Lease - Refresh
    BY <1>0 DEF WaitedIn
  <2>1. i \in 1..n
    BY <1>0
  <2>2. CASE j = n + 1
    BY <1>0, <1>4, <2>1, <2>2
  <2>3. CASE j \in 1..n
    <3>1. m[i] = l[i] /\ m[j] = l[j]
      BY <1>0, <2>1, <2>3
    <3>2. l[j].at - l[i].at > Lease - Refresh
      BY <1>1, <2>1, <2>3, <3>1 DEF WaitedIn
    <3>. QED BY <3>1, <3>2
  <2>. QED BY <1>0, <2>2, <2>3
<1>6. UncutIn(m)
  <2> SUFFICES ASSUME NEW i \in 1..(n + 1), NEW j \in 1..(n + 1), NEW k \in 1..(n + 1), i < j, j < k,
                      m[i].who = m[k].who, m[j].who # m[i].who, m[i].who # Agent
               PROVE  m[k].at - m[i].at > Lease - Refresh
    BY <1>0 DEF UncutIn
  <2>1. i \in 1..n /\ j \in 1..n
    BY <1>0
  <2>2. CASE k = n + 1
    <3>1. w \in Typists /\ l[i].who = w /\ s[w] = "in" /\ l[j].who # w
      BY <1>0, <2>1, <2>2
    <3>2. l[j].at - l[i].at > Lease - Refresh
      BY <1>1, <2>1, <3>1 DEF WaitedIn
    <3>3. l[j].at <= t /\ l[j].at \in Nat /\ l[i].at \in Nat
      BY <1>0, <1>1, <2>1 DEF RecentIn
    <3>4. m[k].at = t /\ m[i].at = l[i].at
      BY <1>0, <2>1, <2>2
    <3>. QED BY <3>2, <3>3, <3>4, Durations, WaitsLonger
  <2>3. CASE k \in 1..n
    <3>1. m[i] = l[i] /\ m[j] = l[j] /\ m[k] = l[k]
      BY <1>0, <2>1, <2>3
    <3>2. l[k].at - l[i].at > Lease - Refresh
      BY <1>1, <2>1, <2>3, <3>1 DEF UncutIn
    <3>. QED BY <3>1, <3>2
  <2>. QED BY <1>0, <2>2, <2>3
<1>. QED BY <1>2, <1>3, <1>5, <1>6 DEF LineInv

\* The line is a sequence of frames.
LEMMA InputTyped ==
  ASSUME InputInv
  PROVE  typed \in Seq(InputFrame) /\ inputs \in Seq(InputFrame) /\ Line \in Seq(InputFrame)
<1>1. typed \in Seq(InputFrame) /\ inputs \in Seq(InputFrame)
  BY DEF InputInv, ArbitrationTypeOK, InputFrame
<1>. QED BY <1>1, LineProperties DEF Line

\* Nobody has typed.
LEMMA ArbitrationInitHolds == ASSUME ArbitrationAssumption, ArbitrationInit PROVE InputInv
<1> USE DEF ArbitrationAssumption
<1>1. ArbitrationTypeOK /\ Clock
  <2>1. inputs \in Seq([who : Typists \cup {Agent}, at : Nat]) /\ typed \in Seq([who : Typists \cup {Agent}, at : Nat])
    BY DEF ArbitrationInit
  <2>2. ArbitrationTypeOK
    <3>1. now \in Nat /\ seat \in [Typists -> {"new", "in", "left"}] /\ typingAt \in [Typists -> Nat]
      BY DEF ArbitrationInit
    <3>2. {localAt, wroteAt, heardAt, sinceLocal} \subseteq Nat
      BY DEF ArbitrationInit
    <3>3. hostOpen \in BOOLEAN /\ notice \in BOOLEAN /\ sealing \in BOOLEAN
      BY DEF ArbitrationInit
    <3>4. {hostOpen, notice, sealing} \subseteq BOOLEAN
      BY <3>3
    <3>. QED BY <2>1, <3>1, <3>2, <3>4 DEF ArbitrationTypeOK
  <2>3. Clock
    BY DEF ArbitrationInit, Clock
  <2>. QED BY <2>2, <2>3
<1>2. Len(Line) = 0
  BY DEF ArbitrationInit, Line
<1>3. LineInv(Line, now, seat, typingAt)
  BY <1>2 DEF LineInv, RecentIn, SeatedIn, WaitedIn, UncutIn
<1>. QED BY <1>1, <1>3 DEF InputInv

\* A renewed lease has most of its time left.
LEMMA RenewedProperties ==
  ASSUME ArbitrationAssumption, InputInv, NEW v \in Typists
  PROVE  /\ Renewed(v) \in [Typists -> Nat] /\ now < Renewed(v)[v] + Refresh
         /\ \A w \in Typists : typingAt[w] <= Renewed(v)[w] /\ Renewed(v)[w] <= now
         /\ \A w \in Typists \ {v} : Renewed(v)[w] = typingAt[w]
<1> USE DEF ArbitrationAssumption, InputInv, ArbitrationTypeOK, Clock
<1>1. CASE now - typingAt[v] < Refresh
  BY <1>1 DEF Renewed
<1>2. CASE ~(now - typingAt[v] < Refresh)
  <2>1. Renewed(v) = [typingAt EXCEPT ![v] = now]
    BY <1>2 DEF Renewed
  <2>. QED BY <2>1
<1>. QED BY <1>1, <1>2

\* What nobody's lease forbids is forwarded long enough after the relay heard of the keyboard.
LEMMA PassedInTime ==
  ASSUME ArbitrationAssumption, InputInv, ~LocalActive, NEW w, Pass(w)
  PROVE  sinceLocal' \in Nat /\ sinceLocal' > Lease - Refresh
<1>1. now \in Nat /\ localAt \in Nat /\ heardAt \in Nat /\ localAt <= now /\ heardAt <= now
      /\ (heardAt # 0 => hostOpen /\ heardAt < localAt + Refresh)
  BY DEF InputInv, ArbitrationTypeOK, Clock
<1>2. sinceLocal' = IF heardAt = 0 THEN Lease ELSE now - heardAt
  BY DEF Pass
<1>3. CASE heardAt = 0
  BY <1>2, <1>3, Durations
<1>4. CASE heardAt # 0
  <2>1. sinceLocal' = now - heardAt /\ sinceLocal' \in Nat
    BY <1>1, <1>2, <1>4
  <2>2. ~(now - localAt < Lease)
    BY <1>1, <1>4 DEF LocalActive
  <2>3. now - localAt >= Lease
    BY <1>1, <2>2, Durations
  <2>4. now - heardAt > Lease - Refresh
    BY <1>1, <1>4, <2>3, Durations, Waits
  <2>. QED BY <2>1, <2>4
<1>. QED BY <1>3, <1>4

\* The line after w's input was forwarded, or was not for want of a host.
LEMMA PassedLine ==
  ASSUME ArbitrationAssumption, InputInv, NEW w \in Typists \cup {Agent}, Pass(w), typed' = typed,
         NEW ty \in [Typists -> Nat], \A v \in Typists : typingAt[v] <= ty[v],
         \A v \in Typists \ {w} : seat[v] = "in" => now - ty[v] >= Lease,
         w \in Typists => seat[w] = "in" /\ now < ty[w] + Refresh
  PROVE  inputs' \in Seq(InputFrame) /\ LineInv(Line', now, seat, ty)
<1>1. now \in Nat /\ seat \in [Typists -> {"new", "in", "left"}] /\ typingAt \in [Typists -> Nat]
  BY DEF InputInv, ArbitrationTypeOK
<1>2. LineInv(Line, now, seat, ty) /\ typed \in Seq(InputFrame) /\ inputs \in Seq(InputFrame)
      /\ Line \in Seq(InputFrame)
  <2>1. typed \in Seq(InputFrame) /\ inputs \in Seq(InputFrame) /\ Line \in Seq(InputFrame)
    BY InputTyped
  <2>2. LineInv(Line, now, seat, typingAt) /\ now <= now
    BY <1>1 DEF InputInv
  <2>3. LineInv(Line, now, seat, ty)
    BY <1>1, <2>1, <2>2, Later
  <2>. QED BY <2>1, <2>3
<1>3. CASE inputs' = inputs
  BY <1>2, <1>3 DEF Line
<1>4. CASE inputs' = Append(inputs, [who |-> w, at |-> now])
  <2> DEFINE f == [who |-> w, at |-> now]
  <2>1. f \in InputFrame
    BY <1>1 DEF InputFrame
  <2> HIDE DEF f
  <2>2. /\ inputs' \in Seq(InputFrame) /\ Len(inputs') = Len(inputs) + 1 /\ Len(inputs) \in Nat
        /\ \A i \in 1..Len(inputs) : inputs'[i] = inputs[i]
        /\ inputs'[Len(inputs) + 1] = f
    BY <1>2, <1>4, <2>1, AppendProperties DEF f
  <2>3. /\ Len(typed) \in Nat /\ Len(Line) = Len(typed) + Len(inputs)
        /\ \A i \in 1..Len(typed) + Len(inputs) : Line[i] = IF i <= Len(typed) THEN typed[i] ELSE inputs[i - Len(typed)]
    BY <1>2, LineProperties DEF Line
  <2>4. /\ Line' \in Seq(InputFrame) /\ Len(Line') = Len(typed) + Len(inputs) + 1
        /\ \A i \in 1..Len(typed) + Len(inputs) + 1 :
             Line'[i] = IF i <= Len(typed) THEN typed[i] ELSE inputs'[i - Len(typed)]
    <3>1. Line' = typed \o inputs'
      BY DEF Line
    <3>2. /\ Line' \in Seq(InputFrame) /\ Len(Line') = Len(typed) + Len(inputs')
          /\ \A i \in 1..Len(typed) + Len(inputs') :
               Line'[i] = IF i <= Len(typed) THEN typed[i] ELSE inputs'[i - Len(typed)]
      <4>1. typed \in Seq(InputFrame) /\ inputs' \in Seq(InputFrame)
        BY <1>2, <2>2
      <4>. QED BY <3>1, <4>1, LineProperties
    <3>. QED BY <2>2, <2>3, <3>2
  <2>5. Len(Line') = Len(Line) + 1 /\ \A i \in 1..Len(Line) : Line'[i] = Line[i]
    <3>1. ASSUME NEW i \in 1..Len(Line), i > Len(typed) PROVE i - Len(typed) \in 1..Len(inputs)
      BY <2>2, <2>3, <3>1
    <3>2. ASSUME NEW i \in 1..Len(Line) PROVE Line'[i] = Line[i]
      <4>1. i \in 1..Len(typed) + Len(inputs) /\ i \in 1..Len(typed) + Len(inputs) + 1
        BY <2>2, <2>3
      <4>2. CASE i <= Len(typed)
        BY <2>3, <2>4, <4>1, <4>2
      <4>3. CASE i > Len(typed)
        BY <2>2, <2>3, <2>4, <3>1, <4>1, <4>3
      <4>. QED BY <2>3, <4>1, <4>2, <4>3
    <3>3. Len(Line') = Len(Line) + 1
      BY <2>3, <2>4
    <3>. QED BY <3>2, <3>3
  <2>6. Line'[Len(Line')] = [who |-> w, at |-> now]
    <3> DEFINE n == Len(typed) + Len(inputs) + 1
    <3>1. n \in 1..n /\ ~(n <= Len(typed)) /\ n - Len(typed) = Len(inputs) + 1 /\ Len(Line') = n
      BY <2>2, <2>3, <2>4
    <3>2. Line'[n] = inputs'[n - Len(typed)]
      BY <2>4, <3>1
    <3>. QED BY <2>2, <3>1, <3>2 DEF f
  <2>. QED BY <1>1, <1>2, <2>2, <2>4, <2>5, <2>6, Typed
<1>. QED BY <1>3, <1>4 DEF Pass

\* A browser's input is forwarded under its own lease.
LEMMA InputKeeps == ASSUME ArbitrationAssumption, InputInv, NEW v \in Typists, Input(v) PROVE InputInv'
<1>1. /\ seat[v] = "in" /\ MayType(v) /\ Pass(v) /\ typingAt' = Renewed(v)
      /\ UNCHANGED <<now, seat, hostOpen, localAt, notice, sealing, typed, wroteAt, heardAt>>
  BY DEF Input
<1>2. ~LocalActive /\ \A w \in Typists \ {v} : seat[w] = "in" => now - Renewed(v)[w] >= Lease
  BY <1>1, RenewedProperties DEF MayType, Active, InputInv, ArbitrationTypeOK, ArbitrationAssumption
<1>3. inputs' \in Seq(InputFrame) /\ LineInv(Line', now, seat, Renewed(v))
  BY <1>1, <1>2, PassedLine, RenewedProperties
<1>4. sinceLocal' \in Nat /\ sinceLocal' > Lease - Refresh
  BY <1>1, <1>2, PassedInTime
<1>5. ArbitrationTypeOK'
  BY <1>1, <1>3, <1>4, RenewedProperties DEF InputInv, ArbitrationTypeOK, InputFrame
<1>6. Clock'
  BY <1>1, <1>4, RenewedProperties DEF InputInv, Clock
<1>. QED BY <1>1, <1>3, <1>5, <1>6 DEF InputInv

\* An agent's text is forwarded at the final guard.
LEMMA DispatchKeeps == ASSUME ArbitrationAssumption, InputInv, Dispatch PROVE InputInv'
<1>1. UNCHANGED <<now, seat, typingAt, hostOpen, localAt, notice, typed, wroteAt, heardAt>> /\ sealing' = FALSE
  BY DEF Dispatch, Leases
<1>2. CASE UNCHANGED <<inputs, sinceLocal>>
  BY <1>1, <1>2 DEF InputInv, ArbitrationTypeOK, Clock, Line
<1>3. CASE ~HumanTyping /\ Pass(Agent)
  <2>1. ~LocalActive /\ \A w \in Typists : seat[w] = "in" => now - typingAt[w] >= Lease
    BY <1>3 DEF HumanTyping, Active, InputInv, ArbitrationTypeOK, ArbitrationAssumption
  <2>2. inputs' \in Seq(InputFrame) /\ LineInv(Line', now, seat, typingAt)
    <3>1. /\ Agent \notin Typists /\ typed' = typed /\ now \in Nat /\ typingAt \in [Typists -> Nat]
          /\ \A v \in Typists : typingAt[v] <= typingAt[v]
      BY <1>1 DEF InputInv, ArbitrationTypeOK, ArbitrationAssumption
    <3>2. \A v \in Typists \ {Agent} : seat[v] = "in" => now - typingAt[v] >= Lease
      BY <2>1
    <3>. QED BY <1>3, <3>1, <3>2, PassedLine
  <2>3. sinceLocal' \in Nat /\ sinceLocal' > Lease - Refresh
    BY <1>3, <2>1, PassedInTime
  <2>4. ArbitrationTypeOK' /\ Clock'
    BY <1>1, <2>2, <2>3 DEF InputInv, ArbitrationTypeOK, Clock, InputFrame
  <2>. QED BY <1>1, <2>2, <2>4 DEF InputInv
<1>. QED BY <1>2, <1>3 DEF Dispatch

\* Leases are claimed and given up.
LEMMA ClaimKeeps ==
  ASSUME ArbitrationAssumption, InputInv, NEW v \in Typists, Typing(v) \/ Come(v) \/ Go(v) PROVE InputInv'
<1>0. UNCHANGED <<now, hostOpen, localAt, notice, sealing, inputs, typed, wroteAt, heardAt, sinceLocal>>
  BY DEF Typing, Come, Go
<1>1. Line' = Line /\ Line \in Seq(InputFrame) /\ LineInv(Line, now, seat, typingAt) /\ now \in Nat
      /\ seat \in [Typists -> {"new", "in", "left"}] /\ typingAt \in [Typists -> Nat]
  BY <1>0, InputTyped DEF Line, InputInv, ArbitrationTypeOK
<1>2. CASE Typing(v)
  <2>1. seat' = seat /\ typingAt' = Renewed(v)
    BY <1>2 DEF Typing
  <2>2. LineInv(Line, now, seat, Renewed(v))
    <3>1. Renewed(v) \in [Typists -> Nat] /\ \A w \in Typists : typingAt[w] <= Renewed(v)[w]
      BY RenewedProperties
    <3> HIDE DEF Renewed
    <3>2. now <= now
      BY <1>1
    <3>. QED BY <1>1, <3>1, <3>2, Later
  <2>3. ArbitrationTypeOK' /\ Clock'
    BY <1>0, <2>1, RenewedProperties DEF InputInv, ArbitrationTypeOK, Clock
  <2>. QED BY <1>0, <1>1, <2>1, <2>2, <2>3 DEF InputInv
<1>3. CASE Come(v)
  <2>1. seat[v] = "new" /\ seat' = [seat EXCEPT ![v] = "in"] /\ typingAt' = typingAt
    BY <1>3 DEF Come
  <2>2. LineInv(Line, now, seat', typingAt)
    BY <1>1, <2>1 DEF LineInv, SeatedIn, WaitedIn
  <2>3. ArbitrationTypeOK' /\ Clock'
    BY <1>0, <2>1 DEF InputInv, ArbitrationTypeOK, Clock
  <2>. QED BY <1>0, <1>1, <2>1, <2>2, <2>3 DEF InputInv
<1>4. CASE Go(v)
  <2>1. seat[v] = "in" /\ seat' = [seat EXCEPT ![v] = "left"] /\ typingAt' = [typingAt EXCEPT ![v] = 0]
    BY <1>4 DEF Go
  <2>2. LineInv(Line, now, seat', typingAt')
    BY <1>1, <2>1 DEF LineInv, SeatedIn, WaitedIn
  <2>3. ArbitrationTypeOK' /\ Clock'
    BY <1>0, <1>1, <2>1 DEF InputInv, ArbitrationTypeOK, Clock
  <2>. QED BY <1>0, <1>1, <2>2, <2>3 DEF InputInv
<1>. QED BY <1>2, <1>3, <1>4

\* Steps that leave the line alone.
LEMMA QuietKeeps ==
  ASSUME ArbitrationAssumption, InputInv, Tick \/ Hear \/ AgentAsks \/ Notify \/ LocalWrite \/ Connect PROVE InputInv'
<1>0. UNCHANGED <<seat, typingAt, inputs, typed, sinceLocal>> /\ now' \in Nat /\ now <= now'
  BY DEF Tick, Hear, AgentAsks, Notify, LocalWrite, Connect, Leases, InputInv, ArbitrationTypeOK
<1>1. Line' = Line /\ LineInv(Line, now', seat, typingAt)
  <2>1. Line' = Line /\ Line \in Seq(InputFrame)
    BY <1>0, InputTyped DEF Line
  <2>2. now \in Nat /\ typingAt \in [Typists -> Nat] /\ LineInv(Line, now, seat, typingAt)
    BY DEF InputInv, ArbitrationTypeOK
  <2>3. \A v \in Typists : typingAt[v] <= typingAt[v]
    BY <2>2
  <2>. QED BY <1>0, <2>1, <2>2, <2>3, Later
<1>2. ArbitrationTypeOK'
  BY <1>0 DEF Tick, Hear, AgentAsks, Notify, LocalWrite, Connect, Leases, InputInv, ArbitrationTypeOK
<1>3. Clock'
  <2>1. CASE Hear
    BY <2>1 DEF Hear, InputInv, ArbitrationTypeOK, Clock, ArbitrationAssumption
  <2>2. CASE Tick \/ AgentAsks \/ Notify \/ LocalWrite \/ Connect
    BY <2>2 DEF Tick, AgentAsks, Notify, LocalWrite, Connect, Leases, InputInv, ArbitrationTypeOK, Clock
  <2>. QED BY <2>1, <2>2
<1>. QED BY <1>0, <1>1, <1>2, <1>3 DEF InputInv

\* The host types the next input, or refuses it.
LEMMA TakeInputKeeps == ASSUME ArbitrationAssumption, InputInv, TakeInput PROVE InputInv'
<1>0. UNCHANGED <<now, seat, typingAt, hostOpen, localAt, notice, sealing, heardAt, sinceLocal>>
  BY DEF TakeInput, Leases
<1>1. typed \in Seq(InputFrame) /\ inputs \in Seq(InputFrame) /\ inputs # <<>> /\ inputs' = Tail(inputs)
  BY InputTyped DEF TakeInput
<1>2. /\ Head(inputs) \in InputFrame /\ Head(inputs) = inputs[1]
      /\ inputs' \in Seq(InputFrame) /\ Len(inputs) \in Nat /\ Len(inputs') \in Nat /\ Len(inputs) = Len(inputs') + 1
      /\ \A i \in 1..Len(inputs') : inputs'[i] = inputs[i + 1]
  BY <1>1, HeadTailProperties
<1>3. typed' = typed \/ typed' = Append(typed, Head(inputs))
  BY DEF TakeInput
<1>4. wroteAt' \in Nat
  BY DEF TakeInput, InputInv, ArbitrationTypeOK
<1>5. /\ Len(typed) \in Nat /\ Len(Line) = Len(typed) + Len(inputs)
      /\ \A i \in 1..Len(typed) + Len(inputs) : Line[i] = IF i <= Len(typed) THEN typed[i] ELSE inputs[i - Len(typed)]
  BY <1>1, LineProperties DEF Line
<1>6. typed' \in Seq(InputFrame) /\ LineInv(Line', now, seat, typingAt)
  <2>1. CASE typed' = typed
    <3> DEFINE e == [i \in 1..Len(Line') |-> IF i <= Len(typed) THEN i ELSE i + 1]
    <3>1. /\ Len(Line') = Len(typed) + Len(inputs')
          /\ \A i \in 1..Len(typed) + Len(inputs') :
               Line'[i] = IF i <= Len(typed) THEN typed[i] ELSE inputs'[i - Len(typed)]
      BY <1>1, <1>2, <2>1, LineProperties DEF Line
    <3>2. \A i \in 1..Len(Line') : e[i] \in 1..Len(Line) /\ Line'[i] = Line[e[i]]
      <4> SUFFICES ASSUME NEW i \in 1..Len(Line') PROVE e[i] \in 1..Len(Line) /\ Line'[i] = Line[e[i]]
        OBVIOUS
      <4>1. CASE i <= Len(typed)
        BY <1>2, <1>5, <3>1, <4>1
      <4>2. CASE i > Len(typed)
        <5>1. i - Len(typed) \in 1..Len(inputs') /\ (i - Len(typed)) + 1 = (i + 1) - Len(typed) /\ e[i] = i + 1
          BY <1>2, <1>5, <3>1, <4>2
        <5>2. Line'[i] = inputs[(i + 1) - Len(typed)]
          BY <1>2, <1>5, <3>1, <4>2, <5>1
        <5>3. i + 1 \in 1..Len(Line) /\ ~(i + 1 <= Len(typed))
          BY <1>2, <1>5, <3>1, <4>2
        <5>. QED BY <1>5, <5>1, <5>2, <5>3
      <4>. QED BY <1>5, <3>1, <4>1, <4>2
    <3>3. \A i, j \in 1..Len(Line') : i < j => e[i] < e[j]
      BY <1>5, <1>2, <3>1
    <3>4. Len(Line') \in Nat /\ Len(Line) \in Nat
      BY <1>2, <1>5, <3>1
    <3> HIDE DEF e
    <3>5. LineInv(Line', now, seat, typingAt)
      BY <3>2, <3>3, <3>4, Thinned DEF InputInv
    <3>. QED BY <1>1, <2>1, <3>5
  <2>2. CASE typed' = Append(typed, Head(inputs))
    <3>1. /\ typed' \in Seq(InputFrame) /\ Len(typed') = Len(typed) + 1
          /\ \A i \in 1..Len(typed) : typed'[i] = typed[i]
          /\ typed'[Len(typed) + 1] = inputs[1]
      BY <1>1, <1>2, <2>2, AppendProperties
    <3>2. /\ Len(Line') = Len(typed) + 1 + Len(inputs')
          /\ \A i \in 1..Len(typed) + 1 + Len(inputs') :
               Line'[i] = IF i <= Len(typed) + 1 THEN typed'[i] ELSE inputs'[i - (Len(typed) + 1)]
      <4>1. Line' = typed' \o inputs'
        BY DEF Line
      <4>2. typed' \in Seq(InputFrame) /\ inputs' \in Seq(InputFrame) /\ Len(typed') = Len(typed) + 1
        BY <1>2, <3>1
      <4>3. /\ Len(Line') = Len(typed') + Len(inputs')
            /\ \A i \in 1..Len(typed') + Len(inputs') :
                 Line'[i] = IF i <= Len(typed') THEN typed'[i] ELSE inputs'[i - Len(typed')]
        BY <4>1, <4>2, LineProperties
      <4>. QED BY <4>2, <4>3
    <3> DEFINE e == [i \in 1..Len(Line') |-> i]
    <3>3. \A i \in 1..Len(Line') : Line'[i] = Line[i] /\ i \in 1..Len(Line)
      <4> SUFFICES ASSUME NEW i \in 1..Len(Line') PROVE Line'[i] = Line[i] /\ i \in 1..Len(Line)
        OBVIOUS
      <4>1. CASE i <= Len(typed)
        BY <1>2, <1>5, <3>1, <3>2, <4>1
      <4>2. CASE i = Len(typed) + 1
        BY <1>2, <1>5, <3>1, <3>2, <4>2
      <4>3. CASE i > Len(typed) + 1
        <5>1. i - (Len(typed) + 1) \in 1..Len(inputs') /\ (i - (Len(typed) + 1)) + 1 = i - Len(typed)
          BY <1>2, <1>5, <3>2, <4>3
        <5>2. Line'[i] = inputs[i - Len(typed)]
          BY <1>2, <1>5, <3>2, <4>3, <5>1
        <5>. QED BY <1>2, <1>5, <3>2, <4>3, <5>2
      <4>. QED BY <1>5, <3>2, <4>1, <4>2, <4>3
    <3>4. Len(Line') \in Nat /\ Len(Line) \in Nat
      BY <1>2, <1>5, <3>2
    <3>5. \A i \in 1..Len(Line') : e[i] \in 1..Len(Line) /\ Line'[i] = Line[e[i]]
      BY <3>3
    <3>6. \A i, j \in 1..Len(Line') : i < j => e[i] < e[j]
      OBVIOUS
    <3> HIDE DEF e
    <3>7. LineInv(Line', now, seat, typingAt)
      BY <3>4, <3>5, <3>6, Thinned DEF InputInv
    <3>. QED BY <3>1, <3>7
  <2>. QED BY <1>3, <2>1, <2>2
<1>7. ArbitrationTypeOK' /\ Clock'
  BY <1>0, <1>2, <1>4, <1>6 DEF InputInv, ArbitrationTypeOK, Clock, InputFrame
<1>. QED BY <1>0, <1>6, <1>7 DEF InputInv

\* The end of the line is lost with the socket.
LEMMA DisconnectKeeps == ASSUME ArbitrationAssumption, InputInv, Disconnect PROVE InputInv'
<1>1. /\ hostOpen' = FALSE /\ localAt' = 0 /\ heardAt' = 0 /\ notice' \in {notice, FALSE}
      /\ UNCHANGED <<now, seat, typingAt, sealing, typed, wroteAt, sinceLocal>>
  BY DEF Disconnect
<1>2. PICK n \in 0..Len(inputs) : inputs' = SubSeq(inputs, 1, n)
  BY DEF Disconnect
<1>3. typed \in Seq(InputFrame) /\ inputs \in Seq(InputFrame)
  BY InputTyped
<1>4. /\ inputs' \in Seq(InputFrame) /\ Len(inputs') = n /\ Len(inputs) \in Nat
      /\ \A i \in 1..n : inputs'[i] = inputs[i]
  <2>1. \A i \in 1..n : inputs[i] \in InputFrame
    BY <1>3, ElementOfSeq
  <2>. QED BY <1>2, <1>3, <2>1, SubSeqProperties
<1>5. LineInv(Line', now, seat, typingAt)
  <2> DEFINE e == [i \in 1..Len(Line') |-> i]
  <2>1. /\ Len(typed) \in Nat /\ Len(Line) = Len(typed) + Len(inputs)
        /\ \A i \in 1..Len(typed) + Len(inputs) : Line[i] = IF i <= Len(typed) THEN typed[i] ELSE inputs[i - Len(typed)]
    BY <1>3, LineProperties DEF Line
  <2>2. /\ Len(Line') = Len(typed) + n
        /\ \A i \in 1..Len(typed) + n : Line'[i] = IF i <= Len(typed) THEN typed[i] ELSE inputs'[i - Len(typed)]
    <3>1. Line' = typed \o inputs'
      BY <1>1 DEF Line
    <3>. QED BY <1>3, <1>4, <3>1, LineProperties
  <2>3. \A i \in 1..Len(Line') : e[i] \in 1..Len(Line) /\ Line'[i] = Line[e[i]]
    BY <1>4, <2>1, <2>2
  <2>4. \A i, j \in 1..Len(Line') : i < j => e[i] < e[j]
    OBVIOUS
  <2>5. Len(Line') \in Nat /\ Len(Line) \in Nat
    BY <1>4, <2>1, <2>2
  <2> HIDE DEF e
  <2>. QED BY <2>3, <2>4, <2>5, Thinned DEF InputInv
<1>6. ArbitrationTypeOK' /\ Clock'
  <2>1. ArbitrationTypeOK'
    <3>1. {localAt', wroteAt', heardAt', sinceLocal'} \subseteq Nat
      BY <1>1 DEF InputInv, ArbitrationTypeOK
    <3>3. hostOpen' \in BOOLEAN /\ notice' \in BOOLEAN /\ sealing' \in BOOLEAN
      BY <1>1 DEF InputInv, ArbitrationTypeOK
    <3>4. {hostOpen', notice', sealing'} \subseteq BOOLEAN
      BY <3>3
    <3>2. inputs' \in Seq([who : Typists \cup {Agent}, at : Nat])
      BY <1>4 DEF InputFrame
    <3>. QED BY <1>1, <3>1, <3>2, <3>4 DEF InputInv, ArbitrationTypeOK
  <2>2. Clock'
    BY <1>1 DEF InputInv, ArbitrationTypeOK, Clock
  <2>. QED BY <2>1, <2>2
<1>. QED BY <1>1, <1>5, <1>6 DEF InputInv

\* One case for each action.
LEMMA ArbitrationStep == ASSUME ArbitrationAssumption, InputInv, [ArbitrationNext]_arbitrationVars PROVE InputInv'
<1>1. CASE UNCHANGED arbitrationVars
  BY <1>1 DEF arbitrationVars, InputInv, ArbitrationTypeOK, Clock, Line
<1>2. CASE Tick \/ Hear \/ AgentAsks \/ Notify \/ LocalWrite \/ Connect
  BY <1>2, QuietKeeps
<1>3. CASE Dispatch \/ TakeInput \/ Disconnect
  BY <1>3, DispatchKeeps, TakeInputKeeps, DisconnectKeeps
<1>4. CASE \E v \in Typists : Input(v) \/ Typing(v) \/ Come(v) \/ Go(v)
  BY <1>4, InputKeeps, ClaimKeeps
<1>. QED BY <1>1, <1>2, <1>3, <1>4 DEF ArbitrationNext

\* The invariant holds after any number of steps.
LEMMA ArbitrationCorrect == ASSUME ArbitrationAssumption PROVE ArbitrationSpec => []InputInv
  BY ArbitrationInitHolds, ArbitrationStep, PTL DEF ArbitrationSpec

\* Times, leases and inputs are what claimInputLease and mcpDispatchSend write (worker/index.ts:3994-4030,
\* 2134-2158), for any number of typists and any lengths of the lease and the windows.
THEOREM ArbitrationTypeCorrect == ASSUME ArbitrationAssumption PROVE ArbitrationSpec => []ArbitrationTypeOK
<1>1. InputInv => ArbitrationTypeOK
  BY DEF InputInv
<1>. QED BY <1>1, ArbitrationCorrect, PTL

\* "local host > browser human > one MCP writer" (worker/index.ts:2148), for any number of browsers and any
\* times: nothing of anybody else's comes between two inputs of one browser within a lease less the time
\* after which it is renewed, and nobody types from afar that soon after the keyboard was heard of.
THEOREM TypedUncut == ASSUME ArbitrationAssumption PROVE ArbitrationSpec => []OneTypist
<1>1. ASSUME InputInv PROVE OneTypist
  <2>1. Line \in Seq(InputFrame) /\ DOMAIN Line = 1..Len(Line)
    BY <1>1, InputTyped
  <2>2. UncutIn(Line) /\ sinceLocal > Lease - Refresh
    BY <1>1 DEF InputInv, LineInv, Clock
  <2>. QED BY <2>1, <2>2 DEF UncutIn, OneTypist, Line
<1>. QED BY <1>1, ArbitrationCorrect, PTL

------------------------------------------------------------------------------
(* Frames seen before.                                                        *)

\* A bit is set for what was opened and is still in the window, and for nothing else.
Bits ==
  /\ \A d \in 0..Span - 1 : d \in bitmap <=> max > d /\ opened[max - d] > 0
  /\ \A s \in Sequence : s > max => opened[s] = 0

ReplayInv == ReplayTypeOK /\ Bits /\ OnceOrOvertaken

\* Nothing was sealed or opened.
LEMMA ReplayInitHolds == ASSUME ReplayAssumption, ReplayInit PROVE ReplayInv
  BY DEF ReplayAssumption, ReplayInit, ReplayInv, ReplayTypeOK, Bits, OnceOrOvertaken, Sequence

\* A frame newer than all before it moves the window.
LEMMA AcceptNewest ==
  ASSUME ReplayAssumption, ReplayInv, NEW s \in Sequence, s > max, Accept(s),
         opened' = [opened EXCEPT ![s] = @ + 1], missed' = missed
  PROVE  /\ max' \in 0..MaxSequence /\ bitmap' \subseteq 0..Span - 1 /\ opened' \in [Sequence -> Nat]
         /\ Bits' /\ OnceOrOvertaken'
<1> USE DEF ReplayAssumption, Sequence
<1>1. max' = s /\ bitmap' \subseteq 0..Span - 1 /\ opened' \in [Sequence -> Nat] /\ opened[s] = 0 /\ opened'[s] = 1
  BY DEF ReplayInv, ReplayTypeOK, Accept, Bits, Shifted
<1>2. \A q \in Sequence : q > s => opened'[q] = 0
  BY <1>1 DEF ReplayInv, ReplayTypeOK, Bits
<1>3. ASSUME NEW d \in 0..Span - 1 PROVE d \in bitmap' <=> max' > d /\ opened'[max' - d] > 0
  <2> USE <1>1
  <2> DEFINE shift == s - max
  <2>1. shift \in Nat /\ shift > 0
    BY DEF ReplayInv, ReplayTypeOK
  <2>2. d \in bitmap' <=> d = 0 \/ (shift < Span /\ d >= shift /\ d - shift \in bitmap)
    <3>1. bitmap' = IF shift >= Span THEN {0} ELSE Shifted(shift) \cup {0}
      BY DEF Accept
    <3>2. shift < Span => (d \in Shifted(shift) <=> d >= shift /\ d - shift \in bitmap)
      BY Zenon DEF Shifted
    <3>3. shift \in Nat /\ Span \in Nat
      BY <2>1
    <3> HIDE DEF shift
    <3>. QED BY <3>1, <3>2, <3>3
  <2>3. CASE d = 0
    BY <2>2, <2>3
  <2>4. CASE d # 0 /\ d < shift
    <3>1. d \notin bitmap'
      BY <2>2, <2>4, <2>1
    <3>2. s > d => s - d \in Sequence /\ s - d > max /\ s - d # s
      BY <2>4, <2>1 DEF ReplayInv, ReplayTypeOK
    <3>. QED BY <3>1, <3>2 DEF ReplayInv, ReplayTypeOK, Bits
  <2>5. CASE d >= shift
    <3> DEFINE e == d - shift
    <3>1. e \in 0..Span - 1 /\ shift < Span /\ d # 0
      BY <2>5, <2>1
    <3>2. d \in bitmap' <=> max > e /\ opened[max - e] > 0
      BY <3>1, <2>2, <2>5 DEF ReplayInv, Bits
    <3>3. max - e = s - d /\ (max > e <=> s > d)
      BY <2>1 DEF ReplayInv, ReplayTypeOK
    <3>4. s > d => s - d \in Sequence /\ s - d # s
      BY <3>1
    <3>5. s > d => opened'[s - d] = opened[s - d]
      BY <3>4 DEF ReplayInv, ReplayTypeOK
    <3>. QED BY <3>2, <3>3, <3>5
  <2>. QED BY <2>1, <2>3, <2>4, <2>5
<1>4. OnceOrOvertaken'
  BY <1>1 DEF ReplayInv, ReplayTypeOK, OnceOrOvertaken
<1>. QED BY <1>1, <1>2, <1>3, <1>4 DEF Bits

\* A frame that comes late, still within the window, sets its bit.
LEMMA AcceptLate ==
  ASSUME ReplayAssumption, ReplayInv, NEW s \in Sequence, ~(s > max), Accept(s),
         opened' = [opened EXCEPT ![s] = @ + 1], missed' = missed
  PROVE  /\ max' \in 0..MaxSequence /\ bitmap' \subseteq 0..Span - 1 /\ opened' \in [Sequence -> Nat]
         /\ Bits' /\ OnceOrOvertaken'
<1> USE DEF ReplayAssumption, Sequence
<1>1. /\ max' = max /\ max - s \in 0..Span - 1 /\ max - s \notin bitmap /\ bitmap' = bitmap \cup {max - s}
      /\ opened' \in [Sequence -> Nat]
  BY DEF ReplayInv, ReplayTypeOK, Accept
<1>2. opened[s] = 0 /\ opened'[s] = 1 /\ \A q \in Sequence \ {s} : opened'[q] = opened[q]
  <2>1. max - (max - s) = s /\ max > max - s
    BY DEF ReplayInv, ReplayTypeOK
  <2>. QED BY <1>1, <2>1 DEF ReplayInv, ReplayTypeOK, Bits
<1>3. ASSUME NEW d \in 0..Span - 1 PROVE d \in bitmap' <=> max' > d /\ opened'[max' - d] > 0
  <2>1. CASE d = max - s
    BY <1>1, <1>2, <2>1 DEF ReplayInv, ReplayTypeOK
  <2>2. CASE d # max - s
    <3>1. d \in bitmap' <=> max > d /\ opened[max - d] > 0
      BY <1>1, <2>2 DEF ReplayInv, Bits
    <3>2. max > d => max - d \in Sequence \ {s}
      BY <2>2 DEF ReplayInv, ReplayTypeOK
    <3>. QED BY <1>1, <1>2, <3>1, <3>2
  <2>. QED BY <2>1, <2>2
<1>4. \A q \in Sequence : q > max' => opened'[q] = 0
  BY <1>1, <1>2 DEF ReplayInv, ReplayTypeOK, Bits
<1>5. OnceOrOvertaken'
  BY <1>1, <1>2 DEF ReplayInv, ReplayTypeOK, OnceOrOvertaken
<1>. QED BY <1>1, <1>3, <1>4, <1>5 DEF Bits, ReplayInv, ReplayTypeOK

\* Whatever arrives, in whatever order and however often.
LEMMA OpenKeeps ==
  ASSUME ReplayAssumption, ReplayInv, NEW s \in Sequence, Open(s)
  PROVE  /\ max' \in 0..MaxSequence /\ bitmap' \subseteq 0..Span - 1 /\ opened' \in [Sequence -> Nat]
         /\ missed' \subseteq Sequence /\ Bits' /\ OnceOrOvertaken'
<1>1. CASE Accept(s) /\ opened' = [opened EXCEPT ![s] = @ + 1] /\ missed' = missed
  BY <1>1, AcceptNewest, AcceptLate DEF ReplayInv, ReplayTypeOK
<1>2. CASE Refuse(s) /\ UNCHANGED <<max, bitmap, opened>> /\ missed' = IF opened[s] = 0 THEN missed \cup {s} ELSE missed
  <2>1. opened[s] = 0 => max >= s + Span
    <3>1. s <= max /\ (max - s >= Span \/ max - s \in bitmap)
      BY <1>2 DEF Refuse
    <3>2. max - s \in bitmap => max - s \in 0..Span - 1 /\ max - (max - s) = s
      BY DEF ReplayInv, ReplayTypeOK, Sequence
    <3>3. max - s \in bitmap => opened[s] > 0
      BY <3>2 DEF ReplayInv, Bits
    <3>. QED BY <3>1, <3>3 DEF ReplayInv, ReplayTypeOK, Sequence, ReplayAssumption
  <2>2. missed' \subseteq Sequence /\ OnceOrOvertaken'
    BY <1>2, <2>1 DEF ReplayInv, ReplayTypeOK, OnceOrOvertaken
  <2>. QED BY <1>2, <2>2 DEF ReplayInv, ReplayTypeOK, Bits
<1>. QED BY <1>1, <1>2 DEF Open

\* One case for each action.
LEMMA ReplayStep == ASSUME ReplayAssumption, ReplayInv, [ReplayNext]_replayVars PROVE ReplayInv'
<1> USE DEF ReplayAssumption
<1>1. CASE UNCHANGED replayVars
  BY <1>1 DEF replayVars, ReplayInv, ReplayTypeOK, Bits, OnceOrOvertaken
<1>2. ASSUME NEW p \in Sealers, Seal(p) PROVE ReplayInv'
  BY <1>2 DEF Seal, ReplayInv, ReplayTypeOK, Bits, OnceOrOvertaken
<1>3. ASSUME NEW p \in Sealers, Enqueue(p) PROVE ReplayInv'
  <2>1. inHand[p] \in Sequence
    BY <1>3 DEF Enqueue, ReplayInv, ReplayTypeOK, Sequence
  <2>2. stream' \in Seq(Sequence)
    <3>1. stream \in Seq(Sequence) /\ (stream' = stream \/ stream' = Append(stream, inHand[p]))
      BY <1>3 DEF Enqueue, ReplayInv, ReplayTypeOK
    <3>2. Append(stream, inHand[p]) \in Seq(Sequence)
      BY <2>1, <3>1
    <3>. QED BY <3>1, <3>2
  <2>3. ReplayTypeOK'
    BY <1>3, <2>2 DEF Enqueue, ReplayInv, ReplayTypeOK
  <2>. QED BY <1>3, <2>3 DEF Enqueue, ReplayInv, Bits, OnceOrOvertaken
<1>4. CASE Arrive
  <2>1. Head(stream) \in Sequence /\ stream' \in Seq(Sequence)
    BY <1>4 DEF Arrive, ReplayInv, ReplayTypeOK
  <2>2. keptFrame' \in 0..MaxSequence /\ UNCHANGED <<sendSequence, inHand>>
    BY <1>4, <2>1 DEF Arrive, ReplayInv, ReplayTypeOK, Sequence
  <2>3. Open(Head(stream))
    BY <1>4 DEF Arrive
  <2>. QED BY <2>1, <2>2, <2>3, OpenKeeps DEF ReplayInv, ReplayTypeOK
<1>5. CASE Lose
  <2>1. Head(stream) \in Sequence /\ stream' \in Seq(Sequence)
    BY <1>5 DEF Lose, ReplayInv, ReplayTypeOK
  <2>2. keptFrame' \in 0..MaxSequence /\ UNCHANGED <<sendSequence, inHand, max, bitmap, opened, missed>>
    BY <1>5, <2>1 DEF Lose, ReplayInv, ReplayTypeOK, Sequence
  <2>3. ReplayTypeOK'
    BY <2>1, <2>2 DEF ReplayInv, ReplayTypeOK
  <2>. QED BY <2>2, <2>3 DEF ReplayInv, Bits, OnceOrOvertaken
<1>6. CASE ShowKept
  <2>1. keptFrame \in Sequence /\ Open(keptFrame) /\ UNCHANGED <<sendSequence, inHand, stream, keptFrame>>
    BY <1>6 DEF ShowKept, ReplayInv, ReplayTypeOK, Sequence
  <2>. QED BY <2>1, OpenKeeps DEF ReplayInv, ReplayTypeOK
<1>. QED BY <1>1, <1>2, <1>3, <1>4, <1>5, <1>6 DEF ReplayNext

\* The window is right about what was opened, after any number of steps.
THEOREM ReplayCorrect == ASSUME ReplayAssumption PROVE ReplaySpec => []ReplayInv
  BY ReplayInitHolds, ReplayStep, PTL DEF ReplaySpec

\* acceptSequence keeps max among the sequences drawn and its bits within the window (e2ee.go:263-287),
\* for any number of sealers, frames and bits.
THEOREM ReplayTypeCorrect == ASSUME ReplayAssumption PROVE ReplaySpec => []ReplayTypeOK
<1>1. ReplayInv => ReplayTypeOK
  BY DEF ReplayInv
<1>. QED BY <1>1, ReplayCorrect, PTL

\* What acceptSequence promises (e2ee.go:260-262), for every size of the window: no frame is opened twice,
\* and one that never was is refused only when the newest opened is a whole window ahead.
THEOREM NoFrameTwice == ASSUME ReplayAssumption PROVE ReplaySpec => []OnceOrOvertaken
<1>1. ReplayInv => OnceOrOvertaken
  BY DEF ReplayInv
<1>. QED BY <1>1, ReplayCorrect, PTL
================================================================================
