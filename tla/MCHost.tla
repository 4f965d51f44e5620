-------------------------------- MODULE MCHost --------------------------------
(* Model-checking instance of the host's machine: a session's output and what *)
(* the relay makes of it, the screen it keeps and the terminal it draws for   *)
(* agents; the size of its terminal; the windows against replayed frames; the *)
(* files that keep sessions apart; and the daemon that starts them.  Side by  *)
(* side, one of them per behaviour.  A part that does not take part stays as  *)
(* it began.                                                                  *)
EXTENDS OutputStream, ScreenCache, TerminalModelSeed, GridControl, ReplayWindow, LocalSessions, RemoteStart

CONSTANTS v1, v2, g1

VARIABLE part

ASSUME OutputAssumption /\ ScreenAssumption /\ SeedAssumption /\ GridAssumption
ASSUME ReplayAssumption /\ LocalAssumption /\ StartAssumption

\* The terminal is chosen where it matters; the emulator begins with the smaller grid.
Init ==
  /\ part \in {"output", "screen", "model", "grid", "frames", "files", "start"}
  /\ OutputInit /\ ScreenInit /\ SeedInit /\ GridInit /\ ReplayInit /\ LocalInit /\ StartInit
  /\ emulator = 80
  /\ part = "grid" \/ (current = 1 /\ ~foreground /\ ~takes)

\* A viewer's leaving is told to nobody until a connection is dialled again and asks for the screens
\* of those who are there: it need only come just before that.
LeavesUnheard ==
  \A v \in {v1, v2} : status[v] = "in" /\ status'[v] = "left" => conn = "down" /\ wire = <<>>

\* Viewers are alike: they come in order.
ViewersInOrder == status[v2] = "new" /\ status'[v2] # "new" => status[v1] # "new"

\* Who sets the size is nothing to the connection: terminals are attached while the first socket is
\* there, with one resize under way at a time.
AttachedFirst ==
  \/ attached' = NoTerminal /\ leaving' = {} /\ resizes' = {}
  \/ dials' = 1 /\ link' = "open" /\ \A r, q \in resizes' : r = q

\* The kept screen: the emulator is resized once, the two screens differ in size, and a host that is away
\* draws none and reads nothing; what is shown ends the behaviour.
OneResize ==
  /\ shown = Nothing
  /\ emulator = 120 => emulator' = 120
  /\ view' = NoView \/ view' = view \/ (hostUp /\ view'.size # size[1])
  /\ hostUp \/ features.at # "idle" \/ features'.at = "idle"

\* Launches are alike, and so are pollers: they begin in order.
InOrder(place, first) ==
  \A l \in 2..3 : place[l] = first /\ place'[l] # first => place[l - 1] # first

Next ==
  \/ /\ part = "output" /\ OutputNext /\ LeavesUnheard /\ ViewersInOrder
     /\ UNCHANGED <<part, cacheVars, seedVars, gridVars, replayVars, localVars, startVars>>
  \/ /\ part = "screen" /\ ScreenNext /\ OneResize
     /\ UNCHANGED <<part, outputVars, seedVars, gridVars, replayVars, localVars, startVars>>
  \/ /\ part = "model" /\ SeedNext
     /\ UNCHANGED <<part, outputVars, cacheVars, gridVars, replayVars, localVars, startVars>>
  \/ /\ part = "grid" /\ GridNext /\ AttachedFirst
     /\ UNCHANGED <<part, outputVars, cacheVars, seedVars, replayVars, localVars, startVars>>
  \/ /\ part = "frames" /\ ReplayNext
     /\ UNCHANGED <<part, outputVars, cacheVars, seedVars, gridVars, localVars, startVars>>
  \/ /\ part = "files" /\ LocalNext /\ InOrder(stage, "idle")
     /\ UNCHANGED <<part, outputVars, cacheVars, seedVars, gridVars, replayVars, startVars>>
  \* Once two pollers worked side by side the promise is off, once the command ended it is kept or broken.
  \/ /\ part = "start" /\ ~beside /\ ~stray /\ command[1].status \notin {"opened", "unreadable", "lost"}
     /\ StartNext /\ InOrder(proc, "none")
     /\ UNCHANGED <<part, outputVars, cacheVars, seedVars, gridVars, replayVars, localVars>>

Spec == Init /\ [][Next]_<<part, outputVars, cacheVars, seedVars, gridVars, replayVars, localVars, startVars>>
===============================================================================
