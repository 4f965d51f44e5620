------------------------------ MODULE MCHostLive ------------------------------
(* Model-checking instance of what must happen at the host in the end: a      *)
(* rotation ends, a viewer gets the screen, the terminal's size is not locked *)
(* for good; side by side, one per behaviour.                                 *)
EXTENDS Naturals

CONSTANTS v1, NoGrant, NoViewer

VARIABLES part,
  key, told, record, disk, pc, old, rotations, slot, known, timedOut, trusted, writeLost,
  out, sealed, up, sockets, rotateWire, inbound, opened, grants, minting,
  end, safe, cut, emGen, pendSnap, pendAll, cooling, mutex, client,
  queue, conn, gen, wire, asked, relayUp, cached, status, screen, waiting, limited, asks,
  current, limit, announcing, holder, teller, outgoing, link, socketOut, socketIn, takes, dials, hostGrid,
  foreground, attached, resizes, leaving, overtaken, outlived, forgotten

rotationVars == <<key, told, record, disk, pc, old, rotations, slot, known, timedOut, trusted, writeLost,
                  out, sealed, up, sockets, rotateWire, inbound, opened, grants, minting>>
outputVars == <<end, safe, cut, emGen, pendSnap, pendAll, cooling, mutex, client,
                queue, conn, gen, wire, asked, relayUp, cached, status, screen, waiting, limited, asks>>
gridVars == <<current, limit, announcing, holder, teller, outgoing, link, socketOut, socketIn, takes, dials, hostGrid,
              foreground, attached, resizes, leaving, overtaken, outlived, forgotten>>

Rotation == INSTANCE CredentialRotation WITH
  Grants <- {}, MaxRotations <- 2, MaxSockets <- 2, Capacity <- 1, MaxInbound <- 1, wire <- rotateWire
Output == INSTANCE OutputStream WITH
  Viewers <- {v1}, Ring <- 1, Cap <- 1, Limit <- 1, MaxUnits <- 1, MaxDrops <- 1, MaxAsks <- 1

Grid == INSTANCE GridControl WITH
  Grids <- {1, 2}, Terminals <- {}, NoTerminal <- 0, Capacity <- 1, MaxOnSocket <- 1, MaxSockets <- 2

Init ==
  /\ part \in {"rotation", "output", "grid"}
  /\ Rotation!RotationInit /\ Output!OutputInit /\ Grid!GridInit
  /\ part = "grid" \/ (current = 1 /\ ~foreground /\ ~takes)

\* The relay can be reached until its last socket is lost, which is never lost.
Next ==
  \/ /\ part = "rotation" /\ Rotation!RotationNext /\ (sockets = 2 => up' = TRUE)
     /\ UNCHANGED <<part, outputVars, gridVars>>
  \/ part = "output" /\ Output!OutputNext /\ UNCHANGED <<part, rotationVars, gridVars>>
  \/ /\ part = "grid" /\ Grid!GridNext /\ (dials' = 2 => takes' /\ link' # "down")
     /\ UNCHANGED <<part, rotationVars, outputVars>>

Spec ==
  /\ Init /\ [][Next]_<<part, rotationVars, outputVars, gridVars>>
  /\ Rotation!Fairness /\ Output!Fairness /\ Grid!GridFairness

\* The parts' properties under their own names, for the configuration.
RotationEnds == Rotation!RotationEnds
CatchUp == Output!CatchUp
LockReturned == Grid!LockReturned
===============================================================================
