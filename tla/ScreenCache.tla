----------------------------- MODULE ScreenCache -----------------------------
(***************************************************************************)
(* The screen the relay keeps for viewers who come while the machine is    *)
(* away (worker/index.ts: cacheScreen, cachedScreen, sendCachedScreen),    *)
(* and the grid it is kept with, for a host that owns its grid.            *)
(*                                                                         *)
(* A screen is stored in chunks under fixed names, the surplus chunks of   *)
(* its predecessor are deleted, and then the metadata - number of chunks   *)
(* and grid - is stored: three writes, each awaited. The input gate holds  *)
(* other events back meanwhile, so nothing reads in between; but the relay *)
(* instance may die there, and the next one starts from storage.           *)
(*                                                                         *)
(* A screen does not carry its grid. The relay keeps it with the grid the  *)
(* host announced last. At the host the emitter draws and queues screens   *)
(* under its own mutex, and the gridController (GridControl has all of it) *)
(* resizes the emulator and queues announcements under another.            *)
(*                                                                         *)
(* Screens are numbered in the order the host queued them; the chunk i of  *)
(* screen s is represented by s. Time is not modelled: less or more than   *)
(* SCREEN_WRITE_INTERVAL_MS may have passed since a screen was kept.       *)
(***************************************************************************)
EXTENDS Naturals, Sequences

CONSTANTS
    MaxScreens,  \* bound: screens the host queues
    MaxChunks,   \* chunks a screen may need (nine: a longer one closes the socket)
    MaxCrashes,  \* bound: deaths of the relay instance
    MaxPath,     \* bound: messages queued and on the way
    GridSizes    \* grids a host may draw at

None    == 0
Screens == 1..MaxScreens
Slots   == 1..MaxChunks

ScreenAssumption ==
    /\ MaxScreens \in Nat /\ MaxChunks \in Nat \ {0} /\ MaxCrashes \in Nat /\ MaxPath \in Nat
    /\ GridSizes # {} /\ None \notin GridSizes

VARIABLES
    size, grid,   \* [Screens -> chunks needed], [Screens -> grid drawn at]
    drawn,        \* the latest screen
    view,         \* the screen the emitter has drawn and not queued yet: its size and grid, or NoView
    emulator,     \* the grid the host's emulator is at
    applying,     \* who has gridController.mu: "nobody", or applyLocked before and after its look
                  \* at announcing: "resized", "telling"
    understood,   \* gridController.announcing
    features,     \* RelayTakesGrid: at "idle", "swapped", or "read" with the grid it read
    path,         \* the connection's queue and socket: screens and announced grids, in order
    meta,         \* this.meta and its stored copy: chunks and grid of the kept screen, the host's grid
    chunk,        \* the stored chunks, by slot
    at,           \* the write cacheScreen awaits
    hostUp,       \* is there a host's socket?
    shown,        \* the latest replay: its chunks and the grid told with it
    crashes,
    kept,         \* the latest screen cacheScreen began to store: at a write, the one it is storing
    broken,       \* history: an instance died between the writes of a screen, with none kept since
    announced,    \* history: the grid queued last since a socket broke, or None
    crossed       \* history: screens queued behind another grid than their own, or left under way
                  \* when announcements may have been lost

drawingVars == <<size, grid, drawn, view>>
applyVars   == <<emulator, applying, understood, features>>
laneVars   == <<path, announced, crossed>>
storeVars   == <<meta, chunk, at, kept, broken>>
lookVars    == <<hostUp, shown, crashes>>
cacheVars   == <<drawingVars, applyVars, laneVars, storeVars, lookVars>>

ScreenMsg(s) == [screen |-> s, grid |-> None]
GridMsg(g)   == [screen |-> None, grid |-> g]
Message == {ScreenMsg(s) : s \in Screens} \cup {GridMsg(g) : g \in GridSizes}

MaybeGrid == GridSizes \cup {None}
Kept == [chunks : 0..MaxChunks, grid : MaybeGrid, host : MaybeGrid]
Nothing == [parts |-> <<>>, grid |-> None]
NoView == [size |-> 0, grid |-> None]
NotTaking == [at |-> "idle", grid |-> None]

ScreenTypeOK ==
    /\ size \in [Screens -> 0..MaxChunks] /\ grid \in [Screens -> MaybeGrid]
    /\ drawn \in 0..MaxScreens /\ kept \in 0..drawn
    /\ view \in [size : 0..MaxChunks, grid : MaybeGrid]
    /\ emulator \in GridSizes /\ applying \in {"nobody", "resized", "telling"} /\ understood \in BOOLEAN
    /\ features \in [at : {"idle", "swapped", "read"}, grid : MaybeGrid]
    /\ path \in Seq(Message) /\ announced \in MaybeGrid /\ crossed \subseteq 1..drawn
    /\ meta \in Kept
    /\ chunk \in [Slots -> 0..drawn]
    /\ at \in {"idle", "deleting", "recording"}
    /\ hostUp \in BOOLEAN /\ broken \in BOOLEAN
    /\ shown \in [parts : Seq(0..drawn), grid : MaybeGrid]
    /\ crashes \in 0..MaxCrashes

\* a session whose host has just connected
ScreenInit ==
    /\ size = [s \in Screens |-> 0] /\ grid = [s \in Screens |-> None]
    /\ drawn = 0 /\ view = NoView /\ kept = 0
    /\ emulator \in GridSizes /\ applying = "nobody" /\ understood = FALSE /\ features = NotTaking
    /\ path = <<>> /\ announced = None /\ crossed = {}
    /\ meta = [chunks |-> 0, grid |-> None, host |-> None]
    /\ chunk = [i \in Slots |-> None]
    /\ at = "idle" /\ hostUp = TRUE /\ broken = FALSE
    /\ shown = Nothing /\ crashes = 0

-----------------------------------------------------------------------------
(* The host.                                                               *)

\* Send waits for room in the queue, which takes announcements with or without a socket.
SendGrid(g) ==
    /\ Len(path) < MaxPath
    /\ path' = Append(path, GridMsg(g)) /\ announced' = g
    /\ UNCHANGED crossed

\* applyLocked: the emulator and the PTY are resized, and mu is held on.
ApplyGrid(g) ==
    /\ applying = "nobody" /\ g # emulator
    /\ emulator' = g /\ applying' = "resized"
    /\ UNCHANGED <<understood, features, drawingVars, laneVars, storeVars, lookVars>>

\* Then it looks whether the relay takes grids, ...
LookAnnouncing ==
    /\ applying = "resized"
    /\ applying' = IF understood THEN "telling" ELSE "nobody"
    /\ UNCHANGED <<emulator, understood, features, drawingVars, laneVars, storeVars, lookVars>>

\* ... and announces.
AnnounceGrid ==
    /\ applying = "telling" /\ applying' = "nobody"
    /\ SendGrid(emulator)
    /\ UNCHANGED <<emulator, understood, features, drawingVars, storeVars, lookVars>>

\* relay_features is read, possibly after its socket broke: the flag is swapped, ...
RelayTakesGrid ==
    /\ ~understood /\ features.at = "idle"
    /\ understood' = TRUE /\ features' = [at |-> "swapped", grid |-> None]
    /\ UNCHANGED <<emulator, applying, drawingVars, laneVars, storeVars, lookVars>>

\* ... the grid read under mu, ...
CurrentGrid ==
    /\ features.at = "swapped" /\ applying = "nobody"
    /\ features' = [at |-> "read", grid |-> emulator]
    /\ UNCHANGED <<emulator, applying, understood, drawingVars, laneVars, storeVars, lookVars>>

\* ... and announced without it.
TellGrid ==
    /\ features.at = "read" /\ features' = NotTaking
    /\ SendGrid(features.grid)
    /\ UNCHANGED <<emulator, applying, understood, drawingVars, storeVars, lookVars>>

\* The emitter, under its own mutex, draws the screen as the emulator has it, ...
DrawScreen(n) ==
    /\ view = NoView /\ drawn < MaxScreens
    /\ view' = [size |-> n, grid |-> emulator]
    /\ UNCHANGED <<size, grid, drawn, applyVars, laneVars, storeVars, lookVars>>

\* ... and queues it while the connection is up and has room.
QueueScreen ==
    /\ view # NoView /\ hostUp /\ Len(path) < MaxPath
    /\ drawn' = drawn + 1 /\ view' = NoView
    /\ size' = [size EXCEPT ![drawn'] = view.size] /\ grid' = [grid EXCEPT ![drawn'] = view.grid]
    /\ path' = Append(path, ScreenMsg(drawn'))
    /\ crossed' = IF announced = view.grid THEN crossed ELSE crossed \cup {drawn'}
    /\ UNCHANGED <<announced, applyVars, storeVars, lookVars>>

\* The queue refuses it.
RefuseScreen ==
    /\ view # NoView /\ view' = NoView
    /\ UNCHANGED <<size, grid, drawn, applyVars, laneVars, storeVars, lookVars>>

-----------------------------------------------------------------------------
(* The relay. It handles the host's messages in order, one at a time.      *)

Delivered ==
    /\ hostUp /\ at = "idle" /\ path # <<>>
    /\ path' = Tail(path)
    /\ UNCHANGED <<announced, crossed>>

\* adoptHostGrid. Nothing reads the grid before it is stored (Crash has a death until then).
AdoptGrid ==
    /\ Delivered /\ Head(path).screen = None
    /\ meta' = [meta EXCEPT !.host = Head(path).grid]
    /\ UNCHANGED <<chunk, at, kept, broken, drawingVars, applyVars, lookVars>>

\* A snapshot comes in soon after the last that was kept, and is passed on without being kept.
Skip ==
    /\ Delivered /\ Head(path).screen # None
    /\ meta.chunks > 0
    /\ UNCHANGED <<drawingVars, applyVars, storeVars, lookVars>>

\* The chunks are stored in one put; the next write is the deletion of the surplus, if any.
Keep ==
    /\ Delivered /\ Head(path).screen # None
    /\ kept' = Head(path).screen
    /\ chunk' = [i \in Slots |-> IF i <= size[kept'] THEN kept' ELSE chunk[i]]
    /\ at' = IF meta.chunks > size[kept'] THEN "deleting" ELSE "recording"
    /\ UNCHANGED <<meta, broken, drawingVars, applyVars, lookVars>>

DeleteSurplus ==
    /\ at = "deleting" /\ at' = "recording"
    /\ chunk' = [i \in Slots |-> IF size[kept] < i /\ i <= meta.chunks THEN None ELSE chunk[i]]
    /\ UNCHANGED <<meta, kept, broken, drawingVars, applyVars, laneVars, lookVars>>

\* Mutant: the grid is recorded for the first screen only.
RecordWithoutGrid ==
    /\ at = "recording" /\ at' = "idle"
    /\ meta' = [meta EXCEPT !.chunks = size[kept], !.grid = IF @ = None THEN meta.host ELSE @]
    /\ broken' = FALSE
    /\ UNCHANGED <<chunk, kept, drawingVars, applyVars, laneVars, lookVars>>

\* persistMeta with the new number of chunks and dynamicHostGrid: the grid the relay was told last
Record ==
    /\ at = "recording" /\ at' = "idle"
    /\ meta' = [meta EXCEPT !.chunks = size[kept], !.grid = meta.host]
    /\ broken' = FALSE
    /\ UNCHANGED <<chunk, kept, drawingVars, applyVars, laneVars, lookVars>>

-----------------------------------------------------------------------------
(* Sockets and instances come and go.                                      *)

\* What is still queued goes over the next socket; what was on the old one and has not arrived is lost.
LeftBehind == {path'[k].screen : k \in 1..Len(path')} \ {None}
Astray     == announced' = None /\ crossed' = crossed \cup LeftBehind
SocketBreaks ==
    /\ \E n \in 0..Len(path) : path' = SubSeq(path, n + 1, Len(path))
    /\ Astray

GridLost ==
    /\ at = "idle" /\ path # <<>> /\ Head(path).screen = None
    /\ path' = Tail(path)
    /\ Astray

HostLeaves ==
    /\ hostUp /\ at = "idle"
    /\ hostUp' = FALSE
    /\ SocketBreaks
    /\ UNCHANGED <<shown, crashes, drawingVars, applyVars, storeVars>>

\* NewSocket; the host is asked for a fresh snapshot for every viewer, which takes the replay's place.
HostReturns ==
    /\ ~hostUp /\ at = "idle"
    /\ hostUp' = TRUE
    /\ understood' = FALSE
    /\ shown' = Nothing
    /\ UNCHANGED <<emulator, applying, features, crashes, drawingVars, laneVars, storeVars>>

\* cachedScreen: nothing unless every chunk that meta counts is there
Replay ==
    IF \E i \in 1..meta.chunks : chunk[i] = None THEN <<>> ELSE [i \in 1..meta.chunks |-> chunk[i]]

\* sendCachedScreen: a viewer comes, or asks again, while the machine is away.
Show ==
    /\ ~hostUp /\ at = "idle"
    /\ shown' = IF Replay = <<>> THEN Nothing ELSE [parts |-> Replay, grid |-> meta.grid]
    /\ UNCHANGED <<hostUp, crashes, drawingVars, applyVars, laneVars, storeVars>>

\* The instance dies, anywhere, with the host's socket or without it, or with a grid in hand that is
\* not stored. The next one reads the metadata back.
Crash ==
    /\ crashes < MaxCrashes
    /\ crashes' = crashes + 1
    /\ broken' = (broken \/ at # "idle")
    /\ at' = "idle"
    /\ shown' = Nothing
    /\ \/ UNCHANGED <<hostUp, laneVars>>
       \/ hostUp /\ hostUp' = FALSE /\ SocketBreaks
       \/ hostUp /\ UNCHANGED hostUp /\ GridLost
    /\ UNCHANGED <<meta, chunk, kept, drawingVars, applyVars>>

ScreenNext ==
    \/ LookAnnouncing \/ AnnounceGrid \/ RelayTakesGrid \/ CurrentGrid \/ TellGrid
    \/ (\E g \in GridSizes : ApplyGrid(g)) \/ (\E n \in Slots : DrawScreen(n))
    \/ QueueScreen \/ RefuseScreen
    \/ AdoptGrid \/ Skip \/ Keep
    \/ DeleteSurplus \/ Record
    \/ HostLeaves \/ HostReturns \/ Show \/ Crash

ScreenSpec == ScreenInit /\ [][ScreenNext]_cacheVars

-----------------------------------------------------------------------------
\* what is replayed is one screen, complete
Whole(replay) ==
    replay = Nothing \/
    \E s \in Screens : Len(replay.parts) = size[s] /\ \A i \in 1..size[s] : replay.parts[i] = s

\* A viewer is never shown part of a screen: "showing nothing beats showing half" (the comment in
\* cachedScreen, index.ts:3934).
NeverHalf == Whole(shown)

\* As long as no instance died between the writes of one screen, and again once the next screen is
\* kept, a replay is the screen kept last, complete; and the grid told with it is the one it was drawn
\* at ("A dynamic session's screen is only readable at the grid it was drawn at", index.ts:3953),
\* unless it crossed a change of grid: the host had queued another grid last, or none since its socket
\* broke, when it queued the screen, or the screen was under way when announcements were lost. Of any
\* other screen the order of the path, the input gate and the writes keep the grid.
WholeUnlessBroken ==
    broken \/ shown = Nothing \/
        /\ Whole(shown) /\ shown.parts[1] = kept
        /\ kept \notin crossed => shown.grid = grid[kept]

\* Even after such deaths a replay begins with the screen begun last, and no chunk is followed by
\* one of a later screen: what an interrupted write leaves is a head of the new screen on a tail of
\* older ones, never the reverse.
NewestFirst ==
    shown # Nothing =>
        /\ shown.parts[1] = kept
        /\ \A i, j \in 1..Len(shown.parts) : i < j => shown.parts[i] >= shown.parts[j]
=============================================================================
