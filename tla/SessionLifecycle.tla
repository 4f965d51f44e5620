--------------------------- MODULE SessionLifecycle ---------------------------
(***************************************************************************)
(* The life of one session at the relay (worker/index.ts, class            *)
(* TerminalSession: initialize, resume, acceptSocket, handleSocketEnd,     *)
(* the exit event, alarm, expire, scheduleNextAlarm, refreshLivePresence,  *)
(* clearLivePresence; shared/session-lifetime.ts, session-capacity.ts;     *)
(* the leases of worker/stats-database.ts).                                *)
(*                                                                         *)
(* While a handler awaits storage the input gate holds other events back   *)
(* (gate); while it awaits a digest or the presence service it does not.   *)
(* Presence updates go one after the other (chain); the handler that asked *)
(* for one goes on when it is done. The instance may die at any time.      *)
(*                                                                         *)
(* Time goes in ticks of 45 s (STATS_PRESENCE_REFRESH_MS); an alarm that   *)
(* is due fires, and a presence update is answered, within one. What these *)
(* steps do to grants, operations and screens is in the modules of those   *)
(* components.                                                             *)
(***************************************************************************)
EXTENDS Naturals, Sequences, FiniteSets

CONSTANTS
    Hosts,       \* connections the host dials
    Viewers,     \* connections of browsers
    MaxViewers,  \* MAX_SESSION_VIEWERS
    Ttl,         \* SESSION_TTL_MS and PERSISTENT_TTL_MS, in ticks
    Lease,       \* STATS_PRESENCE_LEASE_MS, in ticks
    MaxStarts,   \* bound: how often the session is created or resumed
    MaxCrashes,  \* bound: deaths of the relay instance
    Nobody       \* no connection

ASSUME LifecycleAssumption ==
    /\ Hosts \cap Viewers = {} /\ Nobody \notin Hosts \cup Viewers /\ IsFiniteSet(Viewers)
    /\ MaxViewers \in Nat /\ Ttl \in Nat \ {0} /\ Lease \in Nat \ {0, 1}
    /\ MaxStarts \in Nat /\ MaxCrashes \in Nat

Conns    == Hosts \cup Viewers
NoAlarm  == Ttl + 1
Open     == [at |-> "open", conn |-> Nobody, life |-> 0, byAlarm |-> FALSE]
Gone     == [life |-> 0, status |-> "none", left |-> 0]
Absent   == [host |-> FALSE, viewers |-> 0, lease |-> 0]

VARIABLES
    persistent,  \* the kind of session; chosen at its creation
    meta,        \* this.meta: its presence key (the life), status, ticks left until expiresAt
    stored,      \* the same in storage
    alarmIn,     \* ticks until the alarm
    gate,        \* the handler that awaits storage, if any, and what it does next
    conn,        \* every connection, as the relay can see it
    chain,       \* presence updates asked for: whether their handlers then set the alarm
    sending,     \* what the first of them reports: <<life, entry>>, life 0 if nothing
    clears,      \* ended lives whose presence is still to be removed
    listed,      \* the presence service: its entry for each life
    synced,      \* lastPresenceSyncAt is less than a tick ago
    starts, crashes,
    orphan,      \* history: the instance died between storing a session and setting its alarm
    missed       \* history: what the relay does not know or put off: "sockets" lost with an
                 \* instance, until an alarm handler has run; "renewal" of the lease, by a resume

presVars == <<chain, sending, clears, listed, synced>>
histVars == <<starts, crashes, orphan, missed>>
vars == <<persistent, meta, stored, alarmIn, gate, conn, presVars, histVars>>

Meta   == [life : 0..MaxStarts, status : {"none", "waiting", "connected", "disconnected"}, left : 0..Ttl]
Entry  == [host : BOOLEAN, viewers : 0..Cardinality(Viewers), lease : 0..Lease]
States == {"new", "asking", "open", "broken", "closing", "ended"}

TypeOK ==
    /\ persistent \in BOOLEAN
    /\ meta \in Meta /\ stored \in Meta /\ alarmIn \in 0..NoAlarm
    /\ gate \in [at : {"open", "create", "arm", "persist", "exit", "delete"},
                 conn : Conns \cup {Nobody}, life : 0..MaxStarts, byAlarm : BOOLEAN]
    /\ conn \in [Conns -> States]
    /\ chain \in Seq([sets : BOOLEAN, byAlarm : BOOLEAN])
    /\ sending \in (0..MaxStarts) \X Entry
    /\ clears \in SUBSET [life : 1..MaxStarts, ahead : 0..Len(chain), socks : SUBSET Conns]
    /\ listed \in [1..MaxStarts -> Entry]
    /\ synced \in BOOLEAN /\ orphan \in BOOLEAN /\ missed \in {"nothing", "renewal", "sockets"}
    /\ starts \in 0..MaxStarts /\ crashes \in 0..MaxCrashes

Init ==
    /\ persistent \in BOOLEAN
    /\ meta = Gone /\ stored = Gone /\ alarmIn = NoAlarm /\ gate = Open
    /\ conn = [c \in Conns |-> "new"]
    /\ chain = <<>> /\ sending = <<0, Absent>> /\ clears = {}
    /\ listed = [l \in 1..MaxStarts |-> Absent]
    /\ synced = FALSE /\ orphan = FALSE /\ missed = "nothing"
    /\ starts = 0 /\ crashes = 0

-----------------------------------------------------------------------------
(* What the handlers share. *)

\* readyState = 1: also of a socket whose peer has gone without a word
Readable(cs) == {c \in Conns : cs[c] \in {"open", "broken"}}
HasSocket    == {c \in Conns : conn[c] \in {"open", "broken", "closing"}}

Min2(a, b) == IF a < b THEN a ELSE b

AlarmRunning == gate.byAlarm \/ \E i \in DOMAIN chain : chain[i].byAlarm

\* scheduleNextAlarm, when the session is described by m and the sockets by cs
\* Mutant: without sockets, the alarm set earlier is left to stand.
NextAlarmIfSocketsOnly(m, cs) ==
    IF m.life = 0 THEN alarmIn ELSE IF Readable(cs) # {} THEN Min2(m.left, 1) ELSE alarmIn

NextAlarm(m, cs) ==
    IF m.life = 0 THEN alarmIn ELSE IF Readable(cs) # {} THEN Min2(m.left, 1) ELSE m.left

\* what refreshLivePresence reports; the service drops an entry of nobody
Report(m, cs) ==
    LET host    == m.status = "connected" /\ Readable(cs) \cap Hosts # {}
        viewers == Cardinality(Readable(cs) \cap Viewers)
    IN  IF m.life = 0 THEN <<0, Absent>>
        ELSE <<m.life, IF host \/ viewers > 0 THEN [host |-> host, viewers |-> viewers, lease |-> Lease] ELSE Absent>>

\* presenceUpdate = presenceUpdate.then(...): the update reads the session when its turn comes
Refresh(sets, byAlarm, m, cs) ==
    /\ chain' = Append(chain, [sets |-> sets, byAlarm |-> byAlarm])
    /\ sending' = IF chain = <<>> THEN Report(m, cs) ELSE sending
    /\ synced' = TRUE
    /\ UNCHANGED <<clears, listed>>

\* expire, and the end of an ordinary session: the session is forgotten, storage is emptied
Forget(byAlarm) ==
    /\ meta' = Gone
    /\ gate' = [Open EXCEPT !.at = "delete", !.life = meta.life, !.byAlarm = byAlarm]

Expired == meta.life # 0 /\ meta.left = 0

\* await persistMeta(), then what follows it at once
Persist(at, c, byAlarm) == gate' = [Open EXCEPT !.at = at, !.conn = c, !.byAlarm = byAlarm]

-----------------------------------------------------------------------------
(* Creation. *)

\* initialize, of an ordinary session (its random name is used once), and resume
Start ==
    /\ gate = Open /\ starts < MaxStarts
    /\ persistent \/ starts = 0
    /\ starts' = starts + 1
    /\ meta' = IF meta.life = 0 THEN [life |-> starts + 1, status |-> "waiting", left |-> Ttl]
               ELSE [meta EXCEPT !.left = Ttl]
    /\ Persist("create", Nobody, FALSE)
    /\ UNCHANGED <<persistent, stored, alarmIn, conn, presVars, crashes, orphan, missed>>

StoreStart ==
    /\ gate.at = "create"
    /\ stored' = meta
    /\ Persist("arm", Nobody, FALSE)
    /\ UNCHANGED <<persistent, meta, alarmIn, conn, presVars, histVars>>

Arm ==
    /\ gate.at = "arm"
    /\ alarmIn' = meta.left
    /\ orphan' = FALSE /\ missed' = IF missed = "nothing" /\ Readable(conn) # {} THEN "renewal" ELSE missed
    /\ gate' = Open
    /\ UNCHANGED <<persistent, meta, stored, conn, presVars, starts, crashes>>

-----------------------------------------------------------------------------
(* Sockets: acceptSocket up to the digest it awaits, and from there.       *)

\* the host's token is hashed; a viewer is counted, then its visitor hash awaited
Ask(c) ==
    /\ gate = Open /\ conn[c] = "new" /\ meta.life # 0
    /\ IF Expired THEN Forget(FALSE) ELSE UNCHANGED <<meta, gate>>
    /\ conn' = [conn EXCEPT ![c] =
         IF Expired \/ (c \in Viewers /\ Cardinality(Readable(conn) \cap Viewers) >= MaxViewers)
         THEN "ended" ELSE "asking"]
    /\ UNCHANGED <<persistent, stored, alarmIn, presVars, histVars>>

\* without a session the token's comparison throws, before any socket exists
HostAccept(c) ==
    /\ c \in Hosts /\ gate = Open /\ conn[c] = "asking"
    /\ IF meta.life = 0
         THEN /\ conn' = [conn EXCEPT ![c] = "ended"]
              /\ UNCHANGED <<meta, gate>>
         ELSE /\ conn' = [h \in Conns |-> IF h = c THEN "open"
                                          ELSE IF h \in Readable(conn) \cap Hosts THEN "closing" ELSE conn[h]]
              /\ meta' = [meta EXCEPT !.status = "connected", !.left = Ttl]
              /\ Persist("persist", Nobody, FALSE)
    /\ UNCHANGED <<persistent, stored, alarmIn, presVars, histVars>>

\* without a session the handler throws once it has the socket
ViewerAccept(c) ==
    /\ c \in Viewers /\ gate = Open /\ conn[c] = "asking"
    /\ conn' = [conn EXCEPT ![c] = IF meta.life = 0 THEN "broken" ELSE "open"]
    /\ IF meta.life = 0 THEN UNCHANGED gate ELSE Persist("persist", Nobody, FALSE)
    /\ UNCHANGED <<persistent, meta, stored, alarmIn, presVars, histVars>>

\* persistMeta answered: the refresh is asked for
\* Mutant: no alarm is set after it.
StoreMetaUnscheduled ==
    /\ gate.at = "persist"
    /\ stored' = meta /\ gate' = Open
    /\ Refresh(FALSE, gate.byAlarm, meta, conn)
    /\ UNCHANGED <<persistent, meta, alarmIn, conn, histVars>>

StoreMeta ==
    /\ gate.at = "persist"
    /\ stored' = meta /\ gate' = Open
    /\ Refresh(TRUE, gate.byAlarm, meta, conn)
    /\ UNCHANGED <<persistent, meta, alarmIn, conn, histVars>>

\* the network: a peer is gone, the relay not told yet
PeerGone(c) ==
    /\ conn[c] = "open"
    /\ conn' = [conn EXCEPT ![c] = "broken"]
    /\ UNCHANGED <<persistent, meta, stored, alarmIn, gate, presVars, histVars>>

\* handleSocketEnd
\* Mutant: it does not ask whether another host has taken over.
SocketEndForgettingOthers(c) ==
    /\ gate = Open /\ conn[c] \in {"broken", "closing"}
    /\ conn' = [conn EXCEPT ![c] = "ended"]
    /\ \/ /\ c \in Viewers
          /\ Refresh(TRUE, FALSE, meta, conn')
          /\ UNCHANGED <<meta, gate>>
       \/ /\ c \in Hosts /\ meta.life = 0
          /\ UNCHANGED <<meta, gate, presVars>>
       \/ /\ c \in Hosts /\ meta.life # 0
          /\ meta' = [meta EXCEPT !.status = "disconnected", !.left = Ttl]
          /\ Persist("persist", Nobody, FALSE)
          /\ UNCHANGED presVars
    /\ UNCHANGED <<persistent, stored, alarmIn, histVars>>

SocketEnd(c) ==
    /\ gate = Open /\ conn[c] \in {"broken", "closing"}
    /\ conn' = [conn EXCEPT ![c] = "ended"]
    /\ \/ /\ c \in Viewers
          /\ Refresh(TRUE, FALSE, meta, conn')
          /\ UNCHANGED <<meta, gate>>
       \/ /\ c \in Hosts /\ meta.life = 0
          /\ UNCHANGED <<meta, gate, presVars>>
       \/ /\ c \in Hosts /\ meta.life # 0 /\ Readable(conn') \cap Hosts # {}
          /\ Refresh(FALSE, FALSE, meta, conn')
          /\ UNCHANGED <<meta, gate>>
       \/ /\ c \in Hosts /\ meta.life # 0 /\ Readable(conn') \cap Hosts = {}
          /\ meta' = [meta EXCEPT !.status = "disconnected", !.left = Ttl]
          /\ Persist("persist", Nobody, FALSE)
          /\ UNCHANGED presVars
    /\ UNCHANGED <<persistent, stored, alarmIn, histVars>>

\* deferPresenceRefresh: a frame of the host or of a viewer, a tick after the last refresh
Frame(c) ==
    /\ gate = Open /\ conn[c] = "open" /\ ~synced
    /\ Refresh(TRUE, FALSE, meta, conn)
    /\ UNCHANGED <<persistent, meta, stored, alarmIn, gate, conn, histVars>>

-----------------------------------------------------------------------------
(* The program's exit; the alarm; expiry.                                  *)

Exit(c) ==
    /\ c \in Hosts /\ gate = Open /\ c \in Readable(conn) /\ meta.life # 0
    /\ IF persistent
         THEN /\ meta' = [meta EXCEPT !.status = "disconnected", !.left = Ttl]
              /\ Persist("exit", c, FALSE)
         ELSE Forget(FALSE)
    /\ UNCHANGED <<persistent, stored, alarmIn, conn, presVars, histVars>>

\* a persistent session stays: it is stored, its alarm set, the host let go
StoreExit ==
    /\ gate.at = "exit"
    /\ stored' = meta /\ alarmIn' = NextAlarm(meta, conn) /\ gate' = Open
    /\ conn' = [conn EXCEPT ![gate.conn] = "closing"]
    /\ UNCHANGED <<persistent, meta, presVars, histVars>>

\* Mutant: the alarm of a persistent session starts its time again.
AlarmFiresRenewing ==
    /\ gate = Open /\ alarmIn = 0 /\ ~AlarmRunning
    /\ alarmIn' = NoAlarm
    /\ IF Readable(conn) \cap Hosts # {} \/ persistent
         THEN /\ meta' = [meta EXCEPT !.left = Ttl]
              /\ Persist("persist", Nobody, TRUE)
              /\ UNCHANGED presVars
         ELSE /\ Refresh(TRUE, TRUE, meta, conn)
              /\ UNCHANGED <<meta, gate>>
    /\ UNCHANGED <<persistent, stored, conn, histVars>>

AlarmFires ==
    LET served == Readable(conn) \cap Hosts # {}
        Says(status, left) == meta' = [meta EXCEPT !.status = status, !.left = left]
                              /\ Persist("persist", Nobody, TRUE)
    IN
    /\ gate = Open /\ alarmIn = 0 /\ ~AlarmRunning
    /\ alarmIn' = NoAlarm
    /\ \/ /\ meta.life = 0
          /\ UNCHANGED <<meta, gate, presVars>>
       \/ /\ meta.life # 0 /\ served
          /\ Says("connected", Ttl) /\ UNCHANGED presVars
       \/ /\ meta.life # 0 /\ ~served /\ persistent /\ ~Expired
          /\ Says("disconnected", meta.left) /\ UNCHANGED presVars
       \/ /\ meta.life # 0 /\ ~served /\ ~persistent /\ meta.status = "connected"
          /\ Says("disconnected", Ttl) /\ UNCHANGED presVars
       \/ /\ meta.life # 0 /\ ~served /\ ~persistent /\ meta.status # "connected" /\ ~Expired
          /\ Refresh(TRUE, TRUE, meta, conn) /\ UNCHANGED <<meta, gate>>
       \/ /\ Expired /\ ~served /\ (persistent \/ meta.status # "connected")
          /\ Forget(TRUE) /\ UNCHANGED presVars
    /\ UNCHANGED <<persistent, stored, conn, histVars>>

\* /internal/status asked of a session whose time is up
StatusRequest ==
    /\ gate = Open /\ Expired
    /\ Forget(FALSE)
    /\ UNCHANGED <<persistent, stored, alarmIn, conn, presVars, histVars>>

\* deleteAll answered: clearLivePresence waits for the updates asked for so far;
\* whether the alarm goes with the rest depends on the platform's version
\* Mutant: it does not wait for them.
DeleteHasty ==
    /\ gate.at = "delete"
    /\ stored' = Gone /\ gate' = Open /\ alarmIn' \in {alarmIn, NoAlarm}
    /\ clears' = clears \cup {[life |-> gate.life, ahead |-> 0, socks |-> HasSocket]}
    /\ UNCHANGED <<persistent, meta, conn, chain, sending, listed, synced, histVars>>

Delete ==
    /\ gate.at = "delete"
    /\ stored' = Gone /\ gate' = Open /\ alarmIn' \in {alarmIn, NoAlarm}
    /\ clears' = clears \cup {[life |-> gate.life, ahead |-> Len(chain), socks |-> HasSocket]}
    /\ UNCHANGED <<persistent, meta, conn, chain, sending, listed, synced, histVars>>

\* removeStatsPresence answered; then the sockets of the session are closed
Clear(r) ==
    /\ gate = Open /\ r.ahead = 0
    /\ listed' = [listed EXCEPT ![r.life] = Absent]
    /\ conn' = [c \in Conns |-> IF c \in r.socks \cap Readable(conn) THEN "closing" ELSE conn[c]]
    /\ clears' = clears \ {r} /\ synced' = FALSE
    /\ UNCHANGED <<persistent, meta, stored, alarmIn, gate, chain, sending, histVars>>

\* the presence service answered the first update: its handler sets the alarm
Complete ==
    /\ chain # <<>> /\ gate = Open
    /\ listed' = IF sending[1] = 0 THEN listed ELSE [listed EXCEPT ![sending[1]] = sending[2]]
    /\ chain' = Tail(chain)
    /\ sending' = IF Len(chain) > 1 THEN Report(meta, conn) ELSE <<0, Absent>>
    /\ clears' = {[r EXCEPT !.ahead = IF @ = 0 THEN 0 ELSE @ - 1] : r \in clears}
    /\ alarmIn' = IF Head(chain).sets THEN NextAlarm(meta, conn) ELSE alarmIn
    /\ missed' = IF Head(chain).byAlarm \/ (missed = "renewal" /\ Head(chain).sets) THEN "nothing" ELSE missed
    /\ UNCHANGED <<persistent, meta, stored, gate, conn, synced, starts, crashes, orphan>>

-----------------------------------------------------------------------------
(* Time and crashes. *)

Less(n) == IF n = 0 THEN 0 ELSE n - 1

Tick ==
    /\ gate = Open /\ chain = <<>> /\ clears = {} /\ alarmIn # 0
    /\ alarmIn' = IF alarmIn = NoAlarm THEN NoAlarm ELSE alarmIn - 1
    /\ meta' = [meta EXCEPT !.left = Less(@)] /\ stored' = [stored EXCEPT !.left = Less(@)]
    /\ listed' = [l \in DOMAIN listed |->
                    IF listed[l].lease <= 1 THEN Absent ELSE [listed[l] EXCEPT !.lease = @ - 1]]
    /\ synced' = FALSE
    /\ UNCHANGED <<persistent, gate, conn, chain, sending, clears, histVars>>

\* the instance and its sockets are lost, the update under way done or not;
\* an alarm handler that did not finish is run again
Crash ==
    /\ crashes < MaxCrashes /\ crashes' = crashes + 1
    /\ meta' = stored /\ gate' = Open
    /\ conn' = [c \in Conns |-> IF conn[c] \in {"asking", "open", "broken", "closing"} THEN "ended" ELSE conn[c]]
    /\ chain' = <<>> /\ sending' = <<0, Absent>> /\ clears' = {} /\ synced' = FALSE
    /\ \/ UNCHANGED listed
       \/ sending[1] # 0 /\ listed' = [listed EXCEPT ![sending[1]] = sending[2]]
    /\ alarmIn' = IF AlarmRunning /\ alarmIn = NoAlarm THEN 0 ELSE alarmIn
    /\ orphan' = (orphan \/ (gate.at = "arm" /\ alarmIn = NoAlarm))
    /\ missed' = "sockets"
    /\ UNCHANGED <<persistent, stored, starts>>

-----------------------------------------------------------------------------
Relay == StoreStart \/ Arm \/ StoreMeta \/ StoreExit \/ Delete \/ Complete
             \/ AlarmFires \/ \E r \in clears : Clear(r)

Next == Start \/ Relay \/ StatusRequest \/ Tick \/ Crash
            \/ \E c \in Conns : Ask(c) \/ HostAccept(c) \/ ViewerAccept(c) \/ SocketEnd(c)
                                \/ PeerGone(c) \/ Frame(c) \/ Exit(c)

\* the runtime goes on with its handlers, the presence service answers, alarms
\* that are due fire, and time goes on; nothing is assumed of the sockets
Fairness == WF_vars(Relay) /\ WF_vars(Tick)

Spec == Init /\ [][Next]_vars /\ Fairness

-----------------------------------------------------------------------------
(* Properties. *)

\* nothing is under way, and no socket is about to report its end
AtRest == gate = Open /\ chain = <<>> /\ clears = {}
             /\ \A c \in Conns : conn[c] \notin {"broken", "closing"}

\* A stored session is never left without an alarm that comes by the time it
\* expires, or a handler that will set one: what deletes it cannot be lost,
\* whatever joins, leaves, resumes and crashes follow each other (1510, 1556,
\* 3667, 3814), but for a death between storing a session and its alarm.
AlarmArmed ==
    (stored.life # 0 /\ ~orphan) =>
        alarmIn <= stored.left \/ AlarmRunning \/ gate.at = "arm"

\* When nothing is under way the session says "connected" exactly while a host
\* is there: a replaced socket that ends late, an exit that is followed by the
\* end of its socket, a host accepted while the session expires, and, once an
\* alarm has run, a dead instance do not leave it saying anything else.
StatusTruth ==
    (AtRest /\ meta.life # 0 /\ missed # "sockets") =>
        (meta.status = "connected" <=> \E h \in Hosts : conn[h] = "open")

\* The presence service then lists exactly the sockets that are there, and the
\* lease of the entry is renewed before it runs out for as long as they are.
PresenceTruth ==
    (AtRest /\ meta.life # 0 /\ missed = "nothing") =>
        /\ listed[meta.life].host = (\E h \in Hosts : conn[h] = "open")
        /\ listed[meta.life].viewers = Cardinality({v \in Viewers : conn[v] = "open"})

\* A session that has ended, and whose removal is answered, is not listed: no
\* update asked for before its end arrives after it (3808-3811).
NoGhost ==
    \A l \in 1..MaxStarts :
        (crashes = 0 /\ l # meta.life /\ ~(gate.at = "delete" /\ gate.life = l) /\ \A r \in clears : r.life # l)
            => listed[l] = Absent

\* A session whose host stays away is deleted in the end, whoever watches it.
Ends == <>[](Readable(conn) \cap Hosts = {}) => <>[](orphan \/ stored.life = 0)

\* "A session object's lease on "live": renewed while it has sockets, dropped
\* when it has none" (worker/stats-database.ts:219). Of viewers, and instances
\* that do not die.
LeaseRenewed ==
    (AtRest /\ meta.life # 0) =>
        listed[meta.life].viewers = Cardinality({v \in Viewers : conn[v] = "open"})
=============================================================================
