---------------------------- MODULE SessionRecords ----------------------------
(* What the accounts service records of one encrypted session: whether it is  *)
(* over, and the copies of its password sealed to people's vaults             *)
(* (app/server/app.ts, lib/session-reconcile.ts, lib/session-liveness.ts over *)
(* the Postgres store).  The session's machine (cmd/shell/main.go) registers, *)
(* rotates and closes it; people ask for the password, answer, and look.      *)
EXTENDS Naturals, FiniteSets

CONSTANTS Owner, Colleagues,
          MaxRuns, MaxLinks,  \* bounds: restarts of the persistent session, passwords
          MaxCalls            \* bound: calls under way to the service at once

RecordsAssumption == Owner \notin Colleagues /\ MaxRuns \in Nat /\ MaxLinks \in Nat \ {0}

People == {Owner} \cup Colleagues

VARIABLES
  machine,  \* the host: is it persistent, its run, does the program run, its password (link)
  relay,    \* what the relay would say: "live", "away" (waiting, disconnected) or "missing"
  entry,      \* the session's row: there, run (started_at), open (closed_at is null), link (share_url)
  share,    \* [People -> link]: session_key_shares, 0 for none
  ask,      \* [Colleagues -> status]: session_password_requests
  calls,    \* calls that have left for the service and are not applied yet
  cache,    \* the service's last answer of the relay about this session, and the run it was given in
  visit,    \* a request that lists sessions: it has read the row as open
  closer,   \* history: the run the evidence for the last close was from
  astray    \* history: a rotation's call was lost, or was overtaken or joined by another call

recordVars == <<machine, relay, entry, share, ask, calls, cache, visit, closer, astray>>

NoEntry == [there |-> FALSE, run |-> 0, open |-> FALSE, link |-> 0]
Unknown == [says |-> "unknown", run |-> 0]
Service == <<entry, share, ask, closer>>

RecordsInit ==
  /\ \E p \in BOOLEAN : machine = [persistent |-> p, run |-> 0, alive |-> FALSE, link |-> 1]
  /\ relay = "missing"
  /\ entry = NoEntry
  /\ share = [p \in People |-> 0]
  /\ ask = [c \in Colleagues |-> "none"]
  /\ calls = {}
  /\ cache = Unknown
  /\ visit = FALSE
  /\ closer = 0
  /\ astray = FALSE

Call(kind, who, link) == [kind |-> kind, who |-> who, run |-> machine.run, link |-> link]

(* A call leaves; two calls under way that carry different passwords may       *)
(* arrive in either order.                                                    *)
Send(c) ==
  /\ Cardinality(calls) < MaxCalls
  /\ calls' = calls \cup {c}
  /\ astray' = (astray \/ \E d \in calls : d.link # c.link)

Arrives(c, kind) == c.kind = kind /\ c \in calls /\ calls' = calls \ {c}

------------------------------------------------------------------------------
(* The machine.                                                               *)

(* A start, or the restart of a persistent session: the relay creates the      *)
(* session, or takes it up under its old id (SessionDO.resume), created anew  *)
(* if it was forgotten; then link.Register.                                   *)
Start ==
  /\ ~machine.alive /\ machine.run < MaxRuns
  /\ machine.persistent \/ machine.run = 0
  /\ machine' = [machine EXCEPT !.run = @ + 1, !.alive = TRUE]
  /\ relay' = IF relay = "missing" THEN "away" ELSE relay
  /\ Send([Call("register", Owner, machine.link) EXCEPT !.run = machine.run + 1])
  /\ UNCHANGED <<Service, cache, visit>>

(* The rotate command, once the machine has the new password.                 *)
Rotate ==
  /\ machine.alive /\ machine.link < MaxLinks
  /\ machine' = [machine EXCEPT !.link = @ + 1]
  /\ Send(Call("rotate", Owner, machine.link + 1))
  /\ UNCHANGED <<relay, Service, cache, visit>>

(* The program exits.  The relay hears of it if it can be reached: it then     *)
(* forgets the session in the same turn, so that it never says "exited", or,  *)
(* if the session is persistent, has it disconnected.  link.Close tells the   *)
(* service.                                                                   *)
Exit ==
  /\ machine.alive
  /\ machine' = [machine EXCEPT !.alive = FALSE]
  /\ \/ UNCHANGED relay
     \/ relay = "live" /\ relay' = IF machine.persistent THEN "away" ELSE "missing"
  /\ Send(Call("close", Owner, machine.link))
  /\ UNCHANGED <<Service, cache, visit>>

PowerLost ==
  /\ machine.alive
  /\ machine' = [machine EXCEPT !.alive = FALSE]
  /\ UNCHANGED <<relay, Service, calls, cache, visit, astray>>

(* acceptSocket: the host connects, first or again.  A session the relay has   *)
(* forgotten it refuses, and the host keeps trying.                           *)
HostConnects ==
  /\ machine.alive /\ relay = "away" /\ relay' = "live"
  /\ UNCHANGED <<machine, Service, calls, cache, visit, astray>>

(* handleSocketEnd, of a machine that is cut off or gone                      *)
SocketEnds ==
  /\ relay = "live" /\ relay' = "away"
  /\ UNCHANGED <<machine, Service, calls, cache, visit, astray>>

(* alarm, with no host connected, past expiresAt: the relay forgets the        *)
(* session, whether the program has ended or runs on at a machine that has    *)
(* been away as long as that (disconnectedSessionExpiry).                     *)
RelayExpires ==
  /\ relay = "away" /\ relay' = "missing"
  /\ UNCHANGED <<machine, Service, calls, cache, visit, astray>>

------------------------------------------------------------------------------
(* What the service does with each call.                                      *)

(* upsertSession: the row is opened again whatever it was.  The owner's copy  *)
(* follows in a call of its own.                                              *)
UpsertSession(c) ==
  /\ c.kind = "register" /\ c \in calls
  /\ calls' = (calls \ {c}) \cup {[c EXCEPT !.kind = "keep"]}
  /\ entry' = [there |-> TRUE, run |-> c.run, open |-> TRUE, link |-> c.link]
  /\ UNCHANGED <<machine, relay, share, ask, cache, visit, closer, astray>>

(* putKeyShares: of the owner after a registration, of a colleague who typed  *)
(* the password and saw it work.                                              *)
PutKeyShares(c) ==
  /\ Arrives(c, "keep")
  /\ share' = IF entry.there THEN [share EXCEPT ![c.who] = c.link] ELSE share
  /\ UNCHANGED <<machine, relay, entry, ask, cache, visit, closer, astray>>

(* Mutant: a rotation replaces the owner's copy and leaves the others. *)
RotateOwnerOnly(c) ==
  /\ Arrives(c, "rotate")
  /\ IF entry.there
     THEN /\ entry' = [entry EXCEPT !.link = c.link]
          /\ share' = [share EXCEPT ![Owner] = c.link]
     ELSE UNCHANGED <<entry, share>>
  /\ UNCHANGED <<machine, relay, ask, cache, visit, closer, astray>>

(* rotateSessionCredentials: salt and copies in one transaction.  The requests *)
(* stay as they were.                                                         *)
RotateSessionCredentials(c) ==
  /\ Arrives(c, "rotate")
  /\ IF entry.there
     THEN /\ entry' = [entry EXCEPT !.link = c.link]
          /\ share' = [p \in People |-> IF p = Owner THEN c.link ELSE 0]
     ELSE UNCHANGED <<entry, share>>
  /\ UNCHANGED <<machine, relay, ask, cache, visit, closer, astray>>

CloseSession(c) ==
  /\ Arrives(c, "close")
  /\ entry' = [entry EXCEPT !.open = FALSE]
  /\ closer' = IF entry.there THEN c.run ELSE closer
  /\ UNCHANGED <<machine, relay, share, ask, cache, visit, astray>>

(* deleteSession; copies and requests go with the row.                        *)
DeleteSession ==
  /\ entry.there
  /\ entry' = NoEntry
  /\ share' = [p \in People |-> 0] /\ ask' = [c \in Colleagues |-> "none"]
  /\ UNCHANGED <<machine, relay, calls, cache, visit, closer, astray>>

(* A call is lost on its way.                                                 *)
Lost(c) ==
  /\ c \in calls /\ calls' = calls \ {c}
  /\ astray' = (astray \/ c.kind # "close")
  /\ UNCHANGED <<machine, relay, Service, cache, visit>>

------------------------------------------------------------------------------
(* People.                                                                    *)

RequestSessionPassword(c) ==
  /\ entry.there /\ ask[c] # "pending"
  /\ ask' = [ask EXCEPT ![c] = "pending"]
  /\ UNCHANGED <<machine, relay, entry, share, calls, cache, visit, closer, astray>>

(* The owner's browser opens its own copy and seals it to the asker's vault.  *)
Accept(c) ==
  /\ entry.there /\ ask[c] = "pending" /\ share[Owner] # 0
  /\ Send(Call("approve", c, share[Owner]))
  /\ UNCHANGED <<machine, relay, Service, cache, visit>>

ResolvePasswordRequest(c) ==
  /\ Arrives(c, "approve")
  /\ IF entry.there /\ ask[c.who] = "pending"
     THEN ask' = [ask EXCEPT ![c.who] = "answered"] /\ share' = [share EXCEPT ![c.who] = c.link]
     ELSE UNCHANGED <<ask, share>>
  /\ UNCHANGED <<machine, relay, entry, cache, visit, closer, astray>>

Decline(c) ==
  /\ ask[c] = "pending"
  /\ ask' = [ask EXCEPT ![c] = "answered"]
  /\ UNCHANGED <<machine, relay, entry, share, calls, cache, visit, closer, astray>>

(* A colleague types the password, which opens the session, and keeps it.     *)
Keep(c) ==
  /\ entry.there /\ relay = "live" /\ machine.alive
  /\ Send(Call("keep", c, machine.link))
  /\ UNCHANGED <<machine, relay, Service, cache, visit>>

------------------------------------------------------------------------------
(* A look at the sessions closes those the relay says are over.               *)

(* query: an answer that could not be had leaves the last one in place, and a *)
(* look that is out of budget takes the last one, however old.                *)
Query ==
  /\ visit
  /\ cache' = [says |-> relay, run |-> machine.run]
  /\ cache' # cache
  /\ UNCHANGED <<machine, relay, Service, calls, visit, astray>>

ListSessions ==
  /\ ~visit /\ entry.there /\ entry.open
  /\ visit' = TRUE
  /\ UNCHANGED <<machine, relay, Service, calls, cache, astray>>

(* Mutant: a machine that is away counts as gone. *)
RelaySaysGone == cache.says \in {"missing", "exited", "away"}

(* relaySaysEnded; "exited" is accepted and, from this relay, never comes.     *)
RelaySaysEnded == cache.says \in {"missing", "exited"}

CloseEndedSessions ==
  /\ visit /\ visit' = FALSE
  /\ IF RelaySaysEnded /\ entry.there
     THEN entry' = [entry EXCEPT !.open = FALSE] /\ closer' = cache.run
     ELSE UNCHANGED <<entry, closer>>
  /\ UNCHANGED <<machine, relay, share, ask, calls, cache, astray>>

RecordsNext ==
  \/ Start \/ Rotate \/ Exit \/ PowerLost \/ HostConnects \/ SocketEnds \/ RelayExpires \/ DeleteSession
  \/ Query \/ ListSessions \/ CloseEndedSessions
  \/ \E c \in calls :
       \/ UpsertSession(c) \/ PutKeyShares(c) \/ RotateSessionCredentials(c) \/ CloseSession(c)
       \/ ResolvePasswordRequest(c) \/ Lost(c)
  \/ \E c \in Colleagues : RequestSessionPassword(c) \/ Accept(c) \/ Decline(c) \/ Keep(c)

RecordsSpec == RecordsInit /\ [][RecordsNext]_recordVars

------------------------------------------------------------------------------
Kinds == {"register", "keep", "rotate", "close", "approve"}

RecordsTypeOK ==
  /\ machine \in [persistent : BOOLEAN, run : 0..MaxRuns, alive : BOOLEAN, link : 1..MaxLinks]
  /\ relay \in {"live", "away", "missing"}
  /\ entry \in [there : BOOLEAN, run : 0..MaxRuns, open : BOOLEAN, link : 0..MaxLinks]
  /\ share \in [People -> 0..MaxLinks]
  /\ ask \in [Colleagues -> {"none", "pending", "answered"}]
  /\ calls \subseteq [kind : Kinds, who : People, run : 0..MaxRuns, link : 1..MaxLinks]
  /\ cache \in [says : {"unknown", "live", "away", "missing"}, run : 0..MaxRuns]
  /\ closer \in 0..MaxRuns
  /\ visit \in BOOLEAN /\ astray \in BOOLEAN
  /\ entry.there \/ \A p \in People : share[p] = 0

Registered == entry.there /\ entry.run = machine.run

(* "A machine that is merely away is left alone" (session-reconcile.ts:23),   *)
(* and a registration opens the row again (29): a running session is shown as *)
(* over only if the relay has forgotten it, and nobody will reach it in this  *)
(* run, or because of word that is older than the run: a close, or an answer  *)
(* of the relay, from the run before that arrives after the registration;     *)
(* nothing opens the row again then.  That the relay forgets a machine that   *)
(* is away long enough, and the row of a program that runs on is closed, is   *)
(* what the code does against the letter of that line.                        *)
ClosedByOldWordOnly ==
  machine.alive /\ Registered /\ ~entry.open => closer < machine.run \/ relay = "missing"

(* "A vault share is the current credential generation"                       *)
(* (app/src/vault/use-session-password.ts:9): unless a call was lost or two   *)
(* with different passwords were under way at once, every sealed copy opens   *)
(* the session as soon as nothing is under way.                               *)
CopiesOpen ==
  ~astray /\ calls = {} /\ entry.there =>
    entry.link = machine.link /\ \A p \in People : share[p] \in {0, machine.link}

===============================================================================
