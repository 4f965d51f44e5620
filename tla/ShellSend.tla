------------------------------ MODULE ShellSend ------------------------------
(***************************************************************************)
(* The shell_send operation of the relay (worker/index.ts, class           *)
(* TerminalSession; shared/mcp-write.ts; cmd/shell/session_unix.go).       *)
(*                                                                         *)
(* An agent asks the relay to type a text into the shared terminal and     *)
(* names the operation with an id of its own choosing. The relay claims    *)
(* the id in a durable store, takes the single writer lease, sends the     *)
(* text to the host in one frame, and waits a bounded time for the host's  *)
(* acknowledgement. Every await of the handler is a place where another    *)
(* handler may run and where the relay instance may die.                   *)
(*                                                                         *)
(* Abstractions: a dispatch token is the call that drew it (16 random      *)
(* bytes, drawn once per call); a fingerprint is a member of Prints; human *)
(* typing is a choice made where the code looks at it; run identities are  *)
(* numbers, so the run of a grant is fixed when it is minted and the full  *)
(* key (run, grant, operation) is determined by (grant, operation).        *)
(***************************************************************************)
EXTENDS Naturals, Sequences, FiniteSets

CONSTANTS
    Calls,       \* shell_send requests, retries included
    Grants,      \* grants that may be minted (with the input scope)
    OpIds,       \* client-chosen operation ids
    Prints,      \* fingerprints of the arguments
    MaxOps,      \* capacity of the operation store (MAX_MCP_OPS)
    MaxRun,      \* bound: how many runs the session goes through
    MaxCrashes,  \* bound: how often the relay instance dies
    InputGate,   \* does the platform hold other events back while a handler awaits storage?
    NoCall, NoGrant, NoPrint

ASSUME ConstantsAssumption ==
    /\ InputGate \in BOOLEAN
    /\ MaxOps \in Nat \ {0} /\ MaxRun \in Nat \ {0} /\ MaxCrashes \in Nat
    /\ NoCall \notin Calls /\ NoGrant \notin Grants /\ NoPrint \notin Prints

VARIABLES
    req,        \* what each call asks for; chosen by the client, never changed
    pc,         \* where each call's handler stands
    outcome,    \* the result its dispatch settled with
    reply,      \* what the client was told
    aborted,    \* its AbortController has fired
    putAt,      \* position in images of the write it awaits
    run,        \* meta.runId
    runs,       \* how many run identities were ever drawn
    held,       \* grants in mcpGrants that are not revoked
    ops,        \* mcpOps, by key
    lease,      \* mcpWriterLease
    pending,    \* mcpPendingSends, by key: the call whose promise waits
    index,      \* mcpSendDispatchIndex: the registered tokens
    images,     \* durable storage: images[1] is confirmed, the rest are writes in flight
    grantsDue,  \* a handler still has to store mcpGrants (second await of resume and exit)
    grantRun,   \* the run each grant was minted for, 0 before
    expired,    \* grants past their fixed expiry
    hostUp,     \* a host socket is open
    toHost,     \* Send frames on their way to the host
    acks,       \* SendAck frames on their way to the relay
    ended,      \* runs whose shared program has exited
    sent,       \* calls whose Send frame was emitted
    written,    \* what the host's write did with each call's text
    crashes

callVars  == <<pc, outcome, reply, aborted, putAt>>
relayVars == <<run, held, ops, lease, pending, index>>
grantVars == <<grantRun, expired>>
hostVars  == <<toHost, acks, ended, written>>
vars == <<req, callVars, relayVars, images, grantsDue, grantVars, hostUp,
          hostVars, sent, runs, crashes>>

Key     == Grants \X OpIds
OpState == {"absent", "claiming", "dispatched", "delivered", "uncertain"}
OpRec   == [print : Prints \cup {NoPrint}, state : OpState]
Image   == [run : 1..MaxRun, held : SUBSET Grants, ops : [Key -> OpRec]]

Absent == [print |-> NoPrint, state |-> "absent"]
NoOps  == [k \in Key |-> Absent]

GrantOf(c) == req[c].key[1]
KeyOf(c)   == req[c].key

\* Mutant: a record counts only once it is dispatched.
PresentOnceDispatched(k) == ops[k].state \notin {"absent", "claiming"}

Present(k) == ops[k].state # "absent"

\* isGrantLiveForRun, for the run the relay is in now
Live(g) == g \in held /\ grantRun[g] = run /\ g \notin expired

Active(c)   == pc[c] \notin {"idle", "done"}
Storing(c)  == pc[c] \in {"claiming", "storing", "recording"}

\* A resumed promise runs to its next await before the event loop takes another event;
\* with the input gate, nor is one taken while a handler waits for storage.
EventOK ==
    /\ \A c \in Calls : pc[c] # "settled"
    /\ InputGate => ~grantsDue /\ \A c \in Calls : ~Storing(c)

Newest == images[Len(images)]

\* storage.put: queued behind the writes before it, applied on top of the newest image
PutOps(newOps)    == images' = Append(images, [Newest EXCEPT !.ops = newOps])
PutGrants(newSet) == images' = Append(images, [Newest EXCEPT !.held = newSet])
\* two puts without an await between them reach storage together
PutRun(newRun)    == images' = Append(images, [Newest EXCEPT !.run = newRun, !.ops = NoOps])

\* Mutant: the handler does not await its write.
StoredAtOnce(c) == TRUE

\* The write a call awaits is confirmed once it is the oldest image left.
Stored(c) == putAt[c] <= 1

Waiters == {pending[k] : k \in Key} \ {NoCall}

-----------------------------------------------------------------------------
TypeOK ==
    /\ req \in [Calls -> [key : Key, print : Prints]]
    /\ pc \in [Calls -> {"idle", "hashing", "claiming", "storing", "sealing",
                         "waiting", "settled", "recording", "done"}]
    /\ outcome \in [Calls -> {"none", "delivered", "uncertain"}]
    /\ \A c \in Calls : pc[c] \in {"settled", "recording"} => outcome[c] # "none"
    /\ reply \in [Calls -> {"none", "delivered", "uncertain", "in_flight", "conflict",
                            "busy", "disconnected", "revoked", "lost"}]
    /\ aborted \in [Calls -> BOOLEAN]
    /\ putAt \in [Calls -> Nat]
    /\ run \in 1..MaxRun /\ runs \in 1..MaxRun
    /\ held \in SUBSET Grants
    /\ ops \in [Key -> OpRec]
    /\ lease \in Grants \cup {NoGrant}
    /\ pending \in [Key -> Calls \cup {NoCall}]
    /\ index \in SUBSET Calls
    /\ images \in Seq(Image) /\ Len(images) > 0
    /\ grantsDue \in BOOLEAN
    /\ grantRun \in [Grants -> 0..MaxRun]
    /\ expired \in SUBSET Grants
    /\ hostUp \in BOOLEAN
    /\ toHost \in SUBSET Calls
    /\ acks \in SUBSET [call : Calls, delivered : BOOLEAN]
    /\ ended \in SUBSET (1..MaxRun)
    /\ sent \in SUBSET Calls
    /\ written \in [Calls -> {"none", "part", "full"}]
    /\ crashes \in 0..MaxCrashes

Init ==
    /\ req \in [Calls -> [key : Key, print : Prints]]
    /\ pc = [c \in Calls |-> "idle"]
    /\ outcome = [c \in Calls |-> "none"]
    /\ reply = [c \in Calls |-> "none"]
    /\ aborted = [c \in Calls |-> FALSE]
    /\ putAt = [c \in Calls |-> 0]
    /\ run = 1 /\ runs = 1
    /\ held = {}
    /\ ops = NoOps
    /\ lease = NoGrant
    /\ pending = [k \in Key |-> NoCall]
    /\ index = {}
    /\ images = <<[run |-> 1, held |-> {}, ops |-> NoOps]>>
    /\ grantsDue = FALSE
    /\ grantRun = [g \in Grants |-> 0]
    /\ expired = {}
    /\ hostUp = TRUE
    /\ toHost = {}
    /\ acks = {}
    /\ ended = {}
    /\ sent = {}
    /\ written = [c \in Calls |-> "none"]
    /\ crashes = 0

-----------------------------------------------------------------------------
(* The handler of one call, from one await to the next.                     *)

\* The response is delivered and its controller is untracked.
Answer(c, r) ==
    /\ pc' = [pc EXCEPT ![c] = "done"]
    /\ reply' = [reply EXCEPT ![c] = r]
    /\ outcome' = [outcome EXCEPT ![c] = "none"]
    /\ aborted' = [aborted EXCEPT ![c] = FALSE]

\* The request is admitted and revalidated; the fingerprint is awaited.
Begin(c) ==
    /\ EventOK
    /\ pc[c] = "idle"
    /\ grantRun[GrantOf(c)] # 0
    /\ IF Live(GrantOf(c))
         THEN pc' = [pc EXCEPT ![c] = "hashing"] /\ UNCHANGED <<reply, outcome, aborted>>
         ELSE Answer(c, "revoked")
    /\ UNCHANGED <<req, putAt, relayVars, images, grantsDue, grantVars,
                   hostUp, hostVars, sent, runs, crashes>>

\* resolveMcpOp finds a record: replay its result, coalesce, or report a conflict.
Known(c) ==
    LET rec == ops[KeyOf(c)] IN
    /\ EventOK
    /\ pc[c] = "hashing"
    /\ rec.state # "absent"
    /\ Answer(c, CASE rec.print # req[c].print                -> "conflict"
                   [] rec.print = req[c].print /\ rec.state \in {"delivered", "uncertain"}
                                                              -> rec.state
                   [] OTHER                                   -> "in_flight")
    /\ UNCHANGED <<req, putAt, relayVars, images, grantsDue, grantVars,
                   hostUp, hostVars, sent, runs, crashes>>

\* Mutant: eviction looks at the state of a record only.
EvictableAny == {k \in Key : Present(k)}

\* evictMcpOps: nobody while there is room; else one record of a grant that is no longer
\* live, an uncertain one first. (Which of equals goes first, the oldest, is left open.)
Evictable == {k \in Key : Present(k) /\ ~Live(k[1])}
Victims ==
    LET uncertain == {k \in Evictable : ops[k].state = "uncertain"} IN
    IF Cardinality({k \in Key : Present(k)}) < MaxOps THEN {}
    ELSE IF uncertain # {} THEN uncertain ELSE Evictable
HasRoom == Cardinality({k \in Key : Present(k)}) < MaxOps \/ Evictable # {}

\* Mutant: the claim does not look at the lease.
MayClaimIgnoringLease(human) == ~human /\ hostUp /\ HasRoom

MayClaim(human) == ~human /\ lease = NoGrant /\ hostUp /\ HasRoom

\* A new operation id that is blocked before the claim: the id is not consumed.
Refuse(c, human) ==
    /\ EventOK
    /\ pc[c] = "hashing"
    /\ ~Present(KeyOf(c))
    /\ ~MayClaim(human)
    /\ Answer(c, IF ~human /\ lease = NoGrant /\ ~hostUp THEN "disconnected" ELSE "busy")
    /\ UNCHANGED <<req, putAt, relayVars, images, grantsDue, grantVars,
                   hostUp, hostVars, sent, runs, crashes>>

\* The claim: evict, push the record, and await its storage. No await separates the
\* look-up from the push.
Claim(c) ==
    LET k == KeyOf(c) IN
    /\ EventOK
    /\ pc[c] = "hashing"
    /\ ~Present(k)
    /\ MayClaim(FALSE)
    /\ \E gone \in IF Victims = {} THEN {{}} ELSE {{v} : v \in Victims} :
          ops' = [x \in Key |-> IF x = k THEN [print |-> req[c].print, state |-> "claiming"]
                                ELSE IF x \in gone THEN Absent ELSE ops[x]]
    /\ PutOps(ops')
    /\ putAt' = [putAt EXCEPT ![c] = Len(images) + 1]
    /\ pc' = [pc EXCEPT ![c] = "claiming"]
    /\ UNCHANGED <<req, outcome, reply, aborted, run, held, lease, pending, index, grantsDue,
                   grantVars, hostUp, hostVars, sent, runs, crashes>>

\* mcpUpdateOpState: by key, nothing if the record is gone
Marked(k, s) == IF Present(k) THEN [ops EXCEPT ![k].state = s] ELSE ops

\* The claim is durable: take the writer lease, mark the record dispatched, store again.
TakeLease(c) ==
    /\ \A d \in Calls : pc[d] # "settled"
    /\ pc[c] = "claiming"
    /\ Stored(c)
    /\ lease' = GrantOf(c)
    /\ ops' = Marked(KeyOf(c), "dispatched")
    /\ PutOps(ops')
    /\ putAt' = [putAt EXCEPT ![c] = Len(images) + 1]
    /\ pc' = [pc EXCEPT ![c] = "storing"]
    /\ UNCHANGED <<req, outcome, reply, aborted, run, held, pending, index, grantsDue,
                   grantVars, hostUp, hostVars, sent, runs, crashes>>

\* mcpDispatchSend: no host, no dispatch; otherwise the cipher and the seal are awaited.
StartDispatch(c) ==
    /\ \A d \in Calls : pc[d] # "settled"
    /\ pc[c] = "storing"
    /\ Stored(c)
    /\ pc' = [pc EXCEPT ![c] = IF hostUp THEN "sealing" ELSE "settled"]
    /\ outcome' = [outcome EXCEPT ![c] = IF hostUp THEN "none" ELSE "uncertain"]
    /\ UNCHANGED <<req, reply, aborted, putAt, relayVars, images, grantsDue, grantVars,
                   hostUp, hostVars, sent, runs, crashes>>

\* The final guard, after the awaits and immediately before the frame leaves.
MayEmit(c) == ~aborted[c] /\ hostUp /\ Live(GrantOf(c))

Emit(c) ==
    /\ EventOK
    /\ pc[c] = "sealing"
    /\ MayEmit(c)
    /\ pc' = [pc EXCEPT ![c] = "waiting"]
    /\ pending' = [pending EXCEPT ![KeyOf(c)] = c]
    /\ index' = index \cup {c}
    /\ toHost' = toHost \cup {c}
    /\ sent' = sent \cup {c}
    /\ UNCHANGED <<req, outcome, reply, aborted, putAt, run, held, ops, lease, images,
                   grantsDue, grantVars, hostUp, acks, ended, written, runs, crashes>>

\* The guard fails, a human types, or no cipher can be had: truthfully uncertain.
HoldBack(c) ==
    /\ EventOK
    /\ pc[c] = "sealing"
    /\ pc' = [pc EXCEPT ![c] = "settled"]
    /\ outcome' = [outcome EXCEPT ![c] = "uncertain"]
    /\ UNCHANGED <<req, reply, aborted, putAt, relayVars, images, grantsDue, grantVars,
                   hostUp, hostVars, sent, runs, crashes>>

\* settle, for the promise of one waiting call
Settle(c, r) ==
    /\ pc' = [pc EXCEPT ![c] = "settled"]
    /\ outcome' = [outcome EXCEPT ![c] = r]
    /\ pending' = [pending EXCEPT ![KeyOf(c)] = NoCall]
    /\ index' = index \ {c}

\* Mutant: the deadline starts when the host takes the frame.
AckTimeoutOnceTaken(c) ==
    /\ EventOK
    /\ pc[c] = "waiting" /\ c \notin toHost
    /\ pending[KeyOf(c)] # NoCall
    /\ Settle(c, "uncertain")
    /\ UNCHANGED <<req, reply, aborted, putAt, run, held, ops, lease, images, grantsDue,
                   grantVars, hostUp, hostVars, sent, runs, crashes>>

\* Five seconds without an acknowledgement
AckTimeout(c) ==
    /\ EventOK
    /\ pc[c] = "waiting"
    /\ pending[KeyOf(c)] # NoCall
    /\ Settle(c, "uncertain")
    /\ UNCHANGED <<req, reply, aborted, putAt, run, held, ops, lease, images, grantsDue,
                   grantVars, hostUp, hostVars, sent, runs, crashes>>

\* The client goes away, or the grant's expiry timer aborts the request.
Cancel(c) ==
    /\ EventOK
    /\ Active(c) /\ ~aborted[c]
    /\ aborted' = [aborted EXCEPT ![c] = TRUE]
    /\ IF pc[c] = "waiting" /\ pending[KeyOf(c)] # NoCall
         THEN Settle(c, "uncertain")
         ELSE UNCHANGED <<pc, outcome, pending, index>>
    /\ UNCHANGED <<req, reply, putAt, run, held, ops, lease, images, grantsDue, grantVars,
                   hostUp, hostVars, sent, runs, crashes>>

\* Mutant: the lease is given back only for an acknowledged operation.
FinishKeepingLease(c) ==
    /\ pc[c] = "settled"
    /\ lease' = IF lease = GrantOf(c) /\ outcome[c] = "delivered" THEN NoGrant ELSE lease
    /\ ops' = Marked(KeyOf(c), outcome[c])
    /\ PutOps(ops')
    /\ putAt' = [putAt EXCEPT ![c] = Len(images) + 1]
    /\ pc' = [pc EXCEPT ![c] = "recording"]
    /\ UNCHANGED <<req, outcome, reply, aborted, run, held, pending, index, grantsDue,
                   grantVars, hostUp, hostVars, sent, runs, crashes>>

\* The dispatch settled: give the lease back, record the terminal state, store it.
Finish(c) ==
    /\ pc[c] = "settled"
    /\ lease' = IF lease = GrantOf(c) THEN NoGrant ELSE lease
    /\ ops' = Marked(KeyOf(c), outcome[c])
    /\ PutOps(ops')
    /\ putAt' = [putAt EXCEPT ![c] = Len(images) + 1]
    /\ pc' = [pc EXCEPT ![c] = "recording"]
    /\ UNCHANGED <<req, outcome, reply, aborted, run, held, pending, index, grantsDue,
                   grantVars, hostUp, hostVars, sent, runs, crashes>>

\* The result is durable: revalidate the grant and answer.
Conclude(c) ==
    /\ \A d \in Calls : pc[d] # "settled"
    /\ pc[c] = "recording"
    /\ Stored(c)
    /\ Answer(c, IF Live(GrantOf(c)) THEN outcome[c] ELSE "revoked")
    /\ UNCHANGED <<req, putAt, relayVars, images, grantsDue, grantVars,
                   hostUp, hostVars, sent, runs, crashes>>

-----------------------------------------------------------------------------
(* The host and the frames between it and the relay. Frames may overtake    *)
(* each other, and one that is never taken is a lost one.                   *)

\* handleMcpSend: one write, one acknowledgement; refused while a human types, and
\* incomplete or failed writes are acknowledged as uncertain. The program of an ended
\* run reads nothing any more.
HostWrites(c, effect) ==
    /\ c \in toHost
    /\ grantRun[GrantOf(c)] \in ended => effect = "none"
    /\ toHost' = toHost \ {c}
    /\ written' = [written EXCEPT ![c] = effect]
    /\ acks' = acks \cup {[call |-> c, delivered |-> (effect = "full")]}
    /\ UNCHANGED <<req, callVars, relayVars, images, grantsDue, grantVars, hostUp, ended,
                   sent, runs, crashes>>

\* mcpHandleSendAck: bound by the token; without a registered dispatch it is ignored.
SendAck(a) ==
    LET waiter == pending[KeyOf(a.call)] IN
    /\ EventOK
    /\ a \in acks
    /\ acks' = acks \ {a}
    /\ IF a.call \in index /\ waiter # NoCall
         THEN Settle(waiter, IF a.delivered THEN "delivered" ELSE "uncertain")
         ELSE UNCHANGED <<pc, outcome, pending, index>>
    /\ UNCHANGED <<req, reply, aborted, putAt, run, held, ops, lease, images, grantsDue,
                   grantVars, hostUp, toHost, ended, written, sent, runs, crashes>>

-----------------------------------------------------------------------------
(* Everything else that touches the operation: grants, runs, the host       *)
(* connection, storage and the death of the relay instance.                 *)

\* mcpResolveAllPendingSends(false), with the requests of the calls in cut aborted
ResolveAll(cut) ==
    /\ pc' = [c \in Calls |-> IF c \in Waiters THEN "settled" ELSE pc[c]]
    /\ outcome' = [c \in Calls |-> IF c \in Waiters THEN "uncertain" ELSE outcome[c]]
    /\ aborted' = [c \in Calls |-> aborted[c] \/ (c \in cut /\ Active(c))]
    /\ pending' = [k \in Key |-> NoCall]
    /\ index' = {}

\* cancelMcpInflight alone: the aborted waiters settle themselves
AbortOnly(cut) ==
    /\ pc' = [c \in Calls |-> IF c \in Waiters \cap cut THEN "settled" ELSE pc[c]]
    /\ outcome' = [c \in Calls |-> IF c \in Waiters \cap cut THEN "uncertain" ELSE outcome[c]]
    /\ aborted' = [c \in Calls |-> aborted[c] \/ (c \in cut /\ Active(c))]
    /\ pending' = [k \in Key |-> IF pending[k] \in cut THEN NoCall ELSE pending[k]]
    /\ index' = index \ cut

Mint(g) ==
    /\ EventOK
    /\ grantRun[g] = 0
    /\ grantRun' = [grantRun EXCEPT ![g] = run]
    /\ held' = held \cup {g}
    /\ PutGrants(held')
    /\ UNCHANGED <<req, callVars, run, ops, lease, pending, index, grantsDue, expired,
                   hostUp, hostVars, sent, runs, crashes>>

\* revokeMcpGrant for one grant, invalidateMcpGrants for all of them. The last live grant
\* takes the terminal model with it, and with the model every pending send.
Revoke(gone, cut) ==
    /\ EventOK
    /\ gone # {}
    /\ held' = held \ gone
    /\ IF \E g \in held \ gone : Live(g) THEN AbortOnly(cut) ELSE ResolveAll(cut)
    /\ PutGrants(held')
    /\ UNCHANGED <<req, reply, putAt, run, ops, lease, grantsDue, grantVars, hostUp, hostVars,
                   sent, runs, crashes>>

\* The retirement timer at a grant's fixed expiry
ExpireGrant(g) ==
    /\ EventOK
    /\ g \in held \ expired
    /\ expired' = expired \cup {g}
    /\ IF \E h \in held \ {g} : Live(h)
         THEN UNCHANGED <<pc, outcome, aborted, pending, index>>
         ELSE ResolveAll({})
    /\ UNCHANGED <<req, reply, putAt, run, held, ops, lease, images, grantsDue, grantRun,
                   hostUp, hostVars, sent, runs, crashes>>

\* handleSocketEnd for the last host socket
HostDrop ==
    /\ EventOK
    /\ hostUp
    /\ hostUp' = FALSE
    /\ ResolveAll({})
    /\ UNCHANGED <<req, reply, putAt, run, held, ops, lease, images, grantsDue, grantVars,
                   hostVars, sent, runs, crashes>>

HostReturn ==
    /\ EventOK
    /\ ~hostUp
    /\ hostUp' = TRUE
    /\ UNCHANGED <<req, callVars, relayVars, images, grantsDue, grantVars, hostVars, sent,
                   runs, crashes>>

\* mcpClearRunState and the grants with it, as resume and a persistent task's exit do. The
\* emptied store and the metadata are stored together, the grants after an await.
EndRun(nextRun) ==
    /\ EventOK
    /\ ResolveAll(Calls)
    /\ held' = {}
    /\ ops' = NoOps
    /\ lease' = NoGrant
    /\ run' = nextRun
    /\ PutRun(nextRun)
    /\ grantsDue' = TRUE
    /\ UNCHANGED <<req, reply, putAt, grantVars, hostUp, toHost, acks, written, sent, crashes>>

\* a new random run identity, never used before
Resume ==
    /\ runs < MaxRun
    /\ runs' = runs + 1
    /\ EndRun(runs + 1)
    /\ UNCHANGED ended

TaskExit ==
    /\ run \notin ended /\ hostUp
    /\ EndRun(run)
    /\ ended' = ended \cup {run}
    /\ UNCHANGED runs

\* the second await of EndRun's handlers
StoreGrants ==
    /\ grantsDue
    /\ \A c \in Calls : pc[c] # "settled"
    /\ grantsDue' = FALSE
    /\ PutGrants(held)
    /\ UNCHANGED <<req, callVars, relayVars, grantVars, hostUp, hostVars, sent, runs, crashes>>

\* storage confirms its oldest unconfirmed write
Commit ==
    /\ Len(images) > 1
    /\ images' = Tail(images)
    /\ putAt' = [c \in Calls |-> IF putAt[c] = 0 THEN 0 ELSE putAt[c] - 1]
    /\ UNCHANGED <<req, pc, outcome, reply, aborted, relayVars, grantsDue, grantVars, hostUp,
                   hostVars, sent, runs, crashes>>

\* Mutants: recovery drops orphaned operations; recovery takes them for delivered.
RecoveredForgetting(rec) == IF rec.state \in {"claiming", "dispatched"} THEN Absent ELSE rec
RecoveredOptimistic(rec) ==
    IF rec.state \in {"claiming", "dispatched"} THEN [rec EXCEPT !.state = "delivered"] ELSE rec

\* an operation that was in flight when the instance died can never complete
Recovered(rec) ==
    IF rec.state \in {"claiming", "dispatched"} THEN [rec EXCEPT !.state = "uncertain"] ELSE rec

\* The instance dies and a new one is constructed: of the unconfirmed writes some prefix
\* has reached storage, memory is gone, the clients' requests are lost.
Crash ==
    /\ crashes < MaxCrashes
    /\ crashes' = crashes + 1
    /\ \E i \in 1..Len(images) :
          /\ run' = images[i].run
          /\ held' = images[i].held
          /\ ops' = [k \in Key |-> Recovered(images[i].ops[k])]
          /\ images' = <<[images[i] EXCEPT !.ops = ops']>>
    /\ lease' = NoGrant
    /\ pending' = [k \in Key |-> NoCall]
    /\ index' = {}
    /\ grantsDue' = FALSE
    /\ hostUp' \in BOOLEAN
    /\ pc' = [c \in Calls |-> IF Active(c) THEN "done" ELSE pc[c]]
    /\ reply' = [c \in Calls |-> IF Active(c) THEN "lost" ELSE reply[c]]
    /\ outcome' = [c \in Calls |-> "none"]
    /\ aborted' = [c \in Calls |-> FALSE]
    /\ putAt' = [c \in Calls |-> 0]
    /\ UNCHANGED <<req, grantVars, hostVars, sent, runs>>

-----------------------------------------------------------------------------
Step(c) ==
    \/ Known(c) \/ (\E human \in BOOLEAN : Refuse(c, human)) \/ Claim(c)
    \/ TakeLease(c) \/ StartDispatch(c) \/ Emit(c) \/ HoldBack(c)
    \/ AckTimeout(c) \/ Finish(c) \/ Conclude(c)

Host ==
    \/ \E c \in Calls, effect \in {"none", "part", "full"} : HostWrites(c, effect)
    \/ \E a \in acks : SendAck(a)

Relay ==
    \/ \E g \in Grants : Mint(g) \/ ExpireGrant(g)
    \/ \E g \in held : Revoke({g}, {c \in Calls : GrantOf(c) = g})
    \/ Revoke(held, Calls)
    \/ HostDrop \/ HostReturn \/ Resume \/ TaskExit \/ StoreGrants \/ Commit \/ Crash

Next ==
    \/ \E c \in Calls : Begin(c) \/ Cancel(c) \/ Step(c)
    \/ Host
    \/ Relay

Spec == Init /\ [][Next]_vars

\* The event loop runs what is ready, timers fire, storage answers.
Fairness ==
    /\ \A c \in Calls : WF_vars(Step(c))
    /\ WF_vars(Commit) /\ WF_vars(StoreGrants)

FairSpec == Spec /\ Fairness

-----------------------------------------------------------------------------
\* At most once: of all calls that name the same operation of the same grant - retries after a
\* timeout, a lost reply, a revocation, a new run or a crash of the relay at any await - at most
\* one has its text typed, even in part. (Durable claim before dispatch, resolveMcpOp.)
AtMostOnce ==
    \A c, d \in Calls :
        c # d /\ KeyOf(c) = KeyOf(d) => written[c] = "none" \/ written[d] = "none"

\* A client that is told "delivered", by the dispatching call or by a replay of the stored result,
\* is told so only after the host typed the whole text with the fingerprint it asked for. (Ack
\* bound by dispatch token, store keyed by run, grant and operation, orphans recovered uncertain.
\* With several grants and evictions it relies on the platform's input gate.)
TruthfulDelivery ==
    \A c \in Calls : reply[c] = "delivered" =>
        \E d \in Calls : KeyOf(d) = KeyOf(c) /\ req[d].print = req[c].print /\ written[d] = "full"

\* A waiting handler always owns the entry its acknowledgement and its timer settle: no other
\* call, of the same operation or not, has taken its place, so it cannot wait for ever.
NoOrphanWaiter ==
    \A c \in Calls : pc[c] = "waiting" => pending[KeyOf(c)] = c /\ c \in index

\* One writer at a time: as long as a frame waits for its acknowledgement its grant holds the
\* lease, and nobody else waits. Relies on the platform's input gate.
SingleWriter ==
    \A c, d \in Calls : pc[c] = "waiting" =>
        lease = GrantOf(c) /\ (pc[d] = "waiting" => d = c)

\* The writer lease is not left behind: while it is taken, a call of the grant that holds it is between
\* taking it and giving it back (worker/index.ts:2623-2634), whatever the host, the grants and the
\* runs do, if storage does not reject a write. With EveryCallEnds it is free again and again.
LeaseOwned ==
    lease # NoGrant =>
        \E c \in Calls : lease = GrantOf(c) /\ pc[c] \in {"storing", "sealing", "waiting", "settled"}

\* Two calls with the same operation and arguments are never told different final results, as
\* long as their grant lives and the shared program runs: replays agree with the original answer,
\* across evictions and crashes too. Relies on the platform's input gate.
RepliesAgree ==
    \A c, d \in Calls :
        /\ req[c] = req[d] /\ Live(GrantOf(c)) /\ grantRun[GrantOf(c)] \notin ended
        /\ {reply[c], reply[d]} \subseteq {"delivered", "uncertain"}
        => reply[c] = reply[d]

\* The handler keeps the promise a client relies on: every step types one operation for the
\* first time, or says something true of one, or does neither.
SendEffect == [k \in Key |->
    {[attempt |-> c, print |-> req[c].print, whole |-> (written[c] = "full")] :
        c \in {d \in Calls : KeyOf(d) = k /\ written[d] # "none"}}]
SendTold == [k \in Key |->
    {[print |-> req[c].print, result |-> reply[c]] :
        c \in {d \in Calls : KeyOf(d) = k /\ reply[d] \in {"delivered", "uncertain"}}}]
Contract == INSTANCE SendPromise WITH
    Operations <- Key, Attempts <- Calls, effect <- SendEffect, told <- SendTold
KeepsPromise == Contract!Promise

-----------------------------------------------------------------------------
(* Why at most once holds: an inductive invariant, in parts.                *)

\* what a durable image, or memory, says of the operation of a call and of its grant
Forgets(m, c) == m.ops[KeyOf(c)].state = "absent"
Barred(m, g) ==
    \/ g \notin m.held \/ grantRun[g] # m.run \/ g \in expired \/ grantRun[g] \in ended
Memory   == [run |-> run, held |-> held, ops |-> ops]
PreSend(c) == pc[c] \in {"claiming", "storing", "sealing"}

\* The store never forgets an operation whose frame was emitted while its grant could still pass
\* the final guard and its program still runs: neither in memory nor in any image of storage that
\* a crash could bring back. (Eviction, the emptied store of a run's end, the order of writes.)
NeverForgotten ==
    \A c \in sent :
        /\ Forgets(Memory, c) => Barred(Memory, GrantOf(c))
        /\ \A i \in 1..Len(images) : Forgets(images[i], c) => Barred(images[i], GrantOf(c))

\* A claim is remembered until its frame leaves; in storage, from its first write on.
ClaimRemembered ==
    \A c \in Calls : PreSend(c) =>
        /\ Forgets(Memory, c) => Barred(Memory, GrantOf(c))
        /\ \A i \in 1..Len(images) :
               (pc[c] = "claiming" => i >= putAt[c]) /\ Forgets(images[i], c)
               => Barred(images[i], GrantOf(c))

\* An entry of mcpPendingSends belongs to a waiting call of that operation.
WaitersWait ==
    \A k \in Key : pending[k] # NoCall => pc[pending[k]] = "waiting" /\ KeyOf(pending[k]) = k

\* The write a claim awaits is among those in flight, or confirmed.
WriteInFlight == \A c \in Calls : pc[c] = "claiming" => putAt[c] <= Len(images)

\* Of two claims of one operation, the later was made by a grant that is barred by then.
ClaimAlone ==
    \A c, d \in Calls :
        c # d /\ KeyOf(c) = KeyOf(d) /\ PreSend(c) /\ (PreSend(d) \/ d \in sent)
        => Barred(Memory, GrantOf(c))

\* A second frame of one operation can only leave when the program it was meant for is gone.
SentAlone ==
    \A c, d \in sent : c # d /\ KeyOf(c) = KeyOf(d) => grantRun[GrantOf(c)] \in ended

\* Where a call stands bounds what its frame can have done.
Progressed ==
    /\ \A c \in Calls : pc[c] # "idle" => grantRun[GrantOf(c)] # 0
    /\ \A c \in sent : pc[c] \notin {"idle", "hashing"} /\ ~PreSend(c)
    /\ toHost \subseteq sent
    /\ \A c \in Calls : written[c] # "none" => c \in sent \ toHost

\* Storage lags behind memory only by grants that the end of their run has barred.
StorageFollows ==
    /\ Newest.run = run
    /\ held \subseteq Newest.held
    /\ \A g \in Newest.held \ held : Barred(Newest, g)

\* No grant is kept that a later run minted.
RunsInOrder ==
    /\ \A g \in Grants : grantRun[g] <= runs
    /\ run <= runs
    /\ \A g \in held : grantRun[g] # 0
    /\ \A i \in 1..Len(images) :
          images[i].run <= runs /\ \A g \in images[i].held : grantRun[g] # 0

SendInvariant ==
    /\ NeverForgotten /\ ClaimRemembered /\ WriteInFlight /\ ClaimAlone /\ SentAlone
    /\ Progressed /\ StorageFollows /\ RunsInOrder /\ AtMostOnce

-----------------------------------------------------------------------------
\* Every admitted call is eventually answered (or lost with the instance), whatever the host,
\* the client and the grant do.
EveryCallEnds == \A c \in Calls : pc[c] # "idle" ~> pc[c] = "done"
=============================================================================
