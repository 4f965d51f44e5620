-------------------------- MODULE CredentialRotation --------------------------
(***************************************************************************)
(* Changing the password of a live session (cmd/shell/session_unix.go, the *)
(* closure given to BindPasswordRotation; cmd/shell/sessions_unix.go;      *)
(* internal/relay/relay.go; worker/index.ts, credentials_rotate).          *)
(*                                                                         *)
(* The host swaps the cipher every frame is sealed with, queues a          *)
(* credentials_rotate event, and waits three seconds for the relay to      *)
(* answer that it has revoked the grants and removed the viewers that held *)
(* the old key. The acknowledgement is a token in a channel of capacity    *)
(* one: it does not say which event it answers.                            *)
(*                                                                         *)
(* The n-th rotation draws key n; the session starts with key 0. Events    *)
(* and acknowledgements carry the number of their rotation as a history    *)
(* variable that no action of the program reads.                           *)
(***************************************************************************)
EXTENDS Naturals, Sequences

CONSTANTS
    Grants,        \* MCP grants the host may ask for
    MaxRotations,  \* bound: how many rotations are attempted
    MaxSockets,    \* bound: how often the relay connection is dialled
    Capacity,      \* room in the outgoing channel (128 in the code)
    MaxInbound,    \* bound: messages on their way to the host
    NoGrant

RotationAssumption ==
    /\ MaxRotations \in Nat /\ MaxSockets \in Nat \ {0} /\ MaxInbound \in Nat
    /\ Capacity \in Nat \ {0}
    /\ NoGrant \notin Grants

Keys  == 0..MaxRotations
NoKey == MaxRotations + 1

VARIABLES
    key,        \* the key in frameCipher
    told,       \* the credentials the owner was given last (session.ShareURL, currentPassword)
    record,     \* those in the local session record
    disk,       \* those in the persistent state file
    pc,         \* the rotation closure: "idle", "swapped" or "waiting"
    old,        \* its previousCipher
    rotations,  \* how many were begun; the number of the latest
    slot,       \* rotationAcknowledged: 0 when empty
    out,        \* connection.outgoing, kept across sockets
    sealed,     \* a frame the output emitter has sealed and not yet queued
    up, sockets,   \* is a socket open, and which
    wire,       \* rotation events written to a socket, not yet handled by the relay
    inbound,    \* sent to the host, not yet read by readRelay
    opened,     \* input that readRelay has decrypted and not yet written to the PTY
    known,      \* keys the owner was ever told, those a viewer may hold
    grants,     \* the relay's grant records, and whether the owner got the bearer
    minting,    \* the grant being issued under rotationMu
    timedOut,   \* has a rotation run into its timeout?
    trusted,    \* was the latest success owed to the acknowledgement of its own event?
    writeLost   \* has writing the old credentials back failed unnoticed?

hostVars  == <<key, told, record, disk, pc, old, rotations, slot, known, timedOut, trusted, writeLost>>
relayVars == <<grants, minting>>
netVars   == <<up, sockets, wire>>
readVars  == <<inbound, opened>>
rotationVars == <<hostVars, out, sealed, netVars, readVars, relayVars>>

Event == [kind : {"frame", "rotate"}, n : Keys]
GrantRec == [state : {"none", "asked", "live", "revoked"}, key : Keys, held : BOOLEAN]

RotationTypeOK ==
    /\ key \in Keys /\ told \in Keys /\ record \in Keys /\ disk \in Keys /\ old \in Keys
    /\ pc \in {"idle", "swapped", "waiting"}
    /\ rotations \in Keys /\ slot \in Keys
    /\ out \in Seq(Event) /\ Len(out) <= Capacity
    /\ sealed \in Keys \cup {NoKey} /\ opened \in Keys \cup {NoKey}
    /\ up \in BOOLEAN /\ sockets \in 1..MaxSockets
    /\ wire \in Seq([n : Keys, socket : 1..MaxSockets])
    /\ inbound \in Seq([kind : {"input", "ack"}, n : Keys])
    /\ known \in SUBSET Keys
    /\ grants \in [Grants -> GrantRec]
    /\ minting \in Grants \cup {NoGrant}
    /\ timedOut \in BOOLEAN /\ trusted \in BOOLEAN /\ writeLost \in BOOLEAN

RotationInit ==
    /\ key = 0 /\ told = 0 /\ record = 0 /\ disk = 0 /\ old = 0
    /\ pc = "idle" /\ rotations = 0 /\ slot = 0
    /\ out = <<>> /\ sealed = NoKey
    /\ up = TRUE /\ sockets = 1 /\ wire = <<>>
    /\ inbound = <<>> /\ opened = NoKey
    /\ known = {0}
    /\ grants = [g \in Grants |-> [state |-> "none", key |-> 0, held |-> FALSE]]
    /\ minting = NoGrant
    /\ timedOut = FALSE /\ trusted = TRUE /\ writeLost = FALSE

-----------------------------------------------------------------------------
(* The rotation closure, called with rotationMu held.                       *)

\* The new credentials reach the state file and the record, then the cipher is swapped.
BeginRotation ==
    /\ pc = "idle" /\ minting = NoGrant
    /\ rotations < MaxRotations
    /\ rotations' = rotations + 1
    /\ disk' = rotations' /\ record' = rotations'
    /\ old' = key /\ key' = rotations'
    /\ pc' = "swapped"
    /\ UNCHANGED <<told, slot, known, timedOut, trusted, writeLost, out, sealed, netVars,
                   readVars, relayVars>>

\* UpdateCredentials fails and restores the record; the state file is written back, and
\* whether that works is not looked at.
BeginFails(restored) ==
    /\ pc = "idle" /\ minting = NoGrant
    /\ rotations < MaxRotations
    /\ rotations' = rotations + 1
    /\ disk' = IF restored THEN disk ELSE rotations'
    /\ writeLost' = (writeLost \/ ~restored)
    /\ UNCHANGED <<key, told, record, pc, old, slot, known, timedOut, trusted, out, sealed,
                   netVars, readVars, relayVars>>

\* connection.Send: waits for room, whether or not a socket is open
SendRotate ==
    /\ pc = "swapped"
    /\ Len(out) < Capacity
    /\ out' = Append(out, [kind |-> "rotate", n |-> rotations])
    /\ pc' = "waiting"
    /\ UNCHANGED <<key, told, record, disk, old, rotations, slot, known, timedOut, trusted,
                   writeLost, sealed, netVars, readVars, relayVars>>

\* An acknowledgement is there: the owner is told the new credentials.
Succeed ==
    /\ pc = "waiting"
    /\ slot # 0
    /\ slot' = 0
    /\ told' = rotations /\ known' = known \cup {rotations}
    /\ trusted' = (slot = rotations)
    /\ pc' = "idle"
    /\ UNCHANGED <<key, record, disk, old, rotations, timedOut, writeLost, out, sealed, netVars,
                   readVars, relayVars>>

\* Mutant: the cipher keeps the fresh key.
TimeOutKeepingKey(recordBack, diskBack) ==
    /\ pc = "waiting"
    /\ record' = IF recordBack THEN told ELSE record
    /\ disk' = IF diskBack THEN old ELSE disk
    /\ writeLost' = (writeLost \/ ~recordBack \/ ~diskBack)
    /\ timedOut' = TRUE
    /\ pc' = "idle"
    /\ UNCHANGED <<key, told, old, rotations, slot, known, trusted, out, sealed, netVars, readVars,
                   relayVars>>

\* Mutant: there is no deadline for the acknowledgement.
TimeOutNever(recordBack, diskBack) == FALSE

\* Three seconds without one: rollback. The queued event stays queued; the results of the two
\* writes are dropped.
TimeOut(recordBack, diskBack) ==
    /\ pc = "waiting"
    /\ key' = old
    /\ record' = IF recordBack THEN told ELSE record
    /\ disk' = IF diskBack THEN old ELSE disk
    /\ writeLost' = (writeLost \/ ~recordBack \/ ~diskBack)
    /\ timedOut' = TRUE
    /\ pc' = "idle"
    /\ UNCHANGED <<told, old, rotations, slot, known, trusted, out, sealed, netVars, readVars,
                   relayVars>>

-----------------------------------------------------------------------------
(* The other goroutines of the host.                                        *)

\* enqueueFrame: seal under the cipher's read lock, only while connected ...
Seal ==
    /\ sealed = NoKey /\ up
    /\ sealed' = key
    /\ UNCHANGED <<hostVars, out, netVars, readVars, relayVars>>

\* ... then TrySend, after the lock is released. A full channel refuses the frame.
Enqueue ==
    /\ sealed # NoKey
    /\ out' = IF Len(out) < Capacity THEN Append(out, [kind |-> "frame", n |-> sealed]) ELSE out
    /\ sealed' = NoKey
    /\ UNCHANGED <<hostVars, netVars, readVars, relayVars>>

\* Mutant: acknowledgements bypass the goroutine that writes input.
ReadAckAside ==
    /\ inbound # <<>>
    /\ Head(inbound).kind = "ack"
    /\ inbound' = Tail(inbound)
    /\ slot' = IF slot = 0 THEN Head(inbound).n ELSE slot
    /\ UNCHANGED <<key, told, record, disk, pc, old, rotations, known, timedOut, trusted, writeLost,
                   out, sealed, netVars, opened, relayVars>>

\* readRelay, one message at a time: an acknowledgement fills the channel or is dropped
ReadAck ==
    /\ opened = NoKey /\ inbound # <<>>
    /\ Head(inbound).kind = "ack"
    /\ inbound' = Tail(inbound)
    /\ slot' = IF slot = 0 THEN Head(inbound).n ELSE slot
    /\ UNCHANGED <<key, told, record, disk, pc, old, rotations, known, timedOut, trusted, writeLost,
                   out, sealed, netVars, opened, relayVars>>

\* input is opened with the key of the moment, or discarded ...
ReadInput ==
    /\ opened = NoKey /\ inbound # <<>>
    /\ Head(inbound).kind = "input"
    /\ inbound' = Tail(inbound)
    /\ opened' = IF Head(inbound).n = key THEN key ELSE NoKey
    /\ UNCHANGED <<hostVars, out, sealed, netVars, relayVars>>

\* ... and then written, however long the terminal takes
WriteInput ==
    /\ opened # NoKey
    /\ opened' = NoKey
    /\ UNCHANGED <<hostVars, out, sealed, netVars, inbound, relayVars>>

\* Mutant: issuance does not take rotationMu.
MintAskUnserialized(g) ==
    /\ minting = NoGrant
    /\ grants[g].state = "none"
    /\ grants' = [grants EXCEPT ![g] = [@ EXCEPT !.state = "asked", !.key = key]]
    /\ minting' = g
    /\ UNCHANGED <<hostVars, out, sealed, netVars, readVars>>

\* A grant is asked for over HTTP with the key of the moment, under rotationMu.
MintAsk(g) ==
    /\ pc = "idle" /\ minting = NoGrant
    /\ grants[g].state = "none"
    /\ grants' = [grants EXCEPT ![g] = [@ EXCEPT !.state = "asked", !.key = key]]
    /\ minting' = g
    /\ UNCHANGED <<hostVars, out, sealed, netVars, readVars>>

\* createMcpGrant at the relay, perhaps after the host has given up
RelayMints(g) ==
    /\ grants[g].state = "asked"
    /\ grants' = [grants EXCEPT ![g].state = "live"]
    /\ UNCHANGED <<hostVars, out, sealed, netVars, readVars, minting>>

\* The answer carries the bearer; after fifteen seconds there is none and nobody ever gets it.
MintAnswer ==
    /\ minting # NoGrant
    /\ \/ grants' = grants
       \/ /\ grants[minting].state \in {"live", "revoked"}
          /\ grants' = [grants EXCEPT ![minting].held = TRUE]
    /\ minting' = NoGrant
    /\ UNCHANGED <<hostVars, out, sealed, netVars, readVars>>

-----------------------------------------------------------------------------
(* The connection and the relay.                                            *)

Dial ==
    /\ ~up /\ sockets < MaxSockets
    /\ up' = TRUE /\ sockets' = sockets + 1
    /\ UNCHANGED <<hostVars, out, sealed, wire, readVars, relayVars>>

\* Of what was under way a prefix still arrives; the outgoing channel is kept.
Drop ==
    /\ up
    /\ up' = FALSE
    /\ \E i \in 0..Len(wire) : wire' = SubSeq(wire, 1, i)
    /\ \E i \in 0..Len(inbound) : inbound' = SubSeq(inbound, 1, i)
    /\ UNCHANGED <<hostVars, out, sealed, sockets, opened, relayVars>>

\* serve: one message leaves the channel for the socket. (What a frame does at the relay and at
\* the viewers is left out.)
Transmit ==
    /\ up /\ out # <<>>
    /\ wire' = IF Head(out).kind = "rotate"
                 THEN Append(wire, [n |-> Head(out).n, socket |-> sockets]) ELSE wire
    /\ out' = Tail(out)
    /\ UNCHANGED <<hostVars, sealed, up, sockets, readVars, relayVars>>

\* credentials_rotate: revoke every grant, remove every viewer, then answer on the socket the
\* event came from. (The revocation is awaited with the input gate closed.)
RelayRotate ==
    /\ wire # <<>>
    /\ wire' = Tail(wire)
    /\ grants' = [g \in Grants |-> IF grants[g].state = "live"
                                     THEN [grants[g] EXCEPT !.state = "revoked"] ELSE grants[g]]
    /\ IF up /\ Head(wire).socket = sockets
         THEN inbound' = Append(inbound, [kind |-> "ack", n |-> Head(wire).n])
         ELSE UNCHANGED inbound
    /\ UNCHANGED <<hostVars, out, sealed, up, sockets, opened, minting>>

\* A viewer's keystroke under any key it was ever given is forwarded unread.
ViewerInput(k) ==
    /\ up /\ Len(inbound) < MaxInbound
    /\ inbound' = Append(inbound, [kind |-> "input", n |-> k])
    /\ UNCHANGED <<hostVars, out, sealed, netVars, opened, relayVars>>

-----------------------------------------------------------------------------
Rotation ==
    \/ BeginRotation \/ (\E restored \in BOOLEAN : BeginFails(restored))
    \/ SendRotate \/ Succeed \/ (\E r, d \in BOOLEAN : TimeOut(r, d))

RotationNext ==
    \/ Rotation
    \/ Seal \/ Enqueue \/ ReadAck \/ ReadInput \/ WriteInput
    \/ \E g \in Grants : MintAsk(g) \/ RelayMints(g)
    \/ MintAnswer
    \/ Dial \/ Drop \/ Transmit \/ RelayRotate
    \/ \E k \in known : ViewerInput(k)

RotationSpec == RotationInit /\ [][RotationNext]_rotationVars

\* The goroutines run, timers fire, the connection dials again for as long as it takes. A blocked
\* Send gets the next free place of the channel, before any TrySend: strong fairness.
Fairness ==
    /\ SF_rotationVars(SendRotate) /\ WF_rotationVars(Succeed \/ \E r, d \in BOOLEAN : TimeOut(r, d))
    /\ WF_rotationVars(Dial) /\ WF_rotationVars(Transmit)

FairSpec == RotationSpec /\ Fairness

-----------------------------------------------------------------------------
Claimed(g) == grants[g].state = "live" /\ grants[g].held

\* Once the owner is told that the password was rotated, no capability that holds an older key is
\* left (docs/MCP.md: rotation revokes every existing MCP grant).
RotatedMeansRevoked ==
    pc = "idle" => \A g \in Grants : Claimed(g) => grants[g].key = told

\* It is so whenever the acknowledgement taken answers this rotation's own event: revocation comes
\* before the answer, and no grant is issued with the old key in between (rotationMu), whatever
\* is lost or late.
OwnAckRevokes ==
    trusted /\ pc = "idle" => \A g \in Grants : Claimed(g) => grants[g].key = told

\* Then also no keystroke sealed with an older key can still reach the program: readRelay writes
\* the input it opened before it looks at the acknowledgement.
OldInputBarred ==
    trusted /\ pc = "idle" => opened \in {NoKey, told}

\* An acknowledgement is taken for another rotation's only after one has run into its timeout.
ForeignAckNeedsTimeout == ~trusted => timedOut

\* Between rotations the credentials on disk, in the record, in the cipher and those the owner
\* knows agree, after failures too, unless a rollback's own write failed.
CredentialsAgree ==
    pc = "idle" => key = told /\ (~writeLost => record = told /\ disk = told)

\* Every rotation ends, with the relay gone too. (Send waits for room with rotationMu held: it
\* ends because the connection keeps dialling.)
RotationEnds == pc # "idle" ~> pc = "idle"
=============================================================================
