# A verification model of shell.online's relay, host and accounts service

shell.online shares a terminal. A Go program on the owner's machine (the *host*,
`cmd/shell`) runs a command in a PTY and dials a relay. The relay is one Cloudflare
Durable Object per session (`worker/index.ts`, class `TerminalSession`), and browsers
(*viewers*, `app/src/terminal`, `web/`) and MCP agents talk to the shared terminal
through it. Terminal traffic is sealed end to end: the relay forwards frames it cannot
read, except while an MCP grant gives it the frame key. An *accounts service*
(`app/server`, over Postgres) keeps people, teams, machines, the record of every session,
copies of its password sealed to people's vaults, and the requests by which a teammate is
given an agent's access.

The modules here model the parts of that system whose correctness depends on the order
in which things happen: what is stored before what, what is acknowledged to whom, what was
read before it is acted upon, and what survives a lost socket, a lost call or a process that
dies. Paths below are relative to `src/`; `W` is `worker/index.ts`, `G` is
`cmd/shell/session_unix.go`, `S` is `app/server/lib/store-postgres.ts`.

Contents:
[inventory](#1-inventory) ·
[plan](#2-plan) ·
[modules and code](#3-modules-and-code) ·
[runs](#4-runs-bounds-and-fairness) ·
[proofs](#5-proofs) ·
[findings](#6-findings-and-observations) ·
[limits](#7-what-is-not-modelled) ·
[running](#running)

---

## 1. Inventory

### Execution model

* **Relay.** One JavaScript thread per session. A handler runs without interruption from
  one `await` to the next. While it awaits its own *storage*, the platform's input gate
  holds other events back; while it awaits anything else (cryptography, a fetch to the
  presence or accounts service) other handlers run. Writes are queued and confirmed in
  order; when the instance dies, a prefix of the unconfirmed ones is on disk, memory and
  HTTP requests are gone, and hibernated WebSockets survive.
* **Host.** Goroutines: the relay connection (dial loop, one reader, one writer over a
  channel of 128 messages that outlives a socket), `readRelay`, the output batcher, the
  PTY copier, the local control socket, the rotation closure, the poll for team grants.
  Several hosts, a daemon and an agent run on one machine and meet in its files.
* **Accounts service.** Several processes may run; a route calls the store a few times, and
  each store call is one transaction (a lock on the team, the session or the owner, where the
  Postgres store takes one) or a few statements without one. Between two calls any other request
  may run. Its callers — hosts, browsers, daemons — retry, give up, and lose answers.
* **Viewers.** One WebSocket each, a renderer with a bounded backlog, a key that may be
  out of date after a rotation.

### Components

| component | state it keeps | operations | module |
|---|---|---|---|
| **shell_send** (`W` 2140–2660, `shared/mcp-write.ts`, `G` handleMcpSend) | operation store `mcpOps` (durable), writer lease, pending promises, dispatch index | claim, dispatch, acknowledge, time out, cancel, recover after a crash | `ShellSend` |
| **Grants at the relay** (`W` 1081–2130, 2870–3000, `shared/mcp-grants.ts`, `worker/team-authorization.ts`) | `mcpGrants` (durable), in-flight controllers, retirement timers | mint, list, revoke, expire, admit, revalidate | `TeamGrants`, in part |
| **Team grants at the accounts service** (`app/server/app.ts`, `S`, `cmd/shell/mcp_team.go`) | rows of `mcp_team_grants`, the host's list of what it minted | ask, fetch, poll, report, revoke, acknowledge | `TeamGrants` |
| **Terminal model** (`W` 1680–1980, `shared/terminal-model.ts`) | model, its generation, seed promise, crypto queue | seed through an internal snapshot, feed, read, free | `TerminalModelSeed` |
| **Credential rotation** (`G` 231–290, `cmd/shell/sessions_unix.go`, `W` credentials_rotate) | cipher, share URL and password, local record, state file, acknowledgement channel | rotate, acknowledge, roll back, issue a grant under the same mutex | `CredentialRotation` |
| **Output path** (`G` outputEmitter, `internal/ringbuffer`, `internal/relay`, `W` forwarding, `app/src/terminal/connection.ts`, `web/terminal-writes.ts`) | ring and offsets, cut, deferred replies, queue, generation, viewers' screens | flush, broadcast, answer a snapshot request, defer, drop, dial | `OutputStream` |
| **Kept screen** (`W` cacheScreen, cachedScreen, sendCachedScreen, adoptHostGrid; `G` outputEmitter; `cmd/shell/terminal_grid.go`) | chunks, chunk count, grid and host's grid in storage; the emulator's grid; screens and announcements under way | draw, queue, announce, adopt, keep, replay | `ScreenCache` |
| **Session lifecycle** (`W` initialize, resume, acceptSocket, handleSocketEnd, alarm, expire, exit) | `meta` (durable), alarm, sockets, presence chain | create, connect, disconnect, resume, exit, expire | `SessionLifecycle` |
| **Session records and password copies** (`app/server/app.ts`, `lib/session-reconcile.ts`, `lib/session-liveness.ts`, `S`) | the session's row, key shares, password requests, a cache of the relay's answers | register, rotate, close, delete, reconcile, ask, approve, keep | `SessionRecords` |
| **Teams** (`app/server/routes/organizations.ts`, `routes/account.ts`, `lib/orgs.ts`) | organizations, memberships, invitations, deleted accounts | found, invite, join, leave, remove, promote, delete | `Organizations` |
| **Machines and logins** (`app/server/app.ts`, `lib/tokens.ts`, `lib/codes.ts`) | one-time codes, device rows, refresh hashes | log in, sign out, unlink | `Devices` |
| **External analysis** (`app/server/lib/jev/integration.ts`, `S`) | consent with a version, one assessment per session | consent, withdraw, assess, list | `Assessments` |
| **Local sessions** (`cmd/shell/session_reservation.go`, `persistent.go`, `sessions*.go`, `local_transport_unix.go`) | state file, session records, control sockets | claim, publish, finalize, close, rotate | `LocalSessions` |
| **Daemon, agent and remote start** (`cmd/shell/daemon*.go`, `agent.go`, `agent_loop.go`, `app/server/app.ts`, `app/src/routes/Workspace.tsx`) | lock, control socket, the published key, queued commands | start, stop, replace, poll, claim, seal, open | `RemoteStart` |
| **Input arbitration** (`W` claimInputLease, mcpHumanTypingActive, `G` inputArbiter) | typing leases in the sockets' attachments, last human write | claim, refuse, hear of the keyboard, guard an agent's text | `InputArbitration` |
| **Grid** (`cmd/shell/terminal_grid.go`, `sessions_unix.go`, `W` adoptHostGrid) | the PTY's size, the local limit, what the relay was told | resize, attach, detach, request, announce | `GridControl` |
| **End-to-end encryption** (`internal/e2ee`, `shared/e2ee.ts`) | key, send sequence, replay window | seal, open, refuse | `ReplayWindow`, in part |
| **Wire protocol** (`internal/protocol`, `shared/protocol.ts`) | — | encode, decode | — |
| **Standalone server** (`standalone/server.ts`) | sessions in memory | a relay without MCP and storage | — |
| **Vault keys, profiles, comments, files, mail, statistics, summaries, CLI, sites, game** | — | — | — |

### What is hard, and what correctness means there

* **shell_send** has three awaited writes, a frame and an acknowledgement per call; clients
  retry with the same operation id. *Correct:* the text of one operation is typed at most
  once, whatever dies in between; "delivered" is only said when it was; every call is
  answered; there is one writer at a time.
* **Rotation** is a two-party change over a lossy connection with a timeout and a rollback.
  *Correct:* when the owner is told "rotated", nothing that holds the old key works any
  more; when it fails, cipher, record, state file and owner agree on the old one.
* **Output** has two producers (flush and snapshot replies), two kinds of loss (a full
  queue, a dead socket) and four recovery mechanisms. *Correct:* no byte is shown twice;
  a viewer is never left with a hole that nobody will fill.
* **The kept screen** is written in three steps. *Correct:* what is replayed is one
  screen, or nothing.
* **The lifecycle** must match sockets, status, alarm and presence through reconnects and
  expiry. *Correct:* status says what the open sockets say; every stored session has an
  alarm; after the end nothing is left in storage and nobody is shown as live.
* **Team grants** are asked for at one service, minted at a second by a third party that polls,
  and revoked by whoever loses patience first. *Correct:* what was acknowledged as revoked is
  dead; nobody is served who was never, at one moment, entitled to it — although the check is
  three reads.
* **The model's seeding** crosses several awaits. *Correct:* what an agent is shown is this
  run's terminal, whole.
* **Records** are kept by reports that may be lost or overtake each other. *Correct:* a session
  that runs is not shown as closed, except on evidence older than its registration; a copy of
  the password opens the session.
* **Teams** are changed by routes that read first and write later. *Correct:* a team has one
  owner; a deleted account stays out.
* **Logins** find a row in one call and write it in another. *Correct:* a login retires those
  before it.
* **Analysis** sends a screen to a third party while consent may be withdrawn. *Correct:* nothing
  leaves under a consent withdrawn before; a withdrawal leaves no answer behind.
* **Local files** are the only thing several launches of one session share. *Correct:* one runs;
  a session that ended does not stand in the way of the next; what is saved is what is used.
* **The terminal's size** is set by terminals on the machine and asked for by browsers, and told to a
  relay that may be replaced by one that does not know the message. *Correct:* the relay ends up with
  the PTY's size; a local terminal limits it while it is there; the lock is never held for good.
* **Typing** is arbitrated at the relay and again at the host. *Correct:* what one person types is not
  cut by another or by an agent.
* **Frames** are sealed in one order and queued in another. *Correct:* none is opened twice, and none is
  refused that merely came a little late.
* **Remote start** seals a password to a key that the machine's current poller published.
  *Correct:* who is given the command can open it.

`PROJECT.json` lists each hazard at its line, with the properties that watch over it or the
reason why none does.

---

## 2. Plan

Written, in this order:

1. `ShellSend` — the most intricate durable protocol; `SendPromise` — what it promises.
2. `CredentialRotation` — the only operation that changes what everybody may do.
3. `ScreenCache` — small, but the crash window is real.
4. `OutputStream` — what everybody sees.
5. `SessionLifecycle` — sockets, status, alarm and presence, through reconnects, expiry and
   resumes.
6. `TeamGrants` — three parties, two services, one bearer.
7. `SessionRecords` — what the accounts service believes of a session.
8. `Organizations`, `Devices`, `Assessments` — routes of several store calls.
9. `TerminalModelSeed` — generations against late seeds.
10. `LocalSessions`, `RemoteStart` — processes of one machine and their files.
11. `GridControl`, `InputArbitration`, `ReplayWindow` — the terminal's size, who may type, and frames
    seen before.

Each proof module followed the module it is about, once TLC agreed with its invariant.

Next, in order:

12. The vault's team key and its shares; access tokens and their renewal beside `Devices`.
13. Compositions: `CredentialRotation` with `ScreenCache` (a kept screen of the old key) and
    with `OutputStream` (frames of two keys in one queue); `RemoteStart` with `LocalSessions`;
    `InputArbitration` with `ShellSend`'s busy answers, and two host sockets at once in it.
14. What the dissolution of a team takes from somebody who joined between its plan and its execution
    (`Organizations`, with the sessions and shares that go with the team).

---

## 3. Modules and code

Every definition that stands for code is mapped to its lines in `PROJECT.json`; this section
says how to read the correspondence. A variable marked *history* in its module is read by no
guard that stands for code: it records what a property has to know of the past.

### At the relay and the host

### `ShellSend` (with `SendPromise`, `MCShellSend`, `ShellSendProofs`)

One `pc` per call; a state of `pc` is an `await` of the `shell_send` handler, an action is
the code from one await to the next.

| `pc` | the handler stands at |
|---|---|
| `hashing` | the fingerprint (`W` 2560) |
| `claiming` | first `mcpPersistOps`: the claim (`W` 2623) |
| `storing` | second `mcpPersistOps`: dispatched (`W` 2627) |
| `sealing` | unwrapping the key and sealing the frame (`mcpDispatchSend`) |
| `waiting` | the promise in `mcpPendingSends`, with its five-second timer |
| `settled` | the promise is resolved, the handler has not resumed yet |
| `recording` | third `mcpPersistOps`: the result (`W` 2644) |

`ops`, `lease`, `pending`, `index`, `held`, `run` are the fields `mcpOps`,
`mcpWriterLease`, `mcpPendingSends`, `mcpSendDispatchIndex`, `mcpGrants`, `meta.runId`.
`images` is durable storage: its first element is confirmed, the others are writes in
flight, and `Crash` goes on from any of them. `InputGate` is a constant: with `FALSE` the
platform gives no protection during storage awaits and any event may come there. At most once
(`SendInvariant`, `AtMostOnce`) and `NoOrphanWaiter` do not need it, for any number of calls and
grants. `SingleWriter`, `RepliesAgree`, `TruthfulDelivery` and `KeepsPromise` do: `send_crash`
shows the last two without it, but only because one grant and a store that never evicts leave no
room for the counterexample (another grant's claim evicts the record of a call that still awaits
storage, a third call claims the same operation, and two dispatches report to one record).

`TakeLease` and `StartDispatch` look at nothing but their own write, because the handler
looks at nothing there: revocation, expiry and the end of a run are only looked at again
immediately before the frame leaves (`Emit`, `HoldBack`).

Abstractions: a dispatch token *is* the call that drew it; a fingerprint is a member of a
set; human typing and a failing cipher are a choice at the places where the code looks
(`Refuse`, `HoldBack`); frames between relay and host may overtake each other and may
never arrive. Which of several evictable records is the oldest is left open. `sent`,
`written`, `grantRun` and `ended` are history: no guard of the relay's code reads them
except to know which run a grant was minted for.

`SendPromise` is the abstract specification: per operation, the effects on the program and
what was said of it. `KeepsPromise` is `ShellSend` under the refinement mapping `effect <-`
the attempts whose text was typed, `told <-` the final answers given.

### `CredentialRotation` (with `MCRotation`, `CredentialRotationProofs`)

The rotation closure is `BeginRotation` / `BeginFails` → `SendRotate` → `Succeed` /
`TimeOut`; `rotationMu` is `pc # "idle" \/ minting # NoGrant`. The output emitter is
`Seal` then `Enqueue` (the cipher's lock is released in between), `readRelay` is `ReadAck`,
`ReadInput`, `WriteInput` (one message at a time). `out` is the outgoing channel, which
keeps its messages over a `Drop`; `wire` and `inbound` are what is under way. `slot` is the
channel `rotationAcknowledged`: one token, dropped when full. Tokens carry the number of
their rotation as a history variable; the code does not look at it, and `Succeed` does not.

### `ScreenCache` (with `MCScreen`, `OutputProofs`)

`Keep`, `DeleteSurplus`, `Record` are the three awaited writes of `cacheScreen`; `Crash` may
come after each. `Replay` is `cachedScreen`'s test, `Show` is `sendCachedScreen`. A chunk is
represented by the screen it belongs to.

A screen does not carry its grid: `Record` keeps it with `meta.host`, which `AdoptGrid`
(`adoptHostGrid`) set when the host last announced one. So the module has the host's side of it, for a
host that owns its grid. `ApplyGrid` → `LookAnnouncing` → `AnnounceGrid` is `applyLocked` with the
controller's mutex held (`applying`): the emulator is resized first and the grid announced last.
`RelayTakesGrid` → `CurrentGrid` → `TellGrid` is the announcement after `relay_features`, which takes that
mutex only to read. `DrawScreen` → `QueueScreen` or `RefuseScreen` is the emitter, under a mutex of its
own: between the two the emulator may be resized and the grid announced. `path` is the connection's queue
and its socket, in order; `HostLeaves` loses a head of it, `HostReturns` is the next socket with
`NewSocket`. *crossed* are the screens whose order with the announcements was lost: the host had last
queued another grid than the screen's, or none since a socket broke, when it queued the screen, or the
screen was on its way when announcements may have been lost. Of every other screen the order of the path and of the
relay's handling keeps the grid, and `WholeUnlessBroken` says so; `meta.host` may well have
changed between, which is why that is not `Record`'s definition read back.

Simplified: time and with it the throttle are a choice (`Skip` beside `Keep`); a frame needs at most
`MaxChunks` chunks (the relay closes a socket over one that would need more than `MAX_SCREEN_CHUNKS`); hosts and
relays that predate grids, whose screens are kept without one, are left out, and so is the order of the final
snapshot sent at exit, which nothing resizes any more.

### `OutputStream` (with `MCOutput`, `OutputProofs`)

A *unit* is what one Output frame carries, and a screen is the number of units it shows.
`mutex` says who holds the emitter's mutex and where he stands: `FlushStart` →
`FlushBroadcast` → `FlushSnapshots` → `FlushRest` are `flush`'s parts, `FlushReconnect` its
branch for a new generation, `ReadRequest` → `Answer` (repeated) → `Defer` is `snapshotFor`
called by `readRelay`. `conn = "active"` is the window in which the connection is active and
its generation not yet counted. `Forward`, `HostEnds`, `Join`, `FallBehind` are the relay's
handlers together with the viewer's (where the relay has no host, a viewer who falls behind is shown the
kept screen, or nothing, and then waits for the next); `safe` is whether the ring can produce a screen at all
(not in the middle of an oversized control string). `UpToDate` says what a viewer will show when
all that is under way (`wire`, then `queue`) has arrived: the last screen among it that is his, or the one
he shows, and behind it exactly the output that screen lacks of the host's `cut`.

Assumed: frames that arrive over an old socket are handled before those of the next one; a
queue that refuses a frame in the middle of a step is the same as one that was full before
it or a break after it; the final snapshot sent at exit (`sendFinalState`) and the relay's
own request as viewer 0 are left out.

### `SessionLifecycle` (with `MCLifecycle`, `SessionLifecycleProofs`)

`meta` and `stored` are the session in memory and in storage; a *life* stands for a presence
key. `gate` is the one handler that awaits storage, and where it goes on: `create` and `arm`
(the puts and `setAlarm` of `initialize` and `resume`), `persist` (`persistMeta` in
`acceptSocket`, `handleSocketEnd` and `alarm`), `exit` and `delete`. Nothing else is handled
meanwhile. `acceptSocket` has an await that lets others in, the digest of the host's token or
of the visitor: `Ask` is the part before it, `HostAccept` and `ViewerAccept` the part after.
`chain` is the promise `presenceUpdate`, one entry per update asked for; an update reads the
session when its turn comes (`sending`), and `Complete` is the service's answer together with
the `scheduleNextAlarm` of the handler that waited. `clears` are the calls of
`clearLivePresence` under way, with the updates each still waits for.

A connection is `open`, `broken` (the peer is gone and `readyState` still 1), `closing`
(closed by the relay) or `ended`; `SocketEnd` is the callback. The exclusion of the ending
socket in `refreshLivePresence` is the fact that an ended connection no longer counts.
`HostAccept` without a session throws before there is a socket, `ViewerAccept` after: the
latter leaves a broken one.

Time goes in ticks of 45 s, the interval at which presence is renewed. An alarm that is due
fires, and an update is answered, before the next. An instance that dies takes its sockets
along without a callback; an alarm handler it interrupted is run again. `missed` and `orphan`
are history: they say what the relay cannot know yet.

### `TerminalModelSeed` (with `OutputProofs`)

The session is encrypted. `model` is `mcpModel` by what it shows: the run it was seeded in, the
last output frame, and whether the frames between fit without a hole. `seeding` is the promise
`mcpModelInit` that calls share; `seed[s]` is one run of `mcpSeedModelInternal`: what it awaits
(the unwrapped bearer key — `KeyReady`; the snapshot, or two seconds — `SeedTimesOut`), and whether
`mcpModelGeneration` is still the one it took. `FreeModel` and `MaybeFreeModel` are `mcpFreeModel` and
`mcpMaybeFreeModel`, called by `Expire`, `Retire`, `Revoke`, `RevokeAll`, `Resume` and `HostGoes`.
`HandleFrame` is the relay's handler for a frame of the host up to the question it puts to the
cryptography; `Opened` and `SnapshotOpened` go on from the answer. `crypto` keeps the questions in
the order asked, and an answer out of turn is allowed and recorded (`outOfTurn`): WebCrypto does
not promise an order. `Replaced` is a host socket that another replaces: frames under way are
lost, which `torn` records until a screen that comes later repairs it. Left out: what is drawn; a
cipher that an earlier shell_send installed already.

### `GridControl` (with `TerminalProofs`)

The controller's mutex is `holder`: whoever changes the grid keeps it until the announcement is in the
queue (`Apply`, then `Announce`), as `applyLocked` does. `ReadRelay` is `readRelay` for the messages
about the grid; it is one goroutine and reads nothing while it waits. `RelayTakesGrid` is in three
steps, because it swaps the flag, reads under the mutex and sends without it: `ReadRelay`,
`ReadCurrent`, `Tell` (`teller` is where it stands). `SetLocal` is called for the terminal the session
was started in (`ForegroundResized`) and for an attached one, whose resize is two steps (`Resize` under
`terminalMu`, `Resized` without it), as its detaching is (`Detach`, then `SayLeft`, which is
`ClearLocal`). The connection is `WriteNext`, `LoseSocket`, `Redial` and `Greet` (`NewSocket`); the relay
is `Adopt` and `GridRequest`. Each socket may lead to a relay that knows the message (`takes`) or to
an older one, which closes the socket over it. *overtaken*, *outlived* and *forgotten* are history:
they name the cases of section 6.

A grid is one number: columns and rows are treated alike. One host socket is there at a time, and what
arrived over it is handled before the next is dialled. Other messages of the queue only take room. A
grid a viewer was already told is not told again, and the layouts viewers draw are left out.

### `InputArbitration` (with `TerminalProofs`)

`seat` and `typingAt` are a viewer's socket and the time in its attachment; `hostOpen` and `localAt` the
host's. `Input` and `Typing` are `claimInputLease` with what follows it; `MayType` its refusals and
`Renewed` what it writes: an old enough time only. `AgentAsks` and `Dispatch` are the two looks that
`shell_send` takes, before its claim and after its cipher. `inputs` is under way to the host; `TakeInput`
is `readRelay` with the arbiter: a browser's input stamps `wroteAt`, an agent's is refused within the
window. `Disconnect` loses the host's attachment and any end of `inputs`. A browser who comes back has
another socket, so each of `Typists` comes once.

One clock serves relay and host, which is sound because each compares only its own times, and
differences at that. Left out: the throttle of `notifyLocalTyping`, presence, and several host sockets
at once. *typed*, *heardAt* and *sinceLocal* are history.

### `ReplayWindow` (with `TerminalProofs`)

One process's stream and one opener: sequences are drawn under a lock (`Seal`) and queued without it,
in any order or not at all (`Enqueue`). `Accept` and `Refuse` are `acceptSequence`; its bitmap is the set
of the bits that are set, `Shifted` the shift to the left that loses bits at the width of the window. `ShowKept` is
`sendCachedScreen`, which shows a frame again. A frame that does not authenticate never reaches the
window and is left out, as is the older envelope, which keeps a list of nonces instead.

### `LocalSessions` (with `MachineProofs`)

A launch is a process that starts one persistent state file. `stage` is where it stands between file
system calls: `Prepare` (reading the file), `LookForRecord` → `Bind` → `LookAgain` (the
reservation: a socket bound at the identity's path), `Persist` (the file compared and
rewritten), `Check`, `Resumed`, `Finalize` (the record published), `Release` and `CloseStep` (the socket,
then the record, each removed only when it is still one's own), `Exit`, `Die`. `Recover` is the owner who removes what a
crash left; `Unlink` is somebody else who empties the directory. The rotation's writes to record
and file, and their undoing, are `BeginRotation` → `SaveNew` → `PublishNew` → `Acknowledged` or
`Rollback` → `SaveOld`; that such a write itself fails is in `CredentialRotation`. Sessions that are not persistent, and
Windows, are left out.

### `RemoteStart` (with `MachineProofs`)

A poller is a process that may run `agentLoop`: a daemon (`StartDetached` → `AcquireDaemonLock` →
`Listen` … `Unlisten` → `LeaveDaemonLock`) or a foreground agent (`RunAgent`). `Shell` is a command
that looks after the daemon: `Ensure`, `Restart`, `StopFirst`, `Stop`. A poll is `PollCommands` →
`MarkAgentSeen` (publishing the key) → `ClaimCommands` → `PerformCommands`; it goes on at the
service when the process that made it has gone. The browser reads the key, seals (`SealPassword`)
and queues the command (`PutCommand`). A daemon that listens is assumed to answer a ping in time.

### At the accounts service

### `TeamGrants` (with `SharingProofs`)

`row` is `mcp_team_grants`: `Ask` and `Fetch` are the teammate's store calls with the
trimming and limits they apply; the bearer is handed out once. The host's poll is `Poll` →
(`MintAsked` → `Minted` or `MintFails`) → `Report` / `RevokeGrant` → `PollEnds`;
`ReportMcpTeamGrant` is the report's arrival, which may be late, repeated or never. `live` and `dead` are
the relay's grants; `MintAsked` and `Minted` are the two sides of `createMcpGrant`'s awaits. A use
is three reads of `TeamAuthorized` and `Served`, at whose end the grant is looked up again. `scene` is what
entitles: membership, consent, the session open. *moment* records whether during this use they held together at one
instant, *lapsed* which grants outlived a removal, *acked* what the host has acknowledged.

### `SessionRecords` (with `SharingProofs`)

`machine` is the host with its run and password and whether the session is persistent: only then is there
another run, and the relay takes the session up again under its id, created anew if it had been
forgotten (`Start`). `relay` is what the relay would answer of it. `Exit` and `PowerLost` end the program;
`HostConnects` and `SocketEnds` are the host's socket, with the program or, for a while, without it. `Exit` makes the relay
forget a session, or disconnects a persistent one, if it is reached, so it is never seen as
`exited`. `RelayExpires` is the alarm of a session whose host is not connected past
its expiry, **whether its program has ended or not**; nothing brings it back in the same run. What
the host says travels as a set of `calls`, applied in any order or `Lost`: `UpsertSession`,
`RotateSessionCredentials`, `PutKeyShares`, `CloseSession`. `Query`, `ListSessions` and
`CloseEndedSessions` are the reconciliation: an answer of the relay is cached with the run it
was given in, and a row that was read as open is closed on it. `share` holds the vault's copies;
requests for the password are asked, answered by another browser, and kept by a third. *closer* is the
run that the last close was evidence of; *astray* that a rotation's call was lost or met another.

### `Organizations` (with `AccountsProofs`)

`org` is the membership row of each person, whose uid is unique; `role` its role, `before` the order of
`joined_at` within a team. A request is the rest of a route: `at` is the store call it makes next, beside
what it has read. `Visit`, `CreateInvite`, `RevokeInvite`, `RemoveMember`, `ChangeRole` and `AskDeletion` are the
routes; `RecentlyDeleted`, `ReadInvite`, `ReadMembers`, `Claim`, `Leave`, `Put`, `ClaimOwn`, `PutInvite`, `Revoke`,
`RemoveRow`, `SetRole`, `CarryOutDeletion` are the calls, each a transaction with the conditions of its SQL.
`InviteExpires` is time. A team's id is used again only once nothing refers to it, which stands for a fresh
one. *stale* names the teams written to on a read that no longer held, *deserted* those whose last
member left by accepting an invitation elsewhere, *caught* people with another request under way when
their account was deleted. The key shares that a removal deletes are left out.

### `Devices` (with `AccountsProofs`)

`ExchangeCode` consumes a code; `DeviceForMachine` looks for the row of that machine; `UpdateToken` or
`PutToken` writes it; `FindToSignOut` and `SignOut` are the two halves of a sign-out; `RevokeDevice`
unlinks, `DeleteAccount` ends all. *handed* records the logins answered before this one began, *raced*
that two requests overlapped.

### `Assessments` (with `AccountsProofs`)

Consent is a row with a version, changed by compare-and-swap from two browsers (`change`). `assess`
is a request: it reads the consent and the session, reserves the budget, asks the outside model, checks again and stores the
answer under the lock. `list` reads the same way before it shows. `write` is the session's own registration,
closing or deletion, which runs statement by statement. *held* and *revoked* record what the consent was.

### How instances are put together

`MCHost`, `MCSessions`, `MCAccounts` and `MCHostLive` put components side by side: `part` is chosen in the
first state and only that component moves, so that one run asks the same question — is this
machine, this session, this account consistent — of each, without multiplying their states.
Components are EXTENDed where their names are apart and INSTANCEd otherwise, share model values
(in `MCAccounts` so that one symmetry group is sound for all), and their assumptions on constants are
evaluated there. The components' own specifications are what the proofs are about.

---

## 4. Runs, bounds and fairness

| run | instance | distinct states | shows |
|---|---|---|---|
| `send_crash` | 2 calls, 1 grant, 1 operation, 2 fingerprints, 1 run, 1 crash, no input gate | 209,904 | truthful answers, no orphan waiter, the inductive invariant of at-most-once, refinement of `SendPromise` |
| `send_gate` | 2 calls, 1 grant, 2 operations, store of two, 2 runs, 1 crash, input gate | 834,212 | one writer, of one operation or two; replays agree with the first answer |
| `send_full` | 3 calls, 2 grants, a store of one record, fairness; host and program stay, no grant expires by itself, one call may be cancelled | 90,711 | eviction keeps at-most-once; every call ends and no lease is left behind |
| `host` | output: 2 viewers, ring, queue and deferral limit of one, 2 units, 1 broken socket. Screen: 2 screens of up to 2 chunks, 2 grids, 2 messages under way, 1 crash. Model: 2 seeds, 2 runs, 1 grant, 2 frames printed, 2 under way. Grid: 2 grids, 1 terminal that attaches, 2 sockets, queue of one. Frames: 6, of 2 sealers, a window of three. Files: 3 launches, 2 credentials drawn, 1 socket unlinked. Start: 3 pollers, 1 shell command, 1 start command | 2,156,525 | nothing twice, nobody forgotten; whole unless broken, at its grid unless crossed; agents see this run, whole; the relay follows the grid, a local terminal limits it; no frame twice; one launch runs and files say which; a password reaches who can open it |
| `host_live` | 2 rotations over 2 sockets, the last of which stays; 1 viewer, 1 unit, 1 broken socket, 1 request of his own; 2 grids, 2 sockets, the last of which stays and knows grids, queue of one; fairness | 68,434 | rotations end; everybody catches up; the grid's lock comes back |
| `rotation_stale_ack` | 2 rotations, 2 sockets, 1 grant, queue of two | (violation) | finding 1 |
| `screen_cache_torn` | 3 screens of up to 2 chunks, 2 grids, 2 messages under way, 1 crash | (violation) | finding 2 |
| `output_frozen` | 1 viewer who overflows twice, 3 units, queue of two | (violation) | finding 3 |
| `lifecycle` | 2 hosts and 1 viewer, or 1 host and 2 viewers in a first run; 2 starts, 1 crash, expiry and lease of 2 ticks, fairness | 865,107 | status, alarm and presence agree with the sockets; no ghosts; the session ends |
| `lifecycle_lease` | 1 host, 1 viewer, 2 starts, lease of 4 ticks, expiry of 6 | (violation) | finding 4 |
| `accounts` | teams: 3 people, 2 teams, 2 requests at once, with 1 invitation and every route, or 2 invitations and the routes that move people. Machines: 3 logins, 3 codes. Analysis: 3 versions of the consent, 2 browsers, 1 run | 722,213 | one owner, deleted accounts stay out; logins retire the earlier; consent is respected |
| `sessions` | grants: 2 requests without changes, or 1 with 3 changes; 2 bearers, 1 live at the relay. Records: persistent or not, owner and 1 colleague, 2 runs, 2 passwords, 2 calls under way. Rotation: 2 rotations, 2 sockets, 1 grant, queue of one. Input: 2 browsers and an agent, lease of 3 ticks renewed after 2, window of 1, 3 inputs, 6 ticks | 1,450,932 | the acknowledged are dead, the served entitled; rows of running sessions close on old word or when the relay forgot them, copies open; revocation, input barrier, agreement of credentials; nobody's typing is cut |

**Why these bounds.** At-most-once and truthfulness compare two calls of one operation; a
third call adds only another comparison. One crash may fall at every await of every call,
and what it leaves is again a state in which calls may start. Two runs are the least at
which a store is emptied while calls of the earlier run are under way. Eviction matters from
a store that is full with one record; that another grant's record is in the way needs a
second grant, that the evicted one retries needs a third call. Two rotations are the least
at which an acknowledgement can belong to another one, and two sockets the least at which
something queued outlives its connection. Two screens, of one chunk and of two in either order, leave a surplus or a
head to tear, and with two grids and two messages under way each may be before or behind the announcement of its own;
`screen_cache_torn` has three. With a ring, a queue and a deferral limit of one, every unit can be
evicted before it is sent, every frame refused, and the second deferred reply exceeds the
limit; two viewers are needed for that, and suffice.

For the lifecycle two hosts are the least at which a replaced socket ends after its
replacement came, two starts the least at which events of an ended session meet its
successor, and two ticks the least at which an alarm can come before the lease and the
session run out; `MCLifecycle` names the connections in the order they are dialled, and lets
a second viewer come only in a first run and one connection fewer when an instance dies.

Two requests at once are what a race between store calls takes; three people and two teams
are the least at which someone leaves a team of his own for another while a third stays or is
promoted. Three logins let one retire another that has retired a first. Three changes of a
consent are on, off, on again: the least at which an old "on" could be taken for a new one. Two
requests for a grant are needed for trimming and limits, three changes for leave, return and
a new run. Two runs, two passwords and two calls let a report of one run or rotation arrive in the
next. Two seeds are the least at which a late one meets its successor, and two frames
the least between which one can be lost. Three launches are a holder, one who finds him there
and one who comes after his crash; three pollers a daemon, its successor and an agent. Two grids are one to
change from and one to change to; two sockets let an announcement outlive one. A window of three is left
by the first frame when the fourth is opened, and six frames fill it twice. A lease of three renewed
after two is the least in which a renewal that is skipped can matter; three inputs are one person's two
and what comes between.

Reductions, none of which removes a reachable combination the properties tell apart. In `MCHost`: a
viewer's leaving matters only to the next dial, so it comes just before one
(`LeavesUnheard`); viewers, launches and pollers, which are alike, begin in order (`ViewersInOrder`,
`InOrder`); terminals are attached while the first socket is there, one resize under way at a time, since
the connection does not see who sets the size (`AttachedFirst`); a part that does not take part
stays as it began; the daemon's part stops once the command has ended or two pollers have worked side by
side, where the promise is decided or off; of the kept screen the emulator is resized once,
the two screens differ in size, a host that is away draws none and begins to read nothing (what it draws then it may draw when it is
back), and what is shown ends the behaviour (`OneResize`). In `MCSessions` a record takes part
either without looks at the list (`NobodyLooks`) or without colleagues (`OwnerOnly`): what `CopiesOpen` reads does not
depend on the former, nor what `ClosedByOldWordOnly` reads on the latter, whose calls only take up room; sessions that are not
persistent take part in the second. The machine's own keyboard is used only while an
agent's text is under way, because nothing else reads when (`KeyboardInTime`); with all inputs made only those
under way still move, and browsers come in order (`LineInOrder`).

`MaxUnits`, `MaxDrops`, `MaxAsks`, `MaxSockets`, `MaxRotations`, `MaxRun`, `MaxRuns`, `MaxStarts`,
`MaxCrashes`, `MaxScreens`, `MaxInbound`, `MaxChanges`, `MaxLinks`, `MaxCalls`, `MaxVersions`, `MaxSeeds`,
`MaxPrinted`, `MaxWire`, `MaxOnSocket`, `MaxTime`, `MaxFrames`, `MaxSequence`, `MaxCredentials` and `MaxUnlinks` bound what is unbounded in the code; `MaxOps`, `Cap`, `Capacity`,
`Limit`, `Ring`, `Span`, `Refresh`, `Window`, `MaxChunks`, `MaxViewers`, `Ttl`, `Lease`, `PendingLimit`, `IssuedLimit` and `MaxLive` are
limits of the code, smaller.

**Symmetry** is used only for safety runs and only over sets no formula orders (calls,
fingerprints, operations, people, teams, requests, logins, browsers). **Deadlock** is not checked where
the bounds let the system come to rest (all rotations done, all units shown, all calls of
`send_full` answered, a session of `lifecycle` deleted and all connections used, all launches
over).

**Fairness and why it is justified.**
* `ShellSend`: weak fairness of each call's own next step (the event loop runs what is
  ready; the five-second timer always fires), of `Commit` (storage answers) and of
  `StoreGrants`. None for the host, the client, or grants: calls end whatever they do.
* `CredentialRotation`: weak fairness of the closure's `select` (the three-second timer),
  of the dial loop and the writer. `SendRotate` is strongly fair: a `Send` blocked on a Go
  channel queues there and gets the next free place before any later `TrySend`. `host_live`
  keeps the last connection up once it is up: `Send` has no deadline of its own and waits for
  room while the relay stays unreachable.
* `OutputStream`: strong fairness of the flush ticker and of `readRelay` for the emitter's
  mutex (Go hands a contended mutex to a waiter that has starved for a millisecond), weak
  fairness of the steps under the lock, of the writer, the generation and the relay; and a
  reply is tried in every second that passes, so `Answer` is not refused for ever when there
  is room infinitely often. None for the program, the viewers, `Drop` or `Dial`; `CatchUp` is
  conditional on a connection that holds and a screen that can be serialised.
* `SessionLifecycle`: weak fairness of the relay's own steps together (storage and presence
  service answer, due alarms fire) and of `Tick`. None for hosts, viewers or the callbacks of
  their sockets: a session ends even if the end of a socket is never reported, as long as it
  stops being readable.

* `GridControl`: weak fairness of whoever waits for room (`Announce`, `Tell`), of the writer, the dial
  loop, the greeting and the relay's handler. None for terminals, browsers or the loss of sockets.
  `host_live` lets the last socket reach a relay that knows grids and keeps it up, as for the rotation.

The modules of the accounts service and of the machine's files state safety only: their callers
may stop at any point, and nothing they promise depends on their going on.

**Mutants.** For every property of a passing run a mutated definition, kept next to the
original and named in `PROJECT.json`, makes TLC find that property violated. They are
plausible slips: a record not counted until it is dispatched, an eviction that ignores
liveness, a write that is not awaited, a reply that is dropped at the limit, a file rewritten
without comparing it, a membership not looked at again, a key kept from the poll before, a flag not cleared for a new socket, a lock taken where the queue is
drained, bits that are not shifted, a look at the humans left out after an await. Two
slips that are *not* seen are instructive: the reconnect broadcast may be left out of
`OutputStream` and the relay's renewed requests repair every viewer anyway, and conversely.

---

## 5. Proofs

Type invariants are proved and not listed among the runs' properties, which are about more than types.
Eight modules prove, with TLAPS and for every value of the constants that satisfies the named
assumptions, inductive invariants of their components' own specifications and what follows from them.

| module | theorems | inductive invariant |
|---|---|---|
| `ShellSendProofs` | `TypeCorrect`, `SendInvariantHolds`, `AtMostOnceHolds`, `NoOrphanWaiterHolds`, `LeaseOwnedHolds`; with the input gate `SingleWriterHolds`, `TruthfulDeliveryHolds`, `RepliesAgreeHolds` and the refinement `PromiseKept` | `SendInvariant`, below; `Owned`, `LeaseInvariant`, `TruthInvariant`, `AnswerInvariant`, further below |
| `CredentialRotationProofs` | `RotationTypeCorrect`, `RotationAgrees`, `OwnAckRevokesHolds`, `OldInputBarredHolds`, `ForeignAckHolds` | `RotationInvariant`: credentials agree between rotations (`Agreed`), nothing queued or acknowledged is of a rotation to come (`Numbered`), what the relay knows it was told (`Heard`), what a trusted rotation leaves is of its own key (`Dated`), an acknowledgement comes after the revocation it reports (`Revoked`), and there is at most one token unless a rotation timed out (`Single`) |
| `OutputProofs` | `OutputTypeCorrect`, `NothingTwice`, `NobodyForgotten`; `ScreenTypeCorrect`, `WholeScreens`, `NewestComesFirst`; `SeedTypeCorrect`, `ModelIsCurrent` | of `OutputStream`, `OutputInvariant` (below): frames under way go on from what the relay keeps and from what each viewer shows (`Ordered`), and are complete behind the last screen (`Following`); of `ScreenCache`, `ScreenInvariant`: every chunk is in its place, the screens along the chunks descend, and between writes they are one (`Placed`, `Descending`, `Recorded`); and on the way to it, every screen that did not cross a change of grid comes in when the relay goes by its grid (`Lane`); of `TerminalModelSeed`, `SeedInvariant` (below) |
| `SessionLifecycleProofs` | `LifecycleTypeCorrect`, `AlarmAlwaysArmed`, `StatusIsTrue`, `NoGhostIsListed`, `PresenceIsTrue` | `LifecycleInvariant`: memory and storage match but for the write under way (`Match`), the alarm is set or about to be (`Armed`), one host listens and the status says so (`Served`), and what is still listed or being sent is the session's own life or has its removal under way (`Ghostless`); on top of it `PresenceInvariant`, below |
| `SharingProofs` | `GrantsTypeCorrect`, `AcknowledgedAreDead`, `ServedAreEntitled`; `RecordsTypeCorrect`, `ClosedOnlyByOldWord`, `CopiesAreCurrent` | of `TeamGrants`, `GrantsInvariant`: a bearer belongs to one request for good (`OneRequest`), rows, host and relay agree on it (`Rowed`, `Minting`), the dead stay dead (`Dead`), and a use whose grant's row is still issued has had its moment (`Used`), because a lapse revokes that row (`Past`); of `SessionRecords`, `RecordsInvariant`: a close of the current run was sent after its program ended, and an answer that it is missing stays true until the next run, because only a start makes the relay take the session up again (`Word`); unless a rotation's call went astray it is still under way, or row and copies have the machine's password (`Current`) |
| `TerminalProofs` | `GridTypeCorrect`, `RelayFollowsGrid`, `LocalTerminalLimits`; `ArbitrationTypeCorrect`, `TypedUncut`; `ReplayTypeCorrect`, `NoFrameTwice` | of `GridControl`, `GridInv`; of `InputArbitration`, `InputInv`; of `ReplayWindow`, `ReplayInv`: all below |
| `AccountsProofs` | `DevicesTypeCorrect`, `EarlierLoginsRetire`, `AnalysisTypeCorrect`, `NothingUnasked`, `NothingLeft`; `TeamsTypeCorrect`, `OneOwnerKept`, `DeletedStayOut` | of `Devices`, `DevicesInvariant`: without a race one login is under way, at most one row is not revoked, and it is of the last login answered, or the row that the login under way found (`Alone`); of `Assessments`, `AnalysisInvariant`: a row kept or about to be kept carries the version of a consent not withdrawn (`Withdrawn`), and a request past its check held one (`Held`); of `Organizations`, `TeamsInvariant` (below) |
| `MachineProofs` | `LocalTypeCorrect`, `OneLaunchRuns`, `SavedWhatRuns`, `StartTypeCorrect`, `PasswordsOpen` | of `LocalSessions`, `FilesInvariant` (below), with `Exclusive`, `Compared` and `Kept` for the credentials; of `RemoteStart`, `StartInvariant`: every daemon past its lock holds it (`Roles`), so one process is at work (`Alone`), and row and passwords have its key if it published one (`Current`) |

**The longest argument, `ShellSendProofs`.** It holds for any number of calls, grants, operations, fingerprints,
runs and crashes, any capacity of the store, and at most once with or without the input gate.

**At most once.** `AtMostOnce` is not inductive: a state in which the store has forgotten an
operation that was already typed satisfies it, and the next call breaks it. The store does
forget, and rightly: records are evicted, the end of a run empties it, and a crash goes back
to an older image. What makes it safe is that a grant is *barred* by then: revoked, of
another run than the relay is in, expired, or its program has exited. `SendInvariant` says so
where it matters:

* `NeverForgotten`: for every call whose frame was emitted, memory **and every image a
  crash could bring back** either know the operation or bar its grant. The second half is
  what the order of writes (claim confirmed before dispatch; store emptied and run changed
  in one batch, grants after) is for.
* `ClaimRemembered`: the same between claim and frame, from the claim's own write on;
  `WriteInFlight` says that write exists.
* `ClaimAlone`, `SentAlone`: of two claims, or two frames, of one operation the later
  belongs to a barred grant, or the program is gone.
* `StorageFollows`, `RunsInOrder`: storage lags behind memory only by grants that are
  barred anyway; a barred grant never becomes unbarred, because run identities are not reused.
* `Progressed`: a frame that was not emitted has done nothing.

The proof has one lemma per kind of step (`ClaimStep`, `MarkStep`, `EmitStep`, `HostStep`,
`GrantsWritten`, `EndRunStep`, `CommitStep`, `CrashStep`, and `QuietStep` for those that
touch neither store nor grants nor host), each with one step per conjunct it disturbs;
`SendStep` puts them together by action. `WaitersWait` (the promise map only names waiting
calls) is proved beside it, because the end of a run settles whoever the map names. TLC
checks `SendInvariant` in `send_crash`, where the input gate is off.

**Who waits, who writes, what is said.** Four more invariants of the same protocol, each resting
on the one before.

* `Owned`: two calls of one operation are under way at once only when their grant is no longer
  live (`OneAlive`), because a call of a live grant has its record in the store (`Fresh`); and
  only a live grant gets a frame out, so no two wait for one entry of the promise map.
  `NoOrphanWaiter` is its first conjunct; it needs no gate.
* `LeaseInvariant` (input gate): nothing else runs while a call awaits storage, so one call at a
  time stores its claim (`OneStores`). From there to its answer it holds the lease alone
  (`LeaseHeld`) and its record is its own and not final (`RecordKept`), unless its grant is gone:
  revoked or of another run. `SingleWriter` follows.
* `TruthInvariant`: what a record says (`RecordsTrue`), what an acknowledgement under way says
  (`AcksTrue`) and what a settled call is about to say (`OutcomesTrue`) was done at the
  host, for memory and every image a crash may bring back. `TruthfulDelivery` is its last conjunct, and `PromiseKept` by steps: initial states map to
  initial states, and a step types a text no attempt had typed (`TypedOnce`) or gives an answer
  that was true of the effects so far (`ToldTruly`), or stutters.
* `AnswerInvariant`: a final answer given is on record in memory and in every image a crash could
  bring back, unless its grant is barred there (`AnswersKept`), because the result in flight is
  the only write that lacks it (`ResultsStored`). `RepliesAgree` follows. It asks that the grant
  lives: section 6 has the schedule in which it does not.

**Two that are not obvious.** `ServedAreEntitled`: membership, consent and the session's openness
are read one after the other, and each may change back in between. It holds because whatever
ends consent or membership revokes the grant's row in the same transaction and that row is read
last: while it is still issued, nothing of the two has lapsed since the grant was given. Openness,
which revokes nothing, is read first, and that is the moment at which all held. The mutant that leaves out this last
read is found at once. `NoGhostIsListed` must say of the presence chain that every update of a life
which is over has a removal that waits for it.

**What the presence service lists.** An update reports the session as it is when its turn in
the chain comes, and is listed only when its call returns, so what is listed lags behind. `PresenceInvariant` says why it
catches up: an update under way is either not the last, or says what is so, or whatever changed
since owes another one (`Told`, `Owing`: a handler that will persist or take leave, a socket that
broke and will be noticed, a removal whose sockets have not been closed); with none under way what
is listed is so, unless one is owed (`Known`); the alarm comes, or is about to be set, before the
lease it renews runs out (`Soon`); and lives are numbered, so an update of an earlier one changes
nothing of this one's (`Numbered`, `Leftover`). `PresenceIsTrue` is the case in which nothing is
owed. It is over `LifecycleInvariant`, and excepts what the code does not repair by itself: a death
of the instance and a resume, until an update has gone out.

**Which file keeps two launches apart.** `OneLaunchRuns` holds although anybody may unlink the
socket that claims a session, so the socket cannot be the reason. It is the record: `Shown` says
that a launch which has published is the one its record names, `Named` that all who have published
agree with the state file on the identity, and there is one record per identity, which `Finalize`
links and does not replace. The socket is what `SavedWhatRuns` needs: `Exclusive` says that,
unless sockets are unlinked, the launches between binding and release have it to themselves, so
nobody else writes the state file that one of them has compared (`Kept`).

**Where a frame goes on from.** `OutputProofs` treats what is under way as pieces that fit: `GoesOn(u, a, b)`
says that frames `u` may follow when a viewer shows everything up to `a`, and that he shows nothing beyond
`b` after them; pieces that meet can be joined (`GoesOnConcat`), broken off at the end by a socket
(`CutGoesOn`) and consumed from the front (`TailGoesOn`). Every step of the emitter adds one piece
from the old cut to the new (`Appends`, one lemma per step), so `Ordered` is inductive and `NeverTwice`
is its last conjunct. `Repaired` is not inductive by itself: a viewer the relay ignored is promised
nothing, and a screen for everybody that is already under way may still save him. `Following`
says what he gets then: on a connection the host has settled into, each viewer's last screen under way is followed
by exactly what it lacks. For who is up to date the pieces say more than order: a piece leads a
viewer on without a gap (`LeadsOn`) or brings him a screen with all that follows it (`Renews`). Each
step of the emitter also brings a screen to everybody it stops owing one, which is the second half of `Appends`.
That the emitter forgets nobody is therefore shown once (`EmitterRepaired`), whatever the queue refuses.

**What a seed leaves behind.** A model appears blank, before its screen was asked for, and calls that
come later are given it as soon as no seed is shared. `ReadyIsCurrent` is about that moment, but what
decides it was sent and asked long before. `SeedInvariant` has four parts. `Linked`: what is
under way is of the host behind the socket, in order and without a gap, and without a model nobody waits
for a snapshot. `Keys`: a question for a key belongs to the one seed that awaits it. `Shared`: the promise is
that of the one seed still its own, so a seed voided by an end of the model cannot settle for the one that took its place;
and nothing is asked of the cryptography after its key, so a new model sees no frame of an older
one. `Drawn`: a model there is either follows - the frames that wait to be opened, with those under way,
are all the host has printed since the screen, or will be from the next screen on that makes up for a tear
(`Followed`) - or it is blank for good: the host that could answer is gone, and only the timeout ends
the seed (`Doomed`), during which no call is given it. It holds as long as answers come in turn;
what an answer out of turn would do is not promised.

**One owner.** `OneOwnerUnlessStale` is not inductive: a team without members has no owner, and the next
to join by invitation would not be one. `TeamsInvariant` adds that an existing team has members unless it
is excused (`Peopled`); that every request carries what its next call needs, an invited role that is never
"owner" above all (`Prepared`); and that roles, memberships and the order of joining agree (`RowsAgree`,
`Tenure`). A deletion hands the team to a member who is there: of finitely many people, totally ordered by
their joining, one is first (`FirstIsThere`, by the well-founded order of the sets of those before). The
only assumption on the constants beyond `None` being apart is that people are finitely many.
`DeletedStaysOut` needs `GoneAreOut`: whatever a deleted account still asks stops at `recentlyDeleted` or
deletes it once more.

**The lease that is not left behind.** `LeaseOwned` needs neither the gate nor the long invariant: that a
grant's lease is taken means that a call of it stands between taking and giving back, and every way out
of those states gives it back (`OwnedLeaseStep`). Only the end of a run and the death of the instance
take it from under a call, and then nobody has it.

**What the relay was told last.** `GridFollows` speaks of a relay with nothing under way. Before that, the
grid it will have is the last one said (`Said`): the last in the queue, or else on the socket, or else the
one it has. `SaidIsCurrent` says that this is the PTY's whenever nobody is about to say another: whoever
changes the grid holds the mutex until his announcement is queued. The queue outlives
the socket, so what was said last survives a lost socket or is lost with it, and then the flag that
`NewSocket` clears is up again only when `RelayTakesGrid` has said the grid once more. It holds the grid
in hand without the mutex, and `InHandIsCurrent` is all that saves it: the grid is the PTY's unless
it was overtaken.

**Who typed when.** `OneTypist` compares three inputs of which two may be years past. Inputs given to the
program and inputs under way are one line, which only grows at its end, is thinned by lost sockets and
refusals, and keeps its order (`Thinned`). Of a browser that is still there the line says when its lease
was last renewed (`SeatedIn`: less than the renewal time before its last input), and of whoever typed
after it that a whole lease had passed since (`WaitedIn`). So when it types again more than a lease less the
renewal time lies between (`UncutIn`); one that left does not come back under its name. Thinning a line preserves all four parts.

**Which bit is set.** `Bits`: a bit of the window is set if and only if the frame it stands for was opened,
and nothing newer than the newest was. Both halves of `OnceOrOvertaken` need it: "only if" for what is
refused, "if" for what is not. The shift is where it could break (`AcceptNewest`).

**Only model-checked.** All liveness (`EveryCallEnds`, `RotationEnds`, `CatchUp`,
`LockReturned`, `Ends`), which the prover does not support. **Only proved:**
`ForeignAckNeedsTimeout` and `NewestFirst`. No module here declares a recursive operator.

---

## 6. Findings and observations

1. **A late acknowledgement answers the next rotation** (`rotation_stale_ack`,
   `G` 281). The channel is never drained and its token does not say what it acknowledges.
   After a rotation that timed out while the connection was down, the next one can be
   reported as done while grants of the old key still work; `docs/MCP.md:172` says rotation
   revokes every one. `OwnAckRevokes` and `ForeignAckNeedsTimeout` delimit it: it takes a
   timeout, and whenever the acknowledgement is the rotation's own the promise holds.
2. **A torn screen** (`screen_cache_torn`, `W` 3903). Chunks are overwritten in place, the
   count follows two writes later. A relay instance that dies between them leaves
   chunks that pass `cachedScreen`'s test and are not one screen; the comment at `W` 3934
   says half a screen is never shown. `WholeUnlessBroken` says that nothing else causes it
   and that the next screen heals it; `NewestFirst` (proved) what it can look like at worst.
3. **A frozen viewer** (`output_frozen`, `W` 3293). A browser that overflows twice within a
   second sends a second snapshot request, which the relay drops without an answer, while
   the browser's `snapshotRequestPending` keeps it from asking again. It discards output
   until an unrelated snapshot arrives. `Repaired` and `CatchUp` say that this is the only way
   to be left behind.

4. **A lease that is not renewed** (`lifecycle_lease`, `W` 1556). `resume` sets the alarm to the
   session's expiry whether or not sockets are open, where every other handler asks
   `scheduleNextAlarm`. A viewer who waits on the page of a persistent session when it is
   resumed loses the lease of 180 s if no host connects; `worker/stats-database.ts:219` says it
   is renewed while there are sockets. `PresenceTruth` says that, without a crash, this is the
   only way.

Seen while modelling, without a run of their own; where a property would be violated it names the case as
an exception:

* **Relay.** Two viewers who arrive together pass the limit of sixteen together (`W` 3083). A
  session whose host never pauses, so that its alarm is put off to its expiry, can be ended by a
  visitor who comes between that moment and the alarm (`W` 3063). Requests for a grant that are
  under way together can exceed the quota (`W` 1083, 2902). The timer of a seed compares
  `mcpSnapshotResolve` with a function never stored there (`W` 1756), without consequence. A seed
  that times out also settles the sends that wait for an acknowledgement, as uncertain (`W` 1951).
  `shell_send` reads the run before it awaits the fingerprint and does not look again (`W` 2559):
  a call that meets a resume in between claims its operation in the emptied store, is held back
  as uncertain, and a third call under way is given that "uncertain" by replay although the first
  was told "delivered". The grant is dead by then, which is why `RepliesAgree` asks that it lives.
* **The terminal's size.** `RelayTakesGrid` reads the grid under the mutex and announces it without
  (`cmd/shell/terminal_grid.go` 225–231): if a local resize comes in between, its own announcement may be
  queued first, and the relay is left with the older grid until the next change (*overtaken* in
  `GridFollows`). `NewSocket` promises that a reconnect to an older relay announces nothing (233–234);
  announcements queued before it outlive the socket, and a `relay_features` of the old socket that is
  read late sets the flag again. A detach calls `ClearLocal` (`G` 217) whoever set the limit: it forgets the
  terminal the session was started in, or one that has attached since (*forgotten* in `LimitHolds`),
  although `terminal_grid.go` 124–126 calls that terminal a limit while it is present. A resize that found its terminal attached and is
  overtaken by the whole of its detaching leaves a limit nobody clears (*outlived*;
  `sessions_unix.go` 301–302 says there is none). The emitter may broadcast a screen on a new socket before
  the relay's features are answered, so ahead of the grid (`G` 766–768).
* **The kept screen's grid.** A screen is kept with the grid announced last (`W` 3914), not with one of its own.
  The emulator is resized before the announcement (`terminal_grid.go` 209–217), and the emitter draws and queues under
  another mutex, so a screen drawn at the new grid may be queued ahead of its announcement, or one of the old grid behind
  it; or the announcement is lost with a socket. It is then kept, and replayed while the machine is away, at another's
  grid, with no crash at all, until the next screen is kept. The comment at `W` 3955–3957 says that the viewer is told
  the grid it was drawn at. `WholeUnlessBroken` excepts such a screen by name (*crossed*) and holds of all others;
  without the exception TLC violates it in seven states.
* **Typing.** What is typed in the terminal the session runs in never reaches the relay's arbitration: only an
  attached terminal notifies it (`G` 330), so browsers and agents are held back from the former only by
  the host's window of 250 ms, which refuses agents and not browsers. A lease is renewed only when it is 400 ms old,
  so it protects its holder for 1.4 s after his last input and not for the 1.8 s it is named for.
* **Frames.** A kept screen shown again to a browser that already opened it is refused as a replay, silently
  (`app/src/terminal/connection.ts` 402): it stays with what it shows. The older envelope looks a nonce up,
  awaits the decryption and then records it (`shared/e2ee.ts` 165–186).
* **After a rotation** the screen kept is still the one of the old key until another is kept, which is every two
  seconds at most and only when one is drawn (`W` 3892), so a viewer with the new password cannot open it while the machine is away.
* **Accounts.** A team can be left without an owner by a transfer that rests on a stale read
  (`routes/organizations.ts` 113; `OneOwnerUnlessStale`), and even without two requests at once: an owner
  who is alone may accept an invitation elsewhere (`organizations.ts` 109-114 lets them), the team and its
  open invitations stay, and whoever accepts one of those is a member or admin of a team that has no owner
  (*deserted*; the `moves` part of `accounts` reaches it). Logins of one machine that race leave two rows
  (`LoginRetires`). An approval or a kept copy that crosses a rotation leaves a copy that does not open
  (`app/src/lib/use-session-password.ts` 9–13; `CopiesOpen`). A late close ends the row of a session
  registered again (`lib/session-reconcile.ts` 29; `ClosedByOldWordOnly`). A machine that is away for
  as long as `disconnectedSessionExpiry` (12 hours, or 30 days if the session is persistent) loses its session at the relay although the
  program runs on (`W` 3659, 3694–3726); the relay then answers that there is none, and the row of
  the running session is closed, on word of this very run. `lib/session-reconcile.ts` 23 says that "a machine that is merely away is
  left alone", which is so until then: `ClosedByOldWordOnly` excepts it by name (`relay = "missing"`). Its line
  19–20, that the relay never recreates a session under the same id, does not hold of a persistent one (`W` 1521–1535). `deleteSession` runs statement by
  statement, and an assessment can be stored in between (`S` 2162).
* **Machine.** `ensureDaemon` (`cmd/shell/main.go` 49) starts a daemon beside a running
  `shell agent`, although `agent.go` 64–66 says that two pollers would make sessions fail at random: a
  password sealed to one key may be claimed by the other process (`OpenedUnlessBeside` excepts it).
  `restartDaemon` (`daemon.go` 382–410) starts the new daemon at once; if the old one still holds the
  lock the new one exits, and none runs until the next shell command. A rotation that is undone
  while its session closes writes the state file after it (`G` 260; `SavedIsRun`).

---

## 7. What is not modelled

* *Within the modelled parts:* the exit and expiry of sessions that are not persistent, which delete
  the whole store (`ShellSend`, `ScreenCache`); guest numbers; storage writes
  that reject; byte-level effects (framing, padding, escape sequences, encryption); the
  wording of answers; viewers that learn of a new password; the final snapshot at exit; the owner's own
  grants beyond what `ShellSend` and `CredentialRotation` need; wait budgets and the audit trail; access tokens; attachment and the control
  channel's other commands; supervised daemons; key derivation and nonces; several host sockets at once in
  the arbitration of input and the grid.
* *Planned:* section 2 from 12 on.
* *Not planned:* statistics, summaries, HTTP clients, the CLI's argument handling, the
  sites, the game and build scripts: sequential I/O or data transformation without the
  interleavings model checking is for. Profiles, comments, feedback, files and mail are mostly
  single transactions. The in-memory store and the standalone server implement a second time what is
  modelled from the Postgres store and the hosted relay. The browser is a user
  interface; its part in the protocols is in `OutputStream`, `SessionRecords` and `RemoteStart`. The ring
  buffer's parser is a byte-level machine with its own test
  vectors; only whether it can produce a screen appears here.

---

## Running

    tlc -workers 2 -config ShellSendCrash.cfg MCShellSend
    tlapm ShellSendProofs.tla

`PROJECT.json` names the module and configuration of every run, maps definitions to source
lines, and lists hazards, findings, mutants and theorems.
