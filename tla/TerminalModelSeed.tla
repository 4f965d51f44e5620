--------------------------- MODULE TerminalModelSeed ---------------------------
(* The terminal that the relay draws for agents (worker/index.ts): it exists  *)
(* only while a grant is live, is seeded by a snapshot the host is asked for, *)
(* and then follows the host's frames.  Seeding crosses several awaits, during *)
(* which grants end, the host goes and runs change; calls that come meanwhile *)
(* share it.  The session is encrypted: a frame is opened, and a bearer's key *)
(* unwrapped, by cryptography that answers later.                             *)
EXTENDS Naturals, Sequences, FiniteSets, SequencesExt

CONSTANTS Grants, Absent,
          MaxSeeds, MaxRuns, MaxPrinted, MaxWire  \* bounds: seeds, runs, output frames, frames under way

(* What a terminal may show, and what the host may send.                      *)
Shown == [run : Nat, at : Nat, fit : {"blank", "whole", "mixed", "twice", "gap"}]
Sent == [kind : {"output", "snapshot", "broadcast"}, at : Nat, for : Nat \cup {Absent}, run : Nat]

SeedAssumption ==
  /\ MaxSeeds \in Nat /\ MaxRuns \in Nat \ {0} /\ MaxPrinted \in Nat
  /\ Absent \notin Nat /\ Absent \notin Shown

VARIABLES
  run, live,   \* the run, and its live grants (mcpGrants)
  host,        \* the run whose program is behind the open host socket, or Absent
  printed,     \* output frames the host has sent in this run
  frames,      \* its frames on their way
  requests,    \* snapshot requests on their way to it
  model,       \* mcpModel: Absent, or what it shows: the run, the last frame, how it fits
  seeding,     \* mcpModelInit: the seed that calls share, or Absent
  seed,        \* [seeds started -> what it awaits, whether mcpModelGeneration is still its own]
  pending,     \* pendingInternalSnapshotIds
  resolves,    \* mcpSnapshotResolve: the seed it settles, or Absent
  crypto,      \* questions to the cryptography, oldest first
  outOfTurn,   \* history: the cryptography answered a question before an older one
  torn         \* history: the last frame lost with a socket that another replaced, until a later screen came

relayVars == <<model, seeding, seed, pending, resolves>>
sourceVars == <<host, printed, frames, requests>>
seedVars == <<run, live, sourceVars, relayVars, crypto, outOfTurn, torn>>

FrameOf(kind, for) == [kind |-> kind, at |-> printed, for |-> for, run |-> host]
BlankModel == [run |-> run, at |-> 0, fit |-> "blank"]

SeedInit ==
  /\ run = 1 /\ live = {} /\ host = 1 /\ printed = 0
  /\ frames = <<>> /\ requests = {}
  /\ model = Absent /\ seeding = Absent /\ seed = <<>> /\ pending = {} /\ resolves = Absent
  /\ crypto = <<>> /\ outOfTurn = FALSE /\ torn = 0

------------------------------------------------------------------------------
(* mcpFreeModel, in which every end of the grants, the host or the run ends:  *)
(* the generation moves on, so that no seed under way is its own any more; one *)
(* that awaits its snapshot is settled and gives up at once.                  *)

GivenUp == [s \in DOMAIN seed |->
  [awaits |-> IF seed[s].awaits = "snapshot" THEN "nothing" ELSE seed[s].awaits, own |-> FALSE]]

FreeModel ==
  /\ model' = Absent /\ seeding' = Absent /\ pending' = {} /\ resolves' = Absent
  /\ seed' = GivenUp
  /\ torn' = 0

(* mcpMaybeFreeModel, once the grants are these.                              *)
MaybeFreeModel(grants) == IF grants = {} THEN FreeModel ELSE UNCHANGED <<relayVars, torn>>

Mint(g) ==
  /\ g \notin live
  /\ live' = live \cup {g}
  /\ UNCHANGED <<run, sourceVars, relayVars, crypto, outOfTurn, torn>>

(* A grant runs out; the timer that retires the model comes later.            *)
Expire(g) ==
  /\ g \in live
  /\ live' = live \ {g}
  /\ UNCHANGED <<run, sourceVars, relayVars, crypto, outOfTurn, torn>>

(* The timer, a denied request, or the revocation of a grant.                 *)
Retire ==
  /\ live = {} /\ model # Absent
  /\ FreeModel
  /\ UNCHANGED <<run, live, sourceVars, crypto, outOfTurn>>

Revoke(g) ==
  /\ g \in live
  /\ live' = live \ {g}
  /\ MaybeFreeModel(live')
  /\ UNCHANGED <<run, sourceVars, crypto, outOfTurn>>

(* invalidateMcpGrants.                                                       *)
RevokeAll ==
  /\ live' = {}
  /\ FreeModel
  /\ UNCHANGED <<run, sourceVars, crypto, outOfTurn>>

(* resume: by a new program; the socket of the old one may still look open.   *)
Resume ==
  /\ run < MaxRuns
  /\ run' = run + 1 /\ live' = {} /\ printed' = 0
  /\ FreeModel
  /\ UNCHANGED <<host, frames, requests, crypto, outOfTurn>>

------------------------------------------------------------------------------
(* The host.                                                                  *)

Send(f) == Len(frames) < MaxWire /\ frames' = Append(frames, f)

PrintFrame ==
  /\ host = run /\ printed < MaxPrinted
  /\ printed' = printed + 1
  /\ Send([FrameOf("output", Absent) EXCEPT !.at = printed + 1])
  /\ UNCHANGED <<run, live, host, requests, relayVars, crypto, outOfTurn, torn>>

AnswerRequest(s) ==
  /\ host = run /\ s \in requests
  /\ requests' = requests \ {s}
  /\ Send(FrameOf("snapshot", s))
  /\ UNCHANGED <<run, live, host, printed, relayVars, crypto, outOfTurn, torn>>

(* The screen for everybody: after a reconnect, or when frames did not fit.   *)
BroadcastScreen ==
  /\ host = run /\ Send(FrameOf("broadcast", Absent))
  /\ UNCHANGED <<run, live, host, printed, requests, relayVars, crypto, outOfTurn, torn>>

(* handleSocketEnd of the last host socket.                                   *)
HostGoes ==
  /\ host # Absent /\ host' = Absent
  /\ frames' = <<>> /\ requests' = {}
  /\ FreeModel
  /\ UNCHANGED <<run, live, printed, crypto, outOfTurn>>

HostComes ==
  /\ host = Absent /\ host' = run
  /\ UNCHANGED <<run, live, printed, frames, requests, relayVars, crypto, outOfTurn, torn>>

(* A new socket of the host before the old one has ended: the model stays.    *)
Replaced ==
  /\ host # Absent /\ (frames # <<>> \/ requests # {} \/ host # run)
  /\ host' = run
  /\ frames' = <<>> /\ requests' = {}
  /\ torn' = IF model # Absent /\ frames # <<>> THEN printed ELSE torn
  /\ UNCHANGED <<run, live, printed, relayVars, crypto, outOfTurn>>

------------------------------------------------------------------------------
(* The relay.                                                                 *)

Question(kind, about) == [kind |-> kind, about |-> about]

(* handleHostFrame, as far as the model goes: a frame is opened if there is a *)
(* model, or if a seed waits for it.                                          *)
HandleFrame ==
  LET f == Head(frames)
      opened == IF f.kind = "snapshot" THEN f.for \in pending ELSE model # Absent
  IN
  /\ frames # <<>> /\ frames' = Tail(frames) /\ Len(crypto) < MaxWire
  /\ crypto' = IF opened THEN Append(crypto, Question("open", f)) ELSE crypto
  /\ pending' = pending \ {f.for}
  /\ UNCHANGED <<run, live, host, printed, requests, model, seeding, seed, resolves, outOfTurn, torn>>

(* A call of an observe tool that finds neither model nor seed starts one;    *)
(* any other shares what is there.                                            *)
EnsureModelSeeded ==
  LET s == Len(seed) + 1 IN
  /\ live # {} /\ seeding = Absent /\ model = Absent /\ s <= MaxSeeds
  /\ seeding' = s
  /\ seed' = Append(seed, [awaits |-> "key", own |-> TRUE])
  /\ crypto' = Append(crypto, Question("unwrap", s))
  /\ UNCHANGED <<run, live, sourceVars, model, pending, resolves, outOfTurn, torn>>

Answered(i) ==
  /\ crypto' = RemoveAt(crypto, i)
  /\ outOfTurn' = (outOfTurn \/ i # 1)

Ended(s) == [seed EXCEPT ![s].awaits = "nothing"]

(* Mutant: a seed that ends takes the shared promise along, whoever's it is. *)
SettledAlways(s) == seeding' = Absent

(* The seed's finally: it clears the shared promise if it is still its own.   *)
Settled(s) == seeding' = IF seed[s].own THEN Absent ELSE seeding

(* mcpEnsureCipher has the key, then the model is allocated and the host, if  *)
(* there is one, asked.                                                       *)
KeyReady(i, s) ==
  /\ crypto[i].kind = "unwrap" /\ crypto[i].about = s
  /\ Answered(i)
  /\ IF live = {} \/ ~seed[s].own
     THEN /\ seed' = Ended(s) /\ Settled(s)
          /\ UNCHANGED <<model, pending, resolves, requests, torn>>
     ELSE IF host = Absent THEN FreeModel /\ UNCHANGED requests
     ELSE /\ model' = BlankModel
          /\ pending' = pending \cup {s} /\ requests' = requests \cup {s}
          /\ resolves' = s
          /\ seed' = [seed EXCEPT ![s].awaits = "snapshot"]
          /\ UNCHANGED <<seeding, torn>>
  /\ UNCHANGED <<run, live, host, printed, frames>>

(* MCP_SNAPSHOT_SEED_TIMEOUT_MS.                                              *)
SeedTimesOut(s) ==
  /\ seed[s].awaits = "snapshot"
  /\ FreeModel
  /\ UNCHANGED <<run, live, sourceVars, crypto, outOfTurn>>

Screened(f) == [run |-> f.run, at |-> f.at, fit |-> "whole"]

Appended(f) ==
  [model EXCEPT !.at = f.at,
     !.fit = IF @ = "blank" THEN @ ELSE IF f.run # model.run THEN "mixed" ELSE IF f.at <= model.at THEN "twice"
             ELSE IF f.at > model.at + 1 THEN "gap" ELSE @]

(* mcpAppendOutput and mcpAppendBroadcastSnapshot.  The model may have gone   *)
(* since the frame came, or be another.                                       *)
Opened(i) ==
  LET f == crypto[i].about IN
  /\ crypto[i].kind = "open" /\ f.kind # "snapshot"
  /\ Answered(i)
  /\ model' = IF model = Absent THEN Absent ELSE IF f.kind = "output" THEN Appended(f) ELSE Screened(f)
  /\ torn' = IF f.kind = "broadcast" /\ f.at >= torn THEN 0 ELSE torn
  /\ UNCHANGED <<run, live, sourceVars, seeding, seed, pending, resolves>>

(* mcpHandleInternalSnapshot, and the seed it settles: whatever waits now, not *)
(* the seed the snapshot was asked for.  The frame may not open.              *)
SnapshotOpened(i, opens) ==
  LET f == crypto[i].about
      s == resolves
  IN
  /\ crypto[i].kind = "open" /\ f.kind = "snapshot"
  /\ Answered(i)
  /\ IF s # Absent /\ (~opens \/ live = {})
     THEN FreeModel
     ELSE /\ model' = IF model = Absent \/ ~opens THEN model ELSE Screened(f)
          /\ torn' = IF opens /\ f.at >= torn THEN 0 ELSE torn
          /\ resolves' = Absent
          /\ IF s = Absent THEN UNCHANGED <<seed, seeding>> ELSE seed' = Ended(s) /\ Settled(s)
          /\ UNCHANGED pending
  /\ UNCHANGED <<run, live, sourceVars>>

SeedNext ==
  \/ \E g \in Grants : Mint(g) \/ Expire(g) \/ Revoke(g)
  \/ Retire \/ RevokeAll \/ Resume
  \/ PrintFrame \/ BroadcastScreen \/ HostGoes \/ HostComes \/ Replaced
  \/ \E s \in requests : AnswerRequest(s)
  \/ HandleFrame \/ EnsureModelSeeded
  \/ \E i \in DOMAIN crypto :
       Opened(i) \/ (\E opens \in BOOLEAN : SnapshotOpened(i, opens)) \/ (\E s \in DOMAIN seed : KeyReady(i, s))
  \/ \E s \in DOMAIN seed : SeedTimesOut(s)

SeedSpec == SeedInit /\ [][SeedNext]_seedVars

------------------------------------------------------------------------------
SeedTypeOK ==
  /\ run \in 1..MaxRuns /\ printed \in 0..MaxPrinted /\ torn \in 0..printed
  /\ live \subseteq Grants /\ host \in 1..run \cup {Absent}
  /\ frames \in Seq(Sent) /\ requests \subseteq DOMAIN seed
  /\ model \in Shown \cup {Absent}
  /\ seed \in Seq([awaits : {"key", "snapshot", "nothing"}, own : BOOLEAN])
  /\ seeding \in DOMAIN seed \cup {Absent} /\ resolves \in DOMAIN seed \cup {Absent}
  /\ pending \subseteq DOMAIN seed
  /\ crypto \in Seq([kind : {"open"}, about : Sent] \cup [kind : {"unwrap"}, about : DOMAIN seed])
  /\ outOfTurn \in BOOLEAN
  /\ seeding # Absent => seed[seeding].own

(* statusPayload's freshModelAvailable: a call that comes now is given the    *)
(* model as it is.                                                            *)
Ready == model # Absent /\ seeding = Absent

(* "A concurrent read that lands in that window must share the seed rather    *)
(* than read the not-yet-seeded model" (index.ts:1815), and a seed that was   *)
(* voided leaves nothing behind: a model a call is given shows a screen of    *)
(* this run, with all that came after it and nothing twice; as long as the    *)
(* cryptography answers in turn, and no socket took frames with it that the   *)
(* host's next screen has not made up for.                                    *)
ReadyIsCurrent == Ready /\ ~outOfTurn /\ torn = 0 => model.run = run /\ model.fit = "whole"

================================================================================
