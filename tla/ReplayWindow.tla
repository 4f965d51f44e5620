----------------------------- MODULE ReplayWindow -----------------------------
(* The sequence numbers of sealed frames and the window by which who opens    *)
(* them refuses what was seen before (internal/e2ee/e2ee.go, shared/e2ee.ts). *)
(* Several goroutines of one process seal under one lock and queue after it;  *)
(* the relay forwards in order and shows a kept screen again.  One process's  *)
(* stream and one opener: another stream has a window of its own.             *)
EXTENDS Naturals, Sequences

CONSTANTS Sealers,
          Span,         \* sequences the window covers: 64
          MaxSequence   \* bound: frames sealed

ReplayAssumption == Span \in Nat \ {0} /\ MaxSequence \in Nat

VARIABLES
  sendSequence, \* the last sequence drawn
  inHand,       \* [Sealers -> the sequence sealed and not yet queued, or 0]
  stream,       \* the frames on the way, in order
  keptFrame,    \* the frame of the screen the relay keeps, or 0
  max, bitmap,  \* replayWindow: the newest sequence opened, and which before it: the bits set
  opened,       \* history: how often each frame was opened
  missed        \* history: frames refused that were never opened before

replayVars == <<sendSequence, inHand, stream, keptFrame, max, bitmap, opened, missed>>

Sequence == 1..MaxSequence

ReplayInit ==
  /\ sendSequence = 0
  /\ inHand = [p \in Sealers |-> 0]
  /\ stream = <<>>
  /\ keptFrame = 0
  /\ max = 0 /\ bitmap = {}
  /\ opened = [s \in Sequence |-> 0]
  /\ missed = {}

\* SealFrame: the sequence is drawn and the frame sealed under sealMu.
Seal(p) ==
  /\ inHand[p] = 0 /\ sendSequence < MaxSequence
  /\ sendSequence' = sendSequence + 1
  /\ inHand' = [inHand EXCEPT ![p] = sendSequence + 1]
  /\ UNCHANGED <<stream, keptFrame, max, bitmap, opened, missed>>

\* It is queued without the lock, in any order, or there was no room for it.
Enqueue(p) ==
  /\ inHand[p] # 0
  /\ stream' \in {stream, Append(stream, inHand[p])}
  /\ inHand' = [inHand EXCEPT ![p] = 0]
  /\ UNCHANGED <<sendSequence, keptFrame, max, bitmap, opened, missed>>

\* The bits after the window has moved by shift: those it leaves behind are gone.
Shifted(shift) == {d \in 0..Span - 1 : d >= shift /\ d - shift \in bitmap}

\* Mutant: the bits stay where they were.
AcceptUnshifted(s) ==
  IF s > max THEN /\ max' = s
                  /\ bitmap' = (IF s - max >= Span THEN {0} ELSE bitmap \cup {0})
             ELSE /\ max - s < Span /\ max - s \notin bitmap
                  /\ bitmap' = bitmap \cup {max - s} /\ max' = max

\* acceptSequence, when it accepts
Accept(s) ==
  IF s > max THEN /\ max' = s
                  /\ bitmap' = (IF s - max >= Span THEN {0} ELSE Shifted(s - max) \cup {0})
             ELSE /\ max - s < Span /\ max - s \notin bitmap
                  /\ bitmap' = bitmap \cup {max - s} /\ max' = max

\* acceptSequence, when it refuses
Refuse(s) == s <= max /\ (max - s >= Span \/ max - s \in bitmap)

\* OpenFrame: an authentic frame arrives.
Open(s) ==
  \/ Accept(s) /\ opened' = [opened EXCEPT ![s] = @ + 1] /\ missed' = missed
  \/ Refuse(s) /\ UNCHANGED <<max, bitmap, opened>> /\ missed' = IF opened[s] = 0 THEN missed \cup {s} ELSE missed

\* The relay forwards the next frame, and keeps it if it is a screen, or not.
Arrive ==
  /\ stream # <<>>
  /\ Open(Head(stream))
  /\ stream' = Tail(stream)
  /\ keptFrame' \in {keptFrame, Head(stream)}
  /\ UNCHANGED <<sendSequence, inHand>>

\* A frame is lost with a socket, or finds the opener not there; the relay may have kept it.
Lose ==
  /\ stream # <<>>
  /\ stream' = Tail(stream)
  /\ keptFrame' \in {keptFrame, Head(stream)}
  /\ UNCHANGED <<sendSequence, inHand, max, bitmap, opened, missed>>

\* sendCachedScreen: the machine is away, and the kept screen is sent to whoever asks.
ShowKept ==
  /\ keptFrame # 0
  /\ Open(keptFrame)
  /\ UNCHANGED <<sendSequence, inHand, stream, keptFrame>>

ReplayNext == (\E p \in Sealers : Seal(p) \/ Enqueue(p)) \/ Arrive \/ Lose \/ ShowKept

ReplaySpec == ReplayInit /\ [][ReplayNext]_replayVars

------------------------------------------------------------------------------
(* Properties.                                                                *)

ReplayTypeOK ==
  /\ sendSequence \in 0..MaxSequence
  /\ inHand \in [Sealers -> 0..MaxSequence]
  /\ stream \in Seq(Sequence)
  /\ keptFrame \in 0..MaxSequence /\ max \in 0..MaxSequence
  /\ bitmap \subseteq 0..Span - 1
  /\ opened \in [Sequence -> Nat]
  /\ missed \subseteq Sequence

\* acceptSequence "rejects duplicates while still allowing the small amount of legitimate reordering"
\* of concurrent writers (e2ee.go:260-262): no frame is opened twice, though the relay shows a kept
\* screen again and again; and one that was never opened is refused only when the newest that was
\* opened is a whole window or more ahead of it.
OnceOrOvertaken ==
  /\ \A s \in Sequence : opened[s] <= 1
  /\ \A s \in missed : max >= s + Span
===============================================================================
