---------------------- MODULE CredentialRotationProofs ----------------------
(* Proofs about CredentialRotation, for any number of grants, rotations and   *)
(* sockets and any capacity of the channel: between rotations the credentials *)
(* agree; an acknowledgement of the rotation's own event means that grants    *)
(* and input of older keys are gone; and only a timeout leaves another        *)
(* rotation's acknowledgement behind.                                         *)
EXTENDS CredentialRotation, TLAPS

Wired == [n : Keys, socket : 1..MaxSockets]
Sent  == [kind : {"input", "ack"}, n : Keys]

IsRotate(i) == out[i].kind = "rotate"
IsAck(i)    == inbound[i].kind = "ack"

\* Credentials: between rotations one set is in use; within one, the fresh set
\* is everywhere but with the owner, and no grant is being issued.
Agreed ==
  /\ pc = "idle" => key = told /\ (~writeLost => record = told /\ disk = told)
  /\ pc # "idle" => old = told /\ key = rotations /\ record = rotations /\ disk = rotations 
                    /\ rotations # 0 /\ minting = NoGrant

\* Events and acknowledgements are numbered by the rotations begun so far; the
\* latest has none before it is sent.
Latest == IF pc = "swapped" THEN rotations - 1 ELSE rotations
Numbered ==
  /\ \A i \in 1..Len(out) : IsRotate(i) => out[i].n <= Latest
  /\ \A i \in 1..Len(wire) : wire[i].n <= Latest
  /\ \A i \in 1..Len(inbound) : IsAck(i) => inbound[i].n <= Latest
  /\ slot <= Latest

\* Nobody types under a key the owner was not told.
Heard ==
  /\ \A k \in known : k <= rotations
  /\ pc # "idle" => rotations \notin known
  /\ \A i \in 1..Len(inbound) : ~IsAck(i) => inbound[i].n \in known

\* The owner holds the bearer of a grant only after the relay made it, and
\* the one being issued has the owner's key.
Minted ==
  /\ \A g \in Grants : grants[g].state \in {"none", "asked"} => ~grants[g].held
  /\ \A g \in Grants : minting = g => grants[g].key = told

\* After a success owed to its own acknowledgement nothing older is in use.
Dated ==
  trusted => /\ \A g \in Grants : Claimed(g) => grants[g].key = told
             /\ opened \in {NoKey, told}

\* The acknowledgement of the running rotation's own event comes after the
\* revocation, and leaves no input behind it unwritten.
Answered == slot = rotations \/ \E i \in 1..Len(inbound) : IsAck(i) /\ inbound[i].n = rotations
Revoked ==
  pc = "waiting" => /\ Answered => \A g \in Grants : ~Claimed(g)
                    /\ slot = rotations => opened = NoKey

\* As long as no rotation has timed out, there is an event or an acknowledgement
\* only while a rotation waits, one at most, and of that rotation.
NoneOut  == \A i \in 1..Len(out) : ~IsRotate(i)
NoneIn   == \A i \in 1..Len(inbound) : ~IsAck(i)
NoToken  == slot = 0 /\ wire = <<>> /\ NoneOut /\ NoneIn
OneToken ==
  /\ slot \in {0, rotations}
  /\ \A i \in 1..Len(out) : IsRotate(i) => out[i].n = rotations
  /\ \A i \in 1..Len(wire) : wire[i].n = rotations
  /\ \A i \in 1..Len(inbound) : IsAck(i) => inbound[i].n = rotations
  /\ \A i, j \in 1..Len(out) : IsRotate(i) /\ IsRotate(j) => i = j
  /\ Len(wire) <= 1
  /\ \A i, j \in 1..Len(inbound) : IsAck(i) /\ IsAck(j) => i = j
  /\ slot # 0 => wire = <<>> /\ NoneOut /\ NoneIn
  /\ wire # <<>> => NoneOut /\ NoneIn
  /\ NoneOut \/ NoneIn
Single ==
  ~timedOut => /\ trusted
               /\ pc # "waiting" => NoToken
               /\ pc = "waiting" => OneToken

\* The numbers are numbers.
Whole ==
  /\ key \in Nat /\ told \in Nat /\ record \in Nat /\ disk \in Nat /\ old \in Nat
  /\ rotations \in 0..MaxRotations /\ slot \in Nat
  /\ Len(out) \in Nat /\ \A i \in 1..Len(out) : out[i].n \in Nat
  /\ Len(wire) \in Nat /\ \A i \in 1..Len(wire) : wire[i].n \in Nat
  /\ Len(inbound) \in Nat /\ \A i \in 1..Len(inbound) : inbound[i].n \in Nat
  /\ \A i \in 1..Len(inbound) : inbound[i].kind \in {"input", "ack"}
  /\ \A k \in known : k \in Nat

RotationInvariant ==
  RotationTypeOK /\ Agreed /\ Numbered /\ Heard /\ Minted /\ Dated /\ Revoked /\ Single

------------------------------------------------------------------------------
(* Sequences.                                                                 *)

\* Append adds one element at the end.
LEMMA Appending ==
  ASSUME NEW S, NEW s \in Seq(S), NEW e \in S
  PROVE  /\ Append(s, e) \in Seq(S) /\ Len(Append(s, e)) = Len(s) + 1
         /\ \A i \in 1..Len(s) : Append(s, e)[i] = s[i]
         /\ Append(s, e)[Len(s) + 1] = e
         /\ Append(s, e) # <<>>
OBVIOUS

\* Tail takes the first element away.
LEMMA TakingHead ==
  ASSUME NEW S, NEW s \in Seq(S), s # <<>>
  PROVE  /\ Head(s) = s[1] /\ Head(s) \in S /\ 1 \in 1..Len(s)
         /\ Tail(s) \in Seq(S) /\ Len(Tail(s)) = Len(s) - 1
         /\ \A i \in 1..Len(Tail(s)) : i + 1 \in 1..Len(s) /\ Tail(s)[i] = s[i + 1]
OBVIOUS

\* What a lost connection leaves is a prefix.
LEMMA Shortening ==
  ASSUME NEW S, NEW s \in Seq(S), NEW n \in 0..Len(s)
  PROVE  /\ SubSeq(s, 1, n) \in Seq(S) /\ Len(SubSeq(s, 1, n)) = n
         /\ \A i \in 1..n : i \in 1..Len(s) /\ SubSeq(s, 1, n)[i] = s[i]
OBVIOUS

LEMMA Numbers == ASSUME RotationAssumption, RotationTypeOK PROVE Whole
<1> USE RotationAssumption DEF RotationAssumption
<1>1. out \in Seq(Event) /\ wire \in Seq(Wired) /\ inbound \in Seq(Sent)
  BY DEF RotationTypeOK, Wired, Sent
<1>2. \A e \in Event : e.n \in Nat
  BY DEF Event, Keys
<1>3. \A e \in Wired : e.n \in Nat
  BY DEF Wired, Keys
<1>4. \A e \in Sent : e.n \in Nat /\ e.kind \in {"input", "ack"}
  BY DEF Sent, Keys
<1>5. Len(out) \in Nat /\ \A i \in 1..Len(out) : out[i] \in Event
  BY <1>1
<1>6. Len(wire) \in Nat /\ \A i \in 1..Len(wire) : wire[i] \in Wired
  BY <1>1
<1>7. Len(inbound) \in Nat /\ \A i \in 1..Len(inbound) : inbound[i] \in Sent
  BY <1>1
<1>8. /\ key \in Nat /\ told \in Nat /\ record \in Nat /\ disk \in Nat /\ old \in Nat
      /\ rotations \in 0..MaxRotations /\ slot \in Nat /\ \A k \in known : k \in Nat
  BY DEF RotationTypeOK, Keys
<1>. QED BY <1>2, <1>3, <1>4, <1>5, <1>6, <1>7, <1>8 DEF Whole

\* A rotation begins: nothing in flight is numbered by it.
LEMMA BeginStep ==
  ASSUME RotationAssumption, RotationInvariant, BeginRotation PROVE RotationInvariant'
<1> USE RotationAssumption DEF RotationAssumption
<1>0. RotationTypeOK /\ Agreed /\ Numbered /\ Heard /\ Minted /\ Dated /\ Revoked /\ Single
  BY DEF RotationInvariant
<1>1. /\ pc = "idle" /\ minting = NoGrant /\ rotations < MaxRotations /\ pc' = "swapped"
      /\ rotations' = rotations + 1 /\ disk' = rotations' /\ record' = rotations' /\ old' = key /\ key' = rotations'
      /\ UNCHANGED <<told, slot, known, timedOut, trusted, writeLost, out, sealed,
                   up, sockets, wire, inbound, opened, grants, minting>>
  BY DEF BeginRotation, hostVars, relayVars, netVars, readVars
<1>2. Whole
  BY <1>0, Numbers
<1>3. RotationTypeOK'
  BY <1>0, <1>1, <1>2 DEF RotationTypeOK, Keys, NoKey
<1>4. Agreed'
  BY <1>0, <1>1, <1>2 DEF Agreed, Whole
<1>5. Numbered'
  BY <1>0, <1>1, <1>2 DEF Numbered, Latest, IsRotate, IsAck, Whole
<1>6. Heard'
  BY <1>0, <1>1, <1>2 DEF Heard, IsAck, Whole
<1>7. Revoked'
  BY <1>0, <1>1, <1>2 DEF Revoked, Answered, IsAck, Claimed, Whole
<1>8. Single'
  BY <1>0, <1>1, <1>2 DEF Single, NoToken, OneToken, NoneOut, NoneIn, IsRotate, IsAck, Whole
<1>9. Minted' /\ Dated'
  BY <1>0, <1>1 DEF Minted, Dated, Claimed
<1>. QED BY <1>3, <1>4, <1>5, <1>6, <1>7, <1>8, <1>9 DEF RotationInvariant

\* A rotation that fails before the swap leaves a number unused.
LEMMA BeginFailsStep ==
  ASSUME RotationAssumption, RotationInvariant, NEW restored \in BOOLEAN, BeginFails(restored) PROVE RotationInvariant'
<1> USE RotationAssumption DEF RotationAssumption
<1>0. RotationTypeOK /\ Agreed /\ Numbered /\ Heard /\ Minted /\ Dated /\ Revoked /\ Single
  BY DEF RotationInvariant
<1>1. /\ pc = "idle" /\ rotations < MaxRotations /\ rotations' = rotations + 1
      /\ disk' = IF restored THEN disk ELSE rotations'
      /\ writeLost' = (writeLost \/ ~restored)
      /\ UNCHANGED <<key, told, record, pc, old, slot, known, timedOut, trusted,
                   out, sealed, up, sockets, wire, inbound, opened, grants, minting>>
  BY DEF BeginFails, hostVars, relayVars, netVars, readVars
<1>2. Whole
  BY <1>0, Numbers
<1>3. RotationTypeOK'
  BY <1>0, <1>1, <1>2 DEF RotationTypeOK, Keys, NoKey
<1>4. Agreed'
  BY <1>0, <1>1, <1>2 DEF Agreed, Whole
<1>5. Numbered'
  BY <1>0, <1>1, <1>2 DEF Numbered, Latest, IsRotate, IsAck, Whole
<1>6. Heard'
  BY <1>0, <1>1, <1>2 DEF Heard, IsAck, Whole
<1>7. Revoked'
  BY <1>0, <1>1, <1>2 DEF Revoked, Answered, IsAck, Claimed, Whole
<1>8. Single'
  BY <1>0, <1>1, <1>2 DEF Single, NoToken, OneToken, NoneOut, NoneIn, IsRotate, IsAck, Whole
<1>9. Minted' /\ Dated'
  BY <1>0, <1>1 DEF Minted, Dated, Claimed
<1>. QED BY <1>3, <1>4, <1>5, <1>6, <1>7, <1>8, <1>9 DEF RotationInvariant

\* The event of the running rotation is the first of its number.
LEMMA SendStep ==
  ASSUME RotationAssumption, RotationInvariant, SendRotate PROVE RotationInvariant'
<1> USE RotationAssumption DEF RotationAssumption
<1>0. RotationTypeOK /\ Agreed /\ Numbered /\ Heard /\ Minted /\ Dated /\ Revoked /\ Single
  BY DEF RotationInvariant
<1>1. /\ pc = "swapped" /\ Len(out) < Capacity /\ pc' = "waiting"
      /\ out' = Append(out, [kind |-> "rotate", n |-> rotations])
      /\ UNCHANGED <<key, told, record, disk, old, rotations, slot, known,
                   timedOut, trusted, writeLost, sealed, up, sockets, wire, inbound, opened, grants, minting>>
  BY DEF SendRotate, hostVars, relayVars, netVars, readVars
<1>2. Whole
  BY <1>0, Numbers
<1>3. [kind |-> "rotate", n |-> rotations] \in Event
  BY <1>0 DEF RotationTypeOK, Event
<1>4. /\ out' \in Seq(Event) /\ Len(out') = Len(out) + 1 /\ \A i \in 1..Len(out) : out'[i] = out[i]
      /\ out'[Len(out) + 1].kind = "rotate" /\ out'[Len(out) + 1].n = rotations
  BY <1>0, <1>1, <1>3, Appending DEF RotationTypeOK
<1>5. RotationTypeOK'
  BY <1>0, <1>1, <1>2, <1>3, <1>4 DEF RotationTypeOK, Keys, NoKey
<1>6. Agreed'
  BY <1>0, <1>1, <1>2, <1>3, <1>4 DEF Agreed, Whole
<1>7. Numbered'
  BY <1>0, <1>1, <1>2, <1>3, <1>4 DEF Numbered, Latest, IsRotate, IsAck, Whole
<1>8. Heard'
  BY <1>0, <1>1, <1>2, <1>3, <1>4 DEF Heard, IsAck, Whole
<1>9. Revoked'
  BY <1>0, <1>1, <1>2, <1>3, <1>4 DEF Revoked, Answered, IsAck, Claimed, Whole, Numbered, Latest
<1>10. Single'
  BY <1>0, <1>1, <1>2, <1>3, <1>4 DEF Single, NoToken, OneToken, NoneOut, NoneIn, IsRotate, IsAck, Whole
<1>11. Minted' /\ Dated'
  BY <1>0, <1>1 DEF Minted, Dated, Claimed
<1>. QED BY <1>5, <1>6, <1>7, <1>8, <1>9, <1>10, <1>11 DEF RotationInvariant

\* The owner is told; trust is owed to the event answered.
LEMMA SucceedStep ==
  ASSUME RotationAssumption, RotationInvariant, Succeed PROVE RotationInvariant'
<1> USE RotationAssumption DEF RotationAssumption
<1>0. RotationTypeOK /\ Agreed /\ Numbered /\ Heard /\ Minted /\ Dated /\ Revoked /\ Single
  BY DEF RotationInvariant
<1>1. /\ pc = "waiting" /\ slot # 0 /\ slot' = 0 /\ told' = rotations
      /\ known' = known \cup {rotations} /\ trusted' = (slot = rotations) /\ pc' = "idle"
      /\ UNCHANGED <<key, record, disk, old, rotations, timedOut, writeLost, out,
                   sealed, up, sockets, wire, inbound, opened, grants, minting>>
  BY DEF Succeed, hostVars, relayVars, netVars, readVars
<1>2. Whole
  BY <1>0, Numbers
<1>3. RotationTypeOK'
  BY <1>0, <1>1, <1>2 DEF RotationTypeOK, Keys, NoKey
<1>4. Agreed'
  BY <1>0, <1>1, <1>2 DEF Agreed, Whole
<1>5. Numbered'
  BY <1>0, <1>1, <1>2 DEF Numbered, Latest, IsRotate, IsAck, Whole
<1>6. Heard'
  BY <1>0, <1>1, <1>2 DEF Heard, IsAck, Whole, Agreed
<1>7. Minted'
  BY <1>0, <1>1, <1>2 DEF Minted, Whole, Agreed
<1>8. Dated'
  BY <1>0, <1>1, <1>2 DEF Dated, Claimed, Whole, Agreed, Revoked, Answered
<1>9. Revoked'
  BY <1>0, <1>1, <1>2 DEF Revoked, Answered, IsAck, Claimed, Whole
<1>10. Single'
  BY <1>0, <1>1, <1>2 DEF Single, NoToken, OneToken, NoneOut, NoneIn, IsRotate, IsAck, Whole
<1>. QED BY <1>3, <1>4, <1>5, <1>6, <1>7, <1>8, <1>9, <1>10 DEF RotationInvariant

\* The rotation is rolled back.
LEMMA TimeOutStep ==
  ASSUME RotationAssumption, RotationInvariant, NEW r \in BOOLEAN, NEW d \in BOOLEAN, TimeOut(r, d) PROVE RotationInvariant'
<1> USE RotationAssumption DEF RotationAssumption
<1>0. RotationTypeOK /\ Agreed /\ Numbered /\ Heard /\ Minted /\ Dated /\ Revoked /\ Single
  BY DEF RotationInvariant
<1>1. /\ pc = "waiting" /\ key' = old /\ timedOut' = TRUE /\ pc' = "idle"
      /\ record' = IF r THEN told ELSE record
      /\ disk' = IF d THEN old ELSE disk
      /\ writeLost' = (writeLost \/ ~r \/ ~d)
      /\ UNCHANGED <<told, old, rotations, slot, known, trusted, out, sealed, up,
                   sockets, wire, inbound, opened, grants, minting>>
  BY DEF TimeOut, hostVars, relayVars, netVars, readVars
<1>2. Whole
  BY <1>0, Numbers
<1>3. RotationTypeOK'
  BY <1>0, <1>1, <1>2 DEF RotationTypeOK, Keys, NoKey
<1>4. Agreed'
  BY <1>0, <1>1, <1>2 DEF Agreed, Whole
<1>5. Numbered'
  BY <1>0, <1>1, <1>2 DEF Numbered, Latest, IsRotate, IsAck, Whole
<1>6. Heard'
  BY <1>0, <1>1, <1>2 DEF Heard, IsAck, Whole
<1>7. Revoked'
  BY <1>0, <1>1, <1>2 DEF Revoked, Answered, IsAck, Claimed, Whole
<1>8. Single'
  BY <1>0, <1>1, <1>2 DEF Single, NoToken, OneToken, NoneOut, NoneIn, IsRotate, IsAck, Whole
<1>9. Minted' /\ Dated'
  BY <1>0, <1>1 DEF Minted, Dated, Claimed
<1>. QED BY <1>3, <1>4, <1>5, <1>6, <1>7, <1>8, <1>9 DEF RotationInvariant

\* A frame is sealed.
LEMMA SealStep ==
  ASSUME RotationAssumption, RotationInvariant, Seal PROVE RotationInvariant'
<1> USE RotationAssumption DEF RotationAssumption
<1>0. RotationTypeOK /\ Agreed /\ Numbered /\ Heard /\ Minted /\ Dated /\ Revoked /\ Single
  BY DEF RotationInvariant
<1>1. /\ sealed' = key
      /\ UNCHANGED <<key, told, record, disk, pc, old, rotations, slot, known,
                   timedOut, trusted, writeLost, out, up, sockets, wire, inbound, opened, grants, minting>>
  BY DEF Seal, hostVars, relayVars, netVars, readVars
<1>2. Whole
  BY <1>0, Numbers
<1>3. RotationTypeOK'
  BY <1>0, <1>1, <1>2 DEF RotationTypeOK, Keys, NoKey
<1>4. Agreed' /\ Numbered' /\ Heard' /\ Minted' /\ Dated' /\ Revoked' /\ Single'
  BY <1>0, <1>1 DEF Agreed, Numbered, Latest, IsRotate, IsAck, Heard, IsAck, Minted, Dated, Claimed, Revoked, Answered, IsAck, Claimed, Single, NoToken, OneToken, NoneOut, NoneIn, IsRotate, IsAck
<1>. QED BY <1>3, <1>4 DEF RotationInvariant

\* A frame is queued, if there is room.
LEMMA EnqueueStep ==
  ASSUME RotationAssumption, RotationInvariant, Enqueue PROVE RotationInvariant'
<1> USE RotationAssumption DEF RotationAssumption
<1>0. RotationTypeOK /\ Agreed /\ Numbered /\ Heard /\ Minted /\ Dated /\ Revoked /\ Single
  BY DEF RotationInvariant
<1>1. /\ sealed \in Keys /\ sealed' = NoKey
      /\ out' = IF Len(out) < Capacity THEN Append(out, [kind |-> "frame", n |-> sealed]) ELSE out
      /\ UNCHANGED <<key, told, record, disk, pc, old, rotations, slot, known,
                   timedOut, trusted, writeLost, up, sockets, wire, inbound, opened, grants, minting>>
  BY DEF Enqueue, hostVars, relayVars, netVars, readVars, RotationTypeOK, RotationInvariant
<1>2. Whole
  BY <1>0, Numbers
<1>3. [kind |-> "frame", n |-> sealed] \in Event
  BY <1>1 DEF Event
<1>4. /\ out' \in Seq(Event) /\ Len(out') <= Capacity /\ Len(out') \in {Len(out), Len(out) + 1}
      /\ \A i \in 1..Len(out) : out'[i] = out[i]
      /\ \A i \in 1..Len(out') : i \in 1..Len(out) \/ out'[i].kind = "frame"
  BY <1>0, <1>1, <1>3, Appending DEF RotationTypeOK
<1>5. RotationTypeOK'
  BY <1>0, <1>1, <1>2, <1>3, <1>4 DEF RotationTypeOK, Keys, NoKey
<1>6. Numbered'
  BY <1>0, <1>1, <1>2, <1>3, <1>4 DEF Numbered, Latest, IsRotate, IsAck, Whole
<1>7. Single'
  BY <1>0, <1>1, <1>2, <1>3, <1>4 DEF Single, NoToken, OneToken, NoneOut, NoneIn, IsRotate, IsAck, Whole
<1>8. Agreed' /\ Heard' /\ Minted' /\ Dated' /\ Revoked'
  BY <1>0, <1>1 DEF Agreed, Heard, IsAck, Minted, Dated, Claimed, Revoked, Answered, IsAck, Claimed
<1>. QED BY <1>5, <1>6, <1>7, <1>8 DEF RotationInvariant

\* An acknowledgement is read, when the input before it is written.
LEMMA ReadAckStep ==
  ASSUME RotationAssumption, RotationInvariant, ReadAck PROVE RotationInvariant'
<1> USE RotationAssumption DEF RotationAssumption
<1>0. RotationTypeOK /\ Agreed /\ Numbered /\ Heard /\ Minted /\ Dated /\ Revoked /\ Single
  BY DEF RotationInvariant
<1>1. /\ opened = NoKey /\ inbound # <<>> /\ Head(inbound).kind = "ack" /\ inbound' = Tail(inbound)
      /\ slot' = IF slot = 0 THEN Head(inbound).n ELSE slot
      /\ UNCHANGED <<key, told, record, disk, pc, old, rotations, known, timedOut,
                   trusted, writeLost, out, sealed, up, sockets, wire, opened, grants, minting>>
  BY DEF ReadAck, hostVars, relayVars, netVars, readVars
<1>2. Whole
  BY <1>0, Numbers
<1>3. /\ inbound \in Seq(Sent) /\ inbound # <<>> /\ inbound' \in Seq(Sent) /\ Len(inbound') = Len(inbound) - 1
      /\ \A i \in 1..Len(inbound') : i + 1 \in 1..Len(inbound) /\ inbound'[i] = inbound[i + 1]
      /\ 1 \in 1..Len(inbound) /\ inbound[1] = Head(inbound) /\ Head(inbound).n \in Keys
  <2>1. inbound \in Seq(Sent) /\ inbound # <<>>
    BY <1>0, <1>1 DEF RotationTypeOK, Sent
  <2>2. \A e \in Sent : e.n \in Keys
    BY DEF Sent
  <2>. QED BY <1>1, <2>1, <2>2, TakingHead
<1>4. RotationTypeOK'
  BY <1>0, <1>1, <1>2, <1>3 DEF RotationTypeOK, Keys, NoKey
<1>5. Numbered'
  BY <1>0, <1>1, <1>2, <1>3 DEF Numbered, Latest, IsRotate, IsAck, Whole
<1>6. Heard'
  BY <1>0, <1>1, <1>2, <1>3 DEF Heard, IsAck, Whole
<1>7. Revoked'
  BY <1>0, <1>1, <1>2, <1>3 DEF Revoked, Answered, IsAck, Claimed, Whole
<1>8. Single'
  BY <1>0, <1>1, <1>2, <1>3 DEF Single, NoToken, OneToken, NoneOut, NoneIn, IsRotate, IsAck, Whole
<1>9. Agreed' /\ Minted' /\ Dated'
  BY <1>0, <1>1 DEF Agreed, Minted, Dated, Claimed
<1>. QED BY <1>4, <1>5, <1>6, <1>7, <1>8, <1>9 DEF RotationInvariant

\* Input is opened with the key in use, which nobody knows during a rotation.
LEMMA ReadInputStep ==
  ASSUME RotationAssumption, RotationInvariant, ReadInput PROVE RotationInvariant'
<1> USE RotationAssumption DEF RotationAssumption
<1>0. RotationTypeOK /\ Agreed /\ Numbered /\ Heard /\ Minted /\ Dated /\ Revoked /\ Single
  BY DEF RotationInvariant
<1>1. /\ opened = NoKey /\ inbound # <<>> /\ Head(inbound).kind = "input" /\ inbound' = Tail(inbound)
      /\ opened' = IF Head(inbound).n = key THEN key ELSE NoKey
      /\ UNCHANGED <<key, told, record, disk, pc, old, rotations, slot, known,
                   timedOut, trusted, writeLost, out, sealed, up, sockets, wire, grants, minting>>
  BY DEF ReadInput, hostVars, relayVars, netVars, readVars
<1>2. Whole
  BY <1>0, Numbers
<1>3. /\ inbound \in Seq(Sent) /\ inbound # <<>> /\ inbound' \in Seq(Sent) /\ Len(inbound') = Len(inbound) - 1
      /\ \A i \in 1..Len(inbound') : i + 1 \in 1..Len(inbound) /\ inbound'[i] = inbound[i + 1]
      /\ 1 \in 1..Len(inbound) /\ inbound[1] = Head(inbound) /\ Head(inbound).n \in Keys
  <2>1. inbound \in Seq(Sent) /\ inbound # <<>>
    BY <1>0, <1>1 DEF RotationTypeOK, Sent
  <2>2. \A e \in Sent : e.n \in Keys
    BY DEF Sent
  <2>. QED BY <1>1, <2>1, <2>2, TakingHead
<1>4. Head(inbound).n \in known /\ (pc # "idle" => opened' = NoKey) /\ opened' \in {NoKey, key}
  BY <1>0, <1>1, <1>3 DEF Heard, IsAck, Agreed
<1>5. RotationTypeOK'
  BY <1>0, <1>1, <1>2, <1>3, <1>4 DEF RotationTypeOK, Keys, NoKey
<1>6. Numbered'
  BY <1>0, <1>1, <1>2, <1>3, <1>4 DEF Numbered, Latest, IsRotate, IsAck, Whole
<1>7. Heard'
  BY <1>0, <1>1, <1>2, <1>3, <1>4 DEF Heard, IsAck, Whole
<1>8. Dated'
  BY <1>0, <1>1, <1>2, <1>3, <1>4 DEF Dated, Claimed, Whole, Agreed
<1>9. Revoked'
  BY <1>0, <1>1, <1>2, <1>3, <1>4 DEF Revoked, Answered, IsAck, Claimed, Whole
<1>10. Single'
  BY <1>0, <1>1, <1>2, <1>3, <1>4 DEF Single, NoToken, OneToken, NoneOut, NoneIn, IsRotate, IsAck, Whole
<1>11. Agreed' /\ Minted'
  BY <1>0, <1>1 DEF Agreed, Minted
<1>. QED BY <1>5, <1>6, <1>7, <1>8, <1>9, <1>10, <1>11 DEF RotationInvariant

\* Input is written to the terminal.
LEMMA WriteInputStep ==
  ASSUME RotationAssumption, RotationInvariant, WriteInput PROVE RotationInvariant'
<1> USE RotationAssumption DEF RotationAssumption
<1>0. RotationTypeOK /\ Agreed /\ Numbered /\ Heard /\ Minted /\ Dated /\ Revoked /\ Single
  BY DEF RotationInvariant
<1>1. /\ opened' = NoKey
      /\ UNCHANGED <<key, told, record, disk, pc, old, rotations, slot, known,
                   timedOut, trusted, writeLost, out, sealed, up, sockets, wire, inbound, grants, minting>>
  BY DEF WriteInput, hostVars, relayVars, netVars, readVars
<1>2. Whole
  BY <1>0, Numbers
<1>3. RotationTypeOK'
  BY <1>0, <1>1, <1>2 DEF RotationTypeOK, Keys, NoKey
<1>4. Dated'
  BY <1>0, <1>1, <1>2 DEF Dated, Claimed, Whole
<1>5. Revoked'
  BY <1>0, <1>1, <1>2 DEF Revoked, Answered, IsAck, Claimed, Whole
<1>6. Agreed' /\ Numbered' /\ Heard' /\ Minted' /\ Single'
  BY <1>0, <1>1 DEF Agreed, Numbered, Latest, IsRotate, IsAck, Heard, IsAck, Minted, Single, NoToken, OneToken, NoneOut, NoneIn, IsRotate, IsAck
<1>. QED BY <1>3, <1>4, <1>5, <1>6 DEF RotationInvariant

\* A grant is asked for between rotations, with the owner's key.
LEMMA MintAskStep ==
  ASSUME RotationAssumption, RotationInvariant, NEW g \in Grants, MintAsk(g) PROVE RotationInvariant'
<1> USE RotationAssumption DEF RotationAssumption
<1>0. RotationTypeOK /\ Agreed /\ Numbered /\ Heard /\ Minted /\ Dated /\ Revoked /\ Single
  BY DEF RotationInvariant
<1>1. /\ pc = "idle" /\ minting = NoGrant /\ grants[g].state = "none" /\ minting' = g
      /\ grants' = [grants EXCEPT ![g] = [@ EXCEPT !.state = "asked", !.key = key]]
      /\ UNCHANGED <<key, told, record, disk, pc, old, rotations, slot, known,
                   timedOut, trusted, writeLost, out, sealed, up, sockets, wire, inbound, opened>>
  BY DEF MintAsk, hostVars, relayVars, netVars, readVars
<1>2. Whole
  BY <1>0, Numbers
<1>3. /\ grants'[g] \in GrantRec /\ grants'[g].state = "asked" /\ grants'[g].key = key
      /\ grants'[g].held = grants[g].held
  BY <1>0, <1>1 DEF RotationTypeOK, GrantRec
<1>4. grants' \in [Grants -> GrantRec] /\ \A h \in Grants : h # g => grants'[h] = grants[h]
  BY <1>0, <1>1, <1>3 DEF RotationTypeOK
<1>5. ~grants[g].held /\ key = told /\ g # NoGrant
  BY <1>0, <1>1 DEF Minted, Agreed
<1>6. RotationTypeOK'
  BY <1>0, <1>1, <1>2, <1>3, <1>4, <1>5 DEF RotationTypeOK, Keys, NoKey
<1>7. Agreed'
  BY <1>0, <1>1, <1>2, <1>3, <1>4, <1>5 DEF Agreed, Whole
<1>8. Minted'
  BY <1>0, <1>1, <1>2, <1>3, <1>4, <1>5 DEF Minted, Whole
<1>9. Dated'
  BY <1>0, <1>1, <1>2, <1>3, <1>4, <1>5 DEF Dated, Claimed, Whole
<1>10. Revoked'
  BY <1>0, <1>1, <1>2, <1>3, <1>4, <1>5 DEF Revoked, Answered, IsAck, Claimed, Whole
<1>11. Numbered' /\ Heard' /\ Single'
  BY <1>0, <1>1 DEF Numbered, Latest, IsRotate, IsAck, Heard, IsAck, Single, NoToken, OneToken, NoneOut, NoneIn, IsRotate, IsAck
<1>. QED BY <1>6, <1>7, <1>8, <1>9, <1>10, <1>11 DEF RotationInvariant

\* The relay makes the grant; its bearer is not out yet.
LEMMA RelayMintsStep ==
  ASSUME RotationAssumption, RotationInvariant, NEW g \in Grants, RelayMints(g) PROVE RotationInvariant'
<1> USE RotationAssumption DEF RotationAssumption
<1>0. RotationTypeOK /\ Agreed /\ Numbered /\ Heard /\ Minted /\ Dated /\ Revoked /\ Single
  BY DEF RotationInvariant
<1>1. /\ grants[g].state = "asked"
      /\ grants' = [grants EXCEPT ![g].state = "live"]
      /\ UNCHANGED <<key, told, record, disk, pc, old, rotations, slot, known,
                   timedOut, trusted, writeLost, out, sealed, up, sockets, wire, inbound, opened, minting>>
  BY DEF RelayMints, hostVars, relayVars, netVars, readVars
<1>2. Whole
  BY <1>0, Numbers
<1>3. /\ grants'[g] \in GrantRec /\ grants'[g].state = "live" /\ grants'[g].key = grants[g].key
      /\ grants'[g].held = grants[g].held
  BY <1>0, <1>1 DEF RotationTypeOK, GrantRec
<1>4. grants' \in [Grants -> GrantRec] /\ \A h \in Grants : h # g => grants'[h] = grants[h]
  BY <1>0, <1>1, <1>3 DEF RotationTypeOK
<1>5. ~grants[g].held
  BY <1>0, <1>1 DEF Minted
<1>6. RotationTypeOK'
  BY <1>0, <1>1, <1>2, <1>3, <1>4, <1>5 DEF RotationTypeOK, Keys, NoKey
<1>7. Minted'
  BY <1>0, <1>1, <1>2, <1>3, <1>4, <1>5 DEF Minted, Whole
<1>8. Dated'
  BY <1>0, <1>1, <1>2, <1>3, <1>4, <1>5 DEF Dated, Claimed, Whole
<1>9. Revoked'
  BY <1>0, <1>1, <1>2, <1>3, <1>4, <1>5 DEF Revoked, Answered, IsAck, Claimed, Whole
<1>10. Agreed' /\ Numbered' /\ Heard' /\ Single'
  BY <1>0, <1>1 DEF Agreed, Numbered, Latest, IsRotate, IsAck, Heard, IsAck, Single, NoToken, OneToken, NoneOut, NoneIn, IsRotate, IsAck
<1>. QED BY <1>6, <1>7, <1>8, <1>9, <1>10 DEF RotationInvariant

\* The owner gets the bearer of a grant with the key of the day, or does not.
LEMMA MintAnswerStep ==
  ASSUME RotationAssumption, RotationInvariant, MintAnswer PROVE RotationInvariant'
<1> USE RotationAssumption DEF RotationAssumption
<1>0. RotationTypeOK /\ Agreed /\ Numbered /\ Heard /\ Minted /\ Dated /\ Revoked /\ Single
  BY DEF RotationInvariant
<1>1. /\ minting # NoGrant /\ minting' = NoGrant
      /\ \/ grants' = grants
         \/ /\ grants[minting].state \in {"live", "revoked"}
            /\ grants' = [grants EXCEPT ![minting].held = TRUE]
      /\ UNCHANGED <<key, told, record, disk, pc, old, rotations, slot, known,
                   timedOut, trusted, writeLost, out, sealed, up, sockets, wire, inbound, opened>>
  BY DEF MintAnswer, hostVars, relayVars, netVars, readVars
<1>2. Whole
  BY <1>0, Numbers
<1>3. minting \in Grants /\ pc = "idle" /\ grants[minting].key = told
  BY <1>0, <1>1 DEF RotationTypeOK, Agreed, Minted
<1>4. /\ grants'[minting] \in GrantRec /\ grants'[minting].state = grants[minting].state
      /\ grants'[minting].key = told
      /\ grants'[minting].held => grants[minting].held \/ grants[minting].state \in {"live", "revoked"}
  <2>1. grants[minting] \in GrantRec
    BY <1>0, <1>3 DEF RotationTypeOK
  <2>2. CASE grants' = grants
    BY <1>3, <2>1, <2>2
  <2>3. CASE grants[minting].state \in {"live", "revoked"} /\ grants' = [grants EXCEPT ![minting].held = TRUE]
    <3>1. grants'[minting] = [grants[minting] EXCEPT !.held = TRUE]
      BY <1>0, <1>3, <2>3 DEF RotationTypeOK
    <3>. QED BY <1>3, <2>1, <2>3, <3>1 DEF GrantRec
  <2>. QED BY <1>1, <2>2, <2>3
<1>5. grants' \in [Grants -> GrantRec] /\ \A h \in Grants : h # minting => grants'[h] = grants[h]
  BY <1>0, <1>1, <1>3, <1>4 DEF RotationTypeOK
<1>6. RotationTypeOK'
  BY <1>0, <1>1, <1>2, <1>3, <1>4, <1>5 DEF RotationTypeOK, Keys, NoKey
<1>7. Agreed'
  BY <1>0, <1>1, <1>2, <1>3, <1>4, <1>5 DEF Agreed, Whole
<1>8. Minted'
  BY <1>0, <1>1, <1>2, <1>3, <1>4, <1>5 DEF Minted, Whole
<1>9. Dated'
  BY <1>0, <1>1, <1>2, <1>3, <1>4, <1>5 DEF Dated, Claimed, Whole
<1>10. Revoked'
  BY <1>0, <1>1, <1>2, <1>3, <1>4, <1>5 DEF Revoked, Answered, IsAck, Claimed, Whole
<1>11. Numbered' /\ Heard' /\ Single'
  BY <1>0, <1>1 DEF Numbered, Latest, IsRotate, IsAck, Heard, IsAck, Single, NoToken, OneToken, NoneOut, NoneIn, IsRotate, IsAck
<1>. QED BY <1>6, <1>7, <1>8, <1>9, <1>10, <1>11 DEF RotationInvariant

\* A socket is dialled.
LEMMA DialStep ==
  ASSUME RotationAssumption, RotationInvariant, Dial PROVE RotationInvariant'
<1> USE RotationAssumption DEF RotationAssumption
<1>0. RotationTypeOK /\ Agreed /\ Numbered /\ Heard /\ Minted /\ Dated /\ Revoked /\ Single
  BY DEF RotationInvariant
<1>1. /\ ~up /\ sockets < MaxSockets /\ up' = TRUE /\ sockets' = sockets + 1
      /\ UNCHANGED <<key, told, record, disk, pc, old, rotations, slot, known,
                   timedOut, trusted, writeLost, out, sealed, wire, inbound, opened, grants, minting>>
  BY DEF Dial, hostVars, relayVars, netVars, readVars
<1>2. Whole
  BY <1>0, Numbers
<1>3. RotationTypeOK'
  BY <1>0, <1>1, <1>2 DEF RotationTypeOK, Keys, NoKey
<1>4. Agreed' /\ Numbered' /\ Heard' /\ Minted' /\ Dated' /\ Revoked' /\ Single'
  BY <1>0, <1>1 DEF Agreed, Numbered, Latest, IsRotate, IsAck, Heard, IsAck, Minted, Dated, Claimed, Revoked, Answered, IsAck, Claimed, Single, NoToken, OneToken, NoneOut, NoneIn, IsRotate, IsAck
<1>. QED BY <1>3, <1>4 DEF RotationInvariant

\* A connection is lost with the ends of what was under way.
LEMMA DropStep ==
  ASSUME RotationAssumption, RotationInvariant, Drop PROVE RotationInvariant'
<1> USE RotationAssumption DEF RotationAssumption
<1>0. RotationTypeOK /\ Agreed /\ Numbered /\ Heard /\ Minted /\ Dated /\ Revoked /\ Single
  BY DEF RotationInvariant
<1>1. /\ up' = FALSE
      /\ \E i \in 0..Len(wire) : wire' = SubSeq(wire, 1, i)
      /\ \E i \in 0..Len(inbound) : inbound' = SubSeq(inbound, 1, i)
      /\ UNCHANGED <<key, told, record, disk, pc, old, rotations, slot, known,
                   timedOut, trusted, writeLost, out, sealed, sockets, opened, grants, minting>>
  BY DEF Drop, hostVars, relayVars, netVars, readVars
<1>2. Whole
  BY <1>0, Numbers
<1>3. wire \in Seq(Wired) /\ inbound \in Seq(Sent)
  BY <1>0 DEF RotationTypeOK, Wired, Sent
<1>4. /\ wire' \in Seq(Wired) /\ Len(wire') <= Len(wire)
      /\ \A i \in 1..Len(wire') : i \in 1..Len(wire) /\ wire'[i] = wire[i]
      /\ wire = <<>> => wire' = <<>>
  <2>1. PICK i \in 0..Len(wire) : wire' = SubSeq(wire, 1, i)
    BY <1>1
  <2>. QED BY <1>3, <2>1, Shortening
<1>5. /\ inbound' \in Seq(Sent) /\ Len(inbound') <= Len(inbound)
      /\ \A i \in 1..Len(inbound') : i \in 1..Len(inbound) /\ inbound'[i] = inbound[i]
  <2>1. PICK i \in 0..Len(inbound) : inbound' = SubSeq(inbound, 1, i)
    BY <1>1
  <2>. QED BY <1>3, <2>1, Shortening
<1>6. RotationTypeOK'
  BY <1>0, <1>1, <1>3, <1>4, <1>5 DEF RotationTypeOK, Wired, Sent
<1>7. Numbered'
  BY <1>0, <1>1, <1>2, <1>3, <1>4, <1>5 DEF Numbered, Latest, IsRotate, IsAck, Whole
<1>8. Heard'
  BY <1>0, <1>1, <1>2, <1>3, <1>4, <1>5 DEF Heard, IsAck, Whole
<1>9. Revoked'
  BY <1>0, <1>1, <1>2, <1>3, <1>4, <1>5 DEF Revoked, Answered, IsAck, Claimed, Whole
<1>10. Single'
  <2>1. (NoneOut => NoneOut') /\ (NoneIn => NoneIn')
    BY <1>1, <1>5 DEF NoneOut, NoneIn, IsRotate, IsAck
  <2>2. NoToken => NoToken'
    BY <1>1, <1>4, <2>1 DEF NoToken
  <2>3. OneToken => OneToken'
    <3> SUFFICES ASSUME OneToken PROVE OneToken'
      OBVIOUS
    <3>1. /\ slot' \in {0, rotations'}
          /\ \A i \in 1..Len(out') : IsRotate(i)' => out'[i].n = rotations'
          /\ \A i, j \in 1..Len(out') : IsRotate(i)' /\ IsRotate(j)' => i = j
      BY <1>1 DEF OneToken, IsRotate
    <3>2. (\A i \in 1..Len(wire') : wire'[i].n = rotations') /\ Len(wire') <= 1
      BY <1>1, <1>2, <1>3, <1>4 DEF OneToken, Whole
    <3>3. \A i \in 1..Len(inbound') : IsAck(i)' => inbound'[i].n = rotations'
      BY <1>1, <1>5 DEF OneToken, IsAck
    <3>4. \A i, j \in 1..Len(inbound') : IsAck(i)' /\ IsAck(j)' => i = j
      BY <1>1, <1>5 DEF OneToken, IsAck
    <3>5. /\ slot' # 0 => wire' = <<>> /\ NoneOut' /\ NoneIn'
          /\ wire' # <<>> => NoneOut' /\ NoneIn'
          /\ NoneOut' \/ NoneIn'
      BY <1>1, <1>4, <2>1 DEF OneToken
    <3>. QED BY <3>1, <3>2, <3>3, <3>4, <3>5 DEF OneToken
  <2>. QED BY <1>0, <1>1, <2>2, <2>3 DEF Single
<1>11. Agreed' /\ Minted' /\ Dated'
  BY <1>0, <1>1 DEF Agreed, Minted, Dated, Claimed
<1>. QED BY <1>6, <1>7, <1>8, <1>9, <1>10, <1>11 DEF RotationInvariant

\* The head of the channel goes to the socket.
LEMMA TransmitStep ==
  ASSUME RotationAssumption, RotationInvariant, Transmit PROVE RotationInvariant'
<1> USE RotationAssumption DEF RotationAssumption
<1>0. RotationTypeOK /\ Agreed /\ Numbered /\ Heard /\ Minted /\ Dated /\ Revoked /\ Single
  BY DEF RotationInvariant
<1>1. /\ out # <<>> /\ out' = Tail(out)
      /\ wire' = IF Head(out).kind = "rotate"
                 THEN Append(wire, [n |-> Head(out).n, socket |-> sockets]) ELSE wire
      /\ UNCHANGED <<key, told, record, disk, pc, old, rotations, slot, known,
                   timedOut, trusted, writeLost, sealed, up, sockets, inbound, opened, grants, minting>>
  BY DEF Transmit, hostVars, relayVars, netVars, readVars
<1>2. Whole
  BY <1>0, Numbers
<1>3. /\ out' \in Seq(Event) /\ Len(out') = Len(out) - 1 /\ 1 \in 1..Len(out)
      /\ \A i \in 1..Len(out') : i + 1 \in 1..Len(out) /\ out'[i] = out[i + 1]
      /\ out[1] = Head(out) /\ Head(out).n \in Keys
  <2>1. out \in Seq(Event) /\ out # <<>>
    BY <1>0, <1>1 DEF RotationTypeOK
  <2>2. \A e \in Event : e.n \in Keys
    BY DEF Event
  <2>. QED BY <1>1, <2>1, <2>2, TakingHead
<1>4. wire \in Seq(Wired) /\ [n |-> Head(out).n, socket |-> sockets] \in Wired
  BY <1>0, <1>3 DEF RotationTypeOK, Wired
<1>5. /\ wire' \in Seq(Wired)
      /\ Head(out).kind # "rotate" => wire' = wire
      /\ Head(out).kind = "rotate" =>
           /\ Len(wire') = Len(wire) + 1 /\ \A i \in 1..Len(wire) : wire'[i] = wire[i]
           /\ wire'[Len(wire) + 1].n = Head(out).n
  BY <1>1, <1>4, Appending
<1>6. RotationTypeOK'
  <2>1. Len(out') <= Capacity
    BY <1>0, <1>2, <1>3 DEF RotationTypeOK, Whole
  <2>2. wire' \in Seq([n : Keys, socket : 1..MaxSockets]) /\ out' \in Seq(Event)
    BY <1>3, <1>5 DEF Wired
  <2>. QED BY <1>0, <1>1, <2>1, <2>2 DEF RotationTypeOK
<1>7. Numbered'
  <2>1. Latest' = Latest /\ (Head(out).kind = "rotate" => Head(out).n <= Latest)
    BY <1>0, <1>1, <1>3 DEF Numbered, Latest, IsRotate
  <2>2. \A i \in 1..Len(out') : IsRotate(i)' => out'[i].n <= Latest'
    BY <1>0, <1>3, <2>1 DEF Numbered, IsRotate
  <2>3. \A i \in 1..Len(wire') : wire'[i].n <= Latest'
    <3>1. CASE Head(out).kind # "rotate"
      BY <1>0, <1>5, <2>1, <3>1 DEF Numbered
    <3>2. CASE Head(out).kind = "rotate"
      <4>1. \A i \in 1..Len(wire') : i \in 1..Len(wire) \/ i = Len(wire) + 1
        BY <1>2, <1>5, <3>2 DEF Whole
      <4>. QED BY <1>0, <1>5, <2>1, <3>2, <4>1 DEF Numbered
    <3>. QED BY <3>1, <3>2
  <2>4. slot' <= Latest' /\ \A i \in 1..Len(inbound') : IsAck(i)' => inbound'[i].n <= Latest'
    BY <1>0, <1>1, <2>1 DEF Numbered, IsAck
  <2>. QED BY <2>2, <2>3, <2>4 DEF Numbered
<1>8. Single'
  <2>1. ASSUME NoToken PROVE NoToken'
    <3>1. NoneOut' /\ Head(out).kind # "rotate"
      BY <1>3, <2>1 DEF NoToken, NoneOut, IsRotate
    <3>2. slot' = 0 /\ wire' = <<>> /\ NoneIn'
      BY <1>1, <2>1, <3>1 DEF NoToken, NoneIn, IsAck
    <3>. QED BY <3>1, <3>2 DEF NoToken
  <2>2. ASSUME OneToken PROVE OneToken'
    <3>1. /\ \A i \in 1..Len(out') : IsRotate(i)' => out'[i].n = rotations'
          /\ \A i, j \in 1..Len(out') : IsRotate(i)' /\ IsRotate(j)' => i = j
      BY <1>1, <1>3, <2>2 DEF OneToken, IsRotate
    <3>2. /\ slot' \in {0, rotations'} /\ (NoneIn <=> NoneIn')
          /\ \A i \in 1..Len(inbound') : IsAck(i)' => inbound'[i].n = rotations'
          /\ \A i, j \in 1..Len(inbound') : IsAck(i)' /\ IsAck(j)' => i = j
      BY <1>1, <2>2 DEF OneToken, NoneIn, IsAck
    <3>3. NoneOut => NoneOut' /\ Head(out).kind # "rotate"
      BY <1>3 DEF NoneOut, IsRotate
    <3>4. CASE Head(out).kind # "rotate"
      BY <1>1, <2>2, <3>1, <3>2, <3>3, <3>4 DEF OneToken
    <3>5. CASE Head(out).kind = "rotate"
      <4>1. Head(out).n = rotations /\ IsRotate(1) /\ NoneOut'
        BY <1>3, <2>2, <3>5 DEF OneToken, IsRotate, NoneOut
      <4>2. wire = <<>> /\ slot = 0 /\ NoneIn
        BY <1>3, <2>2, <3>3, <3>5 DEF OneToken
      <4>3. Len(wire') = 1 /\ wire'[1].n = rotations
        BY <1>5, <3>5, <4>1, <4>2
      <4>4. /\ \A i \in 1..Len(wire') : wire'[i].n = rotations'
            /\ Len(wire') <= 1 /\ slot' = 0
        BY <1>1, <4>2, <4>3
      <4>. QED BY <3>1, <3>2, <4>1, <4>2, <4>4 DEF OneToken
    <3>. QED BY <3>4, <3>5
  <2>. QED BY <1>0, <1>1, <2>1, <2>2 DEF Single
<1>9. Agreed' /\ Heard' /\ Minted' /\ Dated' /\ Revoked'
  BY <1>0, <1>1 DEF Agreed, Heard, IsAck, Minted, Dated, Claimed, Revoked, Answered, IsAck, Claimed
<1>. QED BY <1>6, <1>7, <1>8, <1>9 DEF RotationInvariant

\* Revocation comes before the answer.
LEMMA RelayRotateStep ==
  ASSUME RotationAssumption, RotationInvariant, RelayRotate PROVE RotationInvariant'
<1> USE RotationAssumption DEF RotationAssumption
<1>0. RotationTypeOK /\ Agreed /\ Numbered /\ Heard /\ Minted /\ Dated /\ Revoked /\ Single
  BY DEF RotationInvariant
<1>1. /\ wire # <<>> /\ wire' = Tail(wire)
      /\ grants' = [g \in Grants |-> IF grants[g].state = "live"
                                    THEN [grants[g] EXCEPT !.state = "revoked"] ELSE grants[g]]
      /\ inbound' \in {inbound, Append(inbound, [kind |-> "ack", n |-> Head(wire).n])}
      /\ UNCHANGED <<key, told, record, disk, pc, old, rotations, slot, known,
                   timedOut, trusted, writeLost, out, sealed, up, sockets, opened, minting>>
  BY DEF RelayRotate, hostVars, relayVars, netVars, readVars
<1>2. Whole
  BY <1>0, Numbers
<1>3. wire \in Seq(Wired) /\ inbound \in Seq(Sent)
  BY <1>0 DEF RotationTypeOK, Wired, Sent
<1>4. /\ wire' \in Seq(Wired) /\ Len(wire') = Len(wire) - 1 /\ 1 \in 1..Len(wire)
      /\ \A i \in 1..Len(wire') : i + 1 \in 1..Len(wire) /\ wire'[i] = wire[i + 1]
      /\ wire[1] = Head(wire) /\ Head(wire).n \in Keys
  <2>1. \A e \in Wired : e.n \in Keys
    BY DEF Wired
  <2>. QED BY <1>1, <1>3, <2>1, TakingHead
<1>5. [kind |-> "ack", n |-> Head(wire).n] \in Sent
  BY <1>4 DEF Sent
<1>6. /\ inbound' \in Seq(Sent)
      /\ \/ inbound' = inbound
         \/ /\ Len(inbound') = Len(inbound) + 1 /\ \A i \in 1..Len(inbound) : inbound'[i] = inbound[i]
            /\ inbound'[Len(inbound) + 1].kind = "ack" /\ inbound'[Len(inbound) + 1].n = Head(wire).n
  <2>1. CASE inbound' = inbound
    BY <1>3, <2>1
  <2>2. CASE inbound' = Append(inbound, [kind |-> "ack", n |-> Head(wire).n])
    <3> DEFINE e == [kind |-> "ack", n |-> Head(wire).n]
    <3>1. e.kind = "ack" /\ e.n = Head(wire).n
      OBVIOUS
    <3> HIDE DEF e
    <3>2. e \in Sent /\ inbound' = Append(inbound, e)
      BY <1>5, <2>2 DEF e
    <3>. QED BY <1>3, <3>1, <3>2, Appending
  <2>. QED BY <1>1, <2>1, <2>2
<1>7. \A g \in Grants :
        /\ grants'[g] \in GrantRec /\ grants'[g].key = grants[g].key /\ grants'[g].held = grants[g].held
        /\ grants'[g].state # "live"
        /\ grants'[g].state \in {"none", "asked"} => grants[g].state = grants'[g].state
  BY <1>0, <1>1 DEF RotationTypeOK, GrantRec
<1>8. grants' \in [Grants -> GrantRec]
  <2>1. grants' = [g \in Grants |-> grants'[g]]
    BY <1>1
  <2>2. \A g \in Grants : grants'[g] \in GrantRec
    BY <1>7
  <2>. QED BY <2>1, <2>2
<1>9. RotationTypeOK'
  BY <1>0, <1>1, <1>4, <1>6, <1>8 DEF RotationTypeOK, Wired, Sent
<1>10. Numbered'
  <2>1. Head(wire).n <= Latest /\ Latest' = Latest /\ Head(wire).n \in Nat
    BY <1>0, <1>1, <1>2, <1>4 DEF Numbered, Latest, Whole
  <2>2. /\ \A i \in 1..Len(out') : IsRotate(i)' => out'[i].n <= Latest'
        /\ \A i \in 1..Len(wire') : wire'[i].n <= Latest'
        /\ slot' <= Latest'
    BY <1>0, <1>1, <1>4, <2>1 DEF Numbered, IsRotate
  <2>3. \A i \in 1..Len(inbound') : IsAck(i)' => inbound'[i].n <= Latest'
    <3>1. CASE inbound' = inbound
      BY <1>0, <2>1, <3>1 DEF Numbered, IsAck
    <3>2. CASE inbound' # inbound
      <4>1. \A i \in 1..Len(inbound') : i \in 1..Len(inbound) \/ i = Len(inbound) + 1
        BY <1>2, <1>6, <3>2 DEF Whole
      <4>. QED BY <1>0, <1>6, <2>1, <3>2, <4>1 DEF Numbered, IsAck
    <3>. QED BY <3>1, <3>2
  <2>. QED BY <2>2, <2>3 DEF Numbered
<1>11. Heard'
  <2>1. \A i \in 1..Len(inbound') : (i \in 1..Len(inbound) /\ inbound'[i] = inbound[i]) \/ IsAck(i)'
    BY <1>2, <1>6 DEF Whole, IsAck
  <2>. QED BY <1>0, <1>1, <2>1 DEF Heard, IsAck
<1>12. Minted'
  BY <1>0, <1>1, <1>2, <1>3, <1>4, <1>5, <1>6, <1>7, <1>8 DEF Minted, Whole
<1>13. Dated'
  BY <1>0, <1>1, <1>2, <1>3, <1>4, <1>5, <1>6, <1>7, <1>8 DEF Dated, Claimed, Whole
<1>14. Revoked'
  BY <1>0, <1>1, <1>2, <1>3, <1>4, <1>5, <1>6, <1>7, <1>8 DEF Revoked, Answered, IsAck, Claimed, Whole
<1>15. Single'
  <2>1. ~NoToken
    BY <1>1 DEF NoToken
  <2>2. SUFFICES ASSUME ~timedOut, pc = "waiting" PROVE trusted /\ OneToken'
    BY <1>0, <1>1, <2>1 DEF Single
  <2>3. trusted /\ OneToken /\ NoneOut /\ NoneIn /\ slot = 0
    BY <1>0, <1>1, <2>2 DEF Single, OneToken
  <2>4. wire' = <<>> /\ Len(wire') = 0 /\ Head(wire).n = rotations
    <3>1. Len(wire) = 1 /\ wire[1].n = rotations
      BY <1>2, <1>4, <2>3 DEF OneToken, Whole
    <3>. QED BY <1>4, <3>1
  <2>5. NoneOut' /\ slot' = 0
    BY <1>1, <2>3 DEF NoneOut, IsRotate
  <2>6. \A i \in 1..Len(inbound') : IsAck(i)' => i = Len(inbound) + 1 /\ inbound'[i].n = rotations
    <3>1. CASE inbound' = inbound
      BY <2>3, <3>1 DEF NoneIn, IsAck
    <3>2. CASE inbound' # inbound
      <4>1. \A i \in 1..Len(inbound') : i \in 1..Len(inbound) \/ i = Len(inbound) + 1
        BY <1>2, <1>6, <3>2 DEF Whole
      <4>. QED BY <1>6, <2>3, <2>4, <3>2, <4>1 DEF NoneIn, IsAck
    <3>. QED BY <3>1, <3>2
  <2>. QED BY <1>1, <2>3, <2>4, <2>5, <2>6 DEF OneToken, NoneOut
<1>16. Agreed'
  BY <1>0, <1>1 DEF Agreed
<1>. QED BY <1>9, <1>10, <1>11, <1>12, <1>13, <1>14, <1>15, <1>16 DEF RotationInvariant

\* A viewer types under a key the owner was told.
LEMMA ViewerInputStep ==
  ASSUME RotationAssumption, RotationInvariant, NEW k \in known, ViewerInput(k) PROVE RotationInvariant'
<1> USE RotationAssumption DEF RotationAssumption
<1>0. RotationTypeOK /\ Agreed /\ Numbered /\ Heard /\ Minted /\ Dated /\ Revoked /\ Single
  BY DEF RotationInvariant
<1>1. /\ inbound' = Append(inbound, [kind |-> "input", n |-> k])
      /\ UNCHANGED <<key, told, record, disk, pc, old, rotations, slot, known,
                   timedOut, trusted, writeLost, out, sealed, up, sockets, wire, opened, grants, minting>>
  BY DEF ViewerInput, hostVars, relayVars, netVars, readVars
<1>2. Whole
  BY <1>0, Numbers
<1>3. inbound \in Seq(Sent) /\ [kind |-> "input", n |-> k] \in Sent
  BY <1>0 DEF RotationTypeOK, Sent
<1>4. /\ inbound' \in Seq(Sent) /\ Len(inbound') = Len(inbound) + 1
      /\ \A i \in 1..Len(inbound) : inbound'[i] = inbound[i]
      /\ inbound'[Len(inbound) + 1].kind = "input" /\ inbound'[Len(inbound) + 1].n = k
  BY <1>1, <1>3, Appending
<1>5. RotationTypeOK'
  BY <1>0, <1>1, <1>2, <1>3, <1>4 DEF RotationTypeOK, Keys, NoKey
<1>6. Numbered'
  BY <1>0, <1>1, <1>2, <1>3, <1>4 DEF Numbered, Latest, IsRotate, IsAck, Whole
<1>7. Heard'
  BY <1>0, <1>1, <1>2, <1>3, <1>4 DEF Heard, IsAck, Whole
<1>8. Revoked'
  BY <1>0, <1>1, <1>2, <1>3, <1>4 DEF Revoked, Answered, IsAck, Claimed, Whole
<1>9. Single'
  BY <1>0, <1>1, <1>2, <1>3, <1>4 DEF Single, NoToken, OneToken, NoneOut, NoneIn, IsRotate, IsAck, Whole
<1>10. Agreed' /\ Minted' /\ Dated'
  BY <1>0, <1>1 DEF Agreed, Minted, Dated, Claimed
<1>. QED BY <1>5, <1>6, <1>7, <1>8, <1>9, <1>10 DEF RotationInvariant

\* At the start there is one key and nothing under way.
LEMMA RotationStart == ASSUME RotationAssumption PROVE RotationInit => RotationInvariant
<1> SUFFICES ASSUME RotationInit PROVE RotationInvariant
  OBVIOUS
<1> USE RotationAssumption DEF RotationAssumption
<1>1. grants \in [Grants -> GrantRec] /\ \A g \in Grants : grants[g].state = "none" /\ ~grants[g].held
  BY DEF RotationInit, GrantRec, Keys
<1>2. RotationTypeOK
  <2>1. /\ out \in Seq(Event) /\ Len(out) = 0
        /\ wire \in Seq([n : Keys, socket : 1..MaxSockets])
        /\ inbound \in Seq([kind : {"input", "ack"}, n : Keys])
    BY DEF RotationInit
  <2>2. 0 \in Keys /\ sockets \in 1..MaxSockets
    BY DEF RotationInit, Keys
  <2>3. /\ key \in Keys /\ told \in Keys /\ record \in Keys /\ disk \in Keys /\ old \in Keys
        /\ rotations \in Keys /\ slot \in Keys /\ known \in SUBSET Keys
        /\ sealed \in Keys \cup {NoKey} /\ opened \in Keys \cup {NoKey}
    BY <2>2 DEF RotationInit
  <2>4. /\ pc \in {"idle", "swapped", "waiting"} /\ up \in BOOLEAN /\ minting \in Grants \cup {NoGrant}
        /\ timedOut \in BOOLEAN /\ trusted \in BOOLEAN /\ writeLost \in BOOLEAN
    BY DEF RotationInit
  <2>5. Len(out) <= Capacity
    BY <2>1
  <2>. QED BY <1>1, <2>1, <2>2, <2>3, <2>4, <2>5 DEF RotationTypeOK
<1>3. Agreed /\ Numbered /\ Heard
  BY DEF RotationInit, Agreed, Numbered, Latest, Heard
<1>4. Minted /\ Dated /\ Revoked
  BY <1>1 DEF RotationInit, Minted, Dated, Claimed, Revoked, RotationTypeOK
<1>5. Single
  BY DEF RotationInit, Single, NoToken, NoneOut, NoneIn
<1>. QED BY <1>2, <1>3, <1>4, <1>5 DEF RotationInvariant

\* The invariant holds in every reachable state.
THEOREM RotationInvariantHolds == ASSUME RotationAssumption PROVE RotationSpec => []RotationInvariant
<1>1. RotationInit => RotationInvariant
  BY RotationStart
<1>2. RotationInvariant /\ [RotationNext]_rotationVars => RotationInvariant'
  <2> SUFFICES ASSUME RotationInvariant, [RotationNext]_rotationVars PROVE RotationInvariant'
    OBVIOUS
  <2>1. CASE Rotation
    BY <2>1, BeginStep, BeginFailsStep, SendStep, SucceedStep, TimeOutStep DEF Rotation
  <2>2. CASE Seal \/ Enqueue \/ ReadAck \/ ReadInput \/ WriteInput
    BY <2>2, SealStep, EnqueueStep, ReadAckStep, ReadInputStep, WriteInputStep
  <2>3. CASE \E g \in Grants : MintAsk(g) \/ RelayMints(g)
    BY <2>3, MintAskStep, RelayMintsStep
  <2>4. CASE MintAnswer \/ Dial \/ Drop \/ Transmit \/ RelayRotate
    BY <2>4, MintAnswerStep, DialStep, DropStep, TransmitStep, RelayRotateStep
  <2>5. CASE \E k \in known : ViewerInput(k)
    BY <2>5, ViewerInputStep
  <2>6. CASE UNCHANGED rotationVars
    <3> USE <2>6 DEF rotationVars, hostVars, netVars, readVars, relayVars
    <3>1. RotationTypeOK' /\ Agreed' /\ Minted' /\ Dated'
      BY DEF RotationInvariant, RotationTypeOK, Agreed, Minted, Dated, Claimed
    <3>2. Numbered' /\ Heard' /\ Revoked'
      BY DEF RotationInvariant, Numbered, Latest, IsRotate, IsAck, Heard, Revoked, Answered, Claimed
    <3>3. Single'
      BY DEF RotationInvariant, Single, NoToken, OneToken, NoneOut, NoneIn, IsRotate, IsAck
    <3>. QED BY <3>1, <3>2, <3>3 DEF RotationInvariant
  <2>. QED BY <2>1, <2>2, <2>3, <2>4, <2>5, <2>6 DEF RotationNext
<1>. QED BY <1>1, <1>2, PTL DEF RotationSpec

------------------------------------------------------------------------------
\* Keys, channels and grants keep their types, and the outgoing channel its
\* capacity (session_unix.go, relay.go).
THEOREM RotationTypeCorrect == ASSUME RotationAssumption PROVE RotationSpec => []RotationTypeOK
<1>1. RotationInvariant => RotationTypeOK
  BY DEF RotationInvariant
<1>. QED BY <1>1, RotationInvariantHolds, PTL

\* Between rotations the state file, the record, the cipher and the owner agree,
\* after failures and timeouts too, unless a rollback's own write failed.
THEOREM RotationAgrees == ASSUME RotationAssumption PROVE RotationSpec => []CredentialsAgree
<1>1. RotationInvariant => CredentialsAgree
  BY DEF RotationInvariant, Agreed, CredentialsAgree
<1>. QED BY <1>1, RotationInvariantHolds, PTL

\* After a rotation that took the acknowledgement of its own event no capability
\* holds an older key, whatever is lost, late or asked for meanwhile.
THEOREM OwnAckRevokesHolds == ASSUME RotationAssumption PROVE RotationSpec => []OwnAckRevokes
<1>1. RotationInvariant => OwnAckRevokes
  BY DEF RotationInvariant, Dated, OwnAckRevokes
<1>. QED BY <1>1, RotationInvariantHolds, PTL

\* Nor is input of an older key still on its way to the program.
THEOREM OldInputBarredHolds == ASSUME RotationAssumption PROVE RotationSpec => []OldInputBarred
<1>1. RotationInvariant => OldInputBarred
  BY DEF RotationInvariant, Dated, OldInputBarred
<1>. QED BY <1>1, RotationInvariantHolds, PTL

\* The acknowledgement taken is another rotation's only after a timeout.
THEOREM ForeignAckHolds == ASSUME RotationAssumption PROVE RotationSpec => []ForeignAckNeedsTimeout
<1>1. RotationInvariant => ForeignAckNeedsTimeout
  BY DEF RotationInvariant, Single, ForeignAckNeedsTimeout
<1>. QED BY <1>1, RotationInvariantHolds, PTL
=============================================================================
