----------------------------- MODULE SharingProofs -----------------------------
(* Proofs about what the accounts service keeps of a shared session: team     *)
(* grants (TeamGrants), for any number of requests, grants and changes and    *)
(* any limits; the session's record and password copies (SessionRecords), for *)
(* any number of people, restarts, passwords and calls under way.             *)
EXTENDS TeamGrants, SessionRecords, TLAPS

------------------------------------------------------------------------------
(* Team grants.                                                               *)

RowType == [status : {"none", "pending", "issued", "revoked", "gone"}, grant : Grant \cup {None},
            bearer : BOOLEAN, age : {"fresh", "late", "old"}]
PollType == [at : {"idle", "work", "mint"}, issues : SUBSET Request, revoke : SUBSET Request, grant : Grant \cup {None}]
UseType == [at : {"idle", "session", "member", "grant", "relay", "served"}, grant : Grant \cup {None}, lapsed : BOOLEAN]

Typed ==
  /\ scene \in [member : BOOLEAN, consent : BOOLEAN, open : BOOLEAN]
  /\ row \in [Request -> RowType]
  /\ holds \in [Grant -> Nat]
  /\ poll \in PollType
  /\ minted \in [Request -> Grant \cup {None}]
  /\ live \subseteq Grant /\ dead \subseteq Grant /\ drawn \subseteq Grant
  /\ sent \subseteq Request \X Grant
  /\ mint \in [Grant -> {"none", "now", "before"}]
  /\ use \in UseType
  /\ lapsed \subseteq Grant /\ acked \subseteq Grant

\* A grant belongs to the request it was minted for: in the host's memory, in a
\* report under way or in the row.
Of(q, g) == minted[q] = g \/ <<q, g>> \in sent \/ row[q].grant = g

\* What has become of a grant before its record is added: nothing.
Untouched(g) ==
  /\ \A q \in Request : ~Of(q, g)
  /\ holds[g] = 0 /\ g \notin lapsed /\ g \notin acked /\ g \notin live /\ g \notin dead

New ==
  \A g \in Grant :
    /\ g \notin drawn \/ mint[g] # "none" => Untouched(g)
    /\ mint[g] # "none" => g \in drawn

OneRequest == \A g \in Grant, p, q \in Request : Of(p, g) /\ Of(q, g) => p = q

\* The request of a grant that is held was answered, and that of a grant which
\* lapsed is over: neither can be answered again.
Past ==
  \A g \in Grant, q \in Request : Of(q, g) =>
    /\ holds[g] > 0 => row[q].status \in {"issued", "revoked", "gone"}
    /\ g \in lapsed => row[q].status \in {"revoked", "gone"}

\* Leaving and withdrawing consent revoke the rows in the same transaction.
Rowed ==
  \A q \in Request :
    /\ row[q].status = "issued" => scene.member /\ scene.consent /\ row[q].grant \in Grant
    /\ row[q].bearer => row[q].grant # None /\ row[q].status \notin {"none", "pending"}

Minting == poll.at = "mint" => First(poll.issues) \in Request /\ poll.grant \in Grant

Dead == acked \cap live = {} /\ live \cap dead = {}

\* A use that passed the first check has had its moment, or the grant's row is
\* not issued any more and will not be again.
Used ==
  /\ use.at # "idle" => use.grant \in Grant /\ holds[use.grant] > 0 /\ (use.lapsed => use.grant \in lapsed)
  /\ use.at = "session" /\ Entitled => moment
  /\ use.at \in {"member", "grant"} /\ GrantIssued(use.grant) => moment
  /\ use.at \in {"relay", "served"} => moment /\ ~use.lapsed

GrantsInvariant == Typed /\ New /\ OneRequest /\ Past /\ Rowed /\ Minting /\ Dead /\ Used

\* How a row may change without an answer: it keeps or loses its grant, gets no
\* younger and never becomes issued.
Declines(r, s) ==
  /\ s.grant \in {r.grant, None}
  /\ s.status \in {"none", "pending"} => r.status \in {"none", "pending"}
  /\ r.status \in {"revoked", "gone"} => s.status \in {"revoked", "gone"}
  /\ s.status = "issued" => /\ r.status = "issued" /\ s.grant = r.grant
                            /\ s.age = "fresh" => r.age = "fresh"
  /\ s.bearer => r.bearer /\ s.grant # None

AllDecline == \A q \in Request : Declines(row[q], row'[q])

------------------------------------------------------------------------------
\* Nothing has been asked for at the start.
LEMMA GrantsStart ==
  ASSUME GrantsAssumption, NEW over \in SUBSET Request, NEW made PROVE InitFrom(over, made) => GrantsInvariant
<1> SUFFICES ASSUME InitFrom(over, made) PROVE GrantsInvariant
  OBVIOUS
<1> USE GrantsAssumption DEF GrantsAssumption, InitFrom, NoRow, Over, Listening, NoUse
<1>1. row \in [Request -> RowType] /\ \A q \in Request : row[q].grant = None /\ row[q].status # "issued" /\ ~row[q].bearer
  BY DEF RowType
<1>2. poll \in PollType /\ use \in UseType
  BY DEF PollType, UseType
<1>3. Typed
  BY <1>1, <1>2 DEF Typed
<1>4. \A q \in Request, g \in Grant : ~Of(q, g)
  BY <1>1 DEF Of
<1>5. New /\ OneRequest /\ Past
  BY <1>4 DEF New, Untouched, OneRequest, Past
<1>6. Rowed /\ Minting /\ Dead /\ Used
  BY <1>1 DEF Rowed, Minting, Dead, Used
<1>. QED BY <1>3, <1>5, <1>6 DEF GrantsInvariant

\* A bearer is of some grant.
Sealed(r) == r.bearer => r.grant # None

\* Revoking a row, or taking it away, is declining.
LEMMA RowDeclines ==
  ASSUME GrantsAssumption, NEW r \in RowType, Sealed(r)
  PROVE  /\ Revoked(r) \in RowType /\ Declines(r, Revoked(r))
         /\ Over \in RowType /\ Declines(r, Over)
         /\ Declines(r, r)
         /\ [Revoked(r) EXCEPT !.bearer = FALSE] \in RowType /\ Declines(r, [Revoked(r) EXCEPT !.bearer = FALSE])
         /\ [r EXCEPT !.bearer = FALSE] \in RowType /\ Declines(r, [r EXCEPT !.bearer = FALSE])
  BY DEF GrantsAssumption, Revoked, RowType, Over, NoRow, Declines, Sealed

LEMMA DeclinesOnwards ==
  ASSUME NEW r \in RowType, NEW s \in RowType, NEW t \in RowType, Declines(r, s), Declines(s, t)
  PROVE  Declines(r, t)
  BY DEF Declines

\* The caps and the grace take rows away or revoke them, and never more.
LEMMA TrimDeclines ==
  ASSUME GrantsAssumption, NEW rows \in [Request -> RowType], \A q \in Request : Sealed(rows[q])
  PROVE  /\ Trim(rows) \in [Request -> RowType]
         /\ \A q \in Request : Declines(rows[q], Trim(rows)[q])
<1> DEFINE kept == [q \in Request |-> IF rows[q].age = "old" THEN Over ELSE rows[q]]
           TooMany(q, status, limit) == kept[q].status = status /\ Cardinality(Younger(kept, q)) > limit
           many(q) == TooMany(q, "pending", PendingLimit) \/ TooMany(q, "issued", IssuedLimit)
<1>1. Trim(rows) = [q \in Request |-> IF many(q) THEN Revoked(kept[q]) ELSE kept[q]]
  BY DEF Trim
<1>2. \A q \in Request : kept[q] \in RowType /\ Declines(rows[q], kept[q]) /\ Sealed(kept[q])
  <2> SUFFICES ASSUME NEW q \in Request PROVE kept[q] \in RowType /\ Declines(rows[q], kept[q]) /\ Sealed(kept[q])
    OBVIOUS
  <2>1. kept[q] = Over \/ kept[q] = rows[q]
    OBVIOUS
  <2>2. Sealed(Over)
    BY DEF Sealed, Over, NoRow
  <2>. QED BY <2>1, <2>2, RowDeclines
<1>3. \A q \in Request : Revoked(kept[q]) \in RowType /\ Declines(rows[q], Revoked(kept[q]))
  BY <1>2, RowDeclines, DeclinesOnwards
<1>. HIDE DEF kept, many
<1>4. \A q \in Request : Trim(rows)[q] \in {kept[q], Revoked(kept[q])}
  BY <1>1
<1>5. \A q \in Request : Trim(rows)[q] \in RowType /\ Declines(rows[q], Trim(rows)[q])
  BY <1>2, <1>3, <1>4
<1>6. DOMAIN Trim(rows) = Request /\ Trim(rows) = [q \in Request |-> Trim(rows)[q]]
  BY <1>1
<1>. QED BY <1>5, <1>6

LEMMA RevokeAllDeclines ==
  ASSUME GrantsAssumption, NEW rows \in [Request -> RowType], \A q \in Request : Sealed(rows[q])
  PROVE  /\ RevokeAll(rows) \in [Request -> RowType]
         /\ \A q \in Request : Declines(rows[q], RevokeAll(rows)[q]) /\ Sealed(RevokeAll(rows)[q])
         /\ \A q \in Request : RevokeAll(rows)[q].status \notin {"pending", "issued"}
<1>1. \A q \in Request : RevokeAll(rows)[q] \in {rows[q], Revoked(rows[q])}
  BY DEF RevokeAll
<1>2. \A q \in Request : RevokeAll(rows)[q] \in RowType /\ Declines(rows[q], RevokeAll(rows)[q])
  BY <1>1, RowDeclines
<1>3. \A q \in Request : RevokeAll(rows)[q].status \notin {"pending", "issued"}
  BY DEF RevokeAll, Revoked, RowType
<1>4. RevokeAll(rows) = [q \in Request |-> RevokeAll(rows)[q]]
  BY DEF RevokeAll
<1>5. \A q \in Request : Sealed(RevokeAll(rows)[q])
  BY <1>2 DEF Declines, Sealed
<1>. QED BY <1>2, <1>3, <1>4, <1>5

------------------------------------------------------------------------------
\* reportMcpTeamGrant answers the request of a member, under consent, with the
\* grant that was minted for it; the caps may take the row away at once.
Answers(q, g) ==
  /\ <<q, g>> \in sent /\ row[q].status = "pending" /\ scene.member /\ scene.consent
  /\ \A p \in Request \ {q} : Declines(row[p], row'[p])
  /\ Declines([status |-> "issued", grant |-> g, bearer |-> TRUE, age |-> "fresh"], row'[q])
  /\ UNCHANGED <<scene, holds, minted, live, dead, drawn, mint, use, lapsed, acked>> /\ sent' \subseteq sent

\* Every step keeps the rows' types; only an answer makes one issued.
LEMMA RowsStep ==
  ASSUME GrantsAssumption, Typed, Rowed, Step
  PROVE  /\ row' \in [Request -> RowType]
         /\ AllDecline \/ \E q \in Request, g \in Grant : Answers(q, g)
<1> DEFINE Fine == row' \in [Request -> RowType] /\ AllDecline
<1> USE GrantsAssumption
<1>1. row \in [Request -> RowType] /\ \A q \in Request : row[q] \in RowType /\ Sealed(row[q])
  BY DEF Typed, Rowed, Sealed
<1>2. /\ Trim(row) \in [Request -> RowType]
      /\ \A q \in Request : Trim(row)[q] \in RowType /\ Declines(row[q], Trim(row)[q]) /\ Sealed(Trim(row)[q])
  BY <1>1, TrimDeclines DEF Declines, Sealed
<1>3. ASSUME UNCHANGED row PROVE Fine
  BY <1>1, <1>3, RowDeclines DEF AllDecline
<1>4. ASSUME NEW q \in Request, Ask(q) PROVE Fine
  <2> DEFINE asked == [Trim(row) EXCEPT ![q].status = "pending"]
  <2>1. row' = Trim(asked) /\ row[q].status = "none"
    BY <1>4 DEF Ask
  <2>2. asked \in [Request -> RowType] /\ \A p \in Request : Sealed(asked[p])
    BY <1>2 DEF RowType, Sealed
  <2>3. Trim(row)[q].status \in {"none", "pending", "gone", "revoked"}
    BY <1>2, <2>1 DEF Declines, RowType
  <2>4. \A p \in Request : Declines(row[p], asked[p])
    <3>1. Declines(row[q], asked[q])
      BY <1>1, <1>2, <2>1 DEF Declines, RowType
    <3>. QED BY <1>2, <3>1
  <2>. HIDE DEF asked
  <2>5. row' \in [Request -> RowType] /\ \A p \in Request : Declines(asked[p], row'[p])
    BY <2>1, <2>2, TrimDeclines
  <2>. QED BY <1>1, <2>2, <2>4, <2>5, DeclinesOnwards DEF AllDecline
<1>5. ASSUME NEW q \in Request, Fetch(q) PROVE Fine
  <2>1. \E r \in {[Revoked(Trim(row)[q]) EXCEPT !.bearer = FALSE], [Trim(row)[q] EXCEPT !.bearer = FALSE]} :
          row' = [Trim(row) EXCEPT ![q] = r]
    BY <1>2, <1>5 DEF Fetch
  <2>2. PICK r \in RowType : row' = [Trim(row) EXCEPT ![q] = r] /\ Declines(Trim(row)[q], r)
    BY <1>2, <2>1, RowDeclines
  <2>3. Declines(row[q], r)
    BY <1>1, <1>2, <2>2, DeclinesOnwards
  <2>. QED BY <1>2, <2>2, <2>3 DEF AllDecline
<1>6. CASE ConsentOff
  <2>1. \A q \in Request : row'[q] \in {row[q], [Revoked(row[q]) EXCEPT !.bearer = FALSE]}
    BY <1>6 DEF ConsentOff
  <2>2. \A q \in Request : row'[q] \in RowType /\ Declines(row[q], row'[q])
    BY <1>1, <2>1, RowDeclines
  <2>3. row' = [q \in Request |-> row'[q]]
    BY <1>6 DEF ConsentOff
  <2>. QED BY <2>2, <2>3 DEF AllDecline
<1>7. CASE Leave
  BY <1>1, <1>7, RevokeAllDeclines DEF Leave, AllDecline
<1>8. ASSUME NEW q \in Request, Ages(q) PROVE Fine
  <2>1. \E age \in {"late", "old"} : row' = [row EXCEPT ![q] = [row[q] EXCEPT !.age = age]]
    BY <1>8 DEF Ages
  <2>2. \A age \in {"late", "old"} : [row[q] EXCEPT !.age = age] \in RowType /\ Declines(row[q], [row[q] EXCEPT !.age = age])
    BY <1>1 DEF RowType, Declines, Sealed
  <2>3. PICK r \in RowType : row' = [row EXCEPT ![q] = r] /\ Declines(row[q], r)
    BY <2>1, <2>2
  <2>4. \A p \in Request : Declines(row[p], row[p])
    BY <1>1, RowDeclines
  <2>. QED BY <1>1, <2>3, <2>4 DEF AllDecline
<1>9. ASSUME NEW lost \in BOOLEAN, Poll(lost) PROVE Fine
  <2> DEFINE seen == IF scene.consent /\ scene.member THEN row ELSE RevokeAll(row)
  <2>1. seen \in [Request -> RowType] /\ \A q \in Request : Declines(row[q], seen[q]) /\ Sealed(seen[q])
    BY <1>1, RowDeclines, RevokeAllDeclines
  <2>2. row' = Trim(seen)
    BY <1>9 DEF Poll
  <2>. HIDE DEF seen
  <2>3. row' \in [Request -> RowType] /\ \A q \in Request : Declines(seen[q], row'[q])
    BY <2>1, <2>2, TrimDeclines
  <2>. QED BY <1>1, <2>1, <2>3, DeclinesOnwards DEF AllDecline
<1>10. ASSUME NEW q \in Request, RevokeGrant(q) PROVE Fine
  <2>1. CASE row' = [Trim(row) EXCEPT ![q] = Over]
    <3>1. Over \in RowType /\ Declines(row[q], Over)
      BY <1>1, RowDeclines
    <3>. QED BY <1>2, <2>1, <3>1 DEF AllDecline
  <2>. QED BY <1>3, <1>10, <2>1 DEF RevokeGrant
<1>11. ASSUME NEW q \in Request, NEW g \in Grant, ReportMcpTeamGrant(q, g), ~UNCHANGED row
       PROVE  row' \in [Request -> RowType] /\ (AllDecline \/ Answers(q, g))
  <2> DEFINE sealed == [status |-> "issued", grant |-> g, bearer |-> TRUE, age |-> "fresh"]
             answered == [row EXCEPT ![q] = sealed]
  <2>1. <<q, g>> \in sent /\ sent' = sent \ {<<q, g>>} /\ row[q].status = "pending"
        /\ UNCHANGED <<scene, holds, minted, live, dead, drawn, mint, use, lapsed, acked>>
    BY <1>11 DEF ReportMcpTeamGrant, Relay, Use
  <2>2. CASE row' = [row EXCEPT ![q] = Revoked(row[q])]
    <3>1. Revoked(row[q]) \in RowType /\ Declines(row[q], Revoked(row[q]))
      BY <1>1, RowDeclines
    <3>2. \A p \in Request : Declines(row[p], row[p])
      BY <1>1, RowDeclines
    <3>. QED BY <1>1, <2>2, <3>1, <3>2 DEF AllDecline
  <2>3. CASE row' = Trim(answered) /\ scene.member /\ scene.consent
    <3>1. sealed \in RowType /\ Sealed(sealed)
      BY DEF RowType, Sealed, GrantsAssumption
    <3>2. answered \in [Request -> RowType] /\ answered[q] = sealed /\ \A p \in Request \ {q} : answered[p] = row[p]
      BY <1>1, <3>1
    <3>3. \A p \in Request : Sealed(answered[p])
      BY <1>1, <3>1, <3>2
    <3>. HIDE DEF sealed, answered
    <3>4. row' \in [Request -> RowType] /\ \A p \in Request : Declines(answered[p], row'[p])
      BY <2>3, <3>2, <3>3, TrimDeclines
    <3>5. Declines(sealed, row'[q]) /\ \A p \in Request \ {q} : Declines(row[p], row'[p])
      BY <3>2, <3>4
    <3>. QED BY <2>1, <2>3, <3>4, <3>5 DEF Answers, sealed
  <2>. QED BY <1>11, <2>2, <2>3 DEF ReportMcpTeamGrant
<1>12. ASSUME \/ ConsentOn \/ Join \/ CloseOrReopen \/ Resume \/ InvalidateMcpGrants \/ MintFails \/ PollEnds
              \/ TeamAuthorized \/ Served \/ UseEnds
              \/ \E q \in Request : Report(q)
              \/ \E q \in Request, g \in Grant : MintAsked(q, g)
              \/ \E g \in Grant : Minted(g) \/ UseStarts(g) \/ GrantExpires(g)
       PROVE  Fine
  <2>1. UNCHANGED row
    BY <1>12 DEF ConsentOn, Join, CloseOrReopen, Resume, InvalidateMcpGrants, MintFails, PollEnds, TeamAuthorized,
                 Served, UseEnds, Report, MintAsked, Minted, UseStarts, GrantExpires
  <2>. QED BY <1>3, <2>1
<1>. QED
  BY <1>3, <1>4, <1>5, <1>6, <1>7, <1>8, <1>9, <1>10, <1>11, <1>12 DEF Step

------------------------------------------------------------------------------
\* What the steps make of the poll and of a use has its type.
LEMMA PollTyped ==
  ASSUME NEW p \in PollType
  PROVE  /\ Listening \in PollType
         /\ \A issues \in SUBSET Request, revoke \in SUBSET Request :
              [at |-> "work", issues |-> issues, revoke |-> revoke, grant |-> None] \in PollType
         /\ \A g \in Grant : [p EXCEPT !.at = "mint", !.grant = g] \in PollType
         /\ [p EXCEPT !.at = "work", !.grant = None] \in PollType
         /\ \A issues \in SUBSET Request : [p EXCEPT !.at = "work", !.grant = None, !.issues = issues] \in PollType
         /\ \A issues \in SUBSET Request : [p EXCEPT !.issues = issues] \in PollType
         /\ \A revoke \in SUBSET Request : [p EXCEPT !.revoke = revoke] \in PollType
  BY DEF PollType, Listening

LEMMA UseTyped ==
  ASSUME NEW u \in UseType
  PROVE  /\ NoUse \in UseType
         /\ \A next \in {"member", "grant", "relay", "served"} : [u EXCEPT !.at = next] \in UseType
         /\ \A g \in Grant, over \in BOOLEAN : [at |-> "session", grant |-> g, lapsed |-> over] \in UseType
  BY DEF UseType, NoUse

\* No step takes a variable out of its type.
LEMMA GrantsTypeStep == ASSUME GrantsAssumption, Typed, Rowed, Minting, Step PROVE Typed'
<1> USE GrantsAssumption DEF GrantsAssumption
<1>0. poll \in PollType /\ poll.issues \in SUBSET Request /\ poll.revoke \in SUBSET Request /\ use \in UseType
  BY DEF Typed, PollType
<1>1. row' \in [Request -> RowType] /\ row \in [Request -> RowType]
  BY RowsStep DEF Typed
<1>2. ASSUME scene' \in [member : BOOLEAN, consent : BOOLEAN, open : BOOLEAN], lapsed' \subseteq Grant,
             UNCHANGED <<holds, poll, minted, live, dead, drawn, sent, mint, use, acked>>
      PROVE  Typed'
  BY <1>1, <1>2 DEF Typed
<1>3. \A q \in Request : row[q].status = "issued" => row[q].grant \in Grant
  BY DEF Rowed
<1>4. CASE ConsentOff \/ Leave
  <2>1. lapsed' = lapsed \cup {row[q].grant : q \in With(row, "issued")}
    BY <1>4 DEF ConsentOff, Leave, Lapses
  <2>2. lapsed' \subseteq Grant
    BY <1>3, <2>1 DEF With, Typed
  <2>3. scene' \in [member : BOOLEAN, consent : BOOLEAN, open : BOOLEAN]
    BY <1>4 DEF ConsentOff, Leave, Typed
  <2>. QED BY <1>2, <1>4, <2>2, <2>3 DEF ConsentOff, Leave, Host, Relay, Use
<1>5. CASE ConsentOn \/ Join \/ CloseOrReopen
  BY <1>2, <1>5 DEF ConsentOn, Join, CloseOrReopen, Typed, Host, Relay, Use
<1>6. ASSUME NEW q \in Request, Ask(q) PROVE Typed'
  BY <1>2, <1>6 DEF Ask, Typed, Host, Relay, Use
<1>7. ASSUME NEW q \in Request, Fetch(q) PROVE Typed'
  <2>1. holds' = holds \/ \E g \in Grant \cup {None} : holds' = [holds EXCEPT ![g] = holds[g] + 1]
    <3>1. Trim(row)[q].grant \in Grant \cup {None}
      BY <1>1, TrimDeclines DEF Rowed, Sealed, RowType
    <3>. QED BY <1>7, <3>1 DEF Fetch
  <2>2. holds' \in [Grant -> Nat]
    <3>1. holds \in [Grant -> Nat]
      BY DEF Typed
    <3>. QED BY <2>1, <3>1
  <2>. QED BY <1>1, <1>7, <2>2 DEF Fetch, Typed, Host, Relay, Use
<1>8. ASSUME NEW q \in Request, Ages(q) PROVE Typed'
  BY <1>1, <1>8 DEF Ages, Typed, Host, Use
<1>9. CASE InvalidateMcpGrants \/ \E g \in Grant : GrantExpires(g)
  BY <1>1, <1>9 DEF InvalidateMcpGrants, GrantExpires, Typed, Host, Use
<1>10. CASE Resume
  <2>1. mint' \in [Grant -> {"none", "now", "before"}] /\ scene' \in [member : BOOLEAN, consent : BOOLEAN, open : BOOLEAN]
    BY <1>10 DEF Resume, Typed
  <2>2. poll' \in PollType /\ minted' \in [Request -> Grant \cup {None}]
    <3>1. poll' = Listening /\ minted' = [q \in Request |-> None]
      BY <1>10 DEF Resume
    <3>. QED BY <1>0, <3>1, PollTyped
  <2>. QED BY <1>1, <1>10, <2>1, <2>2 DEF Resume, Typed, Use
<1>11. ASSUME NEW lost \in BOOLEAN, Poll(lost) PROVE Typed'
  <2>1. \/ UNCHANGED <<poll, minted>>
        \/ \E issues, revoke \in SUBSET Request :
             /\ poll' = [at |-> "work", issues |-> issues, revoke |-> revoke, grant |-> None]
             /\ minted' = [q \in Request |-> IF q \in issues \cup revoke THEN minted[q] ELSE None]
    <3> DEFINE seen == Trim(IF scene.consent /\ scene.member THEN row ELSE RevokeAll(row))
               issues == {q \in With(seen, "pending") : seen[q].age = "fresh"}
               revoke == {q \in With(seen, "revoked") : seen[q].grant # None}
    <3>1. issues \in SUBSET Request /\ revoke \in SUBSET Request
      BY DEF With
    <3>2. \/ UNCHANGED <<poll, minted>>
          \/ /\ poll' = [at |-> "work", issues |-> issues, revoke |-> revoke, grant |-> None]
             /\ minted' = [q \in Request |-> IF q \in issues \cup revoke THEN minted[q] ELSE None]
      BY <1>11 DEF Poll
    <3>. HIDE DEF issues, revoke
    <3>. QED BY <3>1, <3>2
  <2>2. poll' \in PollType
    <3>1. \A issues, revoke \in SUBSET Request : [at |-> "work", issues |-> issues, revoke |-> revoke, grant |-> None] \in PollType
      BY <1>0, PollTyped
    <3>. QED BY <1>0, <2>1, <3>1
  <2>3. minted' \in [Request -> Grant \cup {None}]
    BY <2>1 DEF Typed
  <2>. QED BY <1>1, <1>11, <2>2, <2>3 DEF Poll, Typed, Relay, Use
<1>12. ASSUME NEW q \in Request, NEW g \in Grant, MintAsked(q, g) PROVE Typed'
  <2>1. poll' = [poll EXCEPT !.at = "mint", !.grant = g] \/ poll' = [poll EXCEPT !.issues = poll.issues \ {q}]
    BY <1>12 DEF MintAsked
  <2>2. poll' \in PollType
    <3>1. CASE poll' = [poll EXCEPT !.at = "mint", !.grant = g]
      BY <1>0, <3>1, PollTyped
    <3>2. CASE poll' = [poll EXCEPT !.issues = poll.issues \ {q}]
      BY <1>0, <3>2, PollTyped
    <3>. QED BY <2>1, <3>1, <3>2
  <2>3. mint' \in [Grant -> {"none", "now", "before"}] /\ drawn' \subseteq Grant
    BY <1>12 DEF MintAsked, Typed
  <2>. QED BY <1>1, <1>12, <2>2, <2>3 DEF MintAsked, Typed, Use
<1>13. ASSUME NEW g \in Grant, Minted(g) PROVE Typed'
  <2>1. poll' \in {poll, [poll EXCEPT !.at = "work", !.grant = None]}
    BY <1>13 DEF Minted
  <2>2. poll' \in PollType
    BY <1>0, <2>1, PollTyped
  <2>3. minted' = minted \/ (minted' = [minted EXCEPT ![First(poll.issues)] = g] /\ First(poll.issues) \in Request)
    BY <1>13 DEF Minted, Minting
  <2>4. minted' \in [Request -> Grant \cup {None}]
    BY <2>3 DEF Typed
  <2>5. mint' \in [Grant -> {"none", "now", "before"}] /\ live' \subseteq Grant /\ dead' \subseteq Grant
    BY <1>13 DEF Minted, Typed
  <2>. QED BY <1>1, <1>13, <2>2, <2>4, <2>5 DEF Minted, Typed, Use
<1>14. CASE MintFails \/ PollEnds
  <2>1. poll' = [poll EXCEPT !.at = "work", !.grant = None, !.issues = poll.issues \ {First(poll.issues)}] \/ poll' = Listening
    BY <1>14 DEF MintFails, PollEnds
  <2>2. poll' \in PollType
    <3>1. CASE poll' = [poll EXCEPT !.at = "work", !.grant = None, !.issues = poll.issues \ {First(poll.issues)}]
      BY <1>0, <3>1, PollTyped
    <3>2. CASE poll' = Listening
      BY <1>0, <3>2, PollTyped
    <3>. QED BY <2>1, <3>1, <3>2
  <2>. QED BY <1>1, <1>14, <2>2 DEF MintFails, PollEnds, Typed, Relay, Use
<1>15. ASSUME NEW q \in Request, Report(q) PROVE Typed'
  <2>1. poll' = [poll EXCEPT !.issues = poll.issues \ {q}] /\ sent' = sent \cup {<<q, minted[q]>>} /\ minted[q] # None
    BY <1>15 DEF Report
  <2>2. poll' \in PollType
    BY <1>0, <2>1, PollTyped
  <2>3. sent' \subseteq Request \X Grant
    BY <2>1 DEF Typed
  <2>. QED BY <1>1, <1>15, <2>2, <2>3 DEF Report, Typed, Relay, Use
<1>16. ASSUME NEW q \in Request, NEW g \in Grant, ReportMcpTeamGrant(q, g) PROVE Typed'
  BY <1>1, <1>16 DEF ReportMcpTeamGrant, Typed, Relay, Use
<1>17. ASSUME NEW q \in Request, RevokeGrant(q) PROVE Typed'
  <2>1. poll' = [poll EXCEPT !.revoke = poll.revoke \ {q}]
    BY <1>17 DEF RevokeGrant
  <2>2. poll' \in PollType
    BY <1>0, <2>1, PollTyped
  <2>3. live' \subseteq Grant /\ dead' \subseteq Grant /\ acked' \subseteq Grant
    BY <1>17 DEF RevokeGrant, Typed
  <2>. QED BY <1>1, <1>17, <2>2, <2>3 DEF RevokeGrant, Typed, Use
<1>18. CASE TeamAuthorized \/ Served \/ UseEnds \/ \E g \in Grant : UseStarts(g)
  <2>1. \/ use' = NoUse
        \/ \E next \in {"member", "grant", "relay", "served"} : use' = [use EXCEPT !.at = next]
        \/ \E g \in Grant : use' = [at |-> "session", grant |-> g, lapsed |-> g \in lapsed]
    BY <1>18 DEF TeamAuthorized, Served, UseEnds, UseStarts, Checks
  <2>2. use' \in UseType
    <3>1. ASSUME NEW next \in {"member", "grant", "relay", "served"}, use' = [use EXCEPT !.at = next] PROVE use' \in UseType
      BY <1>0, <3>1, UseTyped
    <3>2. ASSUME NEW g \in Grant, use' = [at |-> "session", grant |-> g, lapsed |-> g \in lapsed] PROVE use' \in UseType
      <4>1. (g \in lapsed) \in BOOLEAN
        OBVIOUS
      <4>. QED BY <1>0, <3>2, <4>1, UseTyped
    <3>. QED BY <1>0, <2>1, <3>1, <3>2, UseTyped
  <2>. QED BY <1>1, <1>18, <2>2 DEF TeamAuthorized, Served, UseEnds, UseStarts, Typed, Host, Relay
<1>. QED
  BY <1>4, <1>5, <1>6, <1>7, <1>8, <1>9, <1>10, <1>11, <1>12, <1>13, <1>14, <1>15, <1>16, <1>17, <1>18 DEF Step

\* Only a report is put on its way, and only a mint remembered.
LEMMA SentStays ==
  ASSUME Step, \A q \in Request : ~Report(q) PROVE sent' \subseteq sent
<1>1. ASSUME NEW q \in Request, Ask(q) \/ Fetch(q) \/ Ages(q) \/ RevokeGrant(q) PROVE sent' \subseteq sent
  BY <1>1 DEF Ask, Fetch, Ages, RevokeGrant, Host
<1>2. CASE ConsentOff \/ ConsentOn \/ Leave \/ Join \/ CloseOrReopen \/ Resume \/ InvalidateMcpGrants
  BY <1>2 DEF ConsentOff, ConsentOn, Leave, Join, CloseOrReopen, Resume, InvalidateMcpGrants, Host
<1>3. CASE (\E lost \in BOOLEAN : Poll(lost)) \/ MintFails \/ PollEnds \/ TeamAuthorized \/ Served \/ UseEnds
  BY <1>3 DEF Poll, MintFails, PollEnds, TeamAuthorized, Served, UseEnds, Host
<1>4. ASSUME NEW q \in Request, NEW g \in Grant, MintAsked(q, g) \/ ReportMcpTeamGrant(q, g) PROVE sent' \subseteq sent
  BY <1>4 DEF MintAsked, ReportMcpTeamGrant
<1>5. ASSUME NEW g \in Grant, Minted(g) \/ UseStarts(g) \/ GrantExpires(g) PROVE sent' \subseteq sent
  BY <1>5 DEF Minted, UseStarts, GrantExpires, Host
<1>. QED BY <1>1, <1>2, <1>3, <1>4, <1>5 DEF Step

LEMMA MintedStays ==
  ASSUME Typed, Step, \A g \in Grant : ~Minted(g), NEW q \in Request PROVE minted'[q] \in {minted[q], None}
<1>1. ASSUME NEW p \in Request, Ask(p) \/ Fetch(p) \/ Ages(p) \/ Report(p) \/ RevokeGrant(p)
      PROVE  minted' = minted
  BY <1>1 DEF Ask, Fetch, Ages, Report, RevokeGrant, Host
<1>2. CASE ConsentOff \/ ConsentOn \/ Leave \/ Join \/ CloseOrReopen \/ InvalidateMcpGrants
  BY <1>2 DEF ConsentOff, ConsentOn, Leave, Join, CloseOrReopen, InvalidateMcpGrants, Host
<1>3. CASE Resume
  BY <1>3 DEF Resume
<1>4. ASSUME NEW lost \in BOOLEAN, Poll(lost) PROVE minted'[q] \in {minted[q], None}
  BY <1>4 DEF Poll
<1>5. CASE MintFails \/ PollEnds \/ TeamAuthorized \/ Served \/ UseEnds
  BY <1>5 DEF MintFails, PollEnds, TeamAuthorized, Served, UseEnds, Host
<1>6. ASSUME NEW p \in Request, NEW g \in Grant, MintAsked(p, g) \/ ReportMcpTeamGrant(p, g) PROVE minted' = minted
  BY <1>6 DEF MintAsked, ReportMcpTeamGrant
<1>7. ASSUME NEW g \in Grant, UseStarts(g) \/ GrantExpires(g) PROVE minted' = minted
  BY <1>7 DEF UseStarts, GrantExpires, Host
<1>. QED BY <1>1, <1>2, <1>3, <1>4, <1>5, <1>6, <1>7 DEF Step

\* A grant gets a request when its record is added and the host waits for it.
LEMMA OfStep ==
  ASSUME GrantsAssumption, Typed, Rowed, Minting, Step, NEW q \in Request, NEW g \in Grant, Of(q, g)'
  PROVE  Of(q, g) \/ (Minted(g) /\ q = First(poll.issues))
<1> USE GrantsAssumption DEF GrantsAssumption
<1>1. row'[q].grant \in {row[q].grant, None} \/ <<q, row'[q].grant>> \in sent \/ row'[q].grant = None
  BY RowsStep DEF AllDecline, Answers, Declines
<1>2. row'[q].grant = g => Of(q, g)
  BY <1>1 DEF Of
<1>3. <<q, g>> \in sent' => Of(q, g)
  <2>1. ASSUME NEW p \in Request, Report(p) PROVE <<q, g>> \in sent' => Of(q, g)
    BY <2>1 DEF Report, Of
  <2>2. ASSUME ~\E p \in Request : Report(p) PROVE sent' \subseteq sent
    BY <2>2, SentStays
  <2>. QED BY <2>1, <2>2 DEF Of
<1>4. minted'[q] = g => minted[q] = g \/ (Minted(g) /\ q = First(poll.issues))
  <2>1. ASSUME NEW h \in Grant, Minted(h), minted'[q] = g PROVE minted[q] = g \/ (Minted(g) /\ q = First(poll.issues))
    <3>1. minted' = minted \/ minted' = [minted EXCEPT ![First(poll.issues)] = h]
      BY <2>1 DEF Minted
    <3>2. minted[q] = g \/ (q = First(poll.issues) /\ g = h)
      BY <2>1, <3>1 DEF Typed
    <3>. QED BY <2>1, <3>2
  <2>2. ASSUME ~\E h \in Grant : Minted(h) PROVE minted'[q] \in {minted[q], None}
    BY <2>2, MintedStays
  <2>. QED BY <2>1, <2>2
<1>. QED BY <1>2, <1>3, <1>4 DEF Of

\* A row that was answered stays so, and a revoked one is never issued again.
LEMMA RowOnwards ==
  ASSUME GrantsAssumption, Typed, Rowed, Step, NEW q \in Request
  PROVE  /\ row[q].status \notin {"none", "pending"} => row'[q].status \notin {"none", "pending"}
         /\ row[q].status \in {"revoked", "gone"} => row'[q].status \in {"revoked", "gone"}
<1>1. CASE AllDecline
  BY <1>1 DEF AllDecline, Declines
<1>2. ASSUME NEW p \in Request, NEW g \in Grant, Answers(p, g)
      PROVE  /\ row[q].status \notin {"none", "pending"} => row'[q].status \notin {"none", "pending"}
             /\ row[q].status \in {"revoked", "gone"} => row'[q].status \in {"revoked", "gone"}
  <2>1. CASE q # p
    BY <1>2, <2>1 DEF Answers, Declines
  <2>2. CASE q = p
    BY <1>2, <2>2 DEF Answers, Declines
  <2>. QED BY <2>1, <2>2
<1>. QED BY <1>1, <1>2, RowsStep

\* What a step can do to one grant: it is delivered from its row; it lapses with
\* its row; the host acknowledges what is dead; it goes live by its own mint.
Delivered(g) == holds'[g] = holds[g] \/ (holds'[g] = holds[g] + 1 /\ \E q \in Request : row[q].grant = g /\ row[q].bearer)
LapsedNow(g) == \E q \in Request : row[q].status = "issued" /\ row[q].grant = g /\ row'[q].status \in {"revoked", "gone"}
AckedNow(g) == (\E q \in Request : row[q].grant = g) /\ g \notin live'
Moves(g) ==
  /\ g \in lapsed => g \in lapsed'
  /\ g \in lapsed' => g \in lapsed \/ LapsedNow(g)
  /\ g \in acked' => g \in acked \/ AckedNow(g)
  /\ g \in live' => g \in live \/ Minted(g)
  /\ g \in dead' => g \in dead \/ (g \in live /\ g \notin live') \/ Minted(g)
                      \/ ((\E q \in Request : row[q].grant = g) /\ g \notin live')
  /\ g \in drawn => g \in drawn'
  /\ mint'[g] # "none" => (mint[g] # "none" \/ g \notin drawn) /\ ~Minted(g) /\ g \in drawn'

LEMMA GrantDelivered ==
  ASSUME GrantsAssumption, Typed, Rowed, Step, NEW g \in Grant PROVE Delivered(g)
<1>1. ASSUME NEW q \in Request, Fetch(q) PROVE Delivered(g)
  <2>1. row[q] \in RowType /\ Trim(row)[q] \in RowType /\ Declines(row[q], Trim(row)[q])
    BY TrimDeclines DEF Typed, Rowed, Sealed
  <2>2. holds' = holds \/ (Trim(row)[q].bearer /\ holds' = [holds EXCEPT ![Trim(row)[q].grant] = @ + 1])
    BY <1>1 DEF Fetch
  <2>3. Trim(row)[q].bearer => row[q].bearer /\ Trim(row)[q].grant = row[q].grant
    BY <2>1 DEF Declines
  <2>4. CASE holds' = holds
    BY <2>4 DEF Delivered
  <2>5. CASE Trim(row)[q].bearer /\ holds' = [holds EXCEPT ![row[q].grant] = @ + 1]
    BY <2>3, <2>5 DEF Delivered, Typed
  <2>. QED BY <2>2, <2>3, <2>4, <2>5
<1>2. ASSUME NEW q \in Request, Ask(q) \/ Ages(q) \/ Report(q) \/ RevokeGrant(q) PROVE holds' = holds
  BY <1>2 DEF Ask, Ages, Report, RevokeGrant
<1>3. CASE ConsentOff \/ ConsentOn \/ Leave \/ Join \/ CloseOrReopen \/ Resume \/ InvalidateMcpGrants
  BY <1>3 DEF ConsentOff, ConsentOn, Leave, Join, CloseOrReopen, Resume, InvalidateMcpGrants, Delivered
<1>4. CASE (\E lost \in BOOLEAN : Poll(lost)) \/ MintFails \/ PollEnds \/ TeamAuthorized \/ Served \/ UseEnds
  BY <1>4 DEF Poll, MintFails, PollEnds, TeamAuthorized, Served, UseEnds, Delivered
<1>5. ASSUME NEW q \in Request, NEW h \in Grant, MintAsked(q, h) \/ ReportMcpTeamGrant(q, h) PROVE holds' = holds
  BY <1>5 DEF MintAsked, ReportMcpTeamGrant
<1>6. ASSUME NEW h \in Grant, Minted(h) \/ UseStarts(h) \/ GrantExpires(h) PROVE holds' = holds
  BY <1>6 DEF Minted, UseStarts, GrantExpires
<1>. QED BY <1>1, <1>2, <1>3, <1>4, <1>5, <1>6 DEF Step, Delivered

LEMMA GrantMoves ==
  ASSUME GrantsAssumption, Typed, Rowed, Step, NEW g \in Grant, mint[g] # "none" => g \in drawn
  PROVE  Moves(g)
<1>1. ASSUME UNCHANGED <<live, dead, drawn, mint, acked>>, ~Minted(g), lapsed' = lapsed PROVE Moves(g)
  BY <1>1 DEF Moves
<1>2. ASSUME NEW h \in Grant, Minted(h) PROVE mint' = [mint EXCEPT ![h] = "none"]
  BY <1>2 DEF Minted
<1>3. ASSUME Minted(g) PROVE mint'[g] = "none"
  BY <1>2, <1>3 DEF Typed
<1>4. ASSUME UNCHANGED mint PROVE ~Minted(g)
  BY <1>3, <1>4 DEF Minted
<1>5. ASSUME NEW q \in Request, Ask(q) \/ Fetch(q) \/ Report(q) PROVE Moves(g)
  BY <1>1, <1>4, <1>5 DEF Ask, Fetch, Report, Relay
<1>6. ASSUME NEW q \in Request, Ages(q) PROVE Moves(g)
  BY <1>4, <1>6 DEF Ages, Moves
<1>7. ASSUME NEW q \in Request, RevokeGrant(q) PROVE Moves(g)
  <2>1. ~Minted(g) /\ lapsed' = lapsed /\ drawn' = drawn /\ mint' = mint
    BY <1>4, <1>7 DEF RevokeGrant
  <2>2. \/ UNCHANGED <<live, dead, acked>>
        \/ /\ live' = live \ {row[q].grant} /\ dead' = dead \cup {row[q].grant}
           /\ acked' = acked \/ acked' = acked \cup {row[q].grant}
    BY <1>7 DEF RevokeGrant
  <2>. QED BY <2>1, <2>2 DEF Moves, AckedNow
<1>8. CASE ConsentOff \/ Leave
  <2>1. UNCHANGED <<live, dead, drawn, mint, acked>> /\ ~Minted(g)
    BY <1>4, <1>8 DEF ConsentOff, Leave, Relay
  <2>2. lapsed' = lapsed \cup {row[q].grant : q \in With(row, "issued")}
    BY <1>8 DEF ConsentOff, Leave, Lapses
  <2>3. \A q \in Request : row[q].status = "issued" => row'[q].status = "revoked"
    <3>1. ASSUME NEW q \in Request, row[q].status = "issued" PROVE row'[q].status = "revoked"
      <4>1. row'[q] = Revoked(row[q]) \/ row'[q] = [Revoked(row[q]) EXCEPT !.bearer = FALSE]
        BY <1>8, <3>1 DEF ConsentOff, Leave, RevokeAll
      <4>2. row[q] \in RowType
        BY DEF Typed
      <4>. QED BY <4>1, <4>2 DEF Revoked, RowType
    <3>. QED BY <3>1
  <2>. QED BY <2>1, <2>2, <2>3 DEF Moves, LapsedNow, With
<1>9. CASE ConsentOn \/ Join \/ CloseOrReopen \/ (\E lost \in BOOLEAN : Poll(lost)) \/ MintFails \/ PollEnds
  BY <1>1, <1>4, <1>9 DEF ConsentOn, Join, CloseOrReopen, Poll, MintFails, PollEnds, Relay
<1>10. CASE TeamAuthorized \/ Served \/ UseEnds \/ \E h \in Grant : UseStarts(h)
  BY <1>1, <1>4, <1>10 DEF TeamAuthorized, Served, UseEnds, UseStarts, Relay
<1>11. CASE InvalidateMcpGrants \/ \E h \in Grant : GrantExpires(h)
  BY <1>4, <1>11 DEF InvalidateMcpGrants, GrantExpires, Moves
<1>12. CASE Resume
  <2>1. mint'[g] # "none" => mint[g] # "none" /\ ~Minted(g)
    BY <1>3, <1>12 DEF Resume, Typed
  <2>. QED BY <1>12, <2>1 DEF Resume, Moves
<1>13. ASSUME NEW q \in Request, NEW h \in Grant, MintAsked(q, h) PROVE Moves(g)
  <2>1. UNCHANGED <<live, dead, lapsed, acked>>
    BY <1>13 DEF MintAsked
  <2>2. (mint' = [mint EXCEPT ![h] = "now"] /\ drawn' = drawn \cup {h}) \/ UNCHANGED <<mint, drawn>>
    BY <1>13 DEF MintAsked
  <2>3. h \notin drawn /\ minted' = minted
    BY <1>13 DEF MintAsked
  <2>4. mint'[g] # "none" => (mint[g] # "none" \/ g \notin drawn) /\ g \in drawn'
    BY <2>2, <2>3 DEF Typed
  <2>. QED BY <1>3, <2>1, <2>2, <2>4 DEF Moves
<1>14. ASSUME NEW q \in Request, NEW h \in Grant, ReportMcpTeamGrant(q, h) PROVE Moves(g)
  BY <1>1, <1>4, <1>14 DEF ReportMcpTeamGrant, Relay
<1>15. ASSUME NEW h \in Grant, Minted(h) PROVE Moves(g)
  <2>1. UNCHANGED <<lapsed, acked, drawn>>
    BY <1>15 DEF Minted
  <2>2. g \in live' => g \in live \/ g = h
    BY <1>15 DEF Minted
  <2>3. g \in dead' => g \in dead \/ g = h
    BY <1>15 DEF Minted
  <2>4. mint'[g] # "none" => mint[g] # "none"
    BY <1>2, <1>15 DEF Typed
  <2>. QED BY <1>3, <1>15, <2>1, <2>2, <2>3, <2>4 DEF Moves
<1>. QED
  BY <1>5, <1>6, <1>7, <1>8, <1>9, <1>10, <1>11, <1>12, <1>13, <1>14, <1>15 DEF Step

------------------------------------------------------------------------------
\* Until its record is added nothing knows a grant.
LEMMA NewStep == ASSUME GrantsAssumption, GrantsInvariant, Step PROVE New'
<1> SUFFICES ASSUME NEW g \in Grant
             PROVE  /\ g \notin drawn' \/ mint'[g] # "none" => Untouched(g)'
                    /\ mint'[g] # "none" => g \in drawn'
  BY DEF New
<1>1. Moves(g) /\ Delivered(g)
  BY GrantMoves, GrantDelivered DEF GrantsInvariant, New
<1>2. ASSUME g \notin drawn' \/ mint'[g] # "none" PROVE Untouched(g)'
  <2>1. ~Minted(g)
    BY <1>1, <1>2 DEF Moves, Minted, GrantsInvariant, New
  <2>2. Untouched(g)
    BY <1>1, <1>2 DEF Moves, GrantsInvariant, New
  <2>3. \A q \in Request : ~Of(q, g)'
    BY <2>1, <2>2, OfStep DEF Untouched, GrantsInvariant
  <2>4. \A q \in Request : row[q].grant # g
    BY <2>2 DEF Untouched, Of
  <2>5. holds'[g] = 0
    BY <1>1, <2>2, <2>4 DEF Delivered, Untouched
  <2>6. g \notin lapsed' /\ g \notin acked' /\ g \notin live' /\ g \notin dead'
    BY <1>1, <2>1, <2>2, <2>4 DEF Moves, LapsedNow, AckedNow, Untouched
  <2>. QED BY <2>3, <2>5, <2>6 DEF Untouched
<1>. QED BY <1>1, <1>2 DEF Moves

\* No grant is minted for two requests.
LEMMA OneRequestStep == ASSUME GrantsAssumption, GrantsInvariant, Step PROVE OneRequest'
<1> SUFFICES ASSUME NEW g \in Grant, NEW p \in Request, NEW q \in Request, Of(p, g)', Of(q, g)' PROVE p = q
  BY DEF OneRequest
<1>1. /\ Of(p, g) \/ (Minted(g) /\ p = First(poll.issues))
      /\ Of(q, g) \/ (Minted(g) /\ q = First(poll.issues))
  BY OfStep DEF GrantsInvariant
<1>2. Minted(g) => ~Of(p, g) /\ ~Of(q, g)
  BY DEF Minted, GrantsInvariant, New, Untouched
<1>. QED BY <1>1, <1>2 DEF GrantsInvariant, OneRequest

\* A request is over before its grant lapses, and answered before it is held.
LEMMA PastStep == ASSUME GrantsAssumption, GrantsInvariant, Step PROVE Past'
<1> SUFFICES ASSUME NEW g \in Grant, NEW q \in Request, Of(q, g)'
             PROVE  /\ holds'[g] > 0 => row'[q].status \in {"issued", "revoked", "gone"}
                    /\ g \in lapsed' => row'[q].status \in {"revoked", "gone"}
  BY DEF Past
<1>1. Moves(g) /\ Delivered(g)
  BY GrantMoves, GrantDelivered DEF GrantsInvariant, New
<1>2. row'[q].status \in {"none", "pending", "issued", "revoked", "gone"}
  BY RowsStep DEF RowType, GrantsInvariant
<1>3. Of(q, g) \/ Minted(g)
  BY OfStep DEF GrantsInvariant
<1>4. CASE Of(q, g)
  <2>1. \A p \in Request : row[p].grant = g => p = q
    BY <1>4 DEF Of, GrantsInvariant, OneRequest
  <2>2. ASSUME holds'[g] > 0 PROVE row[q].status \notin {"none", "pending"}
    <3>1. CASE holds[g] > 0
      BY <1>4, <3>1 DEF GrantsInvariant, Past
    <3>2. CASE row[q].bearer
      BY <3>2 DEF GrantsInvariant, Rowed
    <3>. QED BY <1>1, <2>1, <2>2, <3>1, <3>2 DEF Delivered, GrantsInvariant, Typed
  <2>3. ASSUME g \in lapsed' PROVE row'[q].status \in {"revoked", "gone"}
    <3>1. CASE g \in lapsed
      BY <1>4, <3>1, RowOnwards DEF GrantsInvariant, Past
    <3>2. CASE LapsedNow(g)
      BY <2>1, <3>2 DEF LapsedNow
    <3>. QED BY <1>1, <2>3, <3>1, <3>2 DEF Moves
  <2>. QED BY <1>2, <2>2, <2>3, RowOnwards DEF GrantsInvariant
<1>5. CASE Minted(g)
  <2>1. Untouched(g)
    BY <1>5 DEF Minted, GrantsInvariant, New
  <2>2. holds' = holds /\ lapsed' = lapsed
    BY <1>5 DEF Minted
  <2>. QED BY <2>1, <2>2 DEF Untouched
<1>. QED BY <1>3, <1>4, <1>5

\* Leaving and withdrawing consent take the issued rows with them.
LEMMA RowedStep == ASSUME GrantsAssumption, GrantsInvariant, Step PROVE Rowed'
<1> SUFFICES ASSUME NEW q \in Request
             PROVE  /\ row'[q].status = "issued" => scene'.member /\ scene'.consent /\ row'[q].grant \in Grant
                    /\ row'[q].bearer => row'[q].grant # None /\ row'[q].status \notin {"none", "pending"}
  BY DEF Rowed
<1>1. CASE AllDecline
  <2>1. Declines(row[q], row'[q])
    BY <1>1 DEF AllDecline
  <2>2. /\ row'[q].status = "issued" => scene.member /\ scene.consent /\ row'[q].grant \in Grant
        /\ row'[q].bearer => row'[q].grant # None /\ row'[q].status \notin {"none", "pending"}
    BY <2>1 DEF Declines, GrantsInvariant, Rowed
  <2>3. ConsentOff \/ Leave => row'[q].status # "issued"
    <3>1. ASSUME ConsentOff \/ Leave, row[q].status = "issued" PROVE row'[q].status # "issued"
      <4>1. row'[q] = Revoked(row[q]) \/ row'[q] = [Revoked(row[q]) EXCEPT !.bearer = FALSE]
        BY <3>1 DEF ConsentOff, Leave, RevokeAll
      <4>2. row[q] \in RowType
        BY DEF GrantsInvariant, Typed
      <4>. QED BY <4>1, <4>2 DEF Revoked, RowType
    <3>. QED BY <2>1, <3>1 DEF Declines
  <2>4. ConsentOff \/ Leave \/ (scene.member /\ scene.consent => scene'.member /\ scene'.consent)
    <3>1. ASSUME NEW p \in Request, Ask(p) \/ Fetch(p) \/ Ages(p) \/ Report(p) \/ RevokeGrant(p) PROVE scene' = scene
      BY <3>1 DEF Ask, Fetch, Ages, Report, RevokeGrant
    <3>2. CASE ConsentOn \/ Join \/ CloseOrReopen \/ Resume
      BY <3>2 DEF ConsentOn, Join, CloseOrReopen, Resume, GrantsInvariant, Typed
    <3>3. CASE InvalidateMcpGrants \/ (\E lost \in BOOLEAN : Poll(lost)) \/ MintFails \/ PollEnds
               \/ TeamAuthorized \/ Served \/ UseEnds
      BY <3>3 DEF InvalidateMcpGrants, Poll, MintFails, PollEnds, TeamAuthorized, Served, UseEnds
    <3>4. ASSUME NEW p \in Request, NEW h \in Grant, MintAsked(p, h) \/ ReportMcpTeamGrant(p, h) PROVE scene' = scene
      BY <3>4 DEF MintAsked, ReportMcpTeamGrant
    <3>5. ASSUME NEW h \in Grant, Minted(h) \/ UseStarts(h) \/ GrantExpires(h) PROVE scene' = scene
      BY <3>5 DEF Minted, UseStarts, GrantExpires
    <3>. QED BY <3>1, <3>2, <3>3, <3>4, <3>5 DEF Step
  <2>. QED BY <2>2, <2>3, <2>4
<1>2. ASSUME NEW p \in Request, NEW g \in Grant, Answers(p, g)
      PROVE  /\ row'[q].status = "issued" => scene'.member /\ scene'.consent /\ row'[q].grant \in Grant
             /\ row'[q].bearer => row'[q].grant # None /\ row'[q].status \notin {"none", "pending"}
  <2>1. scene'.member /\ scene'.consent
    BY <1>2 DEF Answers
  <2>2. CASE q = p
    BY <1>2, <2>1, <2>2 DEF Answers, Declines
  <2>3. CASE q # p
    <3>1. Declines(row[q], row'[q])
      BY <1>2, <2>3 DEF Answers
    <3>. QED BY <2>1, <3>1 DEF Declines, GrantsInvariant, Rowed
  <2>. QED BY <2>2, <2>3
<1>. QED BY <1>1, <1>2, RowsStep DEF GrantsInvariant

LEMMA MintingStep == ASSUME GrantsAssumption, GrantsInvariant, Step PROVE Minting'
<1>0. poll \in PollType
  BY DEF GrantsInvariant, Typed
<1>1. ASSUME NEW q \in Request, NEW g \in Grant, MintAsked(q, g) PROVE Minting'
  <2>1. poll.at = "work" /\ q = First(poll.issues)
    BY <1>1 DEF MintAsked, Issuing
  <2>2. CASE poll' = [poll EXCEPT !.at = "mint", !.grant = g]
    BY <1>0, <2>1, <2>2 DEF Minting, PollType, First
  <2>3. CASE poll' = [poll EXCEPT !.issues = @ \ {q}]
    BY <1>0, <2>1, <2>3 DEF Minting, PollType
  <2>. QED BY <1>1, <2>2, <2>3 DEF MintAsked
<1>2. ASSUME poll' = poll PROVE Minting'
  BY <1>2 DEF GrantsInvariant, Minting, First
<1>3. ASSUME poll'.at # "mint" PROVE Minting'
  BY <1>3 DEF Minting
<1>4. ASSUME NEW q \in Request, Report(q) \/ RevokeGrant(q) PROVE poll'.at # "mint"
  BY <1>0, <1>4 DEF Report, RevokeGrant, Issuing, Revoking, PollType
<1>5. ASSUME NEW q \in Request, Ask(q) \/ Fetch(q) \/ Ages(q) PROVE poll' = poll
  BY <1>5 DEF Ask, Fetch, Ages, Host
<1>6. CASE ConsentOff \/ ConsentOn \/ Leave \/ Join \/ CloseOrReopen \/ InvalidateMcpGrants \/ TeamAuthorized \/ Served \/ UseEnds
  BY <1>2, <1>6 DEF ConsentOff, ConsentOn, Leave, Join, CloseOrReopen, InvalidateMcpGrants, TeamAuthorized, Served, UseEnds, Host
<1>7. CASE Resume \/ PollEnds
  BY <1>3, <1>7 DEF Resume, PollEnds, Listening
<1>8. ASSUME NEW lost \in BOOLEAN, Poll(lost) PROVE Minting'
  BY <1>2, <1>3, <1>8 DEF Poll
<1>9. CASE MintFails
  <2>1. poll' = [poll EXCEPT !.at = "work", !.grant = None, !.issues = @ \ {First(@)}]
    BY <1>9 DEF MintFails
  <2>. QED BY <1>0, <1>3, <2>1 DEF PollType
<1>10. ASSUME NEW q \in Request, NEW g \in Grant, ReportMcpTeamGrant(q, g) PROVE poll' = poll
  BY <1>10 DEF ReportMcpTeamGrant
<1>11. ASSUME NEW g \in Grant, UseStarts(g) \/ GrantExpires(g) PROVE poll' = poll
  BY <1>11 DEF UseStarts, GrantExpires, Host
<1>12. ASSUME NEW g \in Grant, Minted(g) PROVE Minting'
  <2>1. poll' = poll \/ poll' = [poll EXCEPT !.at = "work", !.grant = None]
    BY <1>12 DEF Minted
  <2>. QED BY <1>0, <1>2, <1>3, <2>1 DEF PollType
<1>. QED
  BY <1>1, <1>2, <1>3, <1>4, <1>5, <1>6, <1>7, <1>8, <1>9, <1>10, <1>11, <1>12 DEF Step

\* What is acknowledged is dead already and stays so.
LEMMA DeadStep == ASSUME GrantsAssumption, GrantsInvariant, Step PROVE Dead'
<1> SUFFICES ASSUME NEW g \in Grant, g \in live' PROVE g \notin acked' /\ g \notin dead'
  <2>1. live' \subseteq Grant
    BY GrantsTypeStep DEF Typed, GrantsInvariant
  <2>. QED BY <2>1 DEF Dead
<1>1. Moves(g)
  BY GrantMoves DEF GrantsInvariant, New
<1>2. CASE Minted(g)
  <2>1. Untouched(g)
    BY <1>2 DEF Minted, GrantsInvariant, New
  <2>2. acked' = acked /\ (live' = live \/ dead' = dead)
    BY <1>2 DEF Minted
  <2>. QED BY <2>1, <2>2 DEF Untouched
<1>3. CASE g \in live /\ ~Minted(g)
  BY <1>1, <1>3 DEF Moves, AckedNow, GrantsInvariant, Dead
<1>. QED BY <1>1, <1>2, <1>3 DEF Moves

------------------------------------------------------------------------------
\* The row of a grant that is held is not answered again, so it was issued before
\* the step if it is after it.
LEMMA HeldIssued ==
  ASSUME GrantsAssumption, GrantsInvariant, Step, NEW g \in Grant, holds[g] > 0, GrantIssued(g)'
  PROVE  GrantIssued(g)
<1>1. PICK q \in Request : row'[q].status = "issued" /\ row'[q].grant = g /\ row'[q].age = "fresh"
  BY DEF GrantIssued
<1>2. CASE AllDecline
  BY <1>1, <1>2 DEF AllDecline, Declines, GrantIssued
<1>3. ASSUME NEW p \in Request, NEW h \in Grant, Answers(p, h) PROVE GrantIssued(g)
  <2>1. CASE q # p
    BY <1>1, <1>3, <2>1 DEF Answers, Declines, GrantIssued
  <2>2. CASE q = p
    <3>1. row'[q].grant = h /\ Of(q, g) /\ row[q].status = "pending"
      BY <1>1, <1>3, <2>2 DEF Answers, Declines, Of
    <3>. QED BY <3>1 DEF GrantsInvariant, Past
  <2>. QED BY <2>1, <2>2
<1>. QED BY <1>2, <1>3, RowsStep DEF GrantsInvariant

\* An issued grant has not lapsed, and its holder is a member under consent.
LEMMA IssuedEntitles ==
  ASSUME GrantsInvariant, NEW g \in Grant, GrantIssued(g)
  PROVE  g \notin lapsed /\ scene.member /\ scene.consent
<1>1. PICK q \in Request : row[q].status = "issued" /\ row[q].grant = g
  BY DEF GrantIssued
<1>. QED BY <1>1 DEF Of, GrantsInvariant, Past, Rowed

\* Whatever a use has checked, it has had its moment, or its grant is not issued
\* any more.
LEMMA UsedStep == ASSUME GrantsAssumption, GrantsInvariant, GrantsNext PROVE Used'
<1>0. Step /\ moment' = (use'.at # "idle" /\ (moment \/ Entitled'))
  BY DEF GrantsNext
<1>1. use \in UseType /\ Used /\ holds \in [Grant -> Nat]
  BY DEF GrantsInvariant, Typed
<1>2. \A g \in Grant : /\ holds[g] > 0 => holds'[g] > 0
                       /\ g \in lapsed => g \in lapsed'
  BY <1>0, <1>1, GrantDelivered, GrantMoves DEF Delivered, Moves, GrantsInvariant, New
<1>3. ASSUME use' = use PROVE Used'
  <2>1. use.at \in {"member", "grant"} /\ GrantIssued(use.grant)' => moment
    BY <1>0, <1>1, <1>3, HeldIssued DEF Used
  <2>2. use'.at \in {"member", "grant"} /\ GrantIssued(use.grant)' => moment'
    BY <1>0, <1>3, <2>1
  <2>. QED BY <1>0, <1>1, <1>2, <1>3, <2>2 DEF Used, GrantIssued
<1>4. ASSUME NEW g \in Grant, UseStarts(g) PROVE Used'
  <2>1. use' = [at |-> "session", grant |-> g, lapsed |-> g \in lapsed] /\ holds[g] > 0
    BY <1>4 DEF UseStarts
  <2>2. use'.at = "session" /\ use'.grant = g /\ (use'.lapsed => g \in lapsed)
    BY <2>1
  <2>. QED BY <1>0, <1>2, <2>1, <2>2 DEF Used
<1>5. ASSUME use' = NoUse PROVE Used'
  BY <1>5 DEF Used, NoUse
<1>6. ASSUME NEW next \in {"member", "grant", "relay", "served"}, use' = [use EXCEPT !.at = next], use.at # "idle"
      PROVE  /\ use'.at = next /\ use'.grant = use.grant /\ use'.lapsed = use.lapsed
             /\ use'.grant \in Grant /\ holds'[use'.grant] > 0 /\ (use'.lapsed => use'.grant \in lapsed')
             /\ moment => moment'
  <2>1. use'.at = next /\ use'.grant = use.grant /\ use'.lapsed = use.lapsed
    BY <1>1, <1>6 DEF UseType
  <2>. QED BY <1>0, <1>1, <1>2, <1>6, <2>1 DEF Used
<1>7. CASE TeamAuthorized
  <2>1. UNCHANGED <<scene, row>>
    BY <1>7 DEF TeamAuthorized
  <2>2. \A g : GrantIssued(g)' <=> GrantIssued(g)
    BY <2>1 DEF GrantIssued
  <2>3. CASE use.at = "session" /\ scene.open /\ scene.consent /\ use' = [use EXCEPT !.at = "member"]
    <3>1. use'.at = "member" /\ use'.grant = use.grant /\ use.grant \in Grant /\ (moment => moment')
          /\ holds'[use'.grant] > 0 /\ (use'.lapsed => use'.grant \in lapsed')
      BY <1>6, <2>3
    <3>2. GrantIssued(use.grant) => moment
      BY <1>1, <2>3, <3>1, IssuedEntitles DEF Used, Entitled
    <3>3. GrantIssued(use.grant)' => moment'
      BY <2>2, <3>1, <3>2
    <3>. QED BY <3>1, <3>3 DEF Used
  <2>4. CASE use.at = "member" /\ use' = [use EXCEPT !.at = "grant"]
    <3>1. use'.at = "grant" /\ use'.grant = use.grant /\ use.grant \in Grant /\ (moment => moment')
          /\ holds'[use'.grant] > 0 /\ (use'.lapsed => use'.grant \in lapsed')
      BY <1>6, <2>4
    <3>2. GrantIssued(use.grant)' => moment'
      BY <1>1, <2>2, <2>4, <3>1 DEF Used
    <3>. QED BY <3>1, <3>2 DEF Used
  <2>5. CASE use.at = "grant" /\ GrantIssued(use.grant) /\ use' = [use EXCEPT !.at = "relay"]
    <3>1. use'.at = "relay" /\ use'.grant = use.grant /\ use'.lapsed = use.lapsed /\ use.grant \in Grant /\ (moment => moment')
          /\ holds'[use'.grant] > 0 /\ (use'.lapsed => use'.grant \in lapsed')
      BY <1>6, <2>5
    <3>2. moment /\ ~use.lapsed
      BY <1>1, <2>5, <3>1, IssuedEntitles DEF Used
    <3>. QED BY <3>1, <3>2 DEF Used
  <2>. QED BY <1>5, <1>7, <2>3, <2>4, <2>5 DEF TeamAuthorized, Checks
<1>8. CASE Served
  <2>1. CASE use' = [use EXCEPT !.at = "served"] /\ use.at = "relay"
    <3>1. use'.at = "served" /\ use'.grant = use.grant /\ use'.lapsed = use.lapsed /\ (moment => moment')
          /\ use'.grant \in Grant /\ holds'[use'.grant] > 0 /\ (use'.lapsed => use'.grant \in lapsed')
      BY <1>6, <2>1
    <3>. QED BY <1>1, <2>1, <3>1 DEF Used
  <2>. QED BY <1>5, <1>8, <2>1 DEF Served, Checks
<1>9. CASE UseEnds
  BY <1>5, <1>9 DEF UseEnds
<1>10. ASSUME NEW q \in Request, Ask(q) \/ Fetch(q) \/ Ages(q) \/ Report(q) \/ RevokeGrant(q) PROVE use' = use
  BY <1>10 DEF Ask, Fetch, Ages, Report, RevokeGrant, Use
<1>11. CASE ConsentOff \/ ConsentOn \/ Leave \/ Join \/ CloseOrReopen \/ Resume \/ InvalidateMcpGrants
  BY <1>3, <1>11 DEF ConsentOff, ConsentOn, Leave, Join, CloseOrReopen, Resume, InvalidateMcpGrants, Use
<1>12. CASE (\E lost \in BOOLEAN : Poll(lost)) \/ MintFails \/ PollEnds
  BY <1>3, <1>12 DEF Poll, MintFails, PollEnds, Use
<1>13. ASSUME NEW q \in Request, NEW g \in Grant, MintAsked(q, g) \/ ReportMcpTeamGrant(q, g) PROVE use' = use
  BY <1>13 DEF MintAsked, ReportMcpTeamGrant, Use
<1>14. ASSUME NEW g \in Grant, Minted(g) \/ GrantExpires(g) PROVE use' = use
  BY <1>14 DEF Minted, GrantExpires, Use
<1>. QED
  BY <1>0, <1>3, <1>4, <1>7, <1>8, <1>9, <1>10, <1>11, <1>12, <1>13, <1>14 DEF Step

------------------------------------------------------------------------------
\* The strengthened invariant is inductive.
THEOREM GrantsInvariantHolds == ASSUME GrantsAssumption PROVE GrantsSpec => []GrantsInvariant
<1>1. GrantsInit => GrantsInvariant
  <2>1. {} \in SUBSET Request
    OBVIOUS
  <2>. QED BY <2>1, GrantsStart DEF GrantsInit
<1>2. GrantsInvariant /\ [GrantsNext]_grantVars => GrantsInvariant'
  <2>1. ASSUME GrantsInvariant, GrantsNext PROVE GrantsInvariant'
    <3>1. Step
      BY <2>1 DEF GrantsNext
    <3>2. Typed' /\ New' /\ OneRequest' /\ Past' /\ Rowed' /\ Minting' /\ Dead'
      BY <2>1, <3>1, GrantsTypeStep, NewStep, OneRequestStep, PastStep, RowedStep, MintingStep, DeadStep DEF GrantsInvariant
    <3>. QED BY <2>1, <3>2, UsedStep DEF GrantsInvariant
  <2>2. ASSUME GrantsInvariant, UNCHANGED grantVars PROVE GrantsInvariant'
    <3>1. Typed' /\ Rowed' /\ Dead'
      BY <2>2 DEF GrantsInvariant, grantVars, Typed, Rowed, Dead
    <3>2. New' /\ OneRequest' /\ Past'
      BY <2>2 DEF GrantsInvariant, grantVars, New, OneRequest, Past, Untouched, Of
    <3>3. Minting' /\ Used'
      BY <2>2 DEF GrantsInvariant, grantVars, Minting, First, Used, Entitled, GrantIssued
    <3>. QED BY <3>1, <3>2, <3>3 DEF GrantsInvariant
  <2>. QED BY <2>1, <2>2
<1>. QED BY <1>1, <1>2, PTL DEF GrantsSpec

\* Every variable keeps its type: rows that are issued name a grant that was
\* drawn, and no grant is live and dead at once (mcp_team.go, worker/index.ts).
THEOREM GrantsTypeCorrect == ASSUME GrantsAssumption PROVE GrantsSpec => []GrantsTypeOK
<1>1. GrantsInvariant => GrantsTypeOK
  <2> SUFFICES ASSUME GrantsInvariant PROVE GrantsTypeOK
    OBVIOUS
  <2>1. \A q \in Request :
          /\ row[q].status \in {"none", "pending", "issued", "revoked", "gone"}
          /\ row[q].age \in {"fresh", "late", "old"}
          /\ row[q].bearer => row[q].grant # None
    BY DEF GrantsInvariant, Typed, RowType, Rowed
  <2>2. \A q \in Request, g \in Grant : Of(q, g) => g \in drawn
    BY DEF GrantsInvariant, New, Untouched
  <2>3. \A q \in Request : /\ row[q].status = "issued" => row[q].grant \in drawn
                           /\ minted[q] \in drawn \cup {None}
    BY <2>2 DEF GrantsInvariant, Typed, Rowed, Of
  <2>4. live \cup dead \subseteq drawn /\ live \cap dead = {}
    BY DEF GrantsInvariant, New, Untouched, Dead, Typed
  <2>5. scene \in [member : BOOLEAN, consent : BOOLEAN, open : BOOLEAN]
    BY DEF GrantsInvariant, Typed
  <2>6. poll.issues \cup poll.revoke \subseteq Request /\ use.grant \in Grant \cup {None}
    BY DEF GrantsInvariant, Typed, PollType, UseType
  <2>. QED BY <2>1, <2>3, <2>4, <2>5, <2>6 DEF GrantsTypeOK
<1>. QED BY <1>1, GrantsInvariantHolds, PTL

\* "the ack deletes the service's row, so it must follow a grant that is actually
\* dead" (mcp_team.go:212): however calls fail or come late, nobody can use a
\* grant the host has acknowledged as revoked.
THEOREM AcknowledgedAreDead == ASSUME GrantsAssumption PROVE GrantsSpec => []AckedOnlyDead
<1>1. GrantsInvariant => AckedOnlyDead
  BY DEF GrantsInvariant, Dead, AckedOnlyDead
<1>. QED BY <1>1, GrantsInvariantHolds, PTL

\* Three reads that are not atomic, and all the same no call is served unless at
\* one moment of it membership, consent, the session and the grant entitled its
\* holder (teamAuthorization); and a removal or a consent withdrawn before the
\* call began ends it, whatever was given again meanwhile (worker/index.ts:1609).
THEOREM ServedAreEntitled == ASSUME GrantsAssumption PROVE GrantsSpec => []ServedOnlyEntitled
<1>1. GrantsInvariant => ServedOnlyEntitled
  BY DEF GrantsInvariant, Used, ServedOnlyEntitled
<1>. QED BY <1>1, GrantsInvariantHolds, PTL

------------------------------------------------------------------------------
(* Session records and password copies.                                       *)

CallType == [kind : Kinds, who : People, run : 0..MaxRuns, link : 1..MaxLinks]

\* No word about the machine is from a run to come.  A close of a run is sent
\* when its program has ended, and an answer that the session is missing stays
\* true for its run: only another run makes the relay take it up again.
Word ==
  /\ entry.run <= machine.run /\ closer <= machine.run /\ cache.run <= machine.run
  /\ \A c \in calls : c.run <= machine.run
  /\ cache.says = "missing" /\ cache.run = machine.run => relay = "missing"
  /\ \A c \in calls : c.kind = "close" /\ c.run = machine.run => ~machine.alive

\* Unless calls went astray, all of them carry the machine's password, and one
\* that replaces what is stored is under way if that is another.
Current ==
  ~astray =>
    /\ \A c \in calls : c.link = machine.link
    /\ \/ \E c \in calls : c.kind = "rotate"
       \/ entry.there => entry.link = machine.link /\ \A p \in People : share[p] \in {0, machine.link}

RecordsInvariant == RecordsTypeOK /\ Word /\ Current /\ ClosedByOldWordOnly

\* Nothing is recorded at the start.
LEMMA RecordsStart == ASSUME RecordsAssumption PROVE RecordsInit => RecordsInvariant
<1> USE RecordsAssumption DEF RecordsAssumption, RecordsInit, NoEntry, Unknown, People
<1>1. RecordsInit => RecordsTypeOK
  <2> SUFFICES ASSUME RecordsInit PROVE RecordsTypeOK
    OBVIOUS
  <2>1. machine \in [persistent : BOOLEAN, run : 0..MaxRuns, alive : BOOLEAN, link : 1..MaxLinks]
    OBVIOUS
  <2>2. entry \in [there : BOOLEAN, run : 0..MaxRuns, open : BOOLEAN, link : 0..MaxLinks]
    OBVIOUS
  <2>3. cache \in [says : {"unknown", "live", "away", "missing"}, run : 0..MaxRuns] /\ closer \in 0..MaxRuns
    OBVIOUS
  <2>4. share \in [People -> 0..MaxLinks] /\ ask \in [Colleagues -> {"none", "pending", "answered"}]
    OBVIOUS
  <2>. QED BY <2>1, <2>2, <2>3, <2>4 DEF RecordsTypeOK
<1>2. RecordsInit => Word /\ Current /\ ClosedByOldWordOnly
  BY DEF Word, Current, ClosedByOldWordOnly, Registered
<1>. QED BY <1>1, <1>2 DEF RecordsInvariant

\* A call has its type when it leaves and when it is turned into another.
LEMMA CallTyped ==
  ASSUME RecordsAssumption, RecordsTypeOK
  PROVE  /\ \A kind \in Kinds, who \in People, link \in 1..MaxLinks : Call(kind, who, link) \in CallType
         /\ machine.run < MaxRuns => [Call("register", Owner, machine.link) EXCEPT !.run = machine.run + 1] \in CallType
         /\ \A c \in calls : [c EXCEPT !.kind = "keep"] \in CallType
  BY DEF RecordsAssumption, RecordsTypeOK, CallType, Call, Kinds, People

\* No step of the machine, the service or the people takes a variable out of
\* its type, and copies go with the row.
LEMMA RecordsTypeStep == ASSUME RecordsAssumption, RecordsTypeOK, [RecordsNext]_recordVars PROVE RecordsTypeOK'
<1> USE RecordsAssumption DEF RecordsAssumption, RecordsTypeOK, CallType, Service, Arrives
<1>1. CASE Start
  BY <1>1, CallTyped DEF Start, Send
<1>2. CASE Rotate
  <2>1. Call("rotate", Owner, machine.link + 1) \in CallType
    BY <1>2, CallTyped DEF Rotate, Kinds, People
  <2>. QED BY <1>2, <2>1 DEF Rotate, Send
<1>3. CASE Exit
  <2>1. Call("close", Owner, machine.link) \in CallType
    BY CallTyped DEF Kinds, People
  <2>. QED BY <1>3, <2>1 DEF Exit, Send
<1>4. CASE PowerLost \/ HostConnects \/ SocketEnds \/ RelayExpires
  BY <1>4 DEF PowerLost, HostConnects, SocketEnds, RelayExpires
<1>5. CASE DeleteSession
  BY <1>5 DEF DeleteSession, NoEntry
<1>6. CASE Query
  BY <1>6 DEF Query
<1>7. CASE ListSessions
  BY <1>7 DEF ListSessions
<1>8. CASE CloseEndedSessions
  BY <1>8 DEF CloseEndedSessions
<1>9. ASSUME NEW c \in calls, UpsertSession(c) PROVE RecordsTypeOK'
  BY <1>9, CallTyped DEF UpsertSession
<1>10. ASSUME NEW c \in calls, PutKeyShares(c) PROVE RecordsTypeOK'
  BY <1>10 DEF PutKeyShares
<1>11. ASSUME NEW c \in calls, RotateSessionCredentials(c) PROVE RecordsTypeOK'
  BY <1>11 DEF RotateSessionCredentials
<1>12. ASSUME NEW c \in calls, CloseSession(c) PROVE RecordsTypeOK'
  BY <1>12 DEF CloseSession
<1>13. ASSUME NEW c \in calls, ResolvePasswordRequest(c) PROVE RecordsTypeOK'
  BY <1>13 DEF ResolvePasswordRequest
<1>14. ASSUME NEW c \in calls, Lost(c) PROVE RecordsTypeOK'
  BY <1>14 DEF Lost
<1>15. ASSUME NEW c \in Colleagues, RequestSessionPassword(c) \/ Decline(c) PROVE RecordsTypeOK'
  BY <1>15 DEF RequestSessionPassword, Decline
<1>16. ASSUME NEW c \in Colleagues, Accept(c) PROVE RecordsTypeOK'
  <2>1. Call("approve", c, share[Owner]) \in CallType
    BY <1>16, CallTyped DEF Accept, Kinds, People
  <2>. QED BY <1>16, <2>1 DEF Accept, Send
<1>17. ASSUME NEW c \in Colleagues, Keep(c) PROVE RecordsTypeOK'
  <2>1. Call("keep", c, machine.link) \in CallType
    BY CallTyped DEF Kinds, People
  <2>. QED BY <1>17, <2>1 DEF Keep, Send
<1>18. CASE UNCHANGED recordVars
  BY <1>18 DEF recordVars
<1>. QED
  BY <1>1, <1>2, <1>3, <1>4, <1>5, <1>6, <1>7, <1>8, <1>9, <1>10, <1>11, <1>12, <1>13, <1>14, <1>15,
     <1>16, <1>17, <1>18 DEF RecordsNext
\* No step makes word of a run newer than it is.
LEMMA WordStep == ASSUME RecordsAssumption, RecordsTypeOK, Word, [RecordsNext]_recordVars PROVE Word'
<1> USE RecordsAssumption DEF RecordsTypeOK, Word, CallType, Service, Arrives
<1>1. CASE Start
  BY <1>1 DEF Start, Send, Call
<1>2. CASE Rotate
  BY <1>2 DEF Rotate, Send, Call
<1>3. CASE Exit
  BY <1>3 DEF Exit, Send, Call
<1>4. CASE PowerLost \/ HostConnects \/ SocketEnds
  BY <1>4 DEF PowerLost, HostConnects, SocketEnds
<1>5. CASE RelayExpires
  BY <1>5 DEF RelayExpires
<1>6. CASE DeleteSession
  BY <1>6 DEF DeleteSession, NoEntry
<1>7. CASE Query
  BY <1>7 DEF Query
<1>8. CASE ListSessions
  BY <1>8 DEF ListSessions
<1>9. CASE CloseEndedSessions
  BY <1>9 DEF CloseEndedSessions, RelaySaysEnded
<1>10. ASSUME NEW c \in calls, UpsertSession(c) PROVE Word'
  BY <1>10 DEF UpsertSession
<1>11. ASSUME NEW c \in calls, PutKeyShares(c) PROVE Word'
  BY <1>11 DEF PutKeyShares
<1>12. ASSUME NEW c \in calls, RotateSessionCredentials(c) PROVE Word'
  BY <1>12 DEF RotateSessionCredentials
<1>13. ASSUME NEW c \in calls, CloseSession(c) PROVE Word'
  BY <1>13 DEF CloseSession
<1>14. ASSUME NEW c \in calls, ResolvePasswordRequest(c) PROVE Word'
  BY <1>14 DEF ResolvePasswordRequest
<1>15. ASSUME NEW c \in calls, Lost(c) PROVE Word'
  BY <1>15 DEF Lost
<1>16. ASSUME NEW c \in Colleagues, RequestSessionPassword(c) PROVE Word'
  BY <1>16 DEF RequestSessionPassword
<1>17. ASSUME NEW c \in Colleagues, Accept(c) PROVE Word'
  BY <1>17 DEF Accept, Send, Call
<1>18. ASSUME NEW c \in Colleagues, Decline(c) PROVE Word'
  BY <1>18 DEF Decline
<1>19. ASSUME NEW c \in Colleagues, Keep(c) PROVE Word'
  BY <1>19 DEF Keep, Send, Call
<1>20. CASE UNCHANGED recordVars
  BY <1>20 DEF recordVars
<1>. QED
  BY <1>1, <1>2, <1>3, <1>4, <1>5, <1>6, <1>7, <1>8, <1>9, <1>10, <1>11, <1>12, <1>13, <1>14, 
     <1>15, <1>16, <1>17, <1>18, <1>19, <1>20 DEF RecordsNext

\* A close of a run comes only once its program has ended, and an answer that
\* closes it only while the relay has no such session.
LEMMA ClosedStep ==
  ASSUME RecordsAssumption, RecordsTypeOK, Word, ClosedByOldWordOnly, [RecordsNext]_recordVars PROVE ClosedByOldWordOnly'
<1> USE RecordsAssumption DEF RecordsTypeOK, Word, ClosedByOldWordOnly, Registered, CallType, Service, Arrives
<1>1. CASE Start
  BY <1>1 DEF Start, Send, Call
<1>2. CASE Rotate
  BY <1>2 DEF Rotate, Send, Call
<1>3. CASE Exit
  BY <1>3 DEF Exit, Send, Call
<1>4. CASE PowerLost \/ HostConnects \/ SocketEnds
  BY <1>4 DEF PowerLost, HostConnects, SocketEnds
<1>5. CASE RelayExpires
  BY <1>5 DEF RelayExpires
<1>6. CASE DeleteSession
  BY <1>6 DEF DeleteSession, NoEntry
<1>7. CASE Query
  BY <1>7 DEF Query
<1>8. CASE ListSessions
  BY <1>8 DEF ListSessions
<1>9. CASE CloseEndedSessions
  BY <1>9 DEF CloseEndedSessions, RelaySaysEnded
<1>10. ASSUME NEW c \in calls, UpsertSession(c) PROVE ClosedByOldWordOnly'
  BY <1>10 DEF UpsertSession
<1>11. ASSUME NEW c \in calls, PutKeyShares(c) PROVE ClosedByOldWordOnly'
  BY <1>11 DEF PutKeyShares
<1>12. ASSUME NEW c \in calls, RotateSessionCredentials(c) PROVE ClosedByOldWordOnly'
  BY <1>12 DEF RotateSessionCredentials
<1>13. ASSUME NEW c \in calls, CloseSession(c) PROVE ClosedByOldWordOnly'
  BY <1>13 DEF CloseSession
<1>14. ASSUME NEW c \in calls, ResolvePasswordRequest(c) PROVE ClosedByOldWordOnly'
  BY <1>14 DEF ResolvePasswordRequest
<1>15. ASSUME NEW c \in calls, Lost(c) PROVE ClosedByOldWordOnly'
  BY <1>15 DEF Lost
<1>16. ASSUME NEW c \in Colleagues, RequestSessionPassword(c) PROVE ClosedByOldWordOnly'
  BY <1>16 DEF RequestSessionPassword
<1>17. ASSUME NEW c \in Colleagues, Accept(c) PROVE ClosedByOldWordOnly'
  BY <1>17 DEF Accept, Send, Call
<1>18. ASSUME NEW c \in Colleagues, Decline(c) PROVE ClosedByOldWordOnly'
  BY <1>18 DEF Decline
<1>19. ASSUME NEW c \in Colleagues, Keep(c) PROVE ClosedByOldWordOnly'
  BY <1>19 DEF Keep, Send, Call
<1>20. CASE UNCHANGED recordVars
  BY <1>20 DEF recordVars
<1>. QED
  BY <1>1, <1>2, <1>3, <1>4, <1>5, <1>6, <1>7, <1>8, <1>9, <1>10, <1>11, <1>12, <1>13, <1>14, 
     <1>15, <1>16, <1>17, <1>18, <1>19, <1>20 DEF RecordsNext

\* A password under way is the machine's: another would have sent the calls
\* astray.
LEMMA CurrentStep ==
  ASSUME RecordsAssumption, RecordsTypeOK, Current, [RecordsNext]_recordVars PROVE Current'
<1> USE RecordsAssumption DEF RecordsTypeOK, Current, CallType, Service, Arrives
<1>1. CASE Start
  BY <1>1 DEF Start, Send, Call
<1>2. CASE Rotate
  <2> DEFINE new == Call("rotate", Owner, machine.link + 1)
  <2>1. new.link = machine.link + 1 /\ new.kind = "rotate"
    BY DEF Call
  <2>2. machine'.link = machine.link + 1 /\ calls' = calls \cup {new}
    BY <1>2 DEF Rotate, Send
  <2>3. ASSUME ~astray' PROVE ~astray /\ calls = {}
    <3>1. ~astray /\ \A d \in calls : d.link = new.link
      BY <1>2, <2>3 DEF Rotate, Send
    <3>. QED BY <2>1, <3>1
  <2>. HIDE DEF new
  <2>. QED BY <2>1, <2>2, <2>3
<1>3. CASE Exit
  BY <1>3 DEF Exit, Send, Call
<1>4. CASE PowerLost \/ HostConnects \/ SocketEnds
  BY <1>4 DEF PowerLost, HostConnects, SocketEnds
<1>5. CASE RelayExpires
  BY <1>5 DEF RelayExpires
<1>6. CASE DeleteSession
  BY <1>6 DEF DeleteSession, NoEntry
<1>7. CASE Query
  BY <1>7 DEF Query
<1>8. CASE ListSessions
  BY <1>8 DEF ListSessions
<1>9. CASE CloseEndedSessions
  BY <1>9 DEF CloseEndedSessions, RelaySaysEnded
<1>10. ASSUME NEW c \in calls, UpsertSession(c) PROVE Current'
  BY <1>10 DEF UpsertSession
<1>11. ASSUME NEW c \in calls, PutKeyShares(c) PROVE Current'
  BY <1>11 DEF PutKeyShares
<1>12. ASSUME NEW c \in calls, RotateSessionCredentials(c) PROVE Current'
  BY <1>12 DEF RotateSessionCredentials
<1>13. ASSUME NEW c \in calls, CloseSession(c) PROVE Current'
  BY <1>13 DEF CloseSession
<1>14. ASSUME NEW c \in calls, ResolvePasswordRequest(c) PROVE Current'
  BY <1>14 DEF ResolvePasswordRequest
<1>15. ASSUME NEW c \in calls, Lost(c) PROVE Current'
  BY <1>15 DEF Lost
<1>16. ASSUME NEW c \in Colleagues, RequestSessionPassword(c) PROVE Current'
  BY <1>16 DEF RequestSessionPassword
<1>17. ASSUME NEW c \in Colleagues, Accept(c) PROVE Current'
  <2> DEFINE new == Call("approve", c, share[Owner])
  <2>1. new.link = share[Owner]
    BY DEF Call
  <2>2. calls' = calls \cup {new} /\ UNCHANGED <<machine, entry, share>> /\ entry.there /\ share[Owner] # 0
    BY <1>17 DEF Accept, Send
  <2>3. ASSUME ~astray' PROVE ~astray /\ share[Owner] = machine.link
    <3>1. ~astray /\ \A d \in calls : d.link = share[Owner]
      BY <1>17, <2>1, <2>3 DEF Accept, Send
    <3>2. CASE calls = {}
      BY <2>2, <3>1, <3>2 DEF People
    <3>3. CASE calls # {}
      BY <3>1, <3>3
    <3>. QED BY <3>2, <3>3
  <2>. HIDE DEF new
  <2>. QED BY <2>1, <2>2, <2>3
<1>18. ASSUME NEW c \in Colleagues, Decline(c) PROVE Current'
  BY <1>18 DEF Decline
<1>19. ASSUME NEW c \in Colleagues, Keep(c) PROVE Current'
  BY <1>19 DEF Keep, Send, Call
<1>20. CASE UNCHANGED recordVars
  BY <1>20 DEF recordVars
<1>. QED
  BY <1>1, <1>2, <1>3, <1>4, <1>5, <1>6, <1>7, <1>8, <1>9, <1>10, <1>11, <1>12, <1>13, <1>14, 
     <1>15, <1>16, <1>17, <1>18, <1>19, <1>20 DEF RecordsNext

LEMMA RecordsStep == ASSUME RecordsAssumption PROVE RecordsInvariant /\ [RecordsNext]_recordVars => RecordsInvariant'
  BY RecordsTypeStep, WordStep, ClosedStep, CurrentStep DEF RecordsInvariant

\* Every variable of a session's record keeps its type (the tables sessions,
\* session_key_shares and session_password_requests), and the copies of a
\* deleted session are gone.
THEOREM RecordsTypeCorrect == ASSUME RecordsAssumption PROVE RecordsSpec => []RecordsTypeOK
<1>1. RecordsInvariant => RecordsTypeOK
  BY DEF RecordsInvariant
<1>. QED BY RecordsStart, RecordsStep, <1>1, PTL DEF RecordsSpec

\* A running session that shows as over was closed by word from an earlier run,
\* or the relay has forgotten it (session-reconcile.ts:23).
THEOREM ClosedOnlyByOldWord == ASSUME RecordsAssumption PROVE RecordsSpec => []ClosedByOldWordOnly
<1>1. RecordsInvariant => ClosedByOldWordOnly
  BY DEF RecordsInvariant
<1>. QED BY RecordsStart, RecordsStep, <1>1, PTL DEF RecordsSpec

\* Every sealed copy of a password opens the session, when nothing is under
\* way and no call went astray (use-session-password.ts:9).
THEOREM CopiesAreCurrent == ASSUME RecordsAssumption PROVE RecordsSpec => []CopiesOpen
<1>1. RecordsInvariant => CopiesOpen
  BY DEF RecordsInvariant, Current, CopiesOpen
<1>. QED BY RecordsStart, RecordsStep, <1>1, PTL DEF RecordsSpec

===============================================================================
