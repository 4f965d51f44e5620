------------------------------ MODULE TeamGrants ------------------------------
(* A teammate's MCP grants on one session: the request rows of the accounts   *)
(* service (app/server/lib/store-postgres.ts), the session's own machine,     *)
(* which polls for work, mints and revokes (cmd/shell/mcp_team.go), the relay *)
(* which keeps the grants (worker/index.ts), and the check every use of a     *)
(* grant makes (worker/team-authorization.ts).  Store calls are transactions  *)
(* behind one lock, and so one step; the use-time check is three reads.       *)
EXTENDS Naturals, FiniteSets

CONSTANTS Request,                     \* requests, 1..n in the order of their creation
          Grant,                       \* grant ids the relay can draw
          None,
          PendingLimit, IssuedLimit,   \* MCP_TEAM_PENDING_LIMIT, MCP_TEAM_ISSUED_LIMIT
          MaxLive,                     \* MAX_GRANTS_PER_RUN
          MaxChanges                   \* bound: how often membership, consent or the run changes

GrantsAssumption == None \notin Request \cup Grant /\ Request = 1..Cardinality(Request)

VARIABLES
  scene,   \* the session's row and membership: [member, consent, open]
  row,     \* [Request -> row of mcp_team_grants]
  holds,   \* the bearers delivered to the teammate: a bag of grants
  poll,    \* the host's poll: what it is at, the work it has left
  minted,  \* the host's memory: [Request -> Grant or None]
  live,    \* the relay: live grants of the current run
  dead,    \* the relay: revoked or expired grants it still has a record of
  drawn,   \* grant ids handed out so far
  sent,    \* reports on their way to the accounts service: pairs of a request and a grant
  mint,    \* the relay: mint handlers between the quota and the record, [Grant -> "none" or the run]
  use,     \* one use of a grant: what it has checked
  moment,  \* history: some moment of this use, everything that entitles to it held
  lapsed,  \* history: grants whose holder left, or whose consent ended, after they were issued
  acked,   \* history: grants the host has acknowledged as revoked
  changes

grantVars == <<scene, row, holds, poll, minted, live, dead, drawn, sent, mint, use, moment, lapsed, acked, changes>>

NoRow == [status |-> "none", grant |-> None, bearer |-> FALSE, age |-> "fresh"]
Over == [NoRow EXCEPT !.status = "gone"]
Listening == [at |-> "idle", issues |-> {}, revoke |-> {}, grant |-> None]
NoUse == [at |-> "idle", grant |-> None, lapsed |-> FALSE]

(* Some requests may be over already, and some changes made.                  *)
InitFrom(over, made) ==
  /\ scene = [member |-> TRUE, consent |-> TRUE, open |-> TRUE]
  /\ row = [q \in Request |-> IF q \in over THEN Over ELSE NoRow]
  /\ holds = [g \in Grant |-> 0]
  /\ poll = Listening
  /\ minted = [q \in Request |-> None]
  /\ live = {} /\ dead = {} /\ drawn = {} /\ sent = {}
  /\ mint = [g \in Grant |-> "none"]
  /\ use = NoUse /\ moment = FALSE
  /\ lapsed = {} /\ acked = {} /\ changes = made

GrantsInit == InitFrom({}, 0)

With(rows, status) == {q \in Request : rows[q].status = status}
Younger(rows, q) == {p \in With(rows, rows[q].status) : p >= q}
Revoked(r) == [r EXCEPT !.status = "revoked", !.age = "fresh"]

(* trimMcpTeamRows: rows past their grace go, rows over a cap are revoked, the *)
(* newest staying.                                                            *)
Trim(rows) ==
  LET kept == [q \in Request |-> IF rows[q].age = "old" THEN Over ELSE rows[q]]
      TooMany(q, status, limit) == kept[q].status = status /\ Cardinality(Younger(kept, q)) > limit
  IN [q \in Request |-> IF TooMany(q, "pending", PendingLimit) \/ TooMany(q, "issued", IssuedLimit)
                        THEN Revoked(kept[q]) ELSE kept[q]]

(* Every live row of the teammate, revoked.                                   *)
RevokeAll(rows) == [q \in Request |-> IF rows[q].status \in {"pending", "issued"} THEN Revoked(rows[q]) ELSE rows[q]]

Host == <<poll, minted, sent>>
Relay == <<live, dead, drawn, mint>>
Use == <<use>>

------------------------------------------------------------------------------
(* The teammate.                                                              *)

(* requestMcpTeamGrant; the route has read the membership before, the         *)
(* transaction does not read it again.                                        *)
Ask(q) ==
  LET rows == Trim(row) IN
  /\ row[q].status = "none" /\ \A p \in Request : p < q => row[p].status # "none"
  /\ scene.open /\ scene.consent
  /\ Cardinality({p \in With(rows, "pending") : rows[p].age = "fresh"}) < PendingLimit
  /\ row' = Trim([rows EXCEPT ![q].status = "pending"])
  /\ UNCHANGED <<scene, holds, Host, Relay, Use, lapsed, acked, changes>>

(* mcpTeamRequest: what no longer holds is revoked first, then the bearer, if *)
(* it is still there, is handed out and forgotten in the same transaction.    *)
(* The answer may be lost.                                                    *)
Fetch(q) ==
  LET rows == Trim(row)
      void == \/ rows[q].status = "issued" /\ rows[q].age # "fresh"
              \/ ~scene.open \/ ~scene.consent \/ ~scene.member
  IN
  /\ row[q].status \in {"pending", "issued"} /\ rows[q].status \in {"pending", "issued"}
  /\ \/ /\ void
        /\ row' = [rows EXCEPT ![q] = [Revoked(@) EXCEPT !.bearer = FALSE]]
        /\ UNCHANGED holds
     \/ /\ ~void /\ rows[q].bearer
        /\ row' = [rows EXCEPT ![q].bearer = FALSE]
        /\ holds' = [holds EXCEPT ![rows[q].grant] = @ + 1]
     \/ /\ ~void /\ rows[q].bearer
        /\ row' = [rows EXCEPT ![q].bearer = FALSE]
        /\ UNCHANGED holds
  /\ UNCHANGED <<scene, Host, Relay, Use, lapsed, acked, changes>>

------------------------------------------------------------------------------
(* What happens to the session and the team meanwhile.                        *)

Changes == changes < MaxChanges /\ changes' = changes + 1
Lapses == lapsed' = lapsed \cup {row[q].grant : q \in With(row, "issued")}

(* setSessionAutomationConsent.                                               *)
ConsentOff ==
  /\ scene.consent /\ Changes /\ Lapses
  /\ scene' = [scene EXCEPT !.consent = FALSE]
  /\ row' = [q \in Request |-> IF row[q].status \in {"pending", "issued"}
                               THEN [Revoked(row[q]) EXCEPT !.bearer = FALSE] ELSE row[q]]
  /\ UNCHANGED <<holds, Host, Relay, Use, acked>>

ConsentOn ==
  /\ ~scene.consent
  /\ scene' = [scene EXCEPT !.consent = TRUE]
  /\ UNCHANGED <<row, holds, Host, Relay, Use, lapsed, acked, changes>>

(* The store's removeMember, and deleteAccount as far as it concerns this:    *)
(* the membership and the live requests of that person in one transaction.    *)
Leave ==
  /\ scene.member /\ Changes /\ Lapses
  /\ scene' = [scene EXCEPT !.member = FALSE]
  /\ row' = RevokeAll(row)
  /\ UNCHANGED <<holds, Host, Relay, Use, acked>>

Join ==
  /\ ~scene.member
  /\ scene' = [scene EXCEPT !.member = TRUE]
  /\ UNCHANGED <<row, holds, Host, Relay, Use, lapsed, acked, changes>>

(* patchSession leaves the rows alone; a registration opens the row again.    *)
CloseOrReopen ==
  /\ Changes
  /\ scene' = [scene EXCEPT !.open = ~@]
  /\ UNCHANGED <<row, holds, Host, Relay, Use, lapsed, acked>>

(* The clock: a request's deadline or a grant's life ends; an hour later the  *)
(* row may go.                                                                *)
Ages(q) ==
  /\ row[q].status \in {"pending", "issued", "revoked"}
  /\ row' = [row EXCEPT ![q].age = IF @ = "fresh" /\ row[q].status # "revoked" THEN "late" ELSE "old"]
  /\ IF row[q].status = "issued" /\ row[q].grant \in live
     THEN live' = live \ {row[q].grant} /\ dead' = dead \cup {row[q].grant} ELSE UNCHANGED <<live, dead>>
  /\ UNCHANGED <<scene, holds, Host, drawn, mint, Use, lapsed, acked, changes>>

(* A grant no request was answered with runs out alone.                       *)
GrantExpires(g) ==
  /\ g \in live /\ \A q \in Request : ~(row[q].status = "issued" /\ row[q].grant = g)
  /\ live' = live \ {g} /\ dead' = dead \cup {g}
  /\ UNCHANGED <<scene, row, holds, Host, drawn, mint, Use, lapsed, acked, changes>>

(* A rotation of the session's password, or the owner, revokes all grants.    *)
InvalidateMcpGrants ==
  /\ live # {} /\ Changes
  /\ live' = {} /\ dead' = dead \cup live
  /\ UNCHANGED <<scene, row, holds, Host, drawn, mint, Use, lapsed, acked>>

(* A new run of a persistent session: the relay forgets the run's grants, the *)
(* host is a new process.                                                     *)
Resume ==
  /\ Changes
  /\ live' = {} /\ dead' = {}
  /\ mint' = [g \in Grant |-> IF mint[g] = "now" THEN "before" ELSE mint[g]]
  /\ poll' = Listening /\ minted' = [q \in Request |-> None]
  /\ scene' = [scene EXCEPT !.open = TRUE]
  /\ UNCHANGED <<row, holds, drawn, sent, Use, lapsed, acked>>

------------------------------------------------------------------------------
(* The session's machine: one poll at a time, its issues before its           *)
(* revocations, oldest first.  Every call may fail after it took effect.      *)

(* listMcpTeamRequests.                                                       *)
Poll(lost) ==
  LET seen == Trim(IF scene.consent /\ scene.member THEN row ELSE RevokeAll(row))
      issues == {q \in With(seen, "pending") : seen[q].age = "fresh"}
      revoke == {q \in With(seen, "revoked") : seen[q].grant # None}
  IN
  /\ poll.at = "idle" /\ scene.open
  /\ row' = seen
  /\ IF lost THEN UNCHANGED <<poll, minted>>
     ELSE /\ poll' = [at |-> "work", issues |-> issues, revoke |-> revoke, grant |-> None]
          /\ minted' = [q \in Request |-> IF q \in issues \cup revoke THEN minted[q] ELSE None]
  /\ UNCHANGED <<scene, holds, sent, Relay, Use, lapsed, acked, changes>>

First(s) == CHOOSE q \in s : \A p \in s : q <= p
Issuing(q) == poll.at = "work" /\ poll.issues # {} /\ q = First(poll.issues)
Revoking(q) == poll.at = "work" /\ poll.issues = {} /\ poll.revoke # {} /\ q = First(poll.revoke)

(* createMcpGrant up to the keys it awaits: the quota is read here.           *)
MintAsked(q, g) ==
  /\ Issuing(q) /\ minted[q] = None
  /\ g \notin drawn /\ \A h \in Grant : mint[h] = "none" \/ h # g
  /\ IF Cardinality(live) < MaxLive
     THEN /\ mint' = [mint EXCEPT ![g] = "now"] /\ drawn' = drawn \cup {g}
          /\ poll' = [poll EXCEPT !.at = "mint", !.grant = g]
     ELSE /\ poll' = [poll EXCEPT !.issues = @ \ {q}]
          /\ UNCHANGED <<mint, drawn>>
  /\ UNCHANGED <<scene, row, holds, minted, sent, live, dead, Use, lapsed, acked, changes>>

(* The record is added, and the host, if it still waits, remembers the grant. *)
(* A run that began meanwhile gets the record of a bearer of the run before,  *)
(* which no use accepts.                                                      *)
Minted(g) ==
  LET waiting == poll.at = "mint" /\ poll.grant = g IN
  /\ mint[g] # "none"
  /\ mint' = [mint EXCEPT ![g] = "none"]
  /\ IF mint[g] = "now" THEN live' = live \cup {g} /\ UNCHANGED dead ELSE dead' = dead \cup {g} /\ UNCHANGED live
  /\ IF waiting THEN /\ minted' = [minted EXCEPT ![First(poll.issues)] = g]
                     /\ poll' = [poll EXCEPT !.at = "work", !.grant = None]
     ELSE UNCHANGED <<poll, minted>>
  /\ UNCHANGED <<scene, row, holds, drawn, sent, Use, lapsed, acked, changes>>

(* The poll's ten seconds are over, or the answer is lost.                    *)
MintFails ==
  /\ poll.at = "mint"
  /\ poll' = [poll EXCEPT !.at = "work", !.grant = None, !.issues = @ \ {First(@)}]
  /\ UNCHANGED <<scene, row, holds, minted, sent, Relay, Use, lapsed, acked, changes>>

(* The report of a grant minted for this request, now or in an earlier poll.  *)
(* It may arrive after the host has given it up, or never.                    *)
Report(q) ==
  /\ Issuing(q) /\ minted[q] # None
  /\ poll' = [poll EXCEPT !.issues = @ \ {q}]
  /\ sent' = sent \cup {<<q, minted[q]>>}
  /\ UNCHANGED <<scene, row, holds, minted, Relay, Use, lapsed, acked, changes>>

(* reportMcpTeamGrant.                                                        *)
ReportMcpTeamGrant(q, g) ==
  LET r == row[q]
      sealed == [status |-> "issued", grant |-> g, bearer |-> TRUE, age |-> "fresh"]
  IN
  /\ <<q, g>> \in sent /\ sent' = sent \ {<<q, g>>}
  /\ row' = IF ~scene.open \/ r.status # "pending" THEN row
            ELSE IF r.age # "fresh" \/ ~scene.member \/ ~scene.consent
            THEN [row EXCEPT ![q] = Revoked(@)]
            ELSE Trim([row EXCEPT ![q] = sealed])
  /\ UNCHANGED <<scene, holds, poll, minted, Relay, Use, lapsed, acked, changes>>

(* Mutant: the acknowledgement does not wait for the revocation. *)
RevokeGrantHasty(q) ==
  /\ Revoking(q)
  /\ poll' = [poll EXCEPT !.revoke = @ \ {q}]
  /\ row' = [row EXCEPT ![q] = Over] /\ acked' = acked \cup {row[q].grant}
  /\ UNCHANGED <<scene, holds, minted, sent, Relay, Use, lapsed, changes>>

(* revokeGrant: the relay first, which answers only for a grant it has a      *)
(* record of; then the acknowledgement, which deletes the row.  After a       *)
(* failure of either the row waits for the next poll.                         *)
RevokeGrant(q) ==
  LET g == row[q].grant
      died == live' = live \ {g} /\ dead' = dead \cup {g}
  IN
  /\ Revoking(q)
  /\ poll' = [poll EXCEPT !.revoke = @ \ {q}]
  /\ \/ UNCHANGED <<live, dead, row, acked>>
     \/ /\ g \in live /\ died
        /\ UNCHANGED <<row, acked>>
     \/ /\ g \in live \cup dead /\ died
        /\ row' = [Trim(row) EXCEPT ![q] = Over]
        /\ acked' = acked \cup {g}
  /\ UNCHANGED <<scene, holds, minted, sent, drawn, mint, Use, lapsed, changes>>

PollEnds ==
  /\ poll.at = "work" /\ poll.issues = {} /\ poll.revoke = {}
  /\ poll' = Listening
  /\ UNCHANGED <<scene, row, holds, minted, sent, Relay, Use, lapsed, acked, changes>>

------------------------------------------------------------------------------
(* A use of a grant: the relay finds it live, asks the accounts service,      *)
(* whose answer rests on three reads, and looks at its own record once more.  *)

Checks(ok, next) == use' = IF ok THEN [use EXCEPT !.at = next] ELSE NoUse

UseStarts(g) ==
  /\ use.at = "idle" /\ g \in live /\ holds[g] > 0
  /\ use' = [at |-> "session", grant |-> g, lapsed |-> g \in lapsed]
  /\ UNCHANGED <<scene, row, holds, Host, Relay, lapsed, acked, changes>>

GrantIssued(g) == \E q \in Request : row[q].status = "issued" /\ row[q].grant = g /\ row[q].age = "fresh"

(* Mutant: the service's answer rests on membership and consent alone. *)
TeamAuthorizedByMembership ==
  /\ \/ use.at = "session" /\ Checks(scene.open /\ scene.consent, "member")
     \/ use.at = "member" /\ Checks(scene.member, "grant")
     \/ use.at = "grant" /\ Checks(TRUE, "relay")
  /\ UNCHANGED <<scene, row, holds, Host, Relay, lapsed, acked, changes>>

(* teamAuthorization.                                                         *)
TeamAuthorized ==
  /\ \/ use.at = "session" /\ Checks(scene.open /\ scene.consent, "member")
     \/ use.at = "member" /\ Checks(scene.member, "grant")
     \/ use.at = "grant" /\ Checks(GrantIssued(use.grant), "relay")
  /\ UNCHANGED <<scene, row, holds, Host, Relay, lapsed, acked, changes>>

(* requireTeamLive: the grant once more, after the answer.                    *)
Served ==
  /\ use.at = "relay"
  /\ Checks(use.grant \in live, "served")
  /\ UNCHANGED <<scene, row, holds, Host, Relay, lapsed, acked, changes>>

UseEnds ==
  /\ use.at = "served" /\ use' = NoUse
  /\ UNCHANGED <<scene, row, holds, Host, Relay, lapsed, acked, changes>>

Step ==
  \/ \E q \in Request : Ask(q) \/ Fetch(q) \/ Ages(q) \/ Report(q) \/ RevokeGrant(q)
  \/ ConsentOff \/ ConsentOn \/ Leave \/ Join \/ CloseOrReopen \/ Resume \/ InvalidateMcpGrants
  \/ \E lost \in BOOLEAN : Poll(lost)
  \/ \E q \in Request, g \in Grant : MintAsked(q, g) \/ ReportMcpTeamGrant(q, g)
  \/ \E g \in Grant : Minted(g) \/ UseStarts(g) \/ GrantExpires(g)
  \/ MintFails \/ PollEnds \/ TeamAuthorized \/ Served \/ UseEnds

Entitled == scene.member /\ scene.consent /\ scene.open /\ GrantIssued(use.grant)

GrantsNext == Step /\ moment' = (use'.at # "idle" /\ (moment \/ Entitled'))

GrantsSpec == GrantsInit /\ [][GrantsNext]_grantVars

------------------------------------------------------------------------------
GrantsTypeOK ==
  /\ scene \in [member : BOOLEAN, consent : BOOLEAN, open : BOOLEAN]
  /\ \A q \in Request :
       /\ row[q].status \in {"none", "pending", "issued", "revoked", "gone"}
       /\ row[q].age \in {"fresh", "late", "old"}
       /\ row[q].status = "issued" => row[q].grant \in drawn
       /\ row[q].bearer => row[q].grant # None
       /\ minted[q] \in drawn \cup {None}
  /\ live \cup dead \subseteq drawn /\ live \cap dead = {}
  /\ poll.issues \cup poll.revoke \subseteq Request
  /\ use.grant \in Grant \cup {None}

(* "the ack deletes the service's row, so it must follow a grant that is      *)
(* actually dead" (mcp_team.go:212): nobody can use an acknowledged grant.    *)
AckedOnlyDead == acked \cap live = {}

(* The use-time check reads the session, the membership and the grant one     *)
(* after the other, and consent, membership and the session move between the  *)
(* reads.  All the same a call is served only if at some moment since it came *)
(* all of them entitled its holder.  And "a removal or a consent-off is       *)
(* effective on the very next request" (worker/index.ts:1609) for good:       *)
(* joining again, or consent given again, brings no old grant back.           *)
ServedOnlyEntitled == use.at = "served" => moment /\ ~use.lapsed

===============================================================================
