---------------------------- MODULE Organizations ----------------------------
(* Teams, invitations and the deletion of accounts in the accounts service    *)
(* (app/server/routes/organizations.ts, routes/account.ts, lib/orgs.ts over   *)
(* the Postgres store).  A route is a request that calls the store several    *)
(* times; the store makes each call one transaction, and between two calls    *)
(* any other request may run.  An in-flight request is a record of what it    *)
(* has read and of the call it makes next (at).                               *)
EXTENDS Naturals, FiniteSets

CONSTANTS Person, Team, Invite, Request, None

TeamsAssumption == IsFiniteSet(Person) /\ None \notin Person \cup Team \cup Invite

VARIABLES
  org,       \* [Person -> Team or None]: the memberships, whose uid is unique
  role,      \* [Person -> role]: "none" without a membership
  before,    \* <<p, q>>: they are in one team, and p's joined_at is the earlier
  exists,    \* the rows of organizations
  invite,    \* [Invite -> row]: status, the team and role it is for; closed when it was accepted,
             \* revoked, has expired or went with its team
  gone,      \* deleted_accounts
  req,       \* [Request -> the in-flight request]
  stale,     \* history: teams written to although what the route had read no longer held
  deserted,  \* history: teams whose last member left them for another
  caught     \* history: people who had another request under way when their account was deleted

teamRows == <<org, role, before, exists, invite, gone>>
teamsHistory == <<stale, deserted, caught>>
teamsVars == <<teamRows, req, teamsHistory>>

Roles == {"owner", "admin", "member"}
Invited == {"admin", "member"}
Rank == [owner |-> 3, admin |-> 2, member |-> 1, none |-> 0]

NoInvite == [status |-> "none", org |-> None, role |-> "none"]
Closed == [NoInvite EXCEPT !.status = "closed"]
NoRequest == [at |-> "idle", by |-> None, op |-> "none", mine |-> None, held |-> "none", inv |-> None,
              whom |-> None, give |-> "none", dissolve |-> FALSE]

TeamsInit ==
  /\ org = [p \in Person |-> None] /\ role = [p \in Person |-> "none"]
  /\ before = {} /\ exists = {} /\ gone = {}
  /\ invite = [i \in Invite |-> NoInvite]
  /\ req = [r \in Request |-> NoRequest]
  /\ stale = {} /\ deserted = {} /\ caught = {}

Members(t) == {p \in Person : org[p] = t}
RequestGoes(r, at) == req' = [req EXCEPT ![r].at = at]
RequestEnds(r) == req' = [req EXCEPT ![r] = NoRequest]

(* byTenure: of some members, the one who joined before the others.            *)
First(people) == CHOOSE p \in people : \A q \in people \ {p} : <<p, q>> \in before

(* Mutant: only an admin may follow an owner. *)
AdminFor(t, p) ==
  LET admins == {q \in Members(t) \ {p} : role[q] = "admin"}
  IN IF admins # {} THEN First(admins) ELSE None

(* What the helper successorFor answers: the admin who joined first, else     *)
(* the member who did.                                                        *)
SuccessorFor(t, p) ==
  LET others == Members(t) \ {p}
      admins == {q \in others : role[q] = "admin"}
  IN IF admins # {} THEN First(admins) ELSE IF others # {} THEN First(others) ELSE None

------------------------------------------------------------------------------
(* The first call of every signed-in route: membershipOf.  A request of       *)
(* somebody without a team only gets them one; a member's goes on.            *)

Arrive(r, rec) ==
  /\ req[r] = NoRequest
  /\ req' = [req EXCEPT ![r] = rec]
  /\ UNCHANGED <<teamRows, teamsHistory>>

MembershipOf(p, op) == [NoRequest EXCEPT !.by = p, !.op = op, !.mine = org[p], !.held = role[p]]

(* GET /api/org with an invitation, or any route at all of somebody without   *)
(* a membership.                                                              *)
Visit(r, p, i) ==
  /\ org[p] = None \/ i # None
  /\ Arrive(r, [MembershipOf(p, "join") EXCEPT
       !.inv = i, !.at = IF org[p] = None THEN "recentlyDeleted" ELSE "invite"])

CreateInvite(r, p, i, as) ==
  /\ role[p] \in {"owner", "admin"}
  /\ as = "admin" => role[p] = "owner"
  /\ invite[i] = NoInvite /\ \A o \in Request : req[o].op = "create" => req[o].inv # i
  /\ Arrive(r, [MembershipOf(p, "create") EXCEPT !.inv = i, !.give = as, !.at = "putInvite"])

RevokeInvite(r, p, i) ==
  /\ role[p] \in {"owner", "admin"}
  /\ Arrive(r, [MembershipOf(p, "revoke") EXCEPT !.inv = i, !.at = "invite"])

RemoveMember(r, p, q) ==
  /\ role[p] \in {"owner", "admin"} /\ p # q
  /\ Arrive(r, [MembershipOf(p, "remove") EXCEPT !.whom = q, !.at = "members"])

ChangeRole(r, p, q, as) ==
  /\ role[p] = "owner" /\ p # q
  /\ Arrive(r, [MembershipOf(p, "change") EXCEPT !.whom = q, !.give = as, !.at = "members"])

AskDeletion(r, p) ==
  Arrive(r, [MembershipOf(p, "delete") EXCEPT !.at = IF org[p] = None THEN "delete" ELSE "members"])

------------------------------------------------------------------------------
(* The later calls.                                                           *)

(* Mutant: nobody asks whether the account was deleted. *)
RecentlyDeletedUnasked(r) ==
  /\ req[r].at = "recentlyDeleted"
  /\ RequestGoes(r, IF req[r].inv = None THEN "claimOwn" ELSE "invite")
  /\ UNCHANGED <<teamRows, teamsHistory>>

RecentlyDeleted(r) ==
  /\ req[r].at = "recentlyDeleted"
  /\ IF req[r].by \in gone THEN RequestEnds(r)
     ELSE RequestGoes(r, IF req[r].inv = None THEN "claimOwn" ELSE "invite")
  /\ UNCHANGED <<teamRows, teamsHistory>>

(* checkInvite, and revokeInvite's look at the row.                           *)
ReadInvite(r) ==
  LET q == req[r]
      i == invite[q.inv]
  IN
  /\ q.at = "invite"
  /\ CASE q.op = "revoke" ->
            IF i.org = q.mine THEN RequestGoes(r, "revoke") ELSE RequestEnds(r)
       [] q.op = "join" /\ q.mine = None -> RequestGoes(r, IF i.status = "open" THEN "claim" ELSE "claimOwn")
       [] OTHER -> IF i.status = "open" /\ i.org # q.mine THEN RequestGoes(r, "members") ELSE RequestEnds(r)
  /\ UNCHANGED <<teamRows, teamsHistory>>

(* What is planned for the deletion of p's account, a member of t with this   *)
(* role: whether the team goes too, and who takes it over.                    *)
Plan(p, t, held) ==
  [org |-> t,
   dissolve |-> t # None /\ Members(t) \ {p} = {},
   whom |-> IF held = "owner" THEN SuccessorFor(t, p) ELSE None]

(* members(), and what each route decides on it.                              *)
ReadMembers(r) ==
  LET q == req[r]
      seen == Members(q.mine)
      plan == Plan(q.by, q.mine, q.held)
  IN
  /\ q.at = "members"
  /\ CASE q.op = "join" ->
            IF q.held = "owner" /\ Cardinality(seen) > 1 THEN RequestEnds(r) ELSE RequestGoes(r, "claim")
       [] q.op = "remove" ->
            IF q.whom \in seen /\ Rank[q.held] > Rank[role[q.whom]]
            THEN RequestGoes(r, "remove") ELSE RequestEnds(r)
       [] q.op = "change" ->
            IF q.whom \in seen /\ role[q.whom] # "owner" THEN RequestGoes(r, "setRole") ELSE RequestEnds(r)
       [] q.op = "delete" ->
            req' = [req EXCEPT ![r].at = "delete", ![r].dissolve = plan.dissolve, ![r].whom = plan.whom]
  /\ UNCHANGED <<teamRows, teamsHistory>>

(* claimInvite: one conditional update.                                       *)
Claim(r) ==
  LET q == req[r]
      i == invite[q.inv]
  IN
  /\ q.at = "claim"
  /\ IF i.status = "open"
     THEN /\ invite' = [invite EXCEPT ![q.inv] = Closed]
          /\ req' = [req EXCEPT ![r].at = IF q.mine = None THEN "put" ELSE "leave",
                                ![r].whom = i.org, ![r].give = i.role]
     ELSE /\ IF q.mine = None THEN RequestGoes(r, "claimOwn") ELSE RequestEnds(r)
          /\ UNCHANGED invite
  /\ UNCHANGED <<org, role, before, exists, gone, teamsHistory>>

(* The order of joining once these people's rows are gone.                    *)
Apart(people) == before \cap ((Person \ people) \X (Person \ people))

(* The store's removeMember deletes the row of this person in this team only. *)
Without(p, t) ==
  IF org[p] = t
  THEN org' = [org EXCEPT ![p] = None] /\ role' = [role EXCEPT ![p] = "none"] /\ before' = Apart({p})
  ELSE UNCHANGED <<org, role, before>>

(* History: what the route had read of this team no longer holds.             *)
Marks(flag, t) == IF flag THEN stale' = stale \cup {t} ELSE UNCHANGED stale

Leave(r) ==
  LET q == req[r]
      others == Members(q.mine) \ {q.by}
  IN
  /\ q.at = "leave"
  /\ Without(q.by, q.mine)
  /\ Marks(org[q.by] = q.mine /\ role[q.by] = "owner" /\ others # {}, q.mine)
  /\ deserted' = IF org[q.by] = q.mine /\ others = {} THEN deserted \cup {q.mine} ELSE deserted
  /\ RequestGoes(r, "put")
  /\ UNCHANGED <<exists, invite, gone, caught>>

(* The row of the upsert; whoever has another by now is taken out of it.      *)
Joins(r) ==
  LET q == req[r]
      others == Members(q.whom) \ {q.by}
  IN
  /\ org' = [org EXCEPT ![q.by] = q.whom] /\ role' = [role EXCEPT ![q.by] = q.give]
  /\ before' = Apart({q.by}) \cup (others \X {q.by})
  /\ Marks(org[q.by] # None, org[q.by])

(* putMembership: the one row of this person, moved or inserted.  The foreign *)
(* key refuses a team that has been dissolved meanwhile.                      *)
Put(r) ==
  /\ req[r].at = "put"
  /\ IF req[r].whom \in exists THEN Joins(r) ELSE UNCHANGED <<org, role, before, stale>>
  /\ RequestEnds(r)
  /\ UNCHANGED <<exists, invite, gone, deserted, caught>>

(* claimOwnOrganization: whoever inserts the membership first wins.  The      *)
(* team's id is new: no row and no request knows it.                          *)
ClaimOwn(r, t) ==
  LET q == req[r] IN
  /\ q.at = "claimOwn"
  /\ t \notin exists /\ \A o \in Request : t \notin {req[o].mine, req[o].whom}
  /\ IF org[q.by] = None
     THEN /\ exists' = exists \cup {t}
          /\ org' = [org EXCEPT ![q.by] = t] /\ role' = [role EXCEPT ![q.by] = "owner"]
          /\ stale' = stale \ {t} /\ deserted' = deserted \ {t}
     ELSE UNCHANGED <<exists, org, role, stale, deserted>>
  /\ RequestEnds(r)
  /\ UNCHANGED <<before, invite, gone, caught>>

PutInvite(r) ==
  LET q == req[r] IN
  /\ q.at = "putInvite"
  /\ invite' = IF q.mine \in exists
               THEN [invite EXCEPT ![q.inv] = [status |-> "open", org |-> q.mine, role |-> q.give]] ELSE invite
  /\ RequestEnds(r)
  /\ UNCHANGED <<org, role, before, exists, gone, teamsHistory>>

(* updateInvite writes revoked_at whatever happened since the read; nobody    *)
(* can use one that was accepted meanwhile either way.                        *)
Revoke(r) ==
  LET q == req[r] IN
  /\ q.at = "revoke"
  /\ invite' = [invite EXCEPT ![q.inv] = Closed]
  /\ RequestEnds(r)
  /\ UNCHANGED <<org, role, before, exists, gone, teamsHistory>>

InviteExpires(i) ==
  /\ invite[i].status = "open"
  /\ invite' = [invite EXCEPT ![i] = Closed]
  /\ UNCHANGED <<org, role, before, exists, gone, req, teamsHistory>>

RemoveRow(r) ==
  LET q == req[r] IN
  /\ q.at = "remove"
  /\ Without(q.whom, q.mine)
  /\ Marks(org[q.whom] = q.mine /\ role[q.whom] = "owner", q.mine)
  /\ RequestEnds(r)
  /\ UNCHANGED <<exists, invite, gone, deserted, caught>>

SetRole(r) ==
  LET q == req[r] IN
  /\ q.at = "setRole"
  /\ role' = IF org[q.whom] = q.mine THEN [role EXCEPT ![q.whom] = q.give] ELSE role
  /\ Marks(org[q.whom] = q.mine /\ role[q.whom] = "owner", q.mine)
  /\ RequestEnds(r)
  /\ UNCHANGED <<org, before, exists, invite, gone, deserted, caught>>

(* deleteAccount: one transaction that carries out the plan made before it.   *)
CarryOutDeletion(r) ==
  LET q == req[r]
      heirs == {p \in Members(q.mine) : p = q.whom}
      lost == {q.by} \cup IF q.dissolve THEN Members(q.mine) ELSE {}
      planned == [org |-> q.mine, dissolve |-> q.dissolve, whom |-> q.whom]
  IN
  /\ q.at = "delete"
  /\ exists' = IF q.dissolve THEN exists \ {q.mine} ELSE exists
  /\ invite' = [i \in Invite |-> IF q.dissolve /\ invite[i].org = q.mine THEN Closed ELSE invite[i]]
  /\ org' = [p \in Person |-> IF p \in lost THEN None ELSE org[p]]
  /\ role' = [p \in Person |-> IF p \in lost THEN "none" ELSE IF p \in heirs THEN "owner" ELSE role[p]]
  /\ before' = Apart(lost)
  /\ gone' = gone \cup {q.by}
  /\ stale' = stale \cup
       IF planned = Plan(q.by, org[q.by], role[q.by]) THEN {} ELSE {q.mine, org[q.by]} \ {None}
  /\ caught' = caught \cup IF \E o \in Request \ {r} : req[o].by = q.by THEN {q.by} ELSE {}
  /\ RequestEnds(r)
  /\ UNCHANGED deserted

TeamsNext ==
  \/ \E r \in Request, p \in Person, i \in Invite \cup {None} : Visit(r, p, i)
  \/ \E r \in Request, p \in Person, i \in Invite, as \in Invited : CreateInvite(r, p, i, as)
  \/ \E r \in Request, p \in Person, i \in Invite : RevokeInvite(r, p, i)
  \/ \E r \in Request, p, q \in Person : RemoveMember(r, p, q)
  \/ \E r \in Request, p, q \in Person, as \in Invited : ChangeRole(r, p, q, as)
  \/ \E r \in Request, p \in Person : AskDeletion(r, p)
  \/ \E r \in Request :
       \/ RecentlyDeleted(r) \/ ReadInvite(r) \/ ReadMembers(r) \/ Claim(r) \/ Leave(r) \/ Put(r)
       \/ PutInvite(r) \/ Revoke(r) \/ RemoveRow(r) \/ SetRole(r) \/ CarryOutDeletion(r)
  \/ \E r \in Request, t \in Team : ClaimOwn(r, t)
  \/ \E i \in Invite : InviteExpires(i)

TeamsSpec == TeamsInit /\ [][TeamsNext]_teamsVars

------------------------------------------------------------------------------
(* A role goes with a membership, a membership with a team that exists.       *)
RowsAgree ==
  \A p \in Person : (role[p] = "none" <=> org[p] = None) /\ (org[p] # None => org[p] \in exists)

(* Who joined before whom is a total order on each team.                      *)
Together(p, q) == org[p] # None /\ org[p] = org[q]
Tenure ==
  /\ before \subseteq Person \X Person
  /\ \A p, q \in Person : <<p, q>> \in before => Together(p, q) /\ <<q, p>> \notin before
  /\ \A p, q \in Person : Together(p, q) /\ p # q => <<p, q>> \in before \/ <<q, p>> \in before
  /\ \A p, q, o \in Person : <<p, q>> \in before /\ <<q, o>> \in before => <<p, o>> \in before

TeamsTypeOK ==
  /\ org \in [Person -> Team \cup {None}]
  /\ role \in [Person -> Roles \cup {"none"}]
  /\ RowsAgree /\ Tenure
  /\ exists \subseteq Team /\ stale \subseteq Team /\ deserted \subseteq Team
  /\ gone \subseteq Person /\ caught \subseteq Person
  /\ DOMAIN invite = Invite
  /\ \A i \in Invite : invite[i] \in {NoInvite, Closed} \cup [status : {"open"}, org : exists, role : Invited]

(* A team whose members are left without their one owner was written to on a  *)
(* read that no longer held, or joined by an invitation that outlived its     *)
(* last member: invitations, moves, removals, role changes and deletions each *)
(* keep the one owner when what they read is still true.                      *)
OneOwnerUnlessStale ==
  \A t \in Team \ (stale \cup deserted) :
    Members(t) # {} => \E p \in Members(t) : {q \in Members(t) : role[q] = "owner"} = {p}

(* "An account deleted recently gets no membership at all"                    *)
(* (organizations.ts:62): only a request that was already under way when the  *)
(* account was deleted can put it back into a team.                           *)
DeletedStaysOut == \A p \in gone \ caught : org[p] = None
==============================================================================
