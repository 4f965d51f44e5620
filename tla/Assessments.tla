----------------------------- MODULE Assessments ------------------------------
(* External analysis of a session's screen (app/server/lib/jev/integration.ts *)
(* over the Postgres store): an owner's consent, a request that asks an       *)
(* outside model about an excerpt, a list of what was answered, and the       *)
(* session coming and going.  Every await is a step; the store makes each of  *)
(* its calls one transaction under the owner's advisory lock, except where    *)
(* it runs statement by statement.                                            *)
EXTENDS Naturals, FiniteSets

CONSTANTS Writer,       \* the owner's browsers that change the consent
          MaxVersions,  \* bound: changes of the consent
          MaxRuns       \* bound: registrations of the session

AnalysisAssumption == MaxVersions \in Nat /\ MaxRuns \in Nat \ {0}

VARIABLES
  consent,  \* the consent's row: on, and its version (updated_at), 0 before the first
  session,  \* the session's row: there, run (started_at) and open
  kept,     \* jev_assessments: the one row of this session, or None
  assess,   \* a request under way: what it is at, the consent's version it read
  list,     \* a list under way: what it is at, the version it read, what it will answer, and
            \* revoked (history): what revoked was when it answered
  change,   \* [Writer -> the change of consent under way]: what it is at, the version it read
  write,    \* what the session's writer does after its first statement
  held,     \* history: the request's consent held at some moment since its budget was reserved
  revoked   \* history: the last version that turned the consent off

analysisVars == <<consent, session, kept, assess, list, change, write, held, revoked>>

NoRow == [version |-> 0, run |-> 0]
Idle == [at |-> "idle", version |-> 0]
NoList == [at |-> "idle", version |-> 0, rows |-> {}, revoked |-> 0]
NoChange == [at |-> "idle", version |-> 0, to |-> FALSE]

AnalysisInit ==
  /\ consent = [on |-> FALSE, version |-> 0]
  /\ session = [there |-> TRUE, run |-> 1, open |-> TRUE]
  /\ kept = NoRow
  /\ assess = Idle /\ list = NoList /\ change = [w \in Writer |-> NoChange] /\ write = "idle"
  /\ held = FALSE /\ revoked = 0

Live == session.there /\ session.open

------------------------------------------------------------------------------
(* putConsent: the version is read, then moved by compare-and-swap.           *)

ReadConsent(w, to) ==
  /\ change[w].at = "idle" /\ consent.version < MaxVersions
  /\ change' = [change EXCEPT ![w] = [at |-> "cas", version |-> consent.version, to |-> to]]
  /\ UNCHANGED <<consent, session, kept, assess, list, write, revoked>>

PutJevConsent(w) ==
  /\ change[w].at = "cas"
  /\ IF consent.version = change[w].version
     THEN /\ consent' = [on |-> change[w].to, version |-> consent.version + 1]
          /\ kept' = IF change[w].to THEN kept ELSE NoRow
          /\ revoked' = IF change[w].to THEN revoked ELSE consent.version + 1
          /\ change' = [change EXCEPT ![w] = IF @.to THEN NoChange ELSE [@ EXCEPT !.at = "clear"]]
     ELSE UNCHANGED <<consent, kept, revoked>> /\ change' = [change EXCEPT ![w] = NoChange]
  /\ UNCHANGED <<session, assess, list, write>>

(* putConsent's own purge, after the transaction that has purged already.     *)
ClearAfter(w) ==
  /\ change[w].at = "clear"
  /\ kept' = NoRow /\ change' = [change EXCEPT ![w] = NoChange]
  /\ UNCHANGED <<consent, session, assess, list, write, revoked>>

------------------------------------------------------------------------------
(* assess.  consumeBudget may refuse, the model may fail: the request ends.   *)

StartAssess ==
  /\ assess.at = "idle" /\ consent.on
  /\ assess' = [Idle EXCEPT !.at = "live", !.version = consent.version]
  /\ UNCHANGED <<consent, session, kept, list, change, write, revoked>>

Goes(to) == assess' = [assess EXCEPT !.at = to]
Consented == consent.on /\ consent.version = assess.version

CheckLive(from, to) ==
  /\ assess.at = from
  /\ IF Live THEN Goes(to) ELSE assess' = Idle
  /\ UNCHANGED <<consent, session, kept, list, change, write, revoked>>

(* Mutant: once the budget is reserved the excerpt goes out. *)
ReserveAndSend ==
  /\ assess.at = "budget" /\ assess' \in {Idle, [assess EXCEPT !.at = "liveAgain"]}
  /\ UNCHANGED <<consent, session, kept, list, change, write, revoked>>

(* consumeJevBudget.                                                          *)
Reserve ==
  /\ assess.at = "budget" /\ assess' \in {Idle, [assess EXCEPT !.at = "recheck"]}
  /\ UNCHANGED <<consent, session, kept, list, change, write, revoked>>

Recheck(from, to) ==
  /\ assess.at = from
  /\ assess' = IF Consented THEN [assess EXCEPT !.at = to] ELSE Idle
  /\ UNCHANGED <<consent, session, kept, list, change, write, revoked>>

(* The excerpt leaves for the model.                                          *)
Dispatch ==
  /\ assess.at = "dispatch"
  /\ assess' \in {Idle, [assess EXCEPT !.at = "recheckAfter"]}
  /\ UNCHANGED <<consent, session, kept, list, change, write, revoked>>

(* Mutant: a consent that is on will do, whichever version it is. *)
PutJevAssessmentAnyVersion ==
  /\ assess.at = "put" /\ assess' = Idle
  /\ kept' = IF consent.on /\ Live
             THEN [version |-> assess.version, run |-> session.run] ELSE kept
  /\ UNCHANGED <<consent, session, list, change, write, revoked>>

(* putJevAssessment binds the answer to the run that is current now.          *)
PutJevAssessment ==
  /\ assess.at = "put" /\ assess' = Idle
  /\ kept' = IF Consented /\ Live
             THEN [version |-> assess.version, run |-> session.run] ELSE kept
  /\ UNCHANGED <<consent, session, list, change, write, revoked>>

------------------------------------------------------------------------------
(* list.                                                                      *)

StartList ==
  /\ list.at = "idle"
  /\ list' = [NoList EXCEPT !.at = IF consent.on THEN "read" ELSE "clear", !.version = consent.version]
  /\ UNCHANGED <<consent, session, kept, assess, change, write, revoked>>

(* listJevAssessments: what is of another run, or of a closed session, goes.  *)
ListJevAssessments ==
  LET fits == kept # NoRow /\ Live /\ kept.run = session.run IN
  /\ list.at = "read"
  /\ kept' = IF fits THEN kept ELSE NoRow
  /\ list' = [list EXCEPT !.at = "live", !.rows = IF fits THEN {kept} ELSE {}]
  /\ UNCHANGED <<consent, session, assess, change, write, revoked>>

(* liveOwnerSession of each row; rows whose session has ended are dropped.    *)
CheckRows ==
  /\ list.at = "live"
  /\ list' = [list EXCEPT !.at = "after", !.rows = IF Live THEN @ ELSE {}]
  /\ kept' = IF Live \/ list.rows = {} THEN kept ELSE NoRow
  /\ UNCHANGED <<consent, session, assess, change, write, revoked>>

(* The consent once more, after the rows' awaits.                             *)
Answer ==
  /\ list.at = "after"
  /\ list' = IF consent.on /\ consent.version = list.version
             THEN [list EXCEPT !.at = "answered", !.revoked = revoked]
             ELSE [list EXCEPT !.at = "clear", !.rows = {}]
  /\ UNCHANGED <<consent, session, kept, assess, change, write, revoked>>

(* clearJevAssessments, whatever has been consented to meanwhile.             *)
Clear ==
  /\ list.at = "clear"
  /\ kept' = NoRow /\ list' = NoList
  /\ UNCHANGED <<consent, session, assess, change, write, revoked>>

ListEnds ==
  /\ list.at = "answered" /\ list' = NoList
  /\ UNCHANGED <<consent, session, kept, assess, change, write, revoked>>

------------------------------------------------------------------------------
(* The session's row.  The rows bound to it go by a statement of their own,   *)
(* and another request may come between.                                      *)

Register ==
  /\ write = "idle" /\ session.run < MaxRuns
  /\ session' = [there |-> TRUE, run |-> session.run + 1, open |-> TRUE]
  /\ write' = "upserted"
  /\ UNCHANGED <<consent, kept, assess, list, change, revoked>>

Close ==
  /\ write = "idle" /\ Live
  /\ session' = [session EXCEPT !.open = FALSE]
  /\ write' = "closed"
  /\ UNCHANGED <<consent, kept, assess, list, change, revoked>>

(* deleteSession: what is bound to the row first, then the row.               *)
Delete ==
  /\ \/ /\ write = "idle" /\ session.there
        /\ kept' = NoRow /\ write' = "deleting" /\ UNCHANGED session
     \/ /\ write = "deleting" /\ write' = "idle"
        /\ session' = [session EXCEPT !.open = FALSE, !.there = FALSE] /\ UNCHANGED kept
  /\ UNCHANGED <<consent, assess, list, change, revoked>>

(* upsertSession drops what no longer fits the row, patchSession all of it.   *)
Invalidate ==
  /\ write \in {"upserted", "closed"} /\ write' = "idle"
  /\ kept' = IF write = "upserted" /\ Live /\ kept.run = session.run THEN kept ELSE NoRow
  /\ UNCHANGED <<consent, session, assess, list, change, revoked>>

Step ==
  \/ \E w \in Writer : (\E to \in BOOLEAN : ReadConsent(w, to)) \/ PutJevConsent(w) \/ ClearAfter(w)
  \/ StartAssess \/ CheckLive("live", "budget") \/ Reserve
  \/ Recheck("recheck", "liveAgain") \/ CheckLive("liveAgain", "dispatch") \/ Dispatch
  \/ Recheck("recheckAfter", "liveAfter") \/ CheckLive("liveAfter", "put") \/ PutJevAssessment
  \/ StartList \/ ListJevAssessments \/ CheckRows \/ Answer \/ Clear \/ ListEnds
  \/ Register \/ Close \/ Delete \/ Invalidate

AnalysisNext ==
  /\ Step
  /\ held' = (assess'.at \in {"recheck", "liveAgain", "dispatch"} /\ (held \/ Consented'))

AnalysisSpec == AnalysisInit /\ [][AnalysisNext]_analysisVars

------------------------------------------------------------------------------
Row == [version : 0..MaxVersions, run : 0..MaxRuns]

AnalysisTypeOK ==
  /\ consent \in [on : BOOLEAN, version : 0..MaxVersions]
  /\ session \in [there : BOOLEAN, run : 1..MaxRuns, open : BOOLEAN]
  /\ kept \in Row
  /\ assess.version \in 0..MaxVersions /\ list.rows \subseteq Row
  /\ revoked \in 0..MaxVersions

(* "A request is dispatched only if consent and ownership still hold"         *)
(* (integration.ts:329): an excerpt leaves only if the consent it was started *)
(* under was in force at some moment after the budget was reserved; it cannot *)
(* have been withdrawn before that and given again.                           *)
SentUnderConsent == assess.at = "dispatch" => held

(* "A revoke that lands mid-call leaves nothing" (store-postgres.ts:1252):    *)
(* what was answered under a consent is neither kept nor handed out once that *)
(* consent was withdrawn, even if it has been given again since.              *)
RevocationIsFinal ==
  /\ kept # NoRow => revoked < kept.version
  /\ list.at = "answered" => \A r \in list.rows : list.revoked < r.version

===============================================================================
