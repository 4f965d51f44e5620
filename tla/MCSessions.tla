----------------------------- MODULE MCSessions -----------------------------
(* Model-checking instance of what is kept of a session and its access: the   *)
(* credentials under rotation, who may type, and at the accounts service its  *)
(* record and password copies and its teammate's grants; side by side, one of *)
(* them per behaviour.  A part that does not take part stays as it began.     *)
EXTENDS TeamGrants, SessionRecords, CredentialRotation, InputArbitration

CONSTANTS owner, colleague, x, y, g1

VARIABLE part

ASSUME GrantsAssumption /\ RecordsAssumption /\ RotationAssumption /\ ArbitrationAssumption

\* Either two requests of a teammate, with no changes, or one, with changes to come.
Init ==
  /\ part \in {"grants", "copies", "closing", "rotation", "input"}
  /\ RecordsInit /\ RotationInit /\ ArbitrationInit
  /\ machine.persistent \/ part = "closing"
  /\ InitFrom({}, MaxChanges) \/ (part = "grants" /\ InitFrom({1}, 0))

\* Whether copies open does not depend on who looks at the list, nor what closes the row on colleagues.
NobodyLooks == visit' = FALSE
OwnerOnly   == ask' = ask /\ \A c \in calls' : c.who = Owner

\* The machine's keyboard matters to nobody but an agent's text under way.
KeyboardInTime == wroteAt' # wroteAt /\ inputs' = inputs => \E i \in DOMAIN inputs : inputs[i].who = Agent

\* With all its inputs made, only what is under way of them moves; browsers are alike and come in order.
LineInOrder ==
  /\ Len(typed \o inputs) = MaxFrames => inputs' # inputs
  /\ seat[y] = "new" /\ seat'[y] # "new" => seat[x] # "new"

Next ==
  \/ part = "grants" /\ GrantsNext /\ UNCHANGED <<part, recordVars, rotationVars, arbitrationVars>>
  \/ /\ RecordsNext /\ ((part = "copies" /\ NobodyLooks) \/ (part = "closing" /\ OwnerOnly))
     /\ UNCHANGED <<part, grantVars, rotationVars, arbitrationVars>>
  \/ part = "rotation" /\ RotationNext /\ UNCHANGED <<part, grantVars, recordVars, arbitrationVars>>
  \/ /\ part = "input" /\ ArbitrationNext /\ KeyboardInTime /\ LineInOrder
     /\ UNCHANGED <<part, grantVars, recordVars, rotationVars>>

Spec == Init /\ [][Next]_<<part, grantVars, recordVars, rotationVars, arbitrationVars>>
=============================================================================
