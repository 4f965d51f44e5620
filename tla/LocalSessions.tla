----------------------------- MODULE LocalSessions -----------------------------
(* The files by which the hosts on one machine keep out of each other's way   *)
(* (cmd/shell/session_reservation.go, local_transport_unix.go, persistent.go, *)
(* sessions_unix.go, main.go): launches of one persistent state file, each a  *)
(* process, which claim a control socket and publish a record before anybody  *)
(* may reach the session; and the rotation of the password, which rewrites    *)
(* record and state file.  A file system call is a step.  An identity is      *)
(* named by the launch that drew it, a file by its owner and what it says.    *)
EXTENDS Naturals, FiniteSets

CONSTANTS Launch, Nobody,
          MaxCredentials,  \* bound: credentials drawn, by new state files and rotations
          MaxUnlinks       \* bound: sockets removed by somebody else

LocalAssumption == Nobody \notin Launch /\ MaxCredentials \in Nat /\ MaxUnlinks \in Nat

VARIABLES
  state,    \* the persistent state file: the identity and the credentials it keeps
  sock,     \* [identity -> the launch that bound the control socket at its path, or Nobody]
  record,   \* [identity -> the published session record: whose, with which credentials]
  stage,    \* [Launch -> where the launch stands]
  mine,     \* [Launch -> its identity, the credentials it uses, prior: those the file had when it
            \* was read (0 when there was none), info: those of the record it knows as its own]
  rot,      \* [Launch -> the rotation under way: what it has done, the old and new credentials]
  credentials, \* drawn so far
  unlinks,
  late      \* history: a rotation wrote the state file after its session had begun to close

localVars == <<state, sock, record, stage, mine, rot, credentials, unlinks, late>>

NoFile == [by |-> Nobody, cred |-> 0]
NoRotation == [at |-> "none", old |-> 0, new |-> 0]

LocalInit ==
  /\ state = NoFile
  /\ sock = [i \in Launch |-> Nobody]
  /\ record = [i \in Launch |-> NoFile]
  /\ stage = [l \in Launch |-> "idle"]
  /\ mine = [l \in Launch |-> [id |-> l, cred |-> 0, prior |-> 0, info |-> 0]]
  /\ rot = [l \in Launch |-> NoRotation]
  /\ credentials = 0 /\ unlinks = 0 /\ late = FALSE

Starting == {"looked", "prepared", "bound", "reserved", "saved", "resuming", "publishing"}
Closing == {"releasing", "unlinking", "unlinked", "closed"}
Alive(l) == stage[l] \in Starting \cup Closing \cup {"running"}

Goes(l, to) == stage' = [stage EXCEPT ![l] = to]
NoRecord(l) == record[mine[l].id] = NoFile

------------------------------------------------------------------------------
(* A launch.  One that is refused gives back what it holds.                   *)

(* preparePersistentSession: the file's identity, or a new one.               *)
Prepare(l) ==
  /\ stage[l] = "idle" /\ Goes(l, "prepared")
  /\ IF state = NoFile
     THEN /\ credentials < MaxCredentials /\ credentials' = credentials + 1
          /\ mine' = [mine EXCEPT ![l] = [id |-> l, cred |-> credentials + 1, prior |-> 0, info |-> 0]]
     ELSE /\ mine' = [mine EXCEPT ![l] = [id |-> state.by, cred |-> state.cred, prior |-> state.cred, info |-> 0]]
          /\ UNCHANGED credentials
  /\ UNCHANGED <<state, sock, record, rot, unlinks, late>>

(* reserveLocalSession: no record, a socket of one's own, still no record.    *)
LookForRecord(l) ==
  /\ stage[l] = "prepared"
  /\ Goes(l, IF NoRecord(l) THEN "looked" ELSE "over")
  /\ UNCHANGED <<state, sock, record, mine, rot, credentials, unlinks, late>>

Bind(l) ==
  /\ stage[l] = "looked"
  /\ IF sock[mine[l].id] = Nobody
     THEN sock' = [sock EXCEPT ![mine[l].id] = l] /\ Goes(l, "bound")
     ELSE Goes(l, "over") /\ UNCHANGED sock
  /\ UNCHANGED <<state, record, mine, rot, credentials, unlinks, late>>

LookAgain(l) ==
  /\ stage[l] = "bound"
  /\ Goes(l, IF NoRecord(l) THEN "reserved" ELSE "releasing")
  /\ UNCHANGED <<state, sock, record, mine, rot, credentials, unlinks, late>>

(* Mutant: a file that was there is not compared with what was read of it.    *)
PersistUncompared(l) ==
  /\ stage[l] = "reserved"
  /\ IF mine[l].prior # 0
     THEN Goes(l, "saved") /\ UNCHANGED state
     ELSE IF state = NoFile
          THEN state' = [by |-> l, cred |-> mine[l].cred] /\ Goes(l, "saved")
          ELSE Goes(l, "releasing") /\ UNCHANGED state
  /\ UNCHANGED <<sock, record, mine, rot, credentials, unlinks, late>>

(* persist: a new file is linked, which fails where there is one by now; a    *)
(* file that was read must still say the same.                                *)
Persist(l) ==
  /\ stage[l] = "reserved"
  /\ \/ /\ mine[l].prior = 0 /\ state = NoFile
        /\ state' = [by |-> l, cred |-> mine[l].cred] /\ Goes(l, "saved")
     \/ /\ mine[l].prior # 0 /\ state = [by |-> mine[l].id, cred |-> mine[l].prior]
        /\ Goes(l, "saved") /\ UNCHANGED state
     \/ /\ IF mine[l].prior = 0 THEN state # NoFile ELSE state # [by |-> mine[l].id, cred |-> mine[l].prior]
        /\ Goes(l, "releasing") /\ UNCHANGED state
  /\ UNCHANGED <<sock, record, mine, rot, credentials, unlinks, late>>

(* check, made before the relay is asked and again before the record is       *)
(* published; the relay may refuse, too.                                      *)
Intact(l) == NoRecord(l) /\ sock[mine[l].id] = l

Check(l) ==
  /\ stage[l] = "saved" /\ Goes(l, IF Intact(l) THEN "resuming" ELSE "releasing")
  /\ UNCHANGED <<state, sock, record, mine, rot, credentials, unlinks, late>>

Resumed(l) ==
  /\ stage[l] = "resuming"
  /\ Goes(l, "releasing") \/ (Intact(l) /\ Goes(l, "publishing"))
  /\ UNCHANGED <<state, sock, record, mine, rot, credentials, unlinks, late>>

(* Mutant: the record is renamed into place, over one that is there.          *)
FinalizeOver(l) ==
  /\ stage[l] = "publishing" /\ Goes(l, "running")
  /\ record' = [record EXCEPT ![mine[l].id] = [by |-> l, cred |-> mine[l].cred]]
  /\ mine' = [mine EXCEPT ![l].info = mine[l].cred]
  /\ UNCHANGED <<state, sock, rot, credentials, unlinks, late>>

(* finalize: the record is linked, which fails where there is one by now.     *)
Finalize(l) ==
  /\ stage[l] = "publishing"
  /\ IF NoRecord(l)
     THEN /\ record' = [record EXCEPT ![mine[l].id] = [by |-> l, cred |-> mine[l].cred]]
          /\ mine' = [mine EXCEPT ![l].info = mine[l].cred]
          /\ Goes(l, "running")
     ELSE Goes(l, "releasing") /\ UNCHANGED <<record, mine>>
  /\ UNCHANGED <<state, sock, rot, credentials, unlinks, late>>

(* removeOwnedLocalFile: only the very file this launch made.                 *)
WithoutSocket(l) == IF sock[mine[l].id] = l THEN [sock EXCEPT ![mine[l].id] = Nobody] ELSE sock
WithoutRecord(l) == IF record[mine[l].id] = [by |-> l, cred |-> mine[l].info]
                    THEN [record EXCEPT ![mine[l].id] = NoFile] ELSE record

(* localSessionReservation.Close.                                             *)
Release(l) ==
  /\ stage[l] = "releasing" /\ sock' = WithoutSocket(l) /\ Goes(l, "over")
  /\ UNCHANGED <<state, record, mine, rot, credentials, unlinks, late>>

------------------------------------------------------------------------------
(* managedLocalSession.Close, in the order of its calls, and the exit, which  *)
(* takes a rotation under way along; a crash may come anywhere.               *)

Close(l) ==
  \/ /\ stage[l] = "running" /\ Goes(l, "unlinking") /\ UNCHANGED <<sock, record>>
  \/ /\ stage[l] = "unlinking" /\ Goes(l, "unlinked") /\ sock' = WithoutSocket(l) /\ UNCHANGED record
  \/ /\ stage[l] = "unlinked" /\ Goes(l, "closed") /\ record' = WithoutRecord(l) /\ UNCHANGED sock

CloseStep(l) == Close(l) /\ UNCHANGED <<state, mine, rot, credentials, unlinks, late>>

Stops(l, how) == Goes(l, how) /\ rot' = [rot EXCEPT ![l] = NoRotation]

Exit(l) ==
  /\ stage[l] = "closed" /\ Stops(l, "over")
  /\ UNCHANGED <<state, sock, record, mine, credentials, unlinks, late>>

Die(l) ==
  /\ Alive(l) /\ Stops(l, "dead")
  /\ UNCHANGED <<state, sock, record, mine, credentials, unlinks, late>>

(* What is left of a dead process is removed by hand.                         *)
Recover(l) ==
  /\ stage[l] = "dead"
  /\ sock[mine[l].id] = l \/ record[mine[l].id].by = l
  /\ sock' = WithoutSocket(l)
  /\ record' = IF record[mine[l].id].by = l THEN [record EXCEPT ![mine[l].id] = NoFile] ELSE record
  /\ UNCHANGED <<state, stage, mine, rot, credentials, unlinks, late>>

(* A socket may be unlinked by others: the directory is below /tmp.           *)
Unlink(i) ==
  /\ sock[i] # Nobody /\ unlinks < MaxUnlinks
  /\ sock' = [sock EXCEPT ![i] = Nobody] /\ unlinks' = unlinks + 1
  /\ UNCHANGED <<state, record, stage, mine, rot, credentials, late>>

------------------------------------------------------------------------------
(* The rotation closure, on a connection of its own: it goes on while the     *)
(* session closes, until the process exits.                                   *)

InProcess(l) == stage[l] \in {"running", "unlinking", "unlinked", "closed"}
RotationGoes(l, to) == rot' = [rot EXCEPT ![l].at = to]
WritesState(l, cred) ==
  /\ state' = [state EXCEPT !.cred = cred]
  /\ late' = (late \/ stage[l] # "running")

BeginRotation(l) ==
  /\ stage[l] = "running" /\ rot[l].at = "none" /\ credentials < MaxCredentials
  /\ credentials' = credentials + 1
  /\ rot' = [rot EXCEPT ![l] = [at |-> "read", old |-> state.cred, new |-> credentials + 1]]
  /\ UNCHANGED <<state, sock, record, stage, mine, unlinks, late>>

SaveNew(l) ==
  /\ InProcess(l) /\ rot[l].at = "read"
  /\ WritesState(l, rot[l].new) /\ RotationGoes(l, "saved")
  /\ UNCHANGED <<sock, record, stage, mine, credentials, unlinks>>

(* UpdateCredentials writes a new record in place of the old, and knows it as *)
(* its own from then on.                                                      *)
WritesRecord(l, cred) ==
  /\ record' = [record EXCEPT ![mine[l].id] = [by |-> l, cred |-> cred]]
  /\ mine' = [mine EXCEPT ![l].cred = cred, ![l].info = cred]

(* It refuses once the session is closed; the write may fail besides.         *)
PublishNew(l) ==
  /\ InProcess(l) /\ rot[l].at = "saved"
  /\ \/ stage[l] = "running" /\ WritesRecord(l, rot[l].new) /\ RotationGoes(l, "waiting")
     \/ RotationGoes(l, "undo") /\ UNCHANGED <<record, mine>>
  /\ UNCHANGED <<state, sock, stage, credentials, unlinks, late>>

Acknowledged(l) ==
  /\ InProcess(l) /\ rot[l].at = "waiting"
  /\ rot' = [rot EXCEPT ![l] = NoRotation]
  /\ UNCHANGED <<state, sock, record, stage, mine, credentials, unlinks, late>>

(* rollback: the old cipher, the old record unless closed, the old file (its  *)
(* own writes may fail, too: see CredentialRotation).                         *)
Rollback(l) ==
  /\ InProcess(l) /\ rot[l].at = "waiting" /\ RotationGoes(l, "undo")
  /\ IF stage[l] = "running" THEN WritesRecord(l, rot[l].old)
     ELSE mine' = [mine EXCEPT ![l].cred = rot[l].old] /\ UNCHANGED record
  /\ UNCHANGED <<state, sock, stage, credentials, unlinks, late>>

SaveOld(l) ==
  /\ InProcess(l) /\ rot[l].at = "undo"
  /\ WritesState(l, rot[l].old) /\ rot' = [rot EXCEPT ![l] = NoRotation]
  /\ UNCHANGED <<sock, record, stage, mine, credentials, unlinks>>

LocalNext ==
  \/ \E l \in Launch :
       \/ Prepare(l) \/ LookForRecord(l) \/ Bind(l) \/ LookAgain(l) \/ Persist(l)
       \/ Check(l) \/ Resumed(l) \/ Finalize(l) \/ Release(l)
       \/ CloseStep(l) \/ Exit(l) \/ Die(l) \/ Recover(l)
       \/ BeginRotation(l) \/ SaveNew(l) \/ PublishNew(l) \/ Acknowledged(l) \/ Rollback(l) \/ SaveOld(l)
  \/ \E i \in Launch : Unlink(i)

LocalSpec == LocalInit /\ [][LocalNext]_localVars

------------------------------------------------------------------------------
LocalTypeOK ==
  /\ state \in [by : Launch \cup {Nobody}, cred : 0..MaxCredentials]
  /\ sock \in [Launch -> Launch \cup {Nobody}]
  /\ record \in [Launch -> [by : Launch \cup {Nobody}, cred : 0..MaxCredentials]]
  /\ stage \in [Launch -> Starting \cup Closing \cup {"idle", "running", "over", "dead"}]
  /\ mine \in [Launch -> [id : Launch, cred : 0..MaxCredentials, prior : 0..MaxCredentials, info : 0..MaxCredentials]]
  /\ rot \in [Launch -> [at : {"none", "read", "saved", "waiting", "undo"}, old : 0..MaxCredentials,
                         new : 0..MaxCredentials]]
  /\ credentials \in 0..MaxCredentials /\ unlinks \in 0..MaxUnlinks /\ late \in BOOLEAN

(* The files tell who runs the session: of all launches of one state file at  *)
(* most one runs at a time, even when its socket is unlinked by others, and   *)
(* one that was refused or has ended leaves no file that would keep the next  *)
(* from starting (session_reservation.go:10: "a launch that cannot own the    *)
(* session locally never mutates the remote session").                        *)
FilesTellWhoRuns ==
  /\ Cardinality({l \in Launch : stage[l] = "running"}) <= 1
  /\ \A l \in Launch : stage[l] = "over" =>
       sock[mine[l].id] # l /\ record[mine[l].id].by # l

(* What a session runs with is what its record shows and its file keeps, so   *)
(* that the next start is reached with the same password; except after a      *)
(* rotation that went on while its session closed, or when others unlinked    *)
(* the socket that claims the session (persistent.go:124, session_unix.go:260). *)
SavedIsRun ==
  ~late /\ unlinks = 0 => \A l \in Launch : stage[l] = "running" /\ rot[l].at = "none" =>
    /\ state = [by |-> mine[l].id, cred |-> mine[l].cred]
    /\ record[mine[l].id] = [by |-> l, cred |-> mine[l].cred]
================================================================================
