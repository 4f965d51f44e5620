----------------------------- MODULE MachineProofs -----------------------------
(* Proofs about the processes of one machine: the files that keep launches of *)
(* one session apart (LocalSessions), for any number of launches, rotations   *)
(* and unlinked sockets, and the daemons and agents that take queued work     *)
(* (RemoteStart), for any number of them and of commands.                     *)
EXTENDS LocalSessions, RemoteStart, FiniteSetTheorems, TLAPS

(* LocalSessions.                                                             *)

\* The places between binding the socket and giving it back, and those in
\* which the published record is the launch's own.
Holding == {"bound", "reserved", "saved", "resuming", "publishing", "running", "unlinking", "releasing"}
Published == {"running", "unlinking", "unlinked"}

Places == {"idle", "looked", "prepared", "bound", "reserved", "saved", "resuming", "publishing", "running",
           "releasing", "unlinking", "unlinked", "closed", "over", "dead"}
FileType == [by : Launch \cup {Nobody}, cred : 0..MaxCredentials]
MineType == [id : Launch, cred : 0..MaxCredentials, prior : 0..MaxCredentials, info : 0..MaxCredentials]
RotationType == [at : {"none", "read", "saved", "waiting", "undo"}, old : 0..MaxCredentials,
                 new : 0..MaxCredentials]

\* The types, but for the history's.
Filed ==
  /\ state \in FileType /\ (state.by = Nobody => state = NoFile)
  /\ sock \in [Launch -> Launch \cup {Nobody}]
  /\ record \in [Launch -> FileType]
  /\ stage \in [Launch -> Places]
  /\ mine \in [Launch -> MineType]
  /\ rot \in [Launch -> RotationType]
  /\ credentials \in 0..MaxCredentials /\ unlinks \in 0..MaxUnlinks

\* A launch uses the identity it drew or the file's; the file keeps its
\* identity for good once a launch has compared it.
Named ==
  \A l \in Launch :
    /\ mine[l].id = l \/ mine[l].id = state.by
    /\ stage[l] \in {"saved", "resuming", "publishing", "closed"} \cup Published => mine[l].id = state.by

\* A socket belongs to a launch that has not given it back, and so does a
\* record; a launch that goes on has the record it published.
Bound == \A i, l \in Launch : sock[i] = l => mine[l].id = i /\ stage[l] \in Holding \cup {"dead"}
Recorded == \A i, l \in Launch : record[i].by = l => mine[l].id = i /\ stage[l] \in Published \cup {"dead"}
Shown == \A l \in Launch : stage[l] \in Published =>
           record[mine[l].id].by = l /\ record[mine[l].id].cred = mine[l].info

\* A rotation goes on only inside a process that has published.
Rotating == \A l \in Launch : rot[l].at # "none" => InProcess(l)

FilesInvariant == Filed /\ late \in BOOLEAN /\ Named /\ Bound /\ Recorded /\ Shown /\ Rotating

\* Nothing is there when the first launch begins.
LEMMA FilesStart == ASSUME LocalAssumption PROVE LocalInit => FilesInvariant
<1> SUFFICES ASSUME LocalInit PROVE FilesInvariant
  OBVIOUS
<1> USE LocalAssumption DEF LocalAssumption, LocalInit, NoFile, NoRotation
<1>1. Filed
  BY DEF Filed, Places, FileType, MineType, RotationType
<1>2. late \in BOOLEAN
  OBVIOUS
<1>3. Named
  BY DEF Named, Published
<1>4. Bound /\ Recorded /\ Shown
  BY DEF Bound, Recorded, Shown, Published
<1>5. Rotating
  BY DEF Rotating
<1>. QED BY <1>1, <1>2, <1>3, <1>4, <1>5 DEF FilesInvariant

\* Every step of a launch, of its rotation and of others keeps the types.
LEMMA FiledStep ==
  ASSUME LocalAssumption, FilesInvariant, [LocalNext]_localVars PROVE Filed'
<1> USE LocalAssumption DEF LocalAssumption, FilesInvariant, Filed, Goes, FileType
<1>0. NoFile \in FileType /\ NoRotation \in RotationType
  BY DEF NoFile, NoRotation, RotationType
<1>1. ASSUME NEW l \in Launch, Prepare(l) PROVE Filed'
  <2>1. mine' \in [Launch -> MineType]
    <3>1. PICK m \in MineType : mine' = [mine EXCEPT ![l] = m]
      <4>1. CASE state = NoFile
        <5>1. [id |-> l, cred |-> credentials + 1, prior |-> 0, info |-> 0] \in MineType
          BY <1>1, <4>1 DEF Prepare, MineType
        <5>. QED BY <1>1, <4>1, <5>1 DEF Prepare
      <4>2. CASE state # NoFile
        <5>1. [id |-> state.by, cred |-> state.cred, prior |-> state.cred, info |-> 0] \in MineType
          BY <4>2 DEF MineType
        <5>. QED BY <1>1, <4>2, <5>1 DEF Prepare
      <4>. QED BY <4>1, <4>2
    <3>. QED BY <3>1
  <2>. QED BY <1>1, <2>1 DEF Prepare, Places
<1>2. ASSUME NEW l \in Launch, LookForRecord(l) \/ Bind(l) \/ LookAgain(l) \/ Check(l) \/ Resumed(l) PROVE Filed'
  BY <1>2 DEF LookForRecord, Bind, LookAgain, Check, Resumed, Places
<1>3. ASSUME NEW l \in Launch, Persist(l) PROVE Filed'
  BY <1>3 DEF Persist, Places, MineType
<1>4. ASSUME NEW l \in Launch, Finalize(l) PROVE Filed'
  <2>1. /\ [mine[l] EXCEPT !.info = mine[l].cred] \in MineType
        /\ [by |-> l, cred |-> mine[l].cred] \in FileType
        /\ mine[l].id \in Launch
    BY DEF MineType
  <2>2. /\ mine' = mine \/ mine' = [mine EXCEPT ![l] = [mine[l] EXCEPT !.info = mine[l].cred]]
        /\ record' = record \/ record' = [record EXCEPT ![mine[l].id] = [by |-> l, cred |-> mine[l].cred]]
        /\ stage' = [stage EXCEPT ![l] = "running"] \/ stage' = [stage EXCEPT ![l] = "releasing"]
        /\ UNCHANGED <<state, sock, rot, credentials, unlinks>>
    BY <1>4 DEF Finalize
  <2>. HIDE DEF FileType
  <2>. QED BY <2>1, <2>2 DEF Places
<1>5. ASSUME NEW l \in Launch, Release(l) \/ CloseStep(l) PROVE Filed'
  BY <1>0, <1>5 DEF Release, CloseStep, Close, WithoutSocket, WithoutRecord, Places
<1>6. ASSUME NEW l \in Launch, Exit(l) \/ Die(l) PROVE Filed'
  BY <1>0, <1>6 DEF Exit, Die, Stops, Places
<1>7. ASSUME NEW l \in Launch, Recover(l) PROVE Filed'
  BY <1>0, <1>7 DEF Recover, WithoutSocket
<1>8. ASSUME NEW i \in Launch, Unlink(i) PROVE Filed'
  BY <1>8 DEF Unlink
<1>9. ASSUME NEW l \in Launch, BeginRotation(l) \/ SaveNew(l) \/ Acknowledged(l) \/ SaveOld(l) PROVE Filed'
  <2>1. rot[l].old \in 0..MaxCredentials /\ rot[l].new \in 0..MaxCredentials /\ state.cred \in 0..MaxCredentials
    BY DEF RotationType
  <2>2. PICK r \in RotationType : rot' = [rot EXCEPT ![l] = r]
    <3>1. CASE BeginRotation(l)
      <4>1. [at |-> "read", old |-> state.cred, new |-> credentials + 1] \in RotationType
        BY <2>1, <3>1 DEF BeginRotation, RotationType
      <4>. QED BY <3>1, <4>1 DEF BeginRotation
    <3>2. CASE SaveNew(l)
      <4>1. [rot[l] EXCEPT !.at = "saved"] \in RotationType
        BY DEF RotationType
      <4>. QED BY <3>2, <4>1 DEF SaveNew, RotationGoes
    <3>3. CASE Acknowledged(l) \/ SaveOld(l)
      BY <1>0, <3>3 DEF Acknowledged, SaveOld
    <3>. QED BY <1>9, <3>1, <3>2, <3>3
  <2>3. state' \in FileType
    <3>1. \/ state' = state
          \/ \E c \in 0..MaxCredentials : state' = [state EXCEPT !.cred = c]
      BY <1>9, <2>1 DEF BeginRotation, SaveNew, Acknowledged, SaveOld, WritesState
    <3>. QED BY <3>1
  <2>4. state'.by = Nobody => state' = NoFile
    BY <1>9 DEF BeginRotation, SaveNew, Acknowledged, SaveOld, WritesState, Named, InProcess, Published, MineType
  <2>5. credentials' \in 0..MaxCredentials
    BY <1>9 DEF BeginRotation, SaveNew, Acknowledged, SaveOld
  <2>6. UNCHANGED <<sock, record, stage, mine, unlinks>>
    BY <1>9 DEF BeginRotation, SaveNew, Acknowledged, SaveOld
  <2>. QED BY <2>2, <2>3, <2>4, <2>5, <2>6
<1>10. ASSUME NEW l \in Launch, PublishNew(l) \/ Rollback(l) PROVE Filed'
  <2>1. /\ rot[l].old \in 0..MaxCredentials /\ rot[l].new \in 0..MaxCredentials
        /\ \A to \in {"waiting", "undo"} : [rot[l] EXCEPT !.at = to] \in RotationType
    BY DEF RotationType
  <2>2. \A c \in 0..MaxCredentials :
          /\ [mine[l] EXCEPT !.cred = c, !.info = c] \in MineType /\ [mine[l] EXCEPT !.cred = c] \in MineType
          /\ [by |-> l, cred |-> c] \in FileType
    <3>1. mine[l] \in MineType
      OBVIOUS
    <3>. QED BY <3>1 DEF MineType
  <2>3. \E to \in {"waiting", "undo"} : rot' = [rot EXCEPT ![l] = [rot[l] EXCEPT !.at = to]]
    BY <1>10 DEF PublishNew, Rollback, RotationGoes
  <2>4. \E c \in 0..MaxCredentials :
          \/ WritesRecord(l, c)
          \/ UNCHANGED record /\ (mine' = mine \/ mine' = [mine EXCEPT ![l] = [mine[l] EXCEPT !.cred = c]])
    BY <1>10, <2>1 DEF PublishNew, Rollback
  <2>5. UNCHANGED <<state, sock, stage, credentials, unlinks>>
    BY <1>10 DEF PublishNew, Rollback
  <2>6. rot' \in [Launch -> RotationType]
    BY <2>1, <2>3
  <2>7. mine' \in [Launch -> MineType] /\ record' \in [Launch -> FileType]
    <3>1. PICK c \in 0..MaxCredentials :
            \/ WritesRecord(l, c)
            \/ UNCHANGED record /\ (mine' = mine \/ mine' = [mine EXCEPT ![l] = [mine[l] EXCEPT !.cred = c]])
      BY <2>4
    <3>2. \E m \in MineType : mine' = mine \/ mine' = [mine EXCEPT ![l] = m]
      BY <2>2, <3>1 DEF WritesRecord
    <3>3. \E f \in FileType : record' = record \/ record' = [record EXCEPT ![mine[l].id] = f]
      BY <2>2, <3>1 DEF WritesRecord
    <3>. HIDE DEF FileType
    <3>. QED BY <3>2, <3>3
  <2>. QED BY <2>5, <2>6, <2>7
<1>11. CASE UNCHANGED localVars
  BY <1>11 DEF localVars
<1>. QED BY <1>1, <1>2, <1>3, <1>4, <1>5, <1>6, <1>7, <1>8, <1>9, <1>10, <1>11 DEF LocalNext

\* The file's identity is written once, before anybody has published.
LEMMA NamedStep ==
  ASSUME LocalAssumption, FilesInvariant, [LocalNext]_localVars PROVE Named'
<1> USE LocalAssumption DEF LocalAssumption, FilesInvariant, Filed, MineType, Named, Goes, NoFile, NoRotation, Published
<1>1. ASSUME NEW l \in Launch, Prepare(l) PROVE Named'
  BY <1>1 DEF Prepare
<1>2. ASSUME NEW l \in Launch, LookForRecord(l) \/ Bind(l) \/ LookAgain(l) \/ Check(l) \/ Resumed(l) PROVE Named'
  BY <1>2 DEF LookForRecord, Bind, LookAgain, Check, Resumed
<1>3. ASSUME NEW l \in Launch, Persist(l) PROVE Named'
  BY <1>3 DEF Persist
<1>4. ASSUME NEW l \in Launch, Finalize(l) PROVE Named'
  BY <1>4 DEF Finalize
<1>5. ASSUME NEW l \in Launch, Release(l) \/ CloseStep(l) PROVE Named'
  BY <1>5 DEF Release, CloseStep, Close
<1>6. ASSUME NEW l \in Launch, Exit(l) \/ Die(l) \/ Recover(l) \/ Unlink(l) PROVE Named'
  BY <1>6 DEF Exit, Die, Stops, Recover, Unlink
<1>7. ASSUME NEW l \in Launch, BeginRotation(l) \/ SaveNew(l) \/ Acknowledged(l) \/ SaveOld(l) PROVE Named'
  <2>1. state'.by = state.by
    BY <1>7 DEF BeginRotation, SaveNew, Acknowledged, SaveOld, WritesState, FileType
  <2>2. UNCHANGED <<stage, mine>>
    BY <1>7 DEF BeginRotation, SaveNew, Acknowledged, SaveOld
  <2>. QED BY <2>1, <2>2
<1>8. ASSUME NEW l \in Launch, PublishNew(l) \/ Rollback(l) PROVE Named'
  BY <1>8 DEF PublishNew, Rollback, RotationGoes, WritesRecord
<1>9. CASE UNCHANGED localVars
  BY <1>9 DEF localVars
<1>. QED BY <1>1, <1>2, <1>3, <1>4, <1>5, <1>6, <1>7, <1>8, <1>9 DEF LocalNext

\* An identity is for good once a launch has read it: only Prepare draws one.
LEMMA IdentityStep ==
  ASSUME LocalAssumption, FilesInvariant, [LocalNext]_localVars, NEW k \in Launch
  PROVE  stage[k] # "idle" => mine'[k].id = mine[k].id /\ stage'[k] # "idle"
<1> USE DEF FilesInvariant, Filed, MineType, Places, Goes
<1>1. ASSUME NEW l \in Launch, Prepare(l) PROVE stage[k] # "idle" => mine'[k].id = mine[k].id /\ stage'[k] # "idle"
  BY <1>1 DEF Prepare
<1>2. ASSUME NEW l \in Launch,
             \/ LookForRecord(l) \/ Bind(l) \/ LookAgain(l) \/ Persist(l) \/ Check(l) \/ Resumed(l)
             \/ Release(l) \/ CloseStep(l) \/ Exit(l) \/ Die(l) \/ Recover(l) \/ Unlink(l)
             \/ BeginRotation(l) \/ SaveNew(l) \/ Acknowledged(l) \/ SaveOld(l)
      PROVE  stage[k] # "idle" => mine'[k].id = mine[k].id /\ stage'[k] # "idle"
  <2>1. mine' = mine
    BY <1>2 DEF LookForRecord, Bind, LookAgain, Persist, Check, Resumed, Release, CloseStep, Exit, Die, Recover,
                Unlink, BeginRotation, SaveNew, Acknowledged, SaveOld
  <2>2. stage' = stage \/ \E to \in Places \ {"idle"} : stage' = [stage EXCEPT ![l] = to]
    BY <1>2 DEF LookForRecord, Bind, LookAgain, Persist, Check, Resumed, Release, CloseStep, Close, Exit, Die,
                Stops, Recover, Unlink, BeginRotation, SaveNew, Acknowledged, SaveOld
  <2>. QED BY <2>1, <2>2
<1>3. ASSUME NEW l \in Launch, Finalize(l) PROVE stage[k] # "idle" => mine'[k].id = mine[k].id /\ stage'[k] # "idle"
  BY <1>3 DEF Finalize
<1>4. ASSUME NEW l \in Launch, PublishNew(l) \/ Rollback(l)
      PROVE  stage[k] # "idle" => mine'[k].id = mine[k].id /\ stage'[k] # "idle"
  <2>1. UNCHANGED stage
    BY <1>4 DEF PublishNew, Rollback
  <2>2. \/ mine' = mine
        \/ \E c : mine' = [mine EXCEPT ![l] = [mine[l] EXCEPT !.cred = c]]
        \/ \E c : mine' = [mine EXCEPT ![l].cred = c, ![l].info = c]
    BY <1>4 DEF PublishNew, Rollback, WritesRecord
  <2>3. mine'[k].id = mine[k].id
    <3>1. ASSUME NEW c, mine' = [mine EXCEPT ![l] = [mine[l] EXCEPT !.cred = c]] PROVE mine'[k].id = mine[k].id
      BY <3>1
    <3>2. ASSUME NEW c, mine' = [mine EXCEPT ![l].cred = c, ![l].info = c] PROVE mine'[k].id = mine[k].id
      BY <3>2
    <3>. QED BY <2>2, <3>1, <3>2
  <2>. QED BY <2>1, <2>3
<1>5. CASE UNCHANGED localVars
  BY <1>5 DEF localVars
<1>. QED BY <1>1, <1>2, <1>3, <1>4, <1>5 DEF LocalNext

\* A socket is bound where there is none, and given back before a launch is
\* over.
LEMMA BoundStep ==
  ASSUME LocalAssumption, FilesInvariant, [LocalNext]_localVars PROVE Bound'
<1> USE LocalAssumption DEF LocalAssumption, FilesInvariant, Filed, Bound, Holding, Goes
<1>0. ASSUME \A i \in Launch : sock'[i] \in {sock[i], Nobody},
             \A k \in Launch : stage[k] \in Holding \cup {"dead"} =>
               stage'[k] \in Holding \cup {"dead"} \/ sock'[mine[k].id] # k
      PROVE  Bound'
  BY <1>0, IdentityStep
<1>1. ASSUME NEW l \in Launch, Bind(l) PROVE Bound'
  BY <1>1, IdentityStep DEF Bind, MineType
<1>2. ASSUME NEW l \in Launch,
             \/ Prepare(l) \/ LookForRecord(l) \/ LookAgain(l) \/ Persist(l) \/ Check(l) \/ Resumed(l) \/ Finalize(l)
             \/ Exit(l) \/ Die(l)
      PROVE Bound'
  <2>1. UNCHANGED sock
    BY <1>2 DEF Prepare, LookForRecord, LookAgain, Persist, Check, Resumed, Finalize, Exit, Die
  <2>2. \A k \in Launch : stage[k] \in Holding \cup {"dead"} => stage'[k] \in Holding \cup {"dead"}
    BY <1>2 DEF Prepare, LookForRecord, LookAgain, Persist, Check, Resumed, Finalize, Exit, Die, Stops
  <2>. QED BY <2>1, <2>2, <1>0
<1>3. ASSUME NEW l \in Launch, Release(l) \/ CloseStep(l) PROVE Bound'
  <2>1. \A i \in Launch : sock'[i] \in {sock[i], Nobody}
    BY <1>3 DEF Release, CloseStep, Close, WithoutSocket
  <2>2. stage[l] \in {"releasing", "unlinking"} => sock'[mine[l].id] # l
    BY <1>3 DEF Release, CloseStep, Close, WithoutSocket, MineType
  <2>3. \A k \in Launch : stage[k] \in Holding \cup {"dead"} =>
          stage'[k] \in Holding \cup {"dead"} \/ (k = l /\ stage[l] \in {"releasing", "unlinking"})
    BY <1>3 DEF Release, CloseStep, Close
  <2>. QED BY <2>1, <2>2, <2>3, <1>0
<1>4. ASSUME NEW l \in Launch, Recover(l) \/ Unlink(l) PROVE Bound'
  <2>1. \A i \in Launch : sock'[i] \in {sock[i], Nobody}
    BY <1>4 DEF Recover, Unlink, WithoutSocket
  <2>2. UNCHANGED stage
    BY <1>4 DEF Recover, Unlink
  <2>. QED BY <2>1, <2>2, <1>0
<1>5. ASSUME NEW l \in Launch, BeginRotation(l) \/ SaveNew(l) \/ PublishNew(l) \/ Acknowledged(l) \/ Rollback(l) \/ SaveOld(l)
      PROVE Bound'
  <2>1. UNCHANGED <<stage, sock>>
    BY <1>5 DEF BeginRotation, SaveNew, PublishNew, Acknowledged, Rollback, SaveOld
  <2>. QED BY <2>1, <1>0
<1>6. CASE UNCHANGED localVars
  BY <1>6 DEF localVars
<1>. QED BY <1>1, <1>2, <1>3, <1>4, <1>5, <1>6 DEF LocalNext

\* A record is published where there is none, and withdrawn before a launch
\* is over; others take only what a dead launch left.
LEMMA RecordedStep ==
  ASSUME LocalAssumption, FilesInvariant, [LocalNext]_localVars PROVE Recorded' /\ Shown'
<1> USE LocalAssumption DEF LocalAssumption, FilesInvariant, Filed, Recorded, Shown, Published, Goes
<1>0. ASSUME UNCHANGED record,
             \A k \in Launch : stage[k] \in Published \cup {"dead"} => stage'[k] \in Published \cup {"dead"},
             \A k \in Launch : stage'[k] \in Published => stage[k] \in Published /\ mine'[k].info = mine[k].info
      PROVE  Recorded' /\ Shown'
  BY <1>0, IdentityStep
<1>1. ASSUME NEW l \in Launch,
             \/ Prepare(l) \/ LookForRecord(l) \/ Bind(l) \/ LookAgain(l) \/ Persist(l) \/ Check(l) \/ Resumed(l)
             \/ Release(l) \/ Exit(l) \/ Die(l) \/ Unlink(l)
      PROVE Recorded' /\ Shown'
  <2>1. UNCHANGED record
    BY <1>1 DEF Prepare, LookForRecord, Bind, LookAgain, Persist, Check, Resumed, Release, Exit, Die, Unlink
  <2>2. \A k \in Launch : stage[k] \in Published \cup {"dead"} => stage'[k] \in Published \cup {"dead"}
    BY <1>1 DEF Prepare, LookForRecord, Bind, LookAgain, Persist, Check, Resumed, Release, Exit, Die, Stops, Unlink
  <2>3. \A k \in Launch : stage'[k] \in Published => stage[k] \in Published
    BY <1>1 DEF Prepare, LookForRecord, Bind, LookAgain, Persist, Check, Resumed, Release, Exit, Die, Stops, Unlink
  <2>4. \A k \in Launch : stage[k] \in Published => mine'[k] = mine[k]
    BY <1>1 DEF Prepare, LookForRecord, Bind, LookAgain, Persist, Check, Resumed, Release, Exit, Die, Unlink
  <2>. QED BY <2>1, <2>2, <2>3, <2>4, <1>0
<1>2. ASSUME NEW l \in Launch, NEW c, stage[l] \in Published \cup {"publishing"},
             \A k \in Launch : k # l => mine'[k] = mine[k] /\ stage'[k] = stage[k],
             stage'[l] = "running", mine'[l].id = mine[l].id, mine'[l].info = c,
             record' = [record EXCEPT ![mine[l].id] = [by |-> l, cred |-> c]],
             stage[l] = "publishing" => record[mine[l].id].by = Nobody
      PROVE Recorded' /\ Shown'
  <2>1. mine[l].id \in Launch
    BY DEF MineType
  <2>2. \A i \in Launch : record'[i] = IF i = mine[l].id THEN [by |-> l, cred |-> c] ELSE record[i]
    BY <1>2
  <2>3. record'[mine[l].id].by = l /\ record'[mine[l].id].cred = c
    BY <2>1, <2>2
  <2>4. \A k \in Launch : stage[k] \in Published /\ k # l => mine[k].id # mine[l].id
    BY <1>2
  <2>5. \A k \in Launch : mine[k].id \in Launch
    BY DEF MineType
  <2>. QED BY <1>2, <2>1, <2>2, <2>3, <2>4, <2>5
<1>3. ASSUME NEW l \in Launch, Finalize(l) PROVE Recorded' /\ Shown'
  <2>1. CASE NoRecord(l)
    <3>1. /\ stage[l] = "publishing" /\ record[mine[l].id].by = Nobody
          /\ record' = [record EXCEPT ![mine[l].id] = [by |-> l, cred |-> mine[l].cred]]
          /\ stage' = [stage EXCEPT ![l] = "running"]
      BY <1>3, <2>1 DEF Finalize, NoRecord, NoFile
    <3>2. mine'[l].id = mine[l].id /\ mine'[l].info = mine[l].cred /\ \A k \in Launch : k # l => mine'[k] = mine[k]
      BY <1>3, <2>1 DEF Finalize, MineType
    <3>3. stage'[l] = "running" /\ (\A k \in Launch : k # l => mine'[k] = mine[k] /\ stage'[k] = stage[k])
      BY <3>1, <3>2
    <3>. HIDE DEF Recorded, Shown
    <3>. QED BY <3>1, <3>2, <3>3, <1>2
  <2>2. CASE ~NoRecord(l)
    <3>1. UNCHANGED <<record, mine>> /\ stage[l] = "publishing" /\ stage' = [stage EXCEPT ![l] = "releasing"]
      BY <1>3, <2>2 DEF Finalize
    <3>2. /\ \A k \in Launch : stage[k] \in Published \cup {"dead"} => stage'[k] \in Published \cup {"dead"}
          /\ \A k \in Launch : stage'[k] \in Published => stage[k] \in Published
      BY <3>1
    <3>3. UNCHANGED record /\ \A k \in Launch : mine'[k].info = mine[k].info
      BY <3>1
    <3>. QED BY <3>2, <3>3, <1>0
  <2>. QED BY <2>1, <2>2
<1>4. ASSUME NEW l \in Launch, CloseStep(l) PROVE Recorded' /\ Shown'
  <2>1. CASE stage[l] # "unlinked"
    <3>1. UNCHANGED <<record, mine>> /\ stage[l] \in Published /\ \E to \in Published : stage' = [stage EXCEPT ![l] = to]
      BY <1>4, <2>1 DEF CloseStep, Close
    <3>. QED BY <3>1, <1>0
  <2>2. CASE stage[l] = "unlinked"
    <3>1. record[mine[l].id] = [by |-> l, cred |-> mine[l].info]
      BY <2>2 DEF FileType, MineType
    <3>2. record' = [record EXCEPT ![mine[l].id] = NoFile] /\ UNCHANGED mine /\ stage' = [stage EXCEPT ![l] = "closed"]
      BY <1>4, <2>2, <3>1 DEF CloseStep, Close, WithoutRecord
    <3>3. \A i \in Launch : record'[i] = IF i = mine[l].id THEN NoFile ELSE record[i]
      BY <3>2
    <3>4. NoFile.by = Nobody
      BY DEF NoFile
    <3>5. \A k \in Launch : stage[k] \in Published /\ k # l => mine[k].id # mine[l].id
      BY <2>2
    <3>6. \A k \in Launch : mine[k].id \in Launch
      BY DEF MineType
    <3>. QED BY <2>2, <3>2, <3>3, <3>4, <3>5, <3>6
  <2>. QED BY <2>1, <2>2
<1>5. ASSUME NEW l \in Launch, Recover(l) PROVE Recorded' /\ Shown'
  <2>1. UNCHANGED <<stage, mine>> /\ stage[l] = "dead"
    BY <1>5 DEF Recover
  <2>2. \A i \in Launch : record'[i] = record[i] \/ (record[i].by = l /\ record'[i] = NoFile)
    BY <1>5 DEF Recover
  <2>3. NoFile.by = Nobody
    BY DEF NoFile
  <2>4. \A k \in Launch : mine[k].id \in Launch
    BY DEF MineType
  <2>. QED BY <2>1, <2>2, <2>3, <2>4
<1>6. ASSUME NEW l \in Launch, BeginRotation(l) \/ SaveNew(l) \/ Acknowledged(l) \/ SaveOld(l)
      PROVE Recorded' /\ Shown'
  <2>1. UNCHANGED <<stage, mine, record>>
    BY <1>6 DEF BeginRotation, SaveNew, Acknowledged, SaveOld
  <2>. QED BY <2>1, <1>0
<1>7. ASSUME NEW l \in Launch, PublishNew(l) \/ Rollback(l) PROVE Recorded' /\ Shown'
  <2>1. UNCHANGED stage
    BY <1>7 DEF PublishNew, Rollback
  <2>2. CASE \E c : stage[l] = "running" /\ WritesRecord(l, c)
    <3>1. PICK c : stage[l] = "running" /\ WritesRecord(l, c)
      BY <2>2
    <3>2. mine'[l].id = mine[l].id /\ mine'[l].info = c /\ \A k \in Launch : k # l => mine'[k] = mine[k]
      BY <3>1 DEF WritesRecord, MineType
    <3>3. record' = [record EXCEPT ![mine[l].id] = [by |-> l, cred |-> c]]
      BY <3>1 DEF WritesRecord
    <3>4. stage'[l] = "running" /\ (\A k \in Launch : k # l => mine'[k] = mine[k] /\ stage'[k] = stage[k])
      BY <2>1, <3>1, <3>2
    <3>. HIDE DEF Recorded, Shown
    <3>. QED BY <1>2, <3>1, <3>2, <3>3, <3>4
  <2>3. CASE ~\E c : stage[l] = "running" /\ WritesRecord(l, c)
    <3>1. UNCHANGED record /\ \A k \in Launch : mine'[k].info = mine[k].info
      <4>1. CASE PublishNew(l)
        BY <4>1, <2>3 DEF PublishNew
      <4>2. CASE Rollback(l)
        <5>1. UNCHANGED record /\ mine' = [mine EXCEPT ![l].cred = rot[l].old]
          BY <4>2, <2>3 DEF Rollback
        <5>. QED BY <5>1 DEF MineType
      <4>. QED BY <1>7, <4>1, <4>2
    <3>. QED BY <2>1, <3>1, <1>0
  <2>. QED BY <2>2, <2>3
<1>8. CASE UNCHANGED localVars
  BY <1>8, <1>0 DEF localVars
<1>. QED BY <1>1, <1>3, <1>4, <1>5, <1>6, <1>7, <1>8 DEF LocalNext

\* A rotation begins in a running process and goes with it.
LEMMA RotatingStep ==
  ASSUME LocalAssumption, FilesInvariant, [LocalNext]_localVars PROVE Rotating'
<1> USE LocalAssumption DEF LocalAssumption, FilesInvariant, Filed, RotationType, Rotating, InProcess, Goes, NoRotation
<1>1. ASSUME NEW l \in Launch,
             \/ Prepare(l) \/ LookForRecord(l) \/ Bind(l) \/ LookAgain(l) \/ Persist(l)
             \/ Check(l) \/ Resumed(l) \/ Finalize(l) \/ Release(l) \/ CloseStep(l)
      PROVE Rotating'
  BY <1>1 DEF Prepare, LookForRecord, Bind, LookAgain, Persist, Check, Resumed, Finalize, Release, CloseStep, Close
<1>2. ASSUME NEW l \in Launch, Exit(l) \/ Die(l) \/ Recover(l) \/ Unlink(l) PROVE Rotating'
  BY <1>2 DEF Exit, Die, Stops, Recover, Unlink
<1>3. ASSUME NEW l \in Launch, BeginRotation(l) \/ SaveNew(l) \/ Acknowledged(l) \/ SaveOld(l) PROVE Rotating'
  BY <1>3 DEF BeginRotation, SaveNew, Acknowledged, SaveOld, RotationGoes
<1>4. ASSUME NEW l \in Launch, PublishNew(l) \/ Rollback(l) PROVE Rotating'
  BY <1>4 DEF PublishNew, Rollback, RotationGoes
<1>5. CASE UNCHANGED localVars
  BY <1>5 DEF localVars
<1>. QED BY <1>1, <1>2, <1>3, <1>4, <1>5 DEF LocalNext

\* Together they are inductive.
LEMMA FilesStep ==
  ASSUME LocalAssumption, FilesInvariant, [LocalNext]_localVars PROVE FilesInvariant'
<1>1. late' \in BOOLEAN
  BY DEF FilesInvariant, LocalNext, localVars, Prepare, LookForRecord, Bind, LookAgain, Persist, Check, Resumed,
         Finalize, Release, CloseStep, Exit, Die, Recover, BeginRotation, SaveNew, PublishNew, Acknowledged,
         Rollback, SaveOld, Unlink, WritesState
<1>. QED BY <1>1, FiledStep, NamedStep, BoundStep, RecordedStep, RotatingStep DEF FilesInvariant

(* Every variable keeps its type.                                             *)
THEOREM LocalTypeCorrect == ASSUME LocalAssumption PROVE LocalSpec => []LocalTypeOK
<1>1. FilesInvariant => LocalTypeOK
  <2> SUFFICES ASSUME FilesInvariant PROVE LocalTypeOK
    OBVIOUS
  <2>1. Filed /\ late \in BOOLEAN
    BY DEF FilesInvariant
  <2>2. stage \in [Launch -> Starting \cup Closing \cup {"idle", "running", "over", "dead"}]
    BY <2>1 DEF Filed, Places, Starting, Closing
  <2>. QED BY <2>1, <2>2 DEF Filed, LocalTypeOK, FileType, MineType, RotationType
<1>. QED BY FilesStart, FilesStep, <1>1, PTL DEF LocalSpec

(* At most one launch of a state file runs, and one that is over has left     *)
(* neither socket nor record (session_reservation.go).                        *)
THEOREM OneLaunchRuns == ASSUME LocalAssumption PROVE LocalSpec => []FilesTellWhoRuns
<1>1. FilesInvariant => FilesTellWhoRuns
  <2> SUFFICES ASSUME FilesInvariant PROVE FilesTellWhoRuns
    OBVIOUS
  <2> DEFINE Runs == {l \in Launch : stage[l] = "running"}
  <2>1. \A l, k \in Runs : l = k
    BY DEF FilesInvariant, Named, Shown, Published
  <2>2. Cardinality(Runs) <= 1
    <3>1. CASE Runs = {}
      BY <3>1, FS_EmptySet
    <3>2. CASE Runs # {}
      <4>1. PICK l \in Runs : TRUE
        BY <3>2
      <4>2. Runs = {l}
        BY <2>1, <4>1
      <4>3. Cardinality({l}) = 1
        BY FS_Singleton, Zenon
      <4>4. Cardinality(Runs) = 1
        BY <4>2, <4>3, Zenon
      <4>. QED BY <4>4
    <3>. QED BY <3>1, <3>2
  <2>3. ASSUME NEW l \in Launch, stage[l] = "over" PROVE sock[mine[l].id] # l /\ record[mine[l].id].by # l
    <3>1. mine[l].id \in Launch
      BY DEF FilesInvariant, Filed, MineType
    <3>. QED BY <2>3, <3>1 DEF FilesInvariant, Bound, Recorded, Holding, Published
  <2>. QED BY <2>2, <2>3 DEF FilesTellWhoRuns
<1>. QED BY FilesStart, FilesStep, <1>1, PTL DEF LocalSpec

\* Unless others remove sockets, a launch that holds its socket is named by
\* it.
Exclusive == unlinks = 0 => \A l \in Launch : stage[l] \in Holding => sock[mine[l].id] = l

\* Before it saves, a launch uses what it read; a running one, what its
\* record shows.
Compared == \A l \in Launch :
  /\ stage[l] \in {"prepared", "looked", "bound", "reserved"} /\ mine[l].prior # 0 => mine[l].cred = mine[l].prior
  /\ stage[l] = "running" => mine[l].cred = mine[l].info

\* How the file, the launch and its rotation agree while it runs.
Agree(l) ==
  /\ rot[l].at \in {"none", "read", "waiting"} => state.cred = mine[l].cred
  /\ rot[l].at \in {"read", "saved", "undo"} => rot[l].old = mine[l].cred
  /\ rot[l].at \in {"saved", "waiting"} => state.cred = rot[l].new

Kept == ~late /\ unlinks = 0 => \A l \in Launch :
  /\ stage[l] \in {"saved", "resuming", "publishing"} => state.cred = mine[l].cred
  /\ stage[l] = "running" => Agree(l)

\* A socket is bound only where there is none, and given back by its owner.
LEMMA ExclusiveStep ==
  ASSUME LocalAssumption, FilesInvariant, Exclusive, [LocalNext]_localVars PROVE Exclusive'
<1> USE LocalAssumption DEF LocalAssumption, FilesInvariant, Filed, MineType, Exclusive, Holding, Goes
<1>0. ASSUME unlinks' = unlinks,
             \A k \in Launch : sock[mine[k].id] = k /\ stage'[k] \in Holding => sock'[mine[k].id] = k,
             \A k \in Launch : stage'[k] \in Holding => stage[k] \in Holding
      PROVE  Exclusive'
  BY <1>0, IdentityStep
<1>1. ASSUME NEW l \in Launch, Bind(l) PROVE Exclusive'
  <2>1. UNCHANGED <<mine, unlinks>>
    BY <1>1 DEF Bind
  <2>2. CASE sock[mine[l].id] = Nobody
    <3>1. sock' = [sock EXCEPT ![mine[l].id] = l] /\ stage' = [stage EXCEPT ![l] = "bound"]
      BY <1>1, <2>2 DEF Bind
    <3>. QED BY <2>1, <2>2, <3>1
  <2>3. CASE sock[mine[l].id] # Nobody
    <3>1. UNCHANGED sock /\ stage' = [stage EXCEPT ![l] = "over"]
      BY <1>1, <2>3 DEF Bind
    <3>. QED BY <2>1, <3>1
  <2>. QED BY <2>2, <2>3
<1>2. ASSUME NEW l \in Launch,
             \/ Prepare(l) \/ LookForRecord(l) \/ LookAgain(l) \/ Persist(l) \/ Check(l) \/ Resumed(l) \/ Finalize(l)
             \/ Exit(l) \/ Die(l)
      PROVE Exclusive'
  <2>1. UNCHANGED <<sock, unlinks>>
    BY <1>2 DEF Prepare, LookForRecord, LookAgain, Persist, Check, Resumed, Finalize, Exit, Die
  <2>2. \A k \in Launch : stage'[k] \in Holding => stage[k] \in Holding
    BY <1>2 DEF Prepare, LookForRecord, LookAgain, Persist, Check, Resumed, Finalize, Exit, Die, Stops
  <2>. QED BY <2>1, <2>2, <1>0
<1>3. ASSUME NEW l \in Launch, Release(l) \/ CloseStep(l) PROVE Exclusive'
  <2>1. unlinks' = unlinks /\ \A k \in Launch : stage'[k] \in Holding => stage[k] \in Holding
    BY <1>3 DEF Release, CloseStep, Close
  <2>2. ASSUME NEW k \in Launch, sock[mine[k].id] = k, stage'[k] \in Holding PROVE sock'[mine[k].id] = k
    <3>1. sock' = sock \/ (sock' = WithoutSocket(l) /\ stage'[l] \notin Holding)
      BY <1>3 DEF Release, CloseStep, Close
    <3>. QED BY <2>2, <3>1 DEF WithoutSocket
  <2>. QED BY <2>1, <2>2, <1>0
<1>4. ASSUME NEW l \in Launch, Recover(l) PROVE Exclusive'
  <2>1. UNCHANGED <<unlinks, stage>> /\ stage[l] = "dead" /\ sock' = WithoutSocket(l)
    BY <1>4 DEF Recover
  <2>. QED BY <2>1, <1>0 DEF WithoutSocket
<1>5. ASSUME NEW i \in Launch, Unlink(i) PROVE Exclusive'
  BY <1>5 DEF Unlink
<1>6. ASSUME NEW l \in Launch, BeginRotation(l) \/ SaveNew(l) \/ PublishNew(l) \/ Acknowledged(l) \/ Rollback(l) \/ SaveOld(l)
      PROVE Exclusive'
  <2>1. UNCHANGED <<stage, sock, unlinks>>
    BY <1>6 DEF BeginRotation, SaveNew, PublishNew, Acknowledged, Rollback, SaveOld
  <2>. QED BY <2>1, <1>0
<1>7. CASE UNCHANGED localVars
  <2>1. UNCHANGED <<stage, sock, unlinks>>
    BY <1>7 DEF localVars
  <2>. QED BY <2>1, <1>0
<1>. QED BY <1>1, <1>2, <1>3, <1>4, <1>5, <1>6, <1>7 DEF LocalNext

\* What a launch uses changes with what it read, or with its record.
LEMMA ComparedStep ==
  ASSUME LocalAssumption, FilesInvariant, Compared, [LocalNext]_localVars PROVE Compared'
<1> USE LocalAssumption DEF LocalAssumption, FilesInvariant, Filed, MineType, Compared, Goes
<1>1. ASSUME NEW l \in Launch, Prepare(l) PROVE Compared'
  BY <1>1 DEF Prepare
<1>2. ASSUME NEW l \in Launch,
             \/ LookForRecord(l) \/ Bind(l) \/ LookAgain(l) \/ Persist(l) \/ Check(l) \/ Resumed(l)
             \/ Release(l) \/ CloseStep(l) \/ Exit(l) \/ Die(l) \/ Recover(l) \/ Unlink(l)
      PROVE Compared'
  <2>1. mine' = mine
    BY <1>2 DEF LookForRecord, Bind, LookAgain, Persist, Check, Resumed, Release, CloseStep, Exit, Die, Recover, Unlink
  <2>2. \A k \in Launch :
          /\ stage'[k] \in {"prepared", "looked", "bound", "reserved"} => stage[k] \in {"prepared", "looked", "bound", "reserved"}
          /\ stage'[k] = "running" => stage[k] = "running"
    BY <1>2 DEF LookForRecord, Bind, LookAgain, Persist, Check, Resumed, Release, CloseStep, Close, Exit, Die, Stops,
                Recover, Unlink
  <2>. QED BY <2>1, <2>2
<1>3. ASSUME NEW l \in Launch, Finalize(l) PROVE Compared'
  BY <1>3 DEF Finalize
<1>4. ASSUME NEW l \in Launch, BeginRotation(l) \/ SaveNew(l) \/ Acknowledged(l) \/ SaveOld(l) PROVE Compared'
  <2>1. UNCHANGED <<stage, mine>>
    BY <1>4 DEF BeginRotation, SaveNew, Acknowledged, SaveOld
  <2>. QED BY <2>1
<1>5. ASSUME NEW l \in Launch, PublishNew(l) \/ Rollback(l) PROVE Compared'
  <2>1. UNCHANGED stage /\ InProcess(l)
    BY <1>5 DEF PublishNew, Rollback
  <2>2. \/ mine' = mine
        \/ stage[l] # "running" /\ \E c : mine' = [mine EXCEPT ![l] = [mine[l] EXCEPT !.cred = c]]
        \/ \E c : mine' = [mine EXCEPT ![l].cred = c, ![l].info = c]
    BY <1>5 DEF PublishNew, Rollback, WritesRecord
  <2>3. \A k \in Launch : k # l => mine'[k] = mine[k]
    BY <2>2
  <2>4. stage[l] = "running" => mine'[l] = mine[l] \/ mine'[l].cred = mine'[l].info
    <3>1. ASSUME NEW c, mine' = [mine EXCEPT ![l].cred = c, ![l].info = c] PROVE mine'[l].cred = mine'[l].info
      BY <3>1
    <3>. QED BY <2>2, <3>1
  <2>. QED BY <2>1, <2>3, <2>4 DEF InProcess
<1>6. CASE UNCHANGED localVars
  BY <1>6 DEF localVars
<1>. QED BY <1>1, <1>2, <1>3, <1>4, <1>5, <1>6 DEF LocalNext

\* The file is written by the launch that holds the socket, as long as nobody
\* else removes it and no rotation outlives its session.
LEMMA KeptStep ==
  ASSUME LocalAssumption, FilesInvariant, Exclusive, Compared, Kept, [LocalNext]_localVars PROVE Kept'
<1> SUFFICES ASSUME ~late', unlinks' = 0
             PROVE  \A l \in Launch :
                      /\ stage'[l] \in {"saved", "resuming", "publishing"} => state'.cred = mine'[l].cred
                      /\ stage'[l] = "running" => Agree(l)'
  BY DEF Kept
<1> DEFINE Before == {"saved", "resuming", "publishing"}
<1>l. ~late
  BY DEF LocalNext, localVars, Prepare, LookForRecord, Bind, LookAgain, Persist, Check, Resumed, Finalize, Release,
         CloseStep, Exit, Die, Recover, BeginRotation, SaveNew, PublishNew, Acknowledged, Rollback, SaveOld, Unlink,
         WritesState
<1>u. unlinks = 0 /\ ~\E i \in Launch : Unlink(i)
  <2>1. unlinks \in Nat
    BY DEF FilesInvariant, Filed, LocalAssumption
  <2>2. ~\E i \in Launch : Unlink(i)
    BY <2>1 DEF Unlink
  <2>3. unlinks' = unlinks
    BY <2>2 DEF LocalNext, localVars, Prepare, LookForRecord, Bind, LookAgain, Persist, Check, Resumed, Finalize,
                Release, CloseStep, Exit, Die, Recover, BeginRotation, SaveNew, PublishNew, Acknowledged, Rollback,
                SaveOld
  <2>. QED BY <2>2, <2>3
<1>k. \A l \in Launch : /\ stage[l] \in Before => state.cred = mine[l].cred
                        /\ stage[l] = "running" => Agree(l)
  BY <1>l, <1>u DEF Kept
<1> USE LocalAssumption DEF LocalAssumption, FilesInvariant, Filed, MineType, RotationType, Goes
<1>o. ASSUME NEW k \in Launch, NEW l \in Launch, stage[k] \in Before \cup {"running"}, stage[l] = "running" PROVE k = l
  BY <1>o, <1>u DEF Exclusive, Holding, Named, Published
<1>s. ASSUME UNCHANGED state,
             \A k \in Launch : stage'[k] \in Before => stage[k] \in Before,
             \A k \in Launch : stage'[k] = "running" => stage[k] = "running" /\ rot'[k] = rot[k],
             \A k \in Launch : stage[k] \in Before \cup {"running"} => mine'[k].cred = mine[k].cred
      PROVE  \A k \in Launch : /\ stage'[k] \in Before => state'.cred = mine'[k].cred
                               /\ stage'[k] = "running" => Agree(k)'
  BY <1>s, <1>k DEF Agree
<1>1. ASSUME NEW l \in Launch,
             \/ LookForRecord(l) \/ Bind(l) \/ LookAgain(l) \/ Check(l) \/ Resumed(l) \/ Release(l) \/ CloseStep(l)
             \/ Exit(l) \/ Die(l) \/ Recover(l)
      PROVE  \A k \in Launch : /\ stage'[k] \in Before => state'.cred = mine'[k].cred
                               /\ stage'[k] = "running" => Agree(k)'
  <2>1. UNCHANGED <<state, mine>>
    BY <1>1 DEF LookForRecord, Bind, LookAgain, Check, Resumed, Release, CloseStep, Exit, Die, Recover
  <2>2. \A k \in Launch : stage'[k] \in Before => stage[k] \in Before
    BY <1>1 DEF LookForRecord, Bind, LookAgain, Check, Resumed, Release, CloseStep, Close, Exit, Die, Stops, Recover
  <2>3. \A k \in Launch : stage'[k] = "running" => stage[k] = "running" /\ rot'[k] = rot[k]
    BY <1>1 DEF LookForRecord, Bind, LookAgain, Check, Resumed, Release, CloseStep, Close, Exit, Die, Stops, Recover
  <2>. QED BY <2>1, <2>2, <2>3, <1>s
<1>2. ASSUME NEW l \in Launch, Prepare(l)
      PROVE  \A k \in Launch : /\ stage'[k] \in Before => state'.cred = mine'[k].cred
                               /\ stage'[k] = "running" => Agree(k)'
  <2>1. UNCHANGED <<state, rot>> /\ stage[l] = "idle" /\ stage' = [stage EXCEPT ![l] = "prepared"]
    BY <1>2 DEF Prepare
  <2>2. \A k \in Launch : k # l => mine'[k] = mine[k]
    BY <1>2 DEF Prepare
  <2>. QED BY <2>1, <2>2, <1>s
<1>3. ASSUME NEW l \in Launch, Persist(l)
      PROVE  \A k \in Launch : /\ stage'[k] \in Before => state'.cred = mine'[k].cred
                               /\ stage'[k] = "running" => Agree(k)'
  <2>1. UNCHANGED <<mine, rot>> /\ stage[l] = "reserved"
    BY <1>3 DEF Persist
  <2>2. CASE UNCHANGED state /\ stage' = [stage EXCEPT ![l] = "releasing"]
    BY <2>1, <2>2, <1>s
  <2>3. CASE state = NoFile /\ state' = [by |-> l, cred |-> mine[l].cred] /\ stage' = [stage EXCEPT ![l] = "saved"]
    <3>1. \A k \in Launch : stage[k] \notin Before \cup {"running"}
      BY <2>3 DEF NoFile, Named, Published
    <3>. QED BY <2>1, <2>3, <3>1
  <2>4. CASE /\ mine[l].prior # 0 /\ state = [by |-> mine[l].id, cred |-> mine[l].prior]
             /\ UNCHANGED state /\ stage' = [stage EXCEPT ![l] = "saved"]
    <3>1. state.cred = mine[l].cred
      BY <2>1, <2>4 DEF Compared
    <3>. QED BY <2>1, <2>4, <3>1, <1>k DEF Agree
  <2>. QED BY <1>3, <2>2, <2>3, <2>4 DEF Persist
<1>4. ASSUME NEW l \in Launch, Finalize(l)
      PROVE  \A k \in Launch : /\ stage'[k] \in Before => state'.cred = mine'[k].cred
                               /\ stage'[k] = "running" => Agree(k)'
  <2>1. UNCHANGED <<state, rot>> /\ stage[l] = "publishing" /\ stage' \in {[stage EXCEPT ![l] = "running"], [stage EXCEPT ![l] = "releasing"]}
    BY <1>4 DEF Finalize
  <2>2. \A k \in Launch : mine'[k].cred = mine[k].cred
    BY <1>4 DEF Finalize
  <2>3. rot[l].at = "none"
    BY <2>1 DEF Rotating, InProcess
  <2>. QED BY <2>1, <2>2, <2>3, <1>k DEF Agree
<1>5. ASSUME NEW l \in Launch,
             UNCHANGED stage, \A k \in Launch : k # l => mine'[k] = mine[k] /\ rot'[k] = rot[k],
             UNCHANGED state \/ stage[l] = "running", stage[l] \notin Before,
             stage[l] = "running" => Agree(l)'
      PROVE  \A k \in Launch : /\ stage'[k] \in Before => state'.cred = mine'[k].cred
                               /\ stage'[k] = "running" => Agree(k)'
  <2>1. ASSUME NEW k \in Launch, k # l, stage[k] \in Before \cup {"running"} PROVE UNCHANGED state
    BY <1>5, <1>o, <2>1
  <2>. QED BY <1>5, <2>1, <1>k DEF Agree
<1>6. ASSUME NEW l \in Launch, BeginRotation(l) \/ Acknowledged(l)
      PROVE  \A k \in Launch : /\ stage'[k] \in Before => state'.cred = mine'[k].cred
                               /\ stage'[k] = "running" => Agree(k)'
  <2>1. UNCHANGED <<stage, mine, state>> /\ InProcess(l)
    BY <1>6 DEF BeginRotation, Acknowledged, InProcess
  <2>2. \A k \in Launch : k # l => rot'[k] = rot[k]
    BY <1>6 DEF BeginRotation, Acknowledged
  <2>3. \/ rot'[l].at = "read" /\ rot[l].at = "none" /\ rot'[l].old = state.cred
        \/ rot'[l].at = "none" /\ rot[l].at = "waiting"
    <3>1. CASE BeginRotation(l)
      BY <3>1 DEF BeginRotation
    <3>2. CASE Acknowledged(l)
      BY <3>2 DEF Acknowledged, NoRotation
    <3>. QED BY <1>6, <3>1, <3>2
  <2>4. stage[l] = "running" => Agree(l)'
    BY <2>1, <2>3, <1>k DEF Agree
  <2>. QED BY <2>1, <2>2, <2>4, <1>5 DEF InProcess
<1>7. ASSUME NEW l \in Launch, SaveNew(l) \/ SaveOld(l)
      PROVE  \A k \in Launch : /\ stage'[k] \in Before => state'.cred = mine'[k].cred
                               /\ stage'[k] = "running" => Agree(k)'
  <2>1. UNCHANGED <<stage, mine>> /\ InProcess(l)
    BY <1>7 DEF SaveNew, SaveOld
  <2>2. stage[l] = "running"
    <3>1. late' = (late \/ stage[l] # "running")
      BY <1>7 DEF SaveNew, SaveOld, WritesState
    <3>. QED BY <3>1, Zenon
  <2>3. \A k \in Launch : k # l => rot'[k] = rot[k]
    BY <1>7 DEF SaveNew, SaveOld, RotationGoes
  <2>4. Agree(l)'
    <3>1. CASE SaveNew(l)
      <4>1. rot[l].at = "read" /\ rot'[l].at = "saved" /\ rot'[l].old = rot[l].old /\ rot'[l].new = rot[l].new
        BY <3>1 DEF SaveNew, RotationGoes
      <4>2. state'.cred = rot[l].new
        BY <3>1 DEF SaveNew, WritesState, FileType
      <4>. QED BY <2>1, <2>2, <4>1, <4>2, <1>k DEF Agree
    <3>2. CASE SaveOld(l)
      <4>1. rot[l].at = "undo" /\ rot'[l].at = "none"
        BY <3>2 DEF SaveOld, NoRotation
      <4>2. state'.cred = rot[l].old
        BY <3>2 DEF SaveOld, WritesState, FileType
      <4>. QED BY <2>1, <2>2, <4>1, <4>2, <1>k DEF Agree
    <3>. QED BY <1>7, <3>1, <3>2
  <2>. QED BY <2>1, <2>2, <2>3, <2>4, <1>5
<1>8. ASSUME NEW l \in Launch, PublishNew(l) \/ Rollback(l)
      PROVE  \A k \in Launch : /\ stage'[k] \in Before => state'.cred = mine'[k].cred
                               /\ stage'[k] = "running" => Agree(k)'
  <2>1. UNCHANGED <<stage, state>> /\ InProcess(l)
    BY <1>8 DEF PublishNew, Rollback
  <2>2. \A k \in Launch : k # l => rot'[k] = rot[k]
    BY <1>8 DEF PublishNew, Rollback, RotationGoes
  <2>3. \A k \in Launch : k # l => mine'[k] = mine[k]
    BY <1>8 DEF PublishNew, Rollback, WritesRecord
  <2>4. rot'[l].old = rot[l].old /\ rot'[l].new = rot[l].new
    BY <1>8 DEF PublishNew, Rollback, RotationGoes
  <2>5. \/ rot[l].at = "saved" /\ rot'[l].at = "waiting" /\ mine'[l].cred = rot[l].new
        \/ rot[l].at = "saved" /\ rot'[l].at = "undo" /\ mine'[l] = mine[l]
        \/ rot[l].at = "waiting" /\ rot'[l].at = "undo" /\ mine'[l].cred = rot[l].old
    BY <1>8 DEF PublishNew, Rollback, RotationGoes, WritesRecord
  <2>6. stage[l] = "running" => Agree(l)'
    BY <2>1, <2>4, <2>5, <1>k DEF Agree
  <2>. QED BY <2>1, <2>2, <2>3, <2>6, <1>5 DEF InProcess
<1>9. CASE UNCHANGED localVars
  <2>1. UNCHANGED <<state, stage, mine, rot>>
    BY <1>9 DEF localVars
  <2>. QED BY <2>1, <1>s
<1>. QED BY <1>u, <1>1, <1>2, <1>3, <1>4, <1>6, <1>7, <1>8, <1>9 DEF LocalNext

(* What a session runs with is in its record and in its file, unless a        *)
(* rotation outlived the session or others removed its socket                 *)
(* (persistent.go, session_unix.go).                                          *)
THEOREM SavedWhatRuns == ASSUME LocalAssumption PROVE LocalSpec => []SavedIsRun
<1> DEFINE SavedInvariant == FilesInvariant /\ Exclusive /\ Compared /\ Kept
<1>1. LocalInit => SavedInvariant
  BY FilesStart DEF LocalInit, Exclusive, Holding, Compared, Kept
<1>2. SavedInvariant /\ [LocalNext]_localVars => SavedInvariant'
  BY FilesStep, ExclusiveStep, ComparedStep, KeptStep
<1>3. SavedInvariant => SavedIsRun
  <2> SUFFICES ASSUME SavedInvariant, ~late, unlinks = 0, NEW l \in Launch, stage[l] = "running", rot[l].at = "none"
               PROVE  /\ state = [by |-> mine[l].id, cred |-> mine[l].cred]
                      /\ record[mine[l].id] = [by |-> l, cred |-> mine[l].cred]
    BY DEF SavedIsRun
  <2>1. state \in FileType /\ record[mine[l].id] \in FileType
    BY DEF FilesInvariant, Filed, MineType
  <2>2. state.by = mine[l].id /\ record[mine[l].id].by = l /\ record[mine[l].id].cred = mine[l].info
    BY DEF FilesInvariant, Named, Shown, Published
  <2>3. state.cred = mine[l].cred /\ mine[l].info = mine[l].cred
    BY DEF Kept, Agree, Compared
  <2>. QED BY <2>1, <2>2, <2>3 DEF FileType
<1>. QED BY <1>1, <1>2, <1>3, PTL DEF LocalSpec

(* RemoteStart.                                                               *)

\* An agent has no lock and is never told to end; a daemon from its lock to
\* its end holds it.
Roles == \A p \in Poller :
  /\ p \in agents => proc[p] \in {"polling", "gone"}
  /\ p \notin agents /\ proc[p] \in {"locked", "polling", "told", "closing"} => lock = p

\* A process that has polled has begun its loop; a browser knows only keys
\* that were published.
Known ==
  /\ \A p \in Poller : p \in met \/ poll[p] # "none" => proc[p] \notin {"none", "launched", "locked"}
  /\ \A c \in Command : command[c].met \subseteq met

\* Without a daemon and an agent side by side, one process is at work.
Alone == ~beside => \A p, q \in AtWork : p = q

\* The row, and every password sealed to it, have the key of the process at
\* work, if that had published it; and what was claimed, that of the claimer.
Current ==
  /\ \A p \in AtWork \cap met : key = p
  /\ \A c \in Command : command[c].status # "none" => \A p \in AtWork \cap command[c].met : command[c].key = p
  /\ \A c \in Command : command[c].status = "claimed" /\ command[c].by \in command[c].met
                          => command[c].key = command[c].by

StartInvariant ==
  StartTypeOK /\ Roles /\ Known /\ Alone /\ (~stray /\ ~beside => Current /\ Readable)

\* Nobody is at work in the beginning.
LEMMA StartStarts == ASSUME StartAssumption PROVE StartInit => StartInvariant
<1> SUFFICES ASSUME StartInit PROVE StartInvariant
  OBVIOUS
<1> USE DEF StartInit, NotAsked
<1>1. StartTypeOK
  BY DEF StartTypeOK
<1>2. Roles /\ Known /\ Alone
  BY DEF Roles, Known, Alone, AtWork, At
<1>3. Current /\ Readable
  BY DEF Current, Readable, AtWork, At
<1>. QED BY <1>1, <1>2, <1>3 DEF StartInvariant

CommandType == [status : {"none", "sealed", "queued", "claimed", "opened", "unreadable", "lost"},
                key : Poller \cup {NoPoller}, by : Poller \cup {NoPoller}, met : SUBSET Poller]

\* The steps that leave the service and its rows alone.
OnMachine ==
  \/ \E s \in Shell : Ensure(s) \/ Restart(s) \/ StopFirst(s) \/ \E p \in Poller : StartDetached(s, p)
  \/ Stop
  \/ \E p \in Poller : AcquireDaemonLock(p) \/ Listen(p) \/ RunAgent(p) \/ Unlisten(p) \/ LeaveDaemonLock(p)

\* Every step keeps the types.
LEMMA StartTypeStep ==
  ASSUME StartAssumption, StartTypeOK, [StartNext]_startVars PROVE StartTypeOK'
<1> USE DEF StartTypeOK
<1>1. CASE OnMachine
  <2>1. UNCHANGED Queue
    BY <1>1 DEF OnMachine, Ensure, Restart, StopFirst, StartDetached, Stop, AcquireDaemonLock, Listen, RunAgent,
                Unlisten, LeaveDaemonLock
  <2>2. proc' = proc \/ \E p \in Poller, to \in {"launched", "locked", "polling", "told", "closing", "gone"} : Becomes(p, to)
    BY <1>1 DEF OnMachine, Ensure, Restart, StopFirst, StartDetached, Stop, AcquireDaemonLock, Listen, RunAgent,
                Unlisten, LeaveDaemonLock, Tells
  <2>3. agents' \subseteq Poller /\ lock' \in Poller \cup {NoPoller}
    BY <1>1 DEF OnMachine, Ensure, Restart, StopFirst, StartDetached, Stop, AcquireDaemonLock, Listen, RunAgent,
                Unlisten, LeaveDaemonLock
  <2>4. shell' \in [Shell -> {"idle", "stop", "start"}]
    BY <1>1 DEF OnMachine, Ensure, Restart, StopFirst, StartDetached, Stop, AcquireDaemonLock, Listen, RunAgent,
                Unlisten, LeaveDaemonLock
  <2>5. beside' \in BOOLEAN
    BY <1>1 DEF OnMachine, Ensure, Restart, StopFirst, StartDetached, Stop, AcquireDaemonLock, Listen, RunAgent,
                Unlisten, LeaveDaemonLock
  <2>. QED BY <2>1, <2>2, <2>3, <2>4, <2>5 DEF Becomes, Queue
<1>2. ASSUME NEW p \in Poller, PollCommands(p) \/ MarkAgentSeen(p) PROVE StartTypeOK'
  <2>1. stray' \in BOOLEAN
    BY <1>2 DEF PollCommands, MarkAgentSeen
  <2>2. \E to \in {"sent", "marked"} : poll' = [poll EXCEPT ![p] = to]
    BY <1>2 DEF PollCommands, MarkAgentSeen
  <2>3. UNCHANGED <<proc, agents, lock, shell, command, beside>> /\ key' \in {p, key} /\ met' \in {met, met \cup {p}}
    BY <1>2 DEF PollCommands, MarkAgentSeen
  <2>. QED BY <2>1, <2>2, <2>3
<1>3. ASSUME NEW p \in Poller, ClaimCommands(p) PROVE StartTypeOK'
  BY <1>3 DEF ClaimCommands
<1>4. ASSUME NEW p \in Poller, PerformCommands(p) PROVE StartTypeOK'
  BY <1>4 DEF PerformCommands, Performed
<1>5. ASSUME NEW c \in Command, SealPassword(c) \/ PutCommand(c) PROVE StartTypeOK'
  <2>1. PICK r \in CommandType : command' = [command EXCEPT ![c] = r]
    <3>1. [status |-> "sealed", key |-> key, by |-> NoPoller, met |-> met] \in CommandType
      BY DEF CommandType
    <3>2. [command[c] EXCEPT !.status = "queued"] \in CommandType
      BY DEF CommandType
    <3>3. CASE SealPassword(c)
      BY <3>1, <3>3 DEF SealPassword
    <3>4. CASE PutCommand(c)
      BY <3>2, <3>4 DEF PutCommand
    <3>. QED BY <1>5, <3>3, <3>4
  <2>2. UNCHANGED <<proc, agents, lock, shell, key, poll, met, beside, stray>>
    BY <1>5 DEF SealPassword, PutCommand
  <2>. QED BY <2>1, <2>2 DEF CommandType
<1>6. CASE UNCHANGED startVars
  BY <1>6 DEF startVars
<1>. QED BY <1>1, <1>2, <1>3, <1>4, <1>5, <1>6 DEF StartNext, OnMachine

\* A step on the machine: who holds the lock, and who is at work.
LEMMA MachineStep ==
  ASSUME StartAssumption, StartInvariant, OnMachine PROVE StartInvariant'
<1> USE DEF StartInvariant
<1>0. StartTypeOK'
  BY StartTypeStep DEF OnMachine, StartNext
<1>q. UNCHANGED Queue
  BY DEF OnMachine, Ensure, Restart, StopFirst, StartDetached, Stop, AcquireDaemonLock, Listen, RunAgent, Unlisten,
         LeaveDaemonLock
<1>1. \A p \in Poller : proc'[p] \in {"none", "launched", "locked"} => proc[p] \in {"none", "launched", "locked"}
  BY DEF OnMachine, Ensure, Restart, StopFirst, StartDetached, Stop, AcquireDaemonLock, Listen, RunAgent, Unlisten,
         LeaveDaemonLock, Tells, Becomes, StartTypeOK
<1>2. \A p \in Poller : p \in AtWork' => p \in AtWork \/ proc[p] \in {"none", "locked"}
  BY DEF OnMachine, Ensure, Restart, StopFirst, StartDetached, Stop, AcquireDaemonLock, Listen, RunAgent, Unlisten,
         LeaveDaemonLock, Tells, Becomes, StartTypeOK, AtWork, At
<1>3. Known'
  BY <1>1, <1>q DEF Known, Queue
<1>4. Roles' /\ Alone' /\ (beside => beside')
  <2>1. ASSUME NEW s \in Shell, Ensure(s) \/ Restart(s) \/ StopFirst(s) \/ \E p \in Poller : StartDetached(s, p)
        PROVE  Roles' /\ Alone' /\ (beside => beside')
    BY <2>1 DEF Ensure, Restart, StopFirst, StartDetached, Tells, Becomes, StartTypeOK, Roles, Alone, AtWork, At
  <2>2. CASE Stop
    BY <2>2 DEF Stop, Tells, Becomes, StartTypeOK, Roles, Alone, AtWork, At
  <2>3. ASSUME NEW p \in Poller, AcquireDaemonLock(p) \/ Unlisten(p) \/ LeaveDaemonLock(p)
        PROVE  Roles' /\ Alone' /\ (beside => beside')
    BY <2>3 DEF StartAssumption, AcquireDaemonLock, Unlisten, LeaveDaemonLock, Becomes, StartTypeOK, Roles, Alone, AtWork, At
  <2>4. ASSUME NEW p \in Poller, Listen(p) \/ RunAgent(p)
        PROVE  Roles' /\ Alone' /\ (beside => beside')
    <3>1. Roles'
      BY <2>4 DEF Listen, RunAgent, Becomes, StartTypeOK, Roles
    <3>2. (beside => beside') /\ (~beside' => \A q \in AtWork : Listen(p) /\ q \notin agents)
      BY <2>4 DEF Listen, RunAgent
    <3>3. ~beside' => AtWork = {}
      BY <2>4, <3>2 DEF Listen, Roles, AtWork, At
    <3>4. AtWork' \subseteq AtWork \cup {p}
      BY <2>4 DEF Listen, RunAgent, Becomes, StartTypeOK, AtWork, At
    <3>. QED BY <3>1, <3>2, <3>3, <3>4 DEF Alone
  <2>. QED BY <2>1, <2>2, <2>3, <2>4 DEF OnMachine
<1>5. ASSUME ~stray', ~beside' PROVE Current' /\ Readable'
  <2>1. \A p \in Poller : p \in AtWork' /\ p \in met => p \in AtWork
    BY <1>2 DEF Known
  <2>2. ~stray /\ ~beside /\ UNCHANGED <<key, command, met>>
    BY <1>4, <1>5, <1>q DEF Queue
  <2>3. AtWork' \subseteq Poller
    BY DEF AtWork, At
  <2>. QED BY <2>1, <2>2, <2>3 DEF Known, Current, Readable
<1>. QED BY <1>0, <1>3, <1>4, <1>5

\* A step of the service or of the browser: whose key is where.
LEMMA QueueStep ==
  ASSUME StartAssumption, StartInvariant, [StartNext]_startVars, ~OnMachine PROVE StartInvariant'
<1> USE DEF StartInvariant
<1>0. StartTypeOK'
  BY StartTypeStep
<1>1. UNCHANGED <<proc, agents, lock, beside>>
  BY DEF StartNext, startVars, OnMachine, PollCommands, MarkAgentSeen, ClaimCommands, PerformCommands, SealPassword, PutCommand
<1>2. Roles' /\ Alone' /\ AtWork' = AtWork
  BY <1>1 DEF Roles, Alone, AtWork, At
<1>3. AtWork \subseteq Poller
  BY DEF AtWork, At
<1>4. ASSUME NEW p \in Poller, PollCommands(p) PROVE StartInvariant'
  <2>1. UNCHANGED <<key, command, met, stray>> /\ proc[p] = "polling" /\ poll' = [poll EXCEPT ![p] = "sent"]
    BY <1>4 DEF PollCommands
  <2>2. Known'
    BY <1>1, <2>1 DEF Known, StartTypeOK
  <2>. QED BY <1>0, <1>1, <1>2, <2>1, <2>2 DEF Current, Readable
<1>5. ASSUME NEW p \in Poller, MarkAgentSeen(p) PROVE StartInvariant'
  <2>1. Known'
    BY <1>1, <1>5 DEF Known, MarkAgentSeen, StartTypeOK
  <2>2. ASSUME ~stray', ~beside' PROVE Current' /\ Readable'
    <3>1. ~stray /\ ~beside /\ p \in AtWork /\ key' = p /\ UNCHANGED command
      <4>1. stray' = (stray \/ p \notin AtWork) /\ key' = p /\ UNCHANGED <<command, beside>>
        BY <1>5 DEF MarkAgentSeen
      <4>. QED BY <2>2, <4>1, Zenon
    <3>2. \A q \in AtWork : q = p
      BY <3>1 DEF Alone
    <3>. QED BY <1>2, <3>1, <3>2 DEF Current, Readable
  <2>. QED BY <1>0, <1>2, <2>1, <2>2
<1>6. ASSUME NEW p \in Poller, ClaimCommands(p) PROVE StartInvariant'
  <2>1. \A c \in Command :
          \/ command'[c] = command[c]
          \/ /\ command[c].status = "queued" /\ command'[c].status = "claimed" /\ command'[c].by = p
             /\ command'[c].key = command[c].key /\ command'[c].met = command[c].met
    BY <1>6 DEF ClaimCommands, StartTypeOK
  <2>2. UNCHANGED <<key, met>> /\ poll' = [poll EXCEPT ![p] = "claimed"] /\ poll[p] = "marked"
    BY <1>6 DEF ClaimCommands
  <2>3. Known'
    BY <1>1, <2>1, <2>2 DEF Known, StartTypeOK
  <2>4. ASSUME ~stray', ~beside' PROVE Current' /\ Readable'
    <3>1. ~stray /\ ~beside /\ p \in AtWork
      <4>1. stray' = (stray \/ p \notin AtWork) /\ UNCHANGED beside
        BY <1>6 DEF ClaimCommands
      <4>. QED BY <2>4, <4>1, Zenon
    <3>. QED BY <1>2, <2>1, <2>2, <3>1 DEF Current, Readable
  <2>. QED BY <1>0, <1>2, <2>3, <2>4
<1>7. ASSUME NEW p \in Poller, PerformCommands(p) PROVE StartInvariant'
  <2>1. \A c \in Command :
          \/ command'[c] = command[c]
          \/ /\ command[c].status = "claimed" /\ command[c].by = p /\ command'[c].by = p
             /\ command'[c].key = command[c].key /\ command'[c].met = command[c].met
             /\ \/ command'[c].status \in {"opened", "lost"}
                \/ command'[c].status = "unreadable" /\ command[c].key # p
    BY <1>7 DEF PerformCommands, Performed, StartTypeOK
  <2>2. UNCHANGED <<key, met, stray>> /\ poll' = [poll EXCEPT ![p] = "none"]
    BY <1>7 DEF PerformCommands
  <2>3. Known'
    BY <1>1, <2>1, <2>2 DEF Known, StartTypeOK
  <2>4. ASSUME ~stray', ~beside' PROVE Current' /\ Readable'
    BY <1>1, <1>2, <2>1, <2>2, <2>4 DEF Current, Readable
  <2>. QED BY <1>0, <1>2, <2>3, <2>4
<1>8. ASSUME NEW c \in Command, SealPassword(c) \/ PutCommand(c) PROVE StartInvariant'
  <2>1. /\ \A d \in Command : d # c => command'[d] = command[d]
        /\ \/ command'[c].key = key /\ command'[c].met = met
           \/ command[c].status # "none" /\ command'[c].key = command[c].key /\ command'[c].met = command[c].met
        /\ command'[c].status \in {"sealed", "queued"}
    BY <1>8 DEF SealPassword, PutCommand, StartTypeOK, NotAsked
  <2>2. UNCHANGED <<key, poll, met, stray>>
    BY <1>8 DEF SealPassword, PutCommand
  <2>3. Known'
    BY <1>1, <2>1, <2>2 DEF Known
  <2>4. ASSUME ~stray', ~beside' PROVE Current' /\ Readable'
    BY <1>1, <1>2, <2>1, <2>2, <2>4 DEF Current, Readable
  <2>. QED BY <1>0, <1>2, <2>3, <2>4
<1>9. CASE UNCHANGED startVars
  <2>1. Known'
    BY <1>9 DEF startVars, Known
  <2>2. Current' = Current /\ Readable' = Readable
    BY <1>2, <1>9 DEF startVars, Current, Readable
  <2>. QED BY <1>0, <1>2, <1>9, <2>1, <2>2 DEF startVars
<1>. QED BY <1>4, <1>5, <1>6, <1>7, <1>8, <1>9 DEF StartNext, OnMachine

(* The processes, the lock, the polls and the commands keep their types.      *)
THEOREM StartTypeCorrect == ASSUME StartAssumption PROVE StartSpec => []StartTypeOK
<1>1. StartInit => StartTypeOK
  BY StartStarts DEF StartInvariant
<1>. QED BY <1>1, StartTypeStep, PTL DEF StartSpec

(* As long as no daemon and agent work side by side, a browser's password     *)
(* that no poller can open was sealed before its claimer had begun            *)
(* (daemon_unix.go, agent_loop.go, store-postgres.ts).                        *)
THEOREM PasswordsOpen == ASSUME StartAssumption PROVE StartSpec => []OpenedUnlessBeside
<1>1. StartInvariant /\ [StartNext]_startVars => StartInvariant'
  BY MachineStep, QueueStep
<1>2. StartInvariant => OpenedUnlessBeside
  BY DEF StartInvariant, OpenedUnlessBeside
<1>. QED BY StartStarts, <1>1, <1>2, PTL DEF StartSpec
====
