---------------------------- MODULE AccountsProofs ----------------------------
(* Proofs about the accounts service: the machines of one account (Devices),  *)
(* for any number of logins and codes, external analysis (Assessments), for   *)
(* any number of browsers, consents and registrations, and teams              *)
(* (Organizations), for any number of people, teams and requests at once.     *)
EXTENDS Organizations, Devices, Assessments, FiniteSetTheorems, TLAPS

(* Devices.                                                                   *)

RowType == [refresh : Login, revoked : BOOLEAN]
LoginType == [at : {"idle", "find", "update", "put", "done", "refused"}, found : Login \cup {Nobody}]

\* Logins that have consumed a code are no more than the codes consumed.
Counted ==
  /\ IsFiniteSet(used) /\ IsFiniteSet(UnderWay \cup At("done"))

\* As long as nothing overlapped: one login at a time and no sign-out beside
\* it; what it has found is the one row that is not revoked; and that row
\* belongs to a login nobody came after.
Alone ==
  ~raced =>
    /\ \A l, k \in UnderWay : l = k
    /\ signOut # Nobody \/ over => UnderWay = {}
    /\ \A i, j \in Unrevoked : i = j
    /\ \A i \in Unrevoked : /\ device[i].refresh \in At("done")
                            /\ \A l \in At("done") : device[i].refresh \notin handed[l]
    /\ \A l \in At("update") : \E i \in Unrevoked : device[i].refresh = login[l].found
    /\ At("put") # {} => Unrevoked = {}
    /\ over => Unrevoked = {}

Handed == handed \in [Login -> SUBSET At("done")]

DevicesInvariant == DevicesTypeOK /\ Counted /\ Handed /\ Alone

\* No machine is known at the start.
LEMMA DevicesStart == ASSUME DevicesAssumption PROVE DevicesInit => DevicesInvariant
<1> SUFFICES ASSUME DevicesInit PROVE DevicesInvariant
  OBVIOUS
<1> USE DevicesAssumption DEF DevicesAssumption, DevicesInit, NoLogin
<1>1. UnderWay \cup At("done") = {}
  BY DEF UnderWay, At
<1>2. Counted /\ Cardinality(UnderWay \cup At("done")) <= Cardinality(used)
  <2>1. IsFiniteSet({}) /\ Cardinality({}) = 0
    BY FS_EmptySet
  <2>2. used = {}
    OBVIOUS
  <2>3. Cardinality({}) <= Cardinality({})
    BY <2>1
  <2>. QED BY <1>1, <2>1, <2>2, <2>3, Zenon DEF Counted
<1>3. DevicesTypeOK
  <2>1. device \in Seq([refresh : Login, revoked : BOOLEAN])
    OBVIOUS
  <2>2. login \in [Login -> [at : {"idle", "find", "update", "put", "done", "refused"}, found : Login \cup {Nobody}]]
    OBVIOUS
  <2>3. used \subseteq Code /\ signOut \in Login \cup {Nobody} /\ over \in BOOLEAN /\ raced \in BOOLEAN
    OBVIOUS
  <2>. QED BY <1>2, <2>1, <2>2, <2>3 DEF DevicesTypeOK
<1>4. Handed
  BY DEF Handed, At
<1>5. Unrevoked = {}
  BY DEF Unrevoked, Rows
<1>6. Alone
  BY <1>1, <1>5 DEF Alone, At
<1>. QED BY <1>2, <1>3, <1>4, <1>6 DEF DevicesInvariant

\* A row changed for each of a set of rows is still a sequence of rows.
LEMMA RowsTyped ==
  ASSUME DevicesTypeOK
  PROVE  /\ Rows = 1..Len(device) /\ \A i \in Rows : device[i] \in RowType
         /\ \A f \in [Rows -> RowType] : f \in Seq(RowType)
         /\ \A r \in RowType : Append(device, r) \in Seq(RowType)
<1>1. device \in Seq(RowType)
  BY DEF DevicesTypeOK, RowType
<1>. QED BY <1>1 DEF Rows

\* No step takes a variable out of its type, and a login that goes on to find
\* its machine has consumed a code for itself.
LEMMA DevicesTypeStep ==
  ASSUME DevicesAssumption, DevicesTypeOK, Counted, [DevicesNext]_deviceVars PROVE DevicesTypeOK' /\ Counted'
<1> DEFINE Had == UnderWay \cup At("done")
<1> USE DevicesAssumption DEF DevicesAssumption
<1>1. /\ used \subseteq Code /\ device \in Seq(RowType) /\ login \in [Login -> LoginType]
      /\ signOut \in Login \cup {Nobody} /\ over \in BOOLEAN /\ raced \in BOOLEAN
  BY DEF DevicesTypeOK, RowType, LoginType
<1>2. ASSUME NEW l \in Login, NEW c \in Code, ExchangeCode(l, c), c \notin used, ~over
      PROVE  DevicesTypeOK' /\ Counted'
  <2>1. used' = used \cup {c} /\ login' = [login EXCEPT ![l].at = "find"] /\ l \notin Had
    BY <1>2, <1>1 DEF ExchangeCode, LoginGoes, UnderWay, At, LoginType
  <2>2. Had' = Had \cup {l}
    BY <2>1, <1>1 DEF UnderWay, At, LoginType
  <2>3. IsFiniteSet(used') /\ Cardinality(used') = Cardinality(used) + 1 /\ Cardinality(used) \in Nat
    BY <1>2, <2>1, FS_AddElement, FS_CardinalityType DEF Counted
  <2>4. IsFiniteSet(Had') /\ Cardinality(Had') = Cardinality(Had) + 1 /\ Cardinality(Had) \in Nat
    BY <2>1, <2>2, FS_AddElement, FS_CardinalityType DEF Counted
  <2>5. Cardinality(Had') <= Cardinality(used')
    BY <2>3, <2>4 DEF DevicesTypeOK
  <2>6. login' \in [Login -> LoginType]
    BY <2>1, <1>1 DEF LoginType
  <2>7. raced' \in BOOLEAN /\ UNCHANGED <<device, signOut, over>>
    BY <1>1, <1>2 DEF ExchangeCode, Races
  <2>. QED BY <1>1, <1>2, <2>1, <2>3, <2>4, <2>5, <2>6, <2>7 DEF DevicesTypeOK, Counted, RowType, LoginType
<1>3. ASSUME used' = used, Had' = Had, device' \in Seq(RowType), login' \in [Login -> LoginType],
             signOut' \in Login \cup {Nobody}, over' \in BOOLEAN, raced' \in BOOLEAN
      PROVE  DevicesTypeOK' /\ Counted'
  BY <1>1, <1>3 DEF DevicesTypeOK, Counted, RowType, LoginType
<1>4. ASSUME NEW l \in Login, NEW c \in Code, ExchangeCode(l, c), c \in used \/ over PROVE DevicesTypeOK' /\ Counted'
  <2>1. login' = [login EXCEPT ![l].at = "refused"] /\ login[l].at = "idle"
        /\ UNCHANGED <<used, device, signOut, over, raced>>
    BY <1>4 DEF ExchangeCode, LoginGoes
  <2>2. login' \in [Login -> LoginType] /\ Had' = Had
    BY <1>1, <2>1 DEF LoginType, UnderWay, At
  <2>. QED BY <1>1, <1>3, <2>1, <2>2
<1>5. ASSUME NEW l \in Login, DeviceForMachine(l) PROVE DevicesTypeOK' /\ Counted'
  <2>1. login[l].at = "find" /\ UNCHANGED <<used, device, signOut, over, raced>>
    BY <1>5 DEF DeviceForMachine
  <2>2. CASE Unrevoked = {} /\ LoginGoes(l, "put")
    <3>1. login' \in [Login -> LoginType] /\ Had' = Had
      BY <1>1, <2>1, <2>2 DEF LoginGoes, LoginType, UnderWay, At
    <3>. QED BY <1>1, <1>3, <2>1, <3>1
  <2>3. ASSUME NEW i \in Unrevoked, login' = [login EXCEPT ![l] = [at |-> "update", found |-> device[i].refresh]]
        PROVE  DevicesTypeOK' /\ Counted'
    <3>1. device[i].refresh \in Login
      BY RowsTyped DEF Unrevoked, RowType
    <3>2. login' \in [Login -> LoginType] /\ Had' = Had
      BY <1>1, <2>1, <2>3, <3>1 DEF LoginType, UnderWay, At
    <3>. QED BY <1>1, <1>3, <2>1, <3>2
  <2>. QED BY <1>5, <2>2, <2>3 DEF DeviceForMachine
<1>6. ASSUME NEW l \in Login, UpdateToken(l) \/ PutToken(l) PROVE DevicesTypeOK' /\ Counted'
  <2>1. login' = [login EXCEPT ![l].at = "done"] /\ login[l].at \in {"update", "put"}
        /\ UNCHANGED <<used, signOut, over, raced>>
    BY <1>6 DEF UpdateToken, PutToken, LoginGoes
  <2>2. login' \in [Login -> LoginType] /\ Had' = Had
    BY <1>1, <2>1 DEF LoginType, UnderWay, At
  <2>3. device' \in Seq(RowType)
    <3>1. CASE UpdateToken(l)
      <4>1. device' \in [Rows -> RowType]
        BY <3>1, RowsTyped DEF UpdateToken, RowType
      <4>. QED BY <4>1, RowsTyped
    <3>2. CASE PutToken(l)
      BY <3>2, RowsTyped DEF PutToken, RowType
    <3>. QED BY <1>6, <3>1, <3>2
  <2>. QED BY <1>1, <1>3, <2>1, <2>2, <2>3
<1>7. ASSUME NEW l \in Login, FindToSignOut(l) PROVE DevicesTypeOK' /\ Counted'
  <2>1. Had' = Had
    BY <1>7 DEF FindToSignOut, UnderWay, At
  <2>. QED BY <1>1, <1>3, <1>7, <2>1 DEF FindToSignOut, Races
<1>8. CASE SignOut
  <2>1. device' \in [Rows -> RowType]
    BY <1>8, RowsTyped DEF SignOut, RowType
  <2>2. Had' = Had
    BY <1>8 DEF SignOut, UnderWay, At
  <2>. QED BY <1>1, <1>3, <1>8, <2>1, <2>2, RowsTyped DEF SignOut
<1>9. ASSUME NEW i \in Rows, RevokeDevice(i) PROVE DevicesTypeOK' /\ Counted'
  <2>1. device[i] \in RowType /\ [device[i] EXCEPT !.revoked = TRUE] \in RowType
    BY RowsTyped DEF RowType
  <2>3. device' = [device EXCEPT ![i] = [device[i] EXCEPT !.revoked = TRUE]]
    BY <1>9 DEF RevokeDevice
  <2>4. device \in [Rows -> RowType]
    BY RowsTyped, <1>1 DEF Rows
  <2>5. device' \in [Rows -> RowType]
    BY <2>1, <2>3, <2>4
  <2>2. Had' = Had
    BY <1>9 DEF RevokeDevice, UnderWay, At
  <2>. QED BY <1>1, <1>3, <1>9, <2>2, <2>5, RowsTyped DEF RevokeDevice, Races
<1>10. CASE DeleteAccount
  <2>1. Had' = Had /\ device' \in Seq(RowType)
    BY <1>10 DEF DeleteAccount, UnderWay, At
  <2>. QED BY <1>1, <1>3, <1>10, <2>1 DEF DeleteAccount, Races
<1>11. CASE UNCHANGED deviceVars
  BY <1>1, <1>3, <1>11 DEF deviceVars, UnderWay, At
<1>. QED BY <1>2, <1>4, <1>5, <1>6, <1>7, <1>8, <1>9, <1>10, <1>11 DEF DevicesNext
\* Logins are only added to those that were answered.
LEMMA HandedStep == ASSUME DevicesTypeOK, Handed, [DevicesNext]_deviceVars PROVE Handed' /\ At("done") \subseteq At("done")'
<1>1. login \in [Login -> LoginType]
  BY DEF DevicesTypeOK, LoginType
<1>2. At("done") \subseteq At("done")'
  BY <1>1 DEF DevicesNext, deviceVars, At, LoginType, ExchangeCode, LoginGoes, DeviceForMachine, UpdateToken, PutToken, FindToSignOut,
              SignOut, RevokeDevice, DeleteAccount
<1>3. handed' = handed \/ \E l \in Login : handed' = [handed EXCEPT ![l] = At("done")]
  BY DEF DevicesNext, deviceVars, ExchangeCode, DeviceForMachine, UpdateToken, PutToken, FindToSignOut, SignOut, RevokeDevice,
         DeleteAccount
<1>. QED BY <1>2, <1>3 DEF Handed

\* While nothing overlaps, a login rotates the one row there is, or makes it.
LEMMA AloneStep == ASSUME DevicesAssumption, DevicesTypeOK, Handed, Alone, [DevicesNext]_deviceVars PROVE Alone'
<1> SUFFICES ASSUME ~raced' PROVE Alone'
  BY DEF Alone
<1> USE DevicesAssumption DEF DevicesAssumption
<1>1. /\ login \in [Login -> LoginType] /\ handed \in [Login -> SUBSET At("done")]
      /\ Rows = 1..Len(device) /\ \A i \in Rows : device[i] \in RowType
  BY RowsTyped DEF DevicesTypeOK, LoginType, Handed
<1>2. ~raced
  BY DEF DevicesNext, deviceVars, ExchangeCode, Races, DeviceForMachine, UpdateToken, PutToken, FindToSignOut, SignOut,
         RevokeDevice, DeleteAccount
<1>3. /\ \A l, k \in UnderWay : l = k
      /\ signOut # Nobody \/ over => UnderWay = {}
      /\ \A i, j \in Unrevoked : i = j
      /\ \A i \in Unrevoked : /\ device[i].refresh \in At("done")
                              /\ \A l \in At("done") : device[i].refresh \notin handed[l]
      /\ \A l \in At("update") : \E i \in Unrevoked : device[i].refresh = login[l].found
      /\ At("put") # {} => Unrevoked = {}
      /\ over => Unrevoked = {}
  BY <1>2 DEF Alone
<1>4. ASSUME NEW l \in Login, NEW c \in Code, ExchangeCode(l, c) PROVE Alone'
  <2>1. UNCHANGED <<device, signOut, over>> /\ Unrevoked' = Unrevoked
    BY <1>4 DEF ExchangeCode, Unrevoked, Rows
  <2>2. At("done")' = At("done") /\ At("update")' = At("update") /\ At("put")' = At("put")
    BY <1>1, <1>4 DEF ExchangeCode, LoginGoes, At, LoginType
  <2>3. \A k \in At("done") : handed'[k] = handed[k]
    BY <1>1, <1>4 DEF ExchangeCode, At
  <2>4. \A k \in At("update") : login'[k].found = login[k].found
    BY <1>1, <1>4 DEF ExchangeCode, LoginGoes, At, LoginType
  <2>5. (\A j, k \in UnderWay' : j = k) /\ (signOut' # Nobody \/ over' => UnderWay' = {})
    <3>1. CASE login' = [login EXCEPT ![l].at = "refused"]
      <4>1. UnderWay' = UnderWay
        BY <1>1, <1>4, <3>1 DEF ExchangeCode, UnderWay, At, LoginType
      <4>. QED BY <1>3, <2>1, <4>1
    <3>2. CASE UnderWay = {} /\ signOut = Nobody /\ ~over /\ login' = [login EXCEPT ![l].at = "find"]
      <4>1. UnderWay' = {l}
        BY <1>1, <3>2 DEF UnderWay, At, LoginType
      <4>. QED BY <2>1, <3>2, <4>1
    <3>. QED BY <1>4, <3>1, <3>2 DEF ExchangeCode, LoginGoes, Races
  <2>. QED BY <1>3, <2>1, <2>2, <2>3, <2>4, <2>5 DEF Alone
<1>5. ASSUME NEW l \in Login, DeviceForMachine(l) PROVE Alone'
  <2>1. UNCHANGED <<device, signOut, over, handed>> /\ Unrevoked' = Unrevoked /\ login[l].at = "find"
    BY <1>5 DEF DeviceForMachine, Unrevoked, Rows
  <2>2. UnderWay = {l} /\ At("update") = {} /\ At("put") = {}
    BY <1>1, <1>3, <2>1 DEF UnderWay, At
  <2>3. CASE Unrevoked = {} /\ login' = [login EXCEPT ![l].at = "put"]
    <3>1. UnderWay' = {l} /\ At("update")' = {} /\ At("done")' = At("done")
      BY <1>1, <2>1, <2>2, <2>3 DEF UnderWay, At, LoginType
    <3>. QED BY <1>3, <2>1, <2>2, <2>3, <3>1 DEF Alone
  <2>4. ASSUME NEW i \in Unrevoked, login' = [login EXCEPT ![l] = [at |-> "update", found |-> device[i].refresh]]
        PROVE  Alone'
    <3>1. /\ UnderWay' = {l} /\ At("update")' = {l} /\ At("put")' = {} /\ At("done")' = At("done")
          /\ login'[l].found = device[i].refresh
      BY <1>1, <2>1, <2>2, <2>4 DEF UnderWay, At, LoginType
    <3>. QED BY <1>3, <2>1, <2>2, <2>4, <3>1 DEF Alone
  <2>. QED BY <1>5, <2>3, <2>4 DEF DeviceForMachine, LoginGoes
<1>6. ASSUME NEW l \in Login, UpdateToken(l) \/ PutToken(l) PROVE Alone'
  <2>1. UNCHANGED <<signOut, over, handed>> /\ login' = [login EXCEPT ![l].at = "done"] /\ login[l].at \in {"update", "put"}
    BY <1>6 DEF UpdateToken, PutToken, LoginGoes
  <2>2. UnderWay = {l} /\ signOut = Nobody /\ ~over
    BY <1>1, <1>3, <2>1 DEF UnderWay, At
  <2>3. UnderWay' = {} /\ At("update")' = {} /\ At("put")' = {} /\ At("done")' = At("done") \cup {l} /\ l \notin At("done")
    BY <1>1, <2>1, <2>2 DEF UnderWay, At, LoginType
  <2>4. \E i \in Unrevoked' : Unrevoked' = {i} /\ device'[i].refresh = l
    <3>1. CASE UpdateToken(l)
      <4>1. PICK i \in Unrevoked : device[i].refresh = login[l].found
        BY <1>3, <3>1 DEF UpdateToken, At
      <4>2. /\ device' = [j \in Rows |-> IF device[j].refresh = login[l].found THEN [device[j] EXCEPT !.refresh = l] ELSE device[j]]
            /\ DOMAIN device' = Rows
        BY <3>1 DEF UpdateToken, Having
      <4>3. \A j \in Rows : device'[j].revoked = device[j].revoked
        BY <1>1, <4>2 DEF RowType
      <4>4. Unrevoked' = Unrevoked /\ Unrevoked = {i}
        BY <1>3, <4>1, <4>2, <4>3 DEF Unrevoked, Rows
      <4>5. device'[i].refresh = l
        BY <1>1, <4>1, <4>2 DEF Unrevoked, RowType
      <4>. QED BY <4>4, <4>5
    <3>2. CASE PutToken(l)
      <4>1. Unrevoked = {} /\ device' = Append(device, [refresh |-> l, revoked |-> FALSE])
        BY <1>3, <3>2 DEF PutToken, At
      <4>2. device \in Seq(RowType)
        BY DEF DevicesTypeOK, RowType
      <4>3. /\ Len(device) \in Nat /\ DOMAIN device' = 1..(Len(device) + 1)
            /\ \A j \in Rows : device'[j] = device[j]
            /\ device'[Len(device) + 1] = [refresh |-> l, revoked |-> FALSE]
        BY <1>1, <4>1, <4>2
      <4>4. Unrevoked' = {Len(device) + 1}
        BY <1>1, <4>1, <4>3 DEF Unrevoked, Rows
      <4>. QED BY <4>3, <4>4
    <3>. QED BY <1>6, <3>1, <3>2
  <2>5. \A k \in Login : l \notin handed[k]
    BY <1>1, <2>3
  <2>. QED BY <2>1, <2>2, <2>3, <2>4, <2>5 DEF Alone, At
<1>7. ASSUME NEW l \in Login, FindToSignOut(l) PROVE Alone'
  <2>1. UnderWay = {} /\ UNCHANGED <<device, login, over, handed>>
    BY <1>7 DEF FindToSignOut, Races
  <2>. QED BY <1>3, <2>1 DEF Alone, UnderWay, At, Unrevoked, Rows
<1>8. ASSUME \/ SignOut \/ DeleteAccount \/ \E i \in Rows : RevokeDevice(i) PROVE Alone'
  <2>1. UNCHANGED <<login, handed>> /\ UnderWay = {}
    BY <1>3, <1>8 DEF SignOut, DeleteAccount, RevokeDevice, Races
  <2>2. UnderWay' = {} /\ At("update")' = {} /\ At("put")' = {} /\ At("done")' = At("done")
    BY <2>1 DEF UnderWay, At
  <2> DEFINE Fewer == /\ Unrevoked' \subseteq Unrevoked /\ (over' => Unrevoked' = {})
                      /\ \A i \in Unrevoked' : device'[i].refresh = device[i].refresh
  <2>3. Fewer
    <3>1. CASE SignOut
      BY <1>1, <1>3, <3>1 DEF SignOut, Unrevoked, Rows, RowType
    <3>2. CASE DeleteAccount
      <4>1. DOMAIN device' = {}
        BY <3>2 DEF DeleteAccount
      <4>. QED BY <4>1 DEF Unrevoked, Rows
    <3>3. ASSUME NEW i \in Rows, RevokeDevice(i) PROVE Fewer
      BY <1>1, <1>3, <3>3 DEF RevokeDevice, Unrevoked, Rows, RowType
    <3>. QED BY <1>8, <3>1, <3>2, <3>3
  <2>. QED BY <1>3, <2>1, <2>2, <2>3 DEF Alone
<1>9. CASE UNCHANGED deviceVars
  BY <1>3, <1>9 DEF deviceVars, Alone, UnderWay, At, Unrevoked, Rows
<1>. QED BY <1>4, <1>5, <1>6, <1>7, <1>8, <1>9 DEF DevicesNext

LEMMA DevicesStep == ASSUME DevicesAssumption PROVE DevicesInvariant /\ [DevicesNext]_deviceVars => DevicesInvariant'
  BY DevicesTypeStep, HandedStep, AloneStep DEF DevicesInvariant

\* Every variable of the machines keeps its type, and no more logins are
\* answered than codes were consumed (exchangeCode).
THEOREM DevicesTypeCorrect == ASSUME DevicesAssumption PROVE DevicesSpec => []DevicesTypeOK
<1>1. DevicesInvariant => DevicesTypeOK
  BY DEF DevicesInvariant
<1>. QED BY DevicesStart, DevicesStep, <1>1, PTL DEF DevicesSpec

\* As long as no login overlaps with another change, a login on a machine
\* retires the earlier ones there (issueTokens, tokens.ts:39).
THEOREM EarlierLoginsRetire == ASSUME DevicesAssumption PROVE DevicesSpec => []LoginRetires
<1>1. DevicesInvariant => LoginRetires
  BY DEF DevicesInvariant, Alone, LoginRetires, Accepted
<1>. QED BY DevicesStart, DevicesStep, <1>1, PTL DEF DevicesSpec

------------------------------------------------------------------------------
(* Assessments.                                                               *)

ListType == [at : {"idle", "read", "live", "after", "answered", "clear"}, version : 0..MaxVersions,
             rows : SUBSET Row, revoked : 0..MaxVersions]
ChangeType == [at : {"idle", "cas", "clear"}, version : 0..MaxVersions, to : BOOLEAN]

\* The types that the steps need: TypeOK, and the fields it leaves out.
Typed ==
  /\ AnalysisTypeOK
  /\ assess \in [at : {"idle", "live", "budget", "recheck", "liveAgain", "dispatch", "recheckAfter",
                       "liveAfter", "put"},
                 version : 0..MaxVersions]
  /\ list \in ListType
  /\ change \in [Writer -> ChangeType]
  /\ \A w \in Writer : change[w].at = "cas" => change[w].version < MaxVersions

\* What a withdrawal is behind: every consent that is on, every row that is
\* kept, and every row of a list whose version is still the current one.
Withdrawn ==
  /\ revoked <= consent.version
  /\ consent.on => revoked < consent.version
  /\ kept # NoRow => revoked < kept.version
  /\ list.version <= consent.version
  /\ list.at \in {"live", "after"} /\ list.version = consent.version => \A r \in list.rows : revoked < r.version
  /\ list.at = "answered" => \A r \in list.rows : list.revoked < r.version

\* The consent of a request was in force after its budget was reserved.
Held == assess.at \in {"liveAgain", "dispatch"} => held

AnalysisInvariant == Typed /\ Withdrawn /\ Held

\* Neither a withdrawal nor a row exists at the start.
LEMMA AnalysisStart == ASSUME AnalysisAssumption PROVE AnalysisInit => AnalysisInvariant
<1> SUFFICES ASSUME AnalysisInit PROVE AnalysisInvariant
  OBVIOUS
<1> USE AnalysisAssumption DEF AnalysisAssumption, AnalysisInit, NoRow, Idle, NoList, NoChange
<1>1. AnalysisTypeOK
  BY DEF AnalysisTypeOK, Row
<1>2. Typed
  BY <1>1 DEF Typed, ListType, ChangeType, Row
<1>3. Withdrawn /\ Held
  BY DEF Withdrawn, Held
<1>. QED BY <1>2, <1>3 DEF AnalysisInvariant

\* No step of a consent, a request, a list or the session takes a variable out
\* of its type.
LEMMA AnalysisTypeStep ==
  ASSUME AnalysisAssumption, Typed, [AnalysisNext]_analysisVars PROVE Typed'
<1> USE AnalysisAssumption DEF AnalysisAssumption, Idle, NoList, NoChange, ListType, ChangeType
<1>0. NoRow \in Row
  BY DEF NoRow, Row
<1>1. ASSUME NEW w \in Writer, NEW to \in BOOLEAN, ReadConsent(w, to) PROVE Typed'
  BY <1>1 DEF Typed, AnalysisTypeOK, ReadConsent
<1>2. ASSUME NEW w \in Writer, PutJevConsent(w) PROVE Typed'
  <2>1. change' \in [Writer -> ChangeType]
    <3>1. \/ change' = [change EXCEPT ![w] = NoChange]
          \/ change' = [change EXCEPT ![w] = [change[w] EXCEPT !.at = "clear"]]
      BY <1>2 DEF PutJevConsent
    <3>2. [change[w] EXCEPT !.at = "clear"] \in ChangeType
      BY DEF Typed
    <3>3. NoChange \in ChangeType
      OBVIOUS
    <3>4. change \in [Writer -> ChangeType]
      BY DEF Typed
    <3>. HIDE DEF NoChange
    <3>. QED BY <3>1, <3>2, <3>3, <3>4
  <2>2. \A v \in Writer : change'[v].at = "cas" => change'[v] = change[v]
    BY <1>2 DEF Typed, PutJevConsent
  <2>3. AnalysisTypeOK'
    BY <1>0, <1>2 DEF Typed, AnalysisTypeOK, PutJevConsent
  <2>. QED BY <1>2, <2>1, <2>2, <2>3 DEF Typed, PutJevConsent
<1>3. ASSUME NEW w \in Writer, ClearAfter(w) PROVE Typed'
  BY <1>0, <1>3 DEF Typed, AnalysisTypeOK, ClearAfter
<1>4. CASE StartAssess
  BY <1>4 DEF Typed, AnalysisTypeOK, StartAssess
<1>5. ASSUME NEW from, NEW to \in {"budget", "dispatch", "put"}, CheckLive(from, to) PROVE Typed'
  BY <1>5 DEF Typed, AnalysisTypeOK, CheckLive, Goes
<1>6. CASE Reserve
  BY <1>6 DEF Typed, AnalysisTypeOK, Reserve
<1>7. ASSUME NEW from, NEW to \in {"liveAgain", "liveAfter"}, Recheck(from, to) PROVE Typed'
  BY <1>7 DEF Typed, AnalysisTypeOK, Recheck
<1>8. CASE Dispatch
  BY <1>8 DEF Typed, AnalysisTypeOK, Dispatch
<1>9. CASE PutJevAssessment
  <2>1. [version |-> assess.version, run |-> session.run] \in Row
    BY DEF Typed, AnalysisTypeOK, Row
  <2>. QED BY <1>9, <2>1 DEF Typed, AnalysisTypeOK, PutJevAssessment
<1>10. CASE StartList
  <2>1. list' \in ListType
    <3>1. \E at \in {"read", "clear"} :
            list' = [at |-> at, version |-> consent.version, rows |-> {}, revoked |-> 0]
      BY <1>10 DEF StartList
    <3>2. consent.version \in 0..MaxVersions /\ 0 \in 0..MaxVersions
      BY DEF Typed, AnalysisTypeOK
    <3>. QED BY <3>1, <3>2
  <2>. QED BY <1>10, <2>1 DEF Typed, AnalysisTypeOK, StartList
<1>11. CASE ListJevAssessments
  <2>1. kept' \in {kept, NoRow}
    BY <1>11 DEF ListJevAssessments
  <2>2. \E rows \in {{kept}, {}} : list' = [list EXCEPT !.at = "live", !.rows = rows]
    BY <1>11 DEF ListJevAssessments
  <2>3. kept \in Row
    BY DEF Typed, AnalysisTypeOK
  <2>4. UNCHANGED <<consent, session, assess, change, revoked>>
    BY <1>11 DEF ListJevAssessments
  <2>5. kept' \in Row /\ list' \in ListType
    <3>1. PICK rows \in SUBSET Row : list' = [list EXCEPT !.at = "live", !.rows = rows]
      BY <2>2, <2>3
    <3>2. list' \in ListType
      BY <3>1 DEF Typed
    <3>. QED BY <1>0, <2>1, <2>3, <3>2
  <2>. QED BY <2>4, <2>5 DEF Typed, AnalysisTypeOK
<1>12. CASE CheckRows
  BY <1>0, <1>12 DEF Typed, AnalysisTypeOK, CheckRows
<1>13. CASE Answer
  BY <1>13 DEF Typed, AnalysisTypeOK, Answer
<1>14. CASE Clear \/ ListEnds
  BY <1>0, <1>14 DEF Typed, AnalysisTypeOK, Clear, ListEnds
<1>15. CASE Register
  BY <1>15 DEF Typed, AnalysisTypeOK, Register
<1>16. CASE Close \/ Delete
  BY <1>0, <1>16 DEF Typed, AnalysisTypeOK, Close, Delete
<1>17. CASE Invalidate
  BY <1>0, <1>17 DEF Typed, AnalysisTypeOK, Invalidate
<1>18. CASE UNCHANGED analysisVars
  BY <1>18 DEF Typed, AnalysisTypeOK, analysisVars
<1>. QED
  BY <1>1, <1>2, <1>3, <1>4, <1>5, <1>6, <1>7, <1>8, <1>9, <1>10, <1>11, <1>12, <1>13, <1>14, <1>15,
     <1>16, <1>17, <1>18 DEF AnalysisNext, Step
\* A withdrawal stays behind what it must, because it purges what was kept and
\* moves the version past that of every list and request under way.
LEMMA WithdrawnStep ==
  ASSUME AnalysisAssumption, Typed, Withdrawn, [AnalysisNext]_analysisVars PROVE Withdrawn'
<1> USE AnalysisAssumption DEF AnalysisAssumption, Typed, AnalysisTypeOK, ListType, ChangeType, Withdrawn
<1>1. ASSUME NEW w \in Writer, NEW to \in BOOLEAN, ReadConsent(w, to) PROVE Withdrawn'
  BY <1>1 DEF ReadConsent
<1>2. ASSUME NEW w \in Writer, PutJevConsent(w) PROVE Withdrawn'
  BY <1>2 DEF PutJevConsent
<1>3. ASSUME NEW w \in Writer, ClearAfter(w) PROVE Withdrawn'
  BY <1>3 DEF ClearAfter
<1>4. CASE StartAssess \/ Reserve \/ Dispatch
  BY <1>4 DEF StartAssess, Reserve, Dispatch
<1>5. ASSUME NEW from, NEW to, CheckLive(from, to) PROVE Withdrawn'
  BY <1>5 DEF CheckLive
<1>6. ASSUME NEW from, NEW to, Recheck(from, to) PROVE Withdrawn'
  BY <1>6 DEF Recheck
<1>7. CASE PutJevAssessment
  BY <1>7 DEF PutJevAssessment, Consented
<1>8. CASE StartList
  BY <1>8 DEF StartList, NoList
<1>9. CASE ListJevAssessments
  BY <1>9 DEF ListJevAssessments
<1>10. CASE CheckRows
  BY <1>10 DEF CheckRows
<1>11. CASE Answer
  BY <1>11 DEF Answer
<1>12. CASE Clear \/ ListEnds
  BY <1>12 DEF Clear, ListEnds, NoList
<1>13. CASE Register \/ Close
  BY <1>13 DEF Register, Close
<1>14. CASE Delete \/ Invalidate
  BY <1>14 DEF Delete, Invalidate
<1>15. CASE UNCHANGED analysisVars
  BY <1>15 DEF analysisVars
<1>. QED
  BY <1>1, <1>2, <1>3, <1>4, <1>5, <1>6, <1>7, <1>8, <1>9, <1>10, <1>11, <1>12, <1>13, <1>14, <1>15
     DEF AnalysisNext, Step

\* Only the check after the budget leads on to a dispatch, and it finds the
\* consent in force.
LEMMA HeldStep == ASSUME Typed, Held, [AnalysisNext]_analysisVars PROVE Held'
<1>1. CASE UNCHANGED analysisVars
  BY <1>1 DEF Held, analysisVars
<1>2. ASSUME Recheck("recheck", "liveAgain"), held' = (assess'.at \in {"recheck", "liveAgain", "dispatch"} /\ (held \/ Consented'))
      PROVE  Held'
  BY <1>2 DEF Held, Recheck, Consented, Idle, Typed
<1>3. ASSUME assess'.at \in {"liveAgain", "dispatch"} => assess.at \in {"liveAgain", "dispatch"},
             held' = (assess'.at \in {"recheck", "liveAgain", "dispatch"} /\ (held \/ Consented'))
      PROVE  Held'
  BY <1>3 DEF Held
<1>4. ASSUME Step PROVE \/ Recheck("recheck", "liveAgain")
                        \/ assess'.at \in {"liveAgain", "dispatch"} => assess.at \in {"liveAgain", "dispatch"}
  <2>1. CASE UNCHANGED assess
    BY <2>1
  <2>2. CASE StartAssess
    <3>1. assess' = [at |-> "live", version |-> consent.version]
      BY <2>2 DEF StartAssess, Idle
    <3>. QED BY <3>1
  <2>3. CASE PutJevAssessment
    BY <2>3 DEF PutJevAssessment, Idle
  <2>4. CASE Reserve \/ Dispatch
    BY <2>4 DEF Reserve, Dispatch, Idle, Typed
  <2>5. CASE CheckLive("live", "budget") \/ CheckLive("liveAgain", "dispatch") \/ CheckLive("liveAfter", "put")
    BY <2>5 DEF CheckLive, Goes, Idle, Typed
  <2>6. CASE Recheck("recheckAfter", "liveAfter")
    BY <2>6 DEF Recheck, Idle, Typed
  <2>. QED
    BY <1>4, <2>1, <2>2, <2>3, <2>4, <2>5, <2>6
       DEF Step, ReadConsent, PutJevConsent, ClearAfter, StartList, ListJevAssessments, CheckRows, Answer, Clear,
           ListEnds, Register, Close, Delete, Invalidate
<1>. QED BY <1>1, <1>2, <1>3, <1>4 DEF AnalysisNext

LEMMA AnalysisStep == ASSUME AnalysisAssumption PROVE AnalysisInvariant /\ [AnalysisNext]_analysisVars => AnalysisInvariant'
  BY AnalysisTypeStep, WithdrawnStep, HeldStep DEF AnalysisInvariant

\* Every variable of an analysis keeps its type (the tables of integration.ts
\* and its rows in store-postgres.ts).
THEOREM AnalysisTypeCorrect == ASSUME AnalysisAssumption PROVE AnalysisSpec => []AnalysisTypeOK
<1>1. AnalysisInvariant => AnalysisTypeOK
  BY DEF AnalysisInvariant, Typed
<1>. QED BY AnalysisStart, AnalysisStep, <1>1, PTL DEF AnalysisSpec

\* An excerpt is sent only under a consent that was in force after its budget
\* was reserved (assess, integration.ts:329).
THEOREM NothingUnasked == ASSUME AnalysisAssumption PROVE AnalysisSpec => []SentUnderConsent
<1>1. AnalysisInvariant => SentUnderConsent
  BY DEF AnalysisInvariant, Held, SentUnderConsent
<1>. QED BY AnalysisStart, AnalysisStep, <1>1, PTL DEF AnalysisSpec

\* What was answered under a withdrawn consent is neither kept nor handed out
\* (putJevConsent, putJevAssessment and list).
THEOREM NothingLeft == ASSUME AnalysisAssumption PROVE AnalysisSpec => []RevocationIsFinal
<1>1. AnalysisInvariant => RevocationIsFinal
  BY DEF AnalysisInvariant, Withdrawn, RevocationIsFinal
<1>. QED BY AnalysisStart, AnalysisStep, <1>1, PTL DEF AnalysisSpec


------------------------------------------------------------------------------
(* Organizations.                                                             *)

RequestCalls == {"recentlyDeleted", "invite", "members", "claim", "claimOwn", "leave", "put", "putInvite",
                 "revoke", "remove", "setRole", "delete"}
RequestType == [
  at : RequestCalls \cup {"idle"},
  by : Person \cup {None}, op : {"none", "join", "create", "revoke", "remove", "change", "delete"},
  mine : Team \cup {None}, held : Roles \cup {"none"}, inv : Invite \cup {None},
  whom : Person \cup Team \cup {None}, give : Roles \cup {"none"}, dissolve : BOOLEAN]

\* What each call takes from the ones before it.
Prepared(q) ==
  /\ q.at # "idle" => q.by \in Person
  /\ q.at \in {"leave", "remove", "setRole", "members", "putInvite", "revoke"} => q.mine \in Team
  /\ q.at \in {"leave", "put"} => q.whom \in Team /\ q.give \in Invited
  /\ q.at \in {"claim", "invite", "putInvite", "revoke"} => q.inv \in Invite
  /\ q.op \in {"remove", "change"} => q.whom \in Person
  /\ q.op \in {"create", "change"} => q.give \in Invited
  /\ q.at = "putInvite" => q.op = "create"
  /\ q.at = "setRole" => q.op = "change"
  /\ q.at = "remove" => q.op = "remove"
  /\ q.at = "invite" => q.op \in {"join", "revoke"} /\ (q.op = "revoke" => q.mine \in Team)
  /\ q.at \in {"claim", "recentlyDeleted"} => q.op = "join"
  /\ q.at = "members" => /\ q.op \in {"join", "remove", "change", "delete"}
                         /\ q.op = "join" => q.inv \in Invite
  /\ q.dissolve \/ (q.at = "delete" /\ q.whom \in Person) => q.mine \in Team

RequestsPrepared == req \in [Request -> RequestType] /\ \A r \in Request : Prepared(req[r])

\* A team nobody is in was left by its last member, or written to on a stale read.
Peopled == \A t \in exists \ (stale \cup deserted) : Members(t) # {}

\* Who is deleted has no team, and what they ask later stops before it writes.
GoneAreOut ==
  \A p \in gone \ caught :
    org[p] = None /\ \A r \in Request : req[r].by = p => req[r].at \in {"recentlyDeleted", "delete"}

TeamsInvariant == TeamsTypeOK /\ RequestsPrepared /\ OneOwnerUnlessStale /\ Peopled /\ GoneAreOut

\* Nobody has a team at the start.
LEMMA TeamsStart == ASSUME TeamsAssumption PROVE TeamsInit => TeamsInvariant
<1> SUFFICES ASSUME TeamsInit PROVE TeamsInvariant
  OBVIOUS
<1> USE TeamsAssumption DEF TeamsAssumption, TeamsInit
<1>1. \A p \in Person : org[p] = None /\ role[p] = "none"
  OBVIOUS
<1>2. RowsAgree /\ Tenure
  BY <1>1 DEF RowsAgree, Tenure, Together
<1>3. TeamsTypeOK
  BY <1>2 DEF TeamsTypeOK, Roles
<1>4. RequestsPrepared
  BY DEF RequestsPrepared, RequestType, Prepared, NoRequest, Roles
<1>5. \A t \in Team : Members(t) = {}
  BY <1>1 DEF Members
<1>6. OneOwnerUnlessStale /\ Peopled /\ GoneAreOut
  BY <1>5 DEF OneOwnerUnlessStale, Peopled, GoneAreOut
<1> QED BY <1>3, <1>4, <1>6 DEF TeamsInvariant

\* Of any people of one team there is one who joined before all others.
LEMMA FirstIsThere ==
  ASSUME TeamsAssumption, Tenure, NEW S, S \subseteq Person, S # {},
         \A p, q \in S : Together(p, q)
  PROVE  First(S) \in S
<1> DEFINE Earlier(p) == {o \in S : <<o, p>> \in before}
           Prefixes == {Earlier(p) : p \in S}
<1>1. IsFiniteSet(S)
  BY FS_Subset DEF TeamsAssumption
<1>2. \A p \in S : Earlier(p) \in FiniteSubsetsOf(S)
  BY <1>1, FS_FiniteSubsetsOfFinite
<1>3. PICK x \in Prefixes : \A y \in Prefixes : <<y, x>> \notin StrictSubsetOrdering(S)
  <2>1. IsWellFoundedOn(StrictSubsetOrdering(S), FiniteSubsetsOf(S))
    BY FS_StrictSubsetOrderingWellFounded
  <2>2. Prefixes \subseteq FiniteSubsetsOf(S) /\ Prefixes # {}
    BY <1>2
  <2> HIDE DEF Prefixes
  <2> QED BY <2>1, <2>2, WFMin
<1>4. PICK p \in S : x = Earlier(p)
  OBVIOUS
<1>5. Earlier(p) = {}
  <2> SUFFICES ASSUME NEW o \in Earlier(p) PROVE FALSE
    OBVIOUS
  <2>1. o \in S /\ <<o, p>> \in before
    OBVIOUS
  <2>2. Earlier(o) \subseteq Earlier(p)
    BY <2>1 DEF Tenure
  <2>3. o \notin Earlier(o)
    BY <2>1 DEF Tenure
  <2>4. <<Earlier(o), Earlier(p)>> \in StrictSubsetOrdering(S)
    BY <2>2, <2>3 DEF StrictSubsetOrdering
  <2> QED BY <1>3, <1>4, <2>1, <2>4
<1>6. \A q \in S \ {p} : <<p, q>> \in before
  <2> SUFFICES ASSUME NEW q \in S \ {p} PROVE <<p, q>> \in before
    OBVIOUS
  <2>1. <<q, p>> \notin before
    BY <1>5
  <2> QED BY <2>1 DEF Tenure
<1> QED BY <1>6 DEF First

\* Whoever takes over is of the team, and there is one unless there is nobody.
LEMMA SuccessorIsThere ==
  ASSUME TeamsAssumption, Tenure, NEW t \in Team, NEW p \in Person
  PROVE  IF Members(t) \ {p} = {} THEN SuccessorFor(t, p) = None
         ELSE SuccessorFor(t, p) \in Members(t) \ {p}
<1> DEFINE others == Members(t) \ {p}
           admins == {q \in others : role[q] = "admin"}
<1>1. \A q, o \in others : Together(q, o)
  BY DEF Members, Together, TeamsAssumption
<1>2. admins \subseteq others /\ others \subseteq Person
  BY DEF Members
<1>3. others # {} => First(others) \in others
  BY <1>1, <1>2, FirstIsThere
<1>4. admins # {} => First(admins) \in admins
  BY <1>1, <1>2, FirstIsThere
<1> HIDE DEF others
<1>5. IF others = {} THEN SuccessorFor(t, p) = None ELSE SuccessorFor(t, p) \in others
  <2>1. SuccessorFor(t, p) = IF admins # {} THEN First(admins) ELSE IF others # {} THEN First(others) ELSE None
    BY DEF SuccessorFor, others
  <2> QED BY <2>1, <1>2, <1>3, <1>4
<1> QED BY <1>5 DEF others

\* A request may go on to any call it is prepared for.
LEMMA RequestChanges ==
  ASSUME RequestsPrepared, NEW r \in Request, NEW x \in RequestType, Prepared(x),
         req' = [req EXCEPT ![r] = x]
  PROVE  RequestsPrepared'
BY DEF RequestsPrepared

\* The calls those whose account is deleted may still be at.
Harmless(q) == q.by \in gone \ caught => q.at \in {"recentlyDeleted", "delete"}

\* A step that only reads.
LEMMA ReadingStep ==
  ASSUME TeamsInvariant, NEW r \in Request, NEW x \in RequestType, Prepared(x), Harmless(x),
         req' = [req EXCEPT ![r] = x], UNCHANGED <<teamRows, teamsHistory>>
  PROVE  TeamsInvariant'
<1> USE DEF TeamsInvariant, teamRows, teamsHistory
<1>1. RequestsPrepared'
  BY RequestChanges
<1>2. TeamsTypeOK'
  BY DEF TeamsTypeOK, RowsAgree, Tenure, Together
<1>3. OneOwnerUnlessStale' /\ Peopled'
  BY DEF OneOwnerUnlessStale, Peopled, Members
<1>4. GoneAreOut'
  BY DEF GoneAreOut, Harmless, RequestsPrepared
<1> QED BY <1>1, <1>2, <1>3, <1>4

LEMMA NoRequestIsFine ==
  ASSUME TeamsAssumption, TeamsTypeOK
  PROVE  NoRequest \in RequestType /\ Prepared(NoRequest) /\ Harmless(NoRequest)
BY DEF TeamsAssumption, TeamsTypeOK, NoRequest, RequestType, Prepared, Harmless, Roles

\* What membershipOf answers is a membership or nothing.
LEMMA MembershipRead ==
  ASSUME TeamsTypeOK, NEW p \in Person,
         NEW op \in {"join", "create", "revoke", "remove", "change", "delete"}
  PROVE  /\ MembershipOf(p, op) \in RequestType
         /\ org[p] \in Team \cup {None} /\ role[p] \in Roles \cup {"none"}
         /\ org[p] # None => org[p] \in Team
         /\ role[p] \in Roles => org[p] \in Team
BY DEF TeamsTypeOK, RowsAgree, MembershipOf, NoRequest, RequestType, Roles

\* Fields of their types may be written into a request.
LEMMA MayGo ==
  ASSUME NEW m \in RequestType, NEW at \in RequestCalls
  PROVE  [m EXCEPT !.at = at] \in RequestType
BY DEF RequestType

LEMMA WithInvite ==
  ASSUME NEW m \in RequestType, NEW i \in Invite \cup {None}, NEW at \in RequestCalls
  PROVE  [m EXCEPT !.inv = i, !.at = at] \in RequestType
BY DEF RequestType

LEMMA WithPerson ==
  ASSUME NEW m \in RequestType, NEW q \in Person, NEW at \in RequestCalls
  PROVE  [m EXCEPT !.whom = q, !.at = at] \in RequestType
BY DEF RequestType

LEMMA WithRole ==
  ASSUME NEW m \in RequestType, NEW as \in Invited
  PROVE  [m EXCEPT !.give = as] \in RequestType
<1> as \in Roles \cup {"none"}
  BY DEF Roles, Invited
<1> QED BY DEF RequestType

LEMMA VisitKeeps ==
  ASSUME TeamsAssumption, TeamsInvariant, NEW r \in Request, NEW p \in Person,
         NEW i \in Invite \cup {None}, Visit(r, p, i)
  PROVE  TeamsInvariant'
<1> DEFINE x == [MembershipOf(p, "join") EXCEPT
                   !.inv = i, !.at = IF org[p] = None THEN "recentlyDeleted" ELSE "invite"]
<1>1. x \in RequestType
  BY MembershipRead, WithInvite DEF TeamsInvariant, RequestCalls
<1>2. Prepared(x)
  BY MembershipRead DEF TeamsInvariant, Prepared, MembershipOf, NoRequest, Visit
<1>3. Harmless(x)
  BY DEF TeamsInvariant, Harmless, GoneAreOut, MembershipOf, NoRequest
<1> QED BY <1>1, <1>2, <1>3, ReadingStep DEF Visit, Arrive

LEMMA CreateInviteKeeps ==
  ASSUME TeamsAssumption, TeamsInvariant, NEW r \in Request, NEW p \in Person,
         NEW i \in Invite, NEW as \in Invited, CreateInvite(r, p, i, as)
  PROVE  TeamsInvariant'
<1> DEFINE x == [MembershipOf(p, "create") EXCEPT !.inv = i, !.give = as, !.at = "putInvite"]
<1>1. role[p] \in Roles
  BY DEF CreateInvite, Roles
<1>2. x \in RequestType
  <2> DEFINE m == MembershipOf(p, "create")
  <2>1. m \in RequestType
    BY MembershipRead DEF TeamsInvariant
  <2> HIDE DEF m
  <2>2. [m EXCEPT !.give = as] \in RequestType
    BY <2>1, WithRole
  <2>3. [[m EXCEPT !.give = as] EXCEPT !.inv = i, !.at = "putInvite"] \in RequestType
    BY <2>2, WithInvite DEF RequestCalls
  <2>4. [[m EXCEPT !.give = as] EXCEPT !.inv = i, !.at = "putInvite"]
        = [m EXCEPT !.inv = i, !.give = as, !.at = "putInvite"]
    BY <2>1 DEF RequestType
  <2> QED BY <2>3, <2>4 DEF m
<1>3. Prepared(x)
  BY <1>1, MembershipRead DEF TeamsInvariant, Prepared, MembershipOf, NoRequest
<1>4. Harmless(x)
  BY <1>1, MembershipRead DEF TeamsInvariant, Harmless, GoneAreOut, MembershipOf, NoRequest, TeamsAssumption
<1> QED BY <1>2, <1>3, <1>4, ReadingStep DEF CreateInvite, Arrive

LEMMA RevokeInviteKeeps ==
  ASSUME TeamsAssumption, TeamsInvariant, NEW r \in Request, NEW p \in Person,
         NEW i \in Invite, RevokeInvite(r, p, i)
  PROVE  TeamsInvariant'
<1> DEFINE x == [MembershipOf(p, "revoke") EXCEPT !.inv = i, !.at = "invite"]
<1>1. role[p] \in Roles
  BY DEF RevokeInvite, Roles
<1>2. x \in RequestType
  BY MembershipRead, WithInvite DEF TeamsInvariant, RequestCalls
<1>3. Prepared(x)
  BY <1>1, MembershipRead DEF TeamsInvariant, Prepared, MembershipOf, NoRequest
<1>4. Harmless(x)
  BY <1>1, MembershipRead DEF TeamsInvariant, Harmless, GoneAreOut, MembershipOf, NoRequest, TeamsAssumption
<1> QED BY <1>2, <1>3, <1>4, ReadingStep DEF RevokeInvite, Arrive

LEMMA RemoveMemberKeeps ==
  ASSUME TeamsAssumption, TeamsInvariant, NEW r \in Request, NEW p \in Person, NEW q \in Person,
         RemoveMember(r, p, q)
  PROVE  TeamsInvariant'
<1> DEFINE x == [MembershipOf(p, "remove") EXCEPT !.whom = q, !.at = "members"]
<1>1. role[p] \in Roles
  BY DEF RemoveMember, Roles
<1>2. x \in RequestType
  BY MembershipRead, WithPerson DEF TeamsInvariant, RequestCalls
<1>3. Prepared(x)
  BY <1>1, MembershipRead DEF TeamsInvariant, Prepared, MembershipOf, NoRequest
<1>4. Harmless(x)
  BY <1>1, MembershipRead DEF TeamsInvariant, Harmless, GoneAreOut, MembershipOf, NoRequest, TeamsAssumption
<1> QED BY <1>2, <1>3, <1>4, ReadingStep DEF RemoveMember, Arrive

LEMMA ChangeRoleKeeps ==
  ASSUME TeamsAssumption, TeamsInvariant, NEW r \in Request, NEW p \in Person, NEW q \in Person,
         NEW as \in Invited, ChangeRole(r, p, q, as)
  PROVE  TeamsInvariant'
<1> DEFINE x == [MembershipOf(p, "change") EXCEPT !.whom = q, !.give = as, !.at = "members"]
<1>1. role[p] \in Roles
  BY DEF ChangeRole, Roles
<1>2. x \in RequestType
  <2> DEFINE m == MembershipOf(p, "change")
  <2>1. m \in RequestType
    BY MembershipRead DEF TeamsInvariant
  <2> HIDE DEF m
  <2>2. [m EXCEPT !.give = as] \in RequestType
    BY <2>1, WithRole
  <2>3. [[m EXCEPT !.give = as] EXCEPT !.whom = q, !.at = "members"] \in RequestType
    BY <2>2, WithPerson DEF RequestCalls
  <2>4. [[m EXCEPT !.give = as] EXCEPT !.whom = q, !.at = "members"]
        = [m EXCEPT !.whom = q, !.give = as, !.at = "members"]
    BY <2>1 DEF RequestType
  <2> QED BY <2>3, <2>4 DEF m
<1>3. Prepared(x)
  BY <1>1, MembershipRead DEF TeamsInvariant, Prepared, MembershipOf, NoRequest
<1>4. Harmless(x)
  BY <1>1, MembershipRead DEF TeamsInvariant, Harmless, GoneAreOut, MembershipOf, NoRequest, TeamsAssumption
<1> QED BY <1>2, <1>3, <1>4, ReadingStep DEF ChangeRole, Arrive

LEMMA AskDeletionKeeps ==
  ASSUME TeamsAssumption, TeamsInvariant, NEW r \in Request, NEW p \in Person, AskDeletion(r, p)
  PROVE  TeamsInvariant'
<1> DEFINE x == [MembershipOf(p, "delete") EXCEPT !.at = IF org[p] = None THEN "delete" ELSE "members"]
<1>1. x \in RequestType
  BY MembershipRead, MayGo DEF TeamsInvariant, RequestCalls
<1>2. Prepared(x)
  BY MembershipRead DEF TeamsInvariant, Prepared, MembershipOf, NoRequest, TeamsAssumption
<1>3. Harmless(x)
  BY DEF TeamsInvariant, Harmless, GoneAreOut, MembershipOf, NoRequest
<1> QED BY <1>1, <1>2, <1>3, ReadingStep DEF AskDeletion, Arrive

\* A request under way that goes on to another call, or ends, and writes nothing.
LEMMA GoesOn ==
  ASSUME TeamsInvariant, NEW r \in Request, NEW at \in RequestCalls, RequestGoes(r, at),
         Prepared([req[r] EXCEPT !.at = at]), req[r].by \notin gone \ caught,
         UNCHANGED <<teamRows, teamsHistory>>
  PROVE  TeamsInvariant'
<1> DEFINE x == [req[r] EXCEPT !.at = at]
<1>1. req[r] \in RequestType
  BY DEF TeamsInvariant, RequestsPrepared
<1>2. x \in RequestType /\ x.by = req[r].by
  BY <1>1, MayGo DEF RequestType
<1>3. Harmless(x)
  BY <1>2 DEF Harmless
<1>4. req' = [req EXCEPT ![r] = x]
  BY DEF RequestGoes
<1> HIDE DEF x
<1>5. Prepared(x)
  BY DEF x
<1> QED BY <1>2, <1>3, <1>4, <1>5, ReadingStep

LEMMA EndsThere ==
  ASSUME TeamsAssumption, TeamsInvariant, NEW r \in Request, RequestEnds(r),
         UNCHANGED <<teamRows, teamsHistory>>
  PROVE  TeamsInvariant'
BY NoRequestIsFine, ReadingStep DEF TeamsInvariant, RequestEnds

\* At most calls the account of whoever asks is not deleted.
LEMMA NotGone ==
  ASSUME TeamsAssumption, TeamsInvariant, NEW r \in Request,
         req[r].at \notin {"recentlyDeleted", "delete"}
  PROVE  req[r].by \notin gone \ caught
BY DEF TeamsInvariant, GoneAreOut

LEMMA RecentlyDeletedKeeps ==
  ASSUME TeamsAssumption, TeamsInvariant, NEW r \in Request, RecentlyDeleted(r)
  PROVE  TeamsInvariant'
<1>1. req[r] \in RequestType /\ Prepared(req[r]) /\ req[r].at = "recentlyDeleted"
  BY DEF TeamsInvariant, RequestsPrepared, RecentlyDeleted
<1>2. CASE RequestEnds(r)
  BY <1>2, EndsThere DEF RecentlyDeleted
<1>3. CASE req[r].by \notin gone /\ req[r].inv = None /\ RequestGoes(r, "claimOwn")
  <2>1. Prepared([req[r] EXCEPT !.at = "claimOwn"])
    BY <1>1 DEF Prepared, RequestType
  <2> QED BY <1>3, <2>1, GoesOn DEF RecentlyDeleted, RequestCalls
<1>4. CASE req[r].by \notin gone /\ req[r].inv # None /\ RequestGoes(r, "invite")
  <2>1. Prepared([req[r] EXCEPT !.at = "invite"])
    BY <1>1, <1>4 DEF Prepared, RequestType
  <2> QED BY <1>4, <2>1, GoesOn DEF RecentlyDeleted, RequestCalls
<1> QED BY <1>2, <1>3, <1>4 DEF RecentlyDeleted

LEMMA ReadInviteKeeps ==
  ASSUME TeamsAssumption, TeamsInvariant, NEW r \in Request, ReadInvite(r)
  PROVE  TeamsInvariant'
<1>1. req[r] \in RequestType /\ Prepared(req[r]) /\ req[r].at = "invite"
  BY DEF TeamsInvariant, RequestsPrepared, ReadInvite
<1>2. req[r].by \notin gone \ caught
  BY <1>1, NotGone
<1>3. UNCHANGED <<teamRows, teamsHistory>>
  BY DEF ReadInvite
<1>4. CASE RequestEnds(r)
  BY <1>3, <1>4, EndsThere
<1>5. CASE req[r].op = "revoke" /\ RequestGoes(r, "revoke")
  <2>1. Prepared([req[r] EXCEPT !.at = "revoke"])
    BY <1>1, <1>5 DEF Prepared, RequestType
  <2> QED BY <1>2, <1>3, <1>5, <2>1, GoesOn DEF RequestCalls
<1>6. CASE req[r].op = "join" /\ RequestGoes(r, "claim")
  <2>1. Prepared([req[r] EXCEPT !.at = "claim"])
    BY <1>1, <1>6 DEF Prepared, RequestType
  <2> QED BY <1>2, <1>3, <1>6, <2>1, GoesOn DEF RequestCalls
<1>7. CASE req[r].op = "join" /\ RequestGoes(r, "claimOwn")
  <2>1. Prepared([req[r] EXCEPT !.at = "claimOwn"])
    BY <1>1, <1>7 DEF Prepared, RequestType
  <2> QED BY <1>2, <1>3, <1>7, <2>1, GoesOn DEF RequestCalls
<1>8. CASE req[r].op = "join" /\ req[r].mine # None /\ RequestGoes(r, "members")
  <2>1. Prepared([req[r] EXCEPT !.at = "members"])
    BY <1>1, <1>8 DEF Prepared, RequestType
  <2> QED BY <1>2, <1>3, <1>8, <2>1, GoesOn DEF RequestCalls
<1>9. req[r].op \in {"join", "revoke"}
  BY <1>1 DEF Prepared
<1> QED BY <1>4, <1>5, <1>6, <1>7, <1>8, <1>9 DEF ReadInvite

LEMMA ReadMembersKeeps ==
  ASSUME TeamsAssumption, TeamsInvariant, NEW r \in Request, ReadMembers(r)
  PROVE  TeamsInvariant'
<1>1. req[r] \in RequestType /\ Prepared(req[r]) /\ req[r].at = "members"
  BY DEF TeamsInvariant, RequestsPrepared, ReadMembers
<1>2. req[r].by \notin gone \ caught
  BY <1>1, NotGone
<1>3. UNCHANGED <<teamRows, teamsHistory>>
  BY DEF ReadMembers
<1>4. CASE RequestEnds(r)
  BY <1>3, <1>4, EndsThere
<1>5. CASE req[r].op = "join" /\ RequestGoes(r, "claim")
  <2>1. Prepared([req[r] EXCEPT !.at = "claim"])
    BY <1>1, <1>5 DEF Prepared, RequestType
  <2> QED BY <1>2, <1>3, <1>5, <2>1, GoesOn DEF RequestCalls
<1>6. CASE req[r].op = "remove" /\ RequestGoes(r, "remove")
  <2>1. Prepared([req[r] EXCEPT !.at = "remove"])
    BY <1>1, <1>6 DEF Prepared, RequestType
  <2> QED BY <1>2, <1>3, <1>6, <2>1, GoesOn DEF RequestCalls
<1>7. CASE req[r].op = "change" /\ RequestGoes(r, "setRole")
  <2>1. Prepared([req[r] EXCEPT !.at = "setRole"])
    BY <1>1, <1>7 DEF Prepared, RequestType
  <2> QED BY <1>2, <1>3, <1>7, <2>1, GoesOn DEF RequestCalls
<1>8. CASE req[r].op = "delete"
  <2> DEFINE plan == Plan(req[r].by, req[r].mine, req[r].held)
             x == [req[r] EXCEPT !.at = "delete", !.dissolve = plan.dissolve, !.whom = plan.whom]
  <2>1. req[r].mine \in Team /\ req[r].by \in Person
    BY <1>1 DEF Prepared
  <2>2. SuccessorFor(req[r].mine, req[r].by) \in Person \cup {None}
    BY <2>1, SuccessorIsThere DEF TeamsInvariant, TeamsTypeOK, Members
  <2>3. plan.dissolve \in BOOLEAN /\ plan.whom \in Person \cup {None}
    BY <2>2 DEF Plan
  <2>4. req' = [req EXCEPT ![r] = x]
    BY <1>8 DEF ReadMembers
  <2> HIDE DEF plan
  <2>5. x \in RequestType
    BY <1>1, <2>3 DEF RequestType, RequestCalls
  <2>6. Prepared(x)
    BY <1>1, <1>8, <2>1 DEF Prepared, RequestType
  <2>7. Harmless(x)
    BY <1>1, <1>2 DEF Harmless, RequestType
  <2> QED BY <1>3, <2>4, <2>5, <2>6, <2>7, ReadingStep
<1>9. req[r].op \in {"join", "remove", "change", "delete"}
  BY <1>1 DEF Prepared
<1> QED BY <1>4, <1>5, <1>6, <1>7, <1>8, <1>9 DEF ReadMembers

InviteType == {NoInvite, Closed} \cup [status : {"open"}, org : exists, role : Invited]

\* A step that writes one invitation, or none, and the request that does.
LEMMA InviteStep ==
  ASSUME TeamsInvariant,
         DOMAIN invite' = Invite, \A i \in Invite : invite'[i] \in InviteType,
         UNCHANGED <<org, role, before, exists, gone, teamsHistory>>,
         RequestsPrepared', GoneAreOut'
  PROVE  TeamsInvariant'
<1> USE DEF TeamsInvariant, teamsHistory
<1>1. TeamsTypeOK'
  BY DEF TeamsTypeOK, RowsAgree, Tenure, Together, InviteType, NoInvite, Closed
<1>2. OneOwnerUnlessStale' /\ Peopled'
  BY DEF OneOwnerUnlessStale, Peopled, Members
<1> QED BY <1>1, <1>2

LEMMA OneInvite ==
  ASSUME TeamsInvariant, NEW i \in Invite, NEW v \in InviteType, invite' = [invite EXCEPT ![i] = v]
  PROVE  DOMAIN invite' = Invite /\ \A o \in Invite : invite'[o] \in InviteType
BY DEF TeamsInvariant, TeamsTypeOK, InviteType

\* A request that changes nobody's membership keeps the deleted out.
LEMMA StillOut ==
  ASSUME TeamsInvariant, NEW r \in Request, NEW x, Harmless(x), req' = [req EXCEPT ![r] = x],
         UNCHANGED <<org, gone, caught>>
  PROVE  GoneAreOut'
BY DEF TeamsInvariant, GoneAreOut, Harmless, RequestsPrepared

LEMMA ClaimKeeps ==
  ASSUME TeamsAssumption, TeamsInvariant, NEW r \in Request, Claim(r)
  PROVE  TeamsInvariant'
<1>1. req[r] \in RequestType /\ Prepared(req[r]) /\ req[r].at = "claim"
  BY DEF TeamsInvariant, RequestsPrepared, Claim
<1>2. req[r].by \notin gone \ caught
  BY <1>1, NotGone
<1>3. req[r].inv \in Invite /\ req[r].op = "join" /\ req[r].by \in Person
  BY <1>1 DEF Prepared
<1>4. CASE invite[req[r].inv].status = "open"
  <2> DEFINE i == invite[req[r].inv]
             to == IF req[r].mine = None THEN "put" ELSE "leave"
             x == [req[r] EXCEPT !.at = to, !.whom = i.org, !.give = i.role]
  <2>1. i.org \in Team /\ i.role \in Invited
    BY <1>3, <1>4 DEF TeamsInvariant, TeamsTypeOK, NoInvite, Closed
  <2>2. req' = [req EXCEPT ![r] = x]
    BY <1>4 DEF Claim
  <2>3. invite' = [invite EXCEPT ![req[r].inv] = Closed]
    BY <1>4 DEF Claim
  <2> HIDE DEF i
  <2>4. x \in RequestType
    <3>1. i.role \in Roles \cup {"none"} /\ to \in RequestCalls
      BY <2>1 DEF Invited, Roles, RequestCalls
    <3> HIDE DEF to
    <3> QED BY <1>1, <2>1, <3>1 DEF RequestType
  <2>5. Prepared(x)
    BY <1>1, <1>3, <2>1 DEF Prepared, RequestType
  <2>6. Harmless(x)
    BY <1>1, <1>2 DEF Harmless, RequestType
  <2> HIDE DEF x
  <2>7. RequestsPrepared'
    BY <2>2, <2>4, <2>5, RequestChanges DEF TeamsInvariant
  <2>8. GoneAreOut'
    BY <2>2, <2>6, StillOut DEF Claim, teamsHistory
  <2>9. DOMAIN invite' = Invite /\ \A o \in Invite : invite'[o] \in InviteType
    BY <1>3, <2>3, OneInvite DEF InviteType
  <2> QED BY <2>7, <2>8, <2>9, InviteStep DEF Claim
<1>5. CASE invite[req[r].inv].status # "open"
  <2>1. UNCHANGED <<teamRows, teamsHistory>>
    BY <1>5 DEF Claim, teamRows
  <2>2. CASE req[r].mine = None
    <3>1. RequestGoes(r, "claimOwn")
      BY <1>5, <2>2 DEF Claim
    <3>2. Prepared([req[r] EXCEPT !.at = "claimOwn"])
      BY <1>1, <1>3 DEF Prepared, RequestType
    <3> QED BY <1>2, <2>1, <3>1, <3>2, GoesOn DEF RequestCalls
  <2>3. CASE req[r].mine # None
    BY <1>5, <2>1, <2>3, EndsThere DEF Claim
  <2> QED BY <2>2, <2>3
<1> QED BY <1>4, <1>5

LEMMA PutInviteKeeps ==
  ASSUME TeamsAssumption, TeamsInvariant, NEW r \in Request, PutInvite(r)
  PROVE  TeamsInvariant'
<1> DEFINE v == [status |-> "open", org |-> req[r].mine, role |-> req[r].give]
<1>1. req[r].inv \in Invite /\ req[r].give \in Invited
  BY DEF TeamsInvariant, RequestsPrepared, PutInvite, Prepared
<1>2. RequestsPrepared' /\ GoneAreOut'
  BY NoRequestIsFine, RequestChanges, StillOut DEF TeamsInvariant, PutInvite, RequestEnds, teamsHistory
<1>3. CASE req[r].mine \in exists
  <2>1. v \in InviteType
    BY <1>1, <1>3 DEF InviteType
  <2>2. invite' = [invite EXCEPT ![req[r].inv] = v]
    BY <1>3 DEF PutInvite
  <2> HIDE DEF v
  <2> QED BY <1>1, <1>2, <2>1, <2>2, OneInvite, InviteStep DEF PutInvite
<1>4. CASE req[r].mine \notin exists
  BY <1>4, EndsThere DEF PutInvite, teamRows
<1> QED BY <1>3, <1>4

LEMMA RevokeKeeps ==
  ASSUME TeamsAssumption, TeamsInvariant, NEW r \in Request, Revoke(r)
  PROVE  TeamsInvariant'
<1>1. req[r].inv \in Invite
  BY DEF TeamsInvariant, RequestsPrepared, Revoke, Prepared
<1>2. RequestsPrepared' /\ GoneAreOut'
  BY NoRequestIsFine, RequestChanges, StillOut DEF TeamsInvariant, Revoke, RequestEnds, teamsHistory
<1>3. invite' = [invite EXCEPT ![req[r].inv] = Closed] /\ Closed \in InviteType
  BY DEF Revoke, InviteType
<1> QED BY <1>1, <1>2, <1>3, OneInvite, InviteStep DEF Revoke

LEMMA InviteExpiresKeeps ==
  ASSUME TeamsAssumption, TeamsInvariant, NEW i \in Invite, InviteExpires(i)
  PROVE  TeamsInvariant'
<1>1. RequestsPrepared' /\ GoneAreOut'
  BY DEF TeamsInvariant, RequestsPrepared, GoneAreOut, InviteExpires, teamsHistory
<1>2. invite' = [invite EXCEPT ![i] = Closed] /\ Closed \in InviteType
  BY DEF InviteExpires, InviteType
<1> QED BY <1>1, <1>2, OneInvite, InviteStep DEF InviteExpires

\* A team with one owner.
Owners(t) == {q \in Members(t) : role[q] = "owner"}
HasOwner(t) == \E p \in Members(t) : Owners(t) = {p}
Led(t) == (Members(t) # {} => HasOwner(t)) /\ (t \in exists => Members(t) # {})

LEMMA AreLed ==
  ASSUME TeamsInvariant, NEW t \in Team, t \notin stale \cup deserted
  PROVE  Led(t)
BY DEF TeamsInvariant, OneOwnerUnlessStale, Peopled, Led, HasOwner, Owners

LEMMA LedAreFine ==
  ASSUME \A t \in Team : t \notin (stale \cup deserted)' => Led(t)'
  PROVE  TeamsTypeOK' => OneOwnerUnlessStale' /\ Peopled'
<1>1. OneOwnerUnlessStale'
  <2> SUFFICES ASSUME NEW t \in Team, t \notin (stale \cup deserted)', Members(t)' # {}
               PROVE  \E p \in Members(t)' : Owners(t)' = {p}
    BY DEF OneOwnerUnlessStale, Owners
  <2>1. HasOwner(t)'
    BY DEF Led
  <2> QED BY <2>1 DEF HasOwner
<1>2. TeamsTypeOK' => Peopled'
  BY DEF TeamsTypeOK, Peopled, Led
<1> QED BY <1>1, <1>2

\* A team none of whose rows changes keeps its owner.
LEMMA UntouchedTeam ==
  ASSUME NEW t, \A p \in Person : (org[p] = t <=> org'[p] = t) /\ (org[p] = t => role'[p] = role[p])
  PROVE  Members(t)' = Members(t) /\ Owners(t)' = Owners(t) /\ (HasOwner(t) => HasOwner(t)')
BY DEF Members, Owners, HasOwner

\* Rows that go leave the order of the others.
LEMMA ApartKeepsTenure ==
  ASSUME Tenure, NEW S \in SUBSET Person, before' = Apart(S),
         \A p \in Person : org'[p] = IF p \in S THEN None ELSE org[p]
  PROVE  Tenure'
<1>1. \A p, q \in Person : <<p, q>> \in before' <=> <<p, q>> \in before /\ p \notin S /\ q \notin S
  BY DEF Apart
<1>2. before' \subseteq Person \X Person
  BY DEF Apart
<1>3. \A p, q \in Person : Together(p, q)' <=> Together(p, q) /\ p \notin S /\ q \notin S
  BY DEF Together
<1> HIDE DEF Apart, Together
<1> QED BY <1>1, <1>2, <1>3 DEF Tenure

\* What the store's removeMember does.
LEMMA RowRemoved ==
  ASSUME TeamsAssumption, TeamsTypeOK, NEW p \in Person, NEW t \in Team, Without(p, t),
         UNCHANGED exists
  PROVE  /\ org' \in [Person -> Team \cup {None}] /\ role' \in [Person -> Roles \cup {"none"}]
         /\ RowsAgree' /\ Tenure'
         /\ \A q \in Person : q # p => org'[q] = org[q] /\ role'[q] = role[q]
         /\ org'[p] = IF org[p] = t THEN None ELSE org[p]
         /\ org[p] # t => role'[p] = role[p]
<1>1. CASE org[p] # t
  BY <1>1 DEF Without, TeamsTypeOK, RowsAgree, Tenure, Together
<1>2. CASE org[p] = t
  <2>1. /\ org' = [org EXCEPT ![p] = None] /\ role' = [role EXCEPT ![p] = "none"]
        /\ before' = Apart({p})
    BY <1>2 DEF Without
  <2>2. \A q \in Person : org'[q] = IF q \in {p} THEN None ELSE org[q]
    BY <2>1 DEF TeamsTypeOK
  <2>3. Tenure'
    BY <2>1, <2>2, ApartKeepsTenure DEF TeamsTypeOK
  <2>4. RowsAgree'
    BY <2>1 DEF TeamsTypeOK, RowsAgree
  <2> QED BY <1>2, <2>1, <2>3, <2>4 DEF TeamsTypeOK
<1> QED BY <1>1, <1>2

\* What every step that writes memberships has to show.
LEMMA MembershipStep ==
  ASSUME RequestsPrepared', GoneAreOut',
         org' \in [Person -> Team \cup {None}], role' \in [Person -> Roles \cup {"none"}],
         RowsAgree', Tenure',
         exists' \subseteq Team, stale' \subseteq Team, deserted' \subseteq Team,
         gone' \subseteq Person, caught' \subseteq Person,
         DOMAIN invite' = Invite, \A i \in Invite : invite'[i] \in InviteType',
         \A t \in Team : t \notin (stale \cup deserted)' => Led(t)'
  PROVE  TeamsInvariant'
<1>1. TeamsTypeOK'
  BY DEF TeamsTypeOK, InviteType
<1>2. OneOwnerUnlessStale' /\ Peopled'
  BY <1>1, LedAreFine
<1> QED BY <1>1, <1>2 DEF TeamsInvariant

LEMMA OtherRowsTyped ==
  ASSUME TeamsInvariant
  PROVE  /\ gone \subseteq Person /\ caught \subseteq Person
         /\ exists \subseteq Team /\ stale \subseteq Team /\ deserted \subseteq Team
         /\ DOMAIN invite = Invite /\ \A i \in Invite : invite[i] \in InviteType
BY DEF TeamsInvariant, TeamsTypeOK, InviteType

\* Membership and deletion: whoever is gone and uncaught stays without a team.
LEMMA OutUnlessAsked ==
  ASSUME TeamsInvariant, NEW r \in Request, NEW x, Harmless(x), req' = [req EXCEPT ![r] = x],
         \A p \in Person : org[p] = None /\ p # req[r].by => org'[p] = None,
         req[r].by \notin gone \ caught, UNCHANGED <<gone, caught>>
  PROVE  GoneAreOut'
<1>1. gone \subseteq Person
  BY DEF TeamsInvariant, TeamsTypeOK
<1> QED BY <1>1 DEF TeamsInvariant, GoneAreOut, Harmless, RequestsPrepared

LEMMA LeaveKeeps ==
  ASSUME TeamsAssumption, TeamsInvariant, NEW r \in Request, Leave(r)
  PROVE  TeamsInvariant'
<1> DEFINE x == [req[r] EXCEPT !.at = "put"]
<1>1. req[r] \in RequestType /\ Prepared(req[r]) /\ req[r].at = "leave"
  BY DEF TeamsInvariant, RequestsPrepared, Leave
<1>2. PICK p \in Person, t \in Team : p = req[r].by /\ t = req[r].mine /\ p \notin gone \ caught
  BY <1>1, NotGone DEF Prepared
<1>3. x \in RequestType /\ Prepared(x) /\ Harmless(x) /\ req' = [req EXCEPT ![r] = x]
  <2>1. x \in RequestType
    BY <1>1, MayGo DEF RequestCalls
  <2>2. Prepared(x)
    BY <1>1 DEF Prepared, RequestType
  <2>3. Harmless(x)
    BY <1>1, <1>2 DEF Harmless, RequestType
  <2> QED BY <2>1, <2>2, <2>3 DEF Leave, RequestGoes
<1> HIDE DEF x
<1>4. RequestsPrepared'
  BY <1>3, RequestChanges DEF TeamsInvariant
<1>5. /\ org' \in [Person -> Team \cup {None}] /\ role' \in [Person -> Roles \cup {"none"}]
      /\ RowsAgree' /\ Tenure'
      /\ \A q \in Person : q # p => org'[q] = org[q] /\ role'[q] = role[q]
      /\ org'[p] = IF org[p] = t THEN None ELSE org[p]
      /\ org[p] # t => role'[p] = role[p]
  BY <1>2, RowRemoved DEF Leave, TeamsInvariant
<1>6. GoneAreOut'
  BY <1>2, <1>3, <1>5, OutUnlessAsked DEF Leave
<1>7. stale' \subseteq Team /\ deserted' \subseteq Team /\ stale \subseteq stale' /\ deserted \subseteq deserted'
  BY <1>2 DEF Leave, Marks, TeamsInvariant, TeamsTypeOK
<1>8. ASSUME NEW u \in Team, u \notin (stale \cup deserted)'
      PROVE  Led(u)'
  <2>1. Led(u)
    BY <1>7, <1>8, AreLed
  <2>2. CASE u # t \/ org[p] # t
    <3>1. \A q \in Person : (org[q] = u <=> org'[q] = u) /\ (org[q] = u => role'[q] = role[q])
      BY <1>2, <1>5, <2>2 DEF TeamsAssumption
    <3> QED BY <2>1, <3>1, UntouchedTeam DEF Led, Leave
  <2>3. CASE u = t /\ org[p] = t
    <3>1. role[p] # "owner" /\ Members(t) \ {p} # {}
      BY <1>8, <2>3, <1>2 DEF Leave, Marks
    <3>2. Members(t)' = Members(t) \ {p}
      BY <1>2, <1>5, <2>3 DEF Members, TeamsAssumption
    <3>3. Owners(t)' = Owners(t)
      BY <1>2, <1>5, <2>3, <3>1, <3>2 DEF Owners, Members
    <3>4. PICK o \in Members(t) : Owners(t) = {o}
      BY <2>1, <2>3, <3>1 DEF Led, HasOwner
    <3>5. o # p
      BY <3>1, <3>4 DEF Owners
    <3> QED BY <2>3, <3>1, <3>2, <3>3, <3>4, <3>5 DEF Led, HasOwner
  <2> QED BY <2>2, <2>3
<1> QED BY <1>4, <1>5, <1>6, <1>7, <1>8, MembershipStep, OtherRowsTyped DEF Leave, InviteType

LEMMA RemoveRowKeeps ==
  ASSUME TeamsAssumption, TeamsInvariant, NEW r \in Request, RemoveRow(r)
  PROVE  TeamsInvariant'
<1>1. req[r] \in RequestType /\ Prepared(req[r]) /\ req[r].at = "remove"
  BY DEF TeamsInvariant, RequestsPrepared, RemoveRow
<1>2. PICK p \in Person, t \in Team : p = req[r].whom /\ t = req[r].mine /\ req[r].by \notin gone \ caught
  BY <1>1, NotGone DEF Prepared
<1>3. /\ NoRequest \in RequestType /\ Prepared(NoRequest) /\ Harmless(NoRequest)
      /\ req' = [req EXCEPT ![r] = NoRequest]
  BY NoRequestIsFine DEF RemoveRow, RequestEnds, TeamsInvariant
<1>4. RequestsPrepared'
  BY <1>3, RequestChanges DEF TeamsInvariant
<1>5. /\ org' \in [Person -> Team \cup {None}] /\ role' \in [Person -> Roles \cup {"none"}]
      /\ RowsAgree' /\ Tenure'
      /\ \A q \in Person : q # p => org'[q] = org[q] /\ role'[q] = role[q]
      /\ org'[p] = IF org[p] = t THEN None ELSE org[p]
      /\ org[p] # t => role'[p] = role[p]
  BY <1>2, RowRemoved DEF RemoveRow, TeamsInvariant
<1>6. GoneAreOut'
  BY <1>2, <1>3, <1>5, OutUnlessAsked DEF RemoveRow
<1>7. stale' \subseteq Team /\ deserted' \subseteq Team /\ stale \subseteq stale' /\ deserted \subseteq deserted'
  BY <1>2 DEF RemoveRow, Marks, TeamsInvariant, TeamsTypeOK
<1>8. ASSUME NEW u \in Team, u \notin (stale \cup deserted)'
      PROVE  Led(u)'
  <2>1. Led(u)
    BY <1>7, <1>8, AreLed
  <2>2. CASE u # t \/ org[p] # t
    <3>1. \A q \in Person : (org[q] = u <=> org'[q] = u) /\ (org[q] = u => role'[q] = role[q])
      BY <1>2, <1>5, <2>2 DEF TeamsAssumption
    <3> QED BY <2>1, <3>1, UntouchedTeam DEF Led, RemoveRow
  <2>3. CASE u = t /\ org[p] = t
    <3>1. role[p] # "owner" /\ Members(t) # {}
      BY <1>8, <2>3, <1>2 DEF RemoveRow, Marks, Members
    <3>2. Members(t)' = Members(t) \ {p}
      BY <1>2, <1>5, <2>3 DEF Members, TeamsAssumption
    <3>3. Owners(t)' = Owners(t)
      BY <1>2, <1>5, <2>3, <3>1, <3>2 DEF Owners, Members
    <3>4. PICK o \in Members(t) : Owners(t) = {o}
      BY <2>1, <2>3, <3>1 DEF Led, HasOwner
    <3>5. o # p
      BY <3>1, <3>4 DEF Owners
    <3> QED BY <2>3, <3>2, <3>3, <3>4, <3>5 DEF Led, HasOwner
  <2> QED BY <2>2, <2>3
<1> QED BY <1>4, <1>5, <1>6, <1>7, <1>8, MembershipStep, OtherRowsTyped DEF RemoveRow, InviteType

\* A row is inserted, or moved from another team.
LEMMA JoinsKeepsTenure ==
  ASSUME TeamsAssumption, TeamsTypeOK, NEW p \in Person, NEW t \in Team,
         org' = [org EXCEPT ![p] = t], before' = Apart({p}) \cup ((Members(t) \ {p}) \X {p})
  PROVE  Tenure'
<1>1. \A a, b \in Person :
        <<a, b>> \in before' <=> (<<a, b>> \in before /\ a # p /\ b # p) \/ (b = p /\ a # p /\ org[a] = t)
  BY DEF Apart, Members
<1>2. before' \subseteq Person \X Person
  BY DEF Apart, Members
<1>3. \A a \in Person : org'[a] = IF a = p THEN t ELSE org[a]
  BY DEF TeamsTypeOK
<1>7. \A a, b \in Person : a # p /\ b # p => (Together(a, b)' <=> Together(a, b))
  BY <1>3 DEF Together
<1>8. \A a \in Person : a # p => (Together(a, p)' <=> org[a] = t) /\ (Together(p, a)' <=> org[a] = t)
  BY <1>3 DEF Together, TeamsAssumption
<1>4. \A a, b, c \in Person : <<a, b>> \in before' /\ <<b, c>> \in before' => <<a, c>> \in before'
  <2> SUFFICES ASSUME NEW a \in Person, NEW b \in Person, NEW c \in Person,
                      <<a, b>> \in before', <<b, c>> \in before'
               PROVE  <<a, c>> \in before'
    OBVIOUS
  <2>1. <<a, b>> \in before /\ a # p /\ b # p
    BY <1>1
  <2>2. org[a] = org[b]
    BY <2>1 DEF TeamsTypeOK, Tenure, Together
  <2>3. CASE c = p
    BY <1>1, <2>1, <2>2, <2>3
  <2>4. CASE c # p
    <3>1. <<b, c>> \in before
      BY <1>1, <2>4
    <3>2. <<a, c>> \in before
      BY <2>1, <3>1 DEF TeamsTypeOK, Tenure
    <3> QED BY <1>1, <2>1, <2>4, <3>2
  <2> QED BY <2>3, <2>4
<1>5. ASSUME NEW a \in Person, NEW b \in Person, <<a, b>> \in before'
      PROVE  Together(a, b)' /\ <<b, a>> \notin before'
  <2>1. CASE <<a, b>> \in before /\ a # p /\ b # p
    <3>1. Together(a, b) /\ <<b, a>> \notin before
      BY <2>1 DEF TeamsTypeOK, Tenure
    <3> QED BY <1>1, <1>7, <2>1, <3>1
  <2>2. CASE b = p /\ a # p /\ org[a] = t
    BY <1>1, <1>8, <2>2
  <2> QED BY <1>1, <1>5, <2>1, <2>2
<1>6. ASSUME NEW a \in Person, NEW b \in Person, Together(a, b)', a # b
      PROVE  <<a, b>> \in before' \/ <<b, a>> \in before'
  <2>1. CASE a # p /\ b # p
    <3>1. <<a, b>> \in before \/ <<b, a>> \in before
      BY <1>6, <1>7, <2>1 DEF TeamsTypeOK, Tenure
    <3> QED BY <1>1, <2>1, <3>1
  <2>2. CASE b = p
    BY <1>1, <1>6, <1>8, <2>2
  <2>3. CASE a = p
    BY <1>1, <1>6, <1>8, <2>3
  <2> QED BY <2>1, <2>2, <2>3
<1> QED BY <1>2, <1>4, <1>5, <1>6 DEF Tenure

LEMMA PutKeeps ==
  ASSUME TeamsAssumption, TeamsInvariant, NEW r \in Request, Put(r)
  PROVE  TeamsInvariant'
<1>1. req[r] \in RequestType /\ Prepared(req[r]) /\ req[r].at = "put"
  BY DEF TeamsInvariant, RequestsPrepared, Put
<1>2. PICK p \in Person, t \in Team, as \in Invited :
        p = req[r].by /\ t = req[r].whom /\ as = req[r].give /\ p \notin gone \ caught
  BY <1>1, NotGone DEF Prepared
<1>3. /\ NoRequest \in RequestType /\ Prepared(NoRequest) /\ Harmless(NoRequest)
      /\ req' = [req EXCEPT ![r] = NoRequest]
  BY NoRequestIsFine DEF Put, RequestEnds, TeamsInvariant
<1>4. CASE t \notin exists
  BY <1>2, <1>4, EndsThere DEF Put, teamRows, teamsHistory
<1>5. CASE t \in exists
  <2>1. /\ org' = [org EXCEPT ![p] = t] /\ role' = [role EXCEPT ![p] = as]
        /\ before' = Apart({p}) \cup ((Members(t) \ {p}) \X {p})
        /\ Marks(org[p] # None, org[p])
    BY <1>2, <1>5 DEF Put, Joins
  <2>2. as \in Roles /\ as # "owner"
    BY DEF Invited, Roles
  <2>3. /\ org' \in [Person -> Team \cup {None}] /\ role' \in [Person -> Roles \cup {"none"}]
        /\ \A q \in Person : org'[q] = IF q = p THEN t ELSE org[q]
        /\ \A q \in Person : role'[q] = IF q = p THEN as ELSE role[q]
    BY <2>1, <2>2 DEF TeamsInvariant, TeamsTypeOK
  <2>4. Tenure'
    BY <2>1, JoinsKeepsTenure DEF TeamsInvariant
  <2>5. RowsAgree'
    BY <1>5, <2>2, <2>3 DEF TeamsInvariant, TeamsTypeOK, RowsAgree, Put, TeamsAssumption, Roles
  <2>6. RequestsPrepared'
    BY <1>3, RequestChanges DEF TeamsInvariant
  <2>7. GoneAreOut'
    BY <1>2, <1>3, <2>3, OutUnlessAsked DEF Put
  <2>8. stale' \subseteq Team /\ stale \subseteq stale' /\ (org[p] # None => org[p] \in stale')
    BY <2>1 DEF Marks, TeamsInvariant, TeamsTypeOK
  <2>9. ASSUME NEW u \in Team, u \notin (stale \cup deserted)'
        PROVE  Led(u)'
    <3>1. Led(u) /\ org[p] # u
      BY <2>8, <2>9, AreLed DEF Put, TeamsAssumption
    <3>2. CASE u # t
      <4>1. \A q \in Person : (org[q] = u <=> org'[q] = u) /\ (org[q] = u => role'[q] = role[q])
        BY <2>3, <3>1, <3>2
      <4> QED BY <3>1, <4>1, UntouchedTeam DEF Led, Put
    <3>3. CASE u = t
      <4>1. Members(t)' = Members(t) \cup {p} /\ p \notin Members(t)
        BY <2>3, <3>1, <3>3 DEF Members
      <4>2. Owners(t)' = Owners(t)
        BY <2>2, <2>3, <4>1 DEF Owners, Members
      <4>3. HasOwner(t)
        BY <1>5, <3>1, <3>3 DEF Led
      <4> QED BY <3>3, <4>1, <4>2, <4>3 DEF Led, HasOwner
    <3> QED BY <3>2, <3>3
  <2> QED BY <2>3, <2>4, <2>5, <2>6, <2>7, <2>8, <2>9, MembershipStep, OtherRowsTyped DEF Put, InviteType
<1> QED BY <1>4, <1>5

LEMMA ClaimOwnKeeps ==
  ASSUME TeamsAssumption, TeamsInvariant, NEW r \in Request, NEW t \in Team, ClaimOwn(r, t)
  PROVE  TeamsInvariant'
<1>1. req[r] \in RequestType /\ Prepared(req[r]) /\ req[r].at = "claimOwn"
  BY DEF TeamsInvariant, RequestsPrepared, ClaimOwn
<1>2. PICK p \in Person : p = req[r].by /\ p \notin gone \ caught
  BY <1>1, NotGone DEF Prepared
<1>3. /\ NoRequest \in RequestType /\ Prepared(NoRequest) /\ Harmless(NoRequest)
      /\ req' = [req EXCEPT ![r] = NoRequest]
  BY NoRequestIsFine DEF ClaimOwn, RequestEnds, TeamsInvariant
<1>4. CASE org[p] # None
  BY <1>2, <1>4, EndsThere DEF ClaimOwn, teamRows, teamsHistory
<1>5. CASE org[p] = None
  <2>1. /\ org' = [org EXCEPT ![p] = t] /\ role' = [role EXCEPT ![p] = "owner"] /\ before' = before
        /\ exists' = exists \cup {t} /\ stale' = stale \ {t} /\ deserted' = deserted \ {t}
    BY <1>2, <1>5 DEF ClaimOwn
  <2>2. /\ org' \in [Person -> Team \cup {None}] /\ role' \in [Person -> Roles \cup {"none"}]
        /\ \A q \in Person : org'[q] = IF q = p THEN t ELSE org[q]
        /\ \A q \in Person : role'[q] = IF q = p THEN "owner" ELSE role[q]
    BY <2>1 DEF TeamsInvariant, TeamsTypeOK, Roles
  <2>3. \A q \in Person : org[q] # t
    BY DEF TeamsInvariant, TeamsTypeOK, RowsAgree, ClaimOwn, TeamsAssumption
  <2>4. Tenure'
    <3>1. \A a, b \in Person : Together(a, b)' <=> Together(a, b) \/ (a = p /\ b = p)
      BY <1>5, <2>2, <2>3 DEF Together, TeamsAssumption
    <3>2. \A a \in Person : ~Together(a, p) /\ ~Together(p, a)
      BY <1>5 DEF Together
    <3> HIDE DEF Together
    <3> QED BY <2>1, <3>1, <3>2 DEF Tenure, TeamsInvariant, TeamsTypeOK
  <2>5. RowsAgree'
    BY <2>1, <2>2 DEF TeamsInvariant, TeamsTypeOK, RowsAgree, TeamsAssumption
  <2>6. RequestsPrepared'
    BY <1>3, RequestChanges DEF TeamsInvariant
  <2>7. GoneAreOut'
    <3>1. \A q \in Person : org[q] = None /\ q # req[r].by => org'[q] = None
      BY <1>2, <2>2
    <3> QED BY <1>2, <1>3, <3>1, OutUnlessAsked DEF ClaimOwn
  <2>8. exists' \subseteq Team /\ stale' \subseteq Team /\ deserted' \subseteq Team
    BY <2>1, OtherRowsTyped
  <2>9. DOMAIN invite' = Invite /\ \A i \in Invite : invite'[i] \in InviteType'
    BY <2>1, OtherRowsTyped DEF ClaimOwn, InviteType
  <2>10. ASSUME NEW u \in Team, u \notin (stale \cup deserted)'
         PROVE  Led(u)'
    <3>1. CASE u # t
      <4>1. Led(u)
        BY <2>1, <2>10, <3>1, AreLed
      <4>2. \A q \in Person : (org[q] = u <=> org'[q] = u) /\ (org[q] = u => role'[q] = role[q])
        BY <1>5, <2>2, <3>1 DEF TeamsAssumption
      <4> QED BY <2>1, <3>1, <4>1, <4>2, UntouchedTeam DEF Led
    <3>2. CASE u = t
      <4>1. Members(t)' = {p}
        BY <2>2, <2>3 DEF Members
      <4>2. Owners(t)' = {p}
        BY <2>2, <4>1 DEF Owners
      <4> QED BY <3>2, <4>1, <4>2 DEF Led, HasOwner
    <3> QED BY <3>1, <3>2
  <2> QED BY <2>2, <2>4, <2>5, <2>6, <2>7, <2>8, <2>9, <2>10, MembershipStep, OtherRowsTyped DEF ClaimOwn
<1> QED BY <1>4, <1>5

LEMMA SetRoleKeeps ==
  ASSUME TeamsAssumption, TeamsInvariant, NEW r \in Request, SetRole(r)
  PROVE  TeamsInvariant'
<1>1. req[r] \in RequestType /\ Prepared(req[r]) /\ req[r].at = "setRole"
  BY DEF TeamsInvariant, RequestsPrepared, SetRole
<1>2. PICK p \in Person, t \in Team, as \in Invited :
        p = req[r].whom /\ t = req[r].mine /\ as = req[r].give /\ req[r].by \notin gone \ caught
  BY <1>1, NotGone DEF Prepared
<1>3. /\ NoRequest \in RequestType /\ Prepared(NoRequest) /\ Harmless(NoRequest)
      /\ req' = [req EXCEPT ![r] = NoRequest]
  BY NoRequestIsFine DEF SetRole, RequestEnds, TeamsInvariant
<1>4. RequestsPrepared'
  BY <1>3, RequestChanges DEF TeamsInvariant
<1>5. as \in Roles /\ as # "owner"
  BY DEF Invited, Roles
<1>6. /\ org' = org /\ before' = before /\ role' \in [Person -> Roles \cup {"none"}]
      /\ \A q \in Person : role'[q] = IF q = p /\ org[p] = t THEN as ELSE role[q]
  BY <1>2, <1>5 DEF SetRole, TeamsInvariant, TeamsTypeOK
<1>7. GoneAreOut'
  BY <1>2, <1>3, <1>6, OutUnlessAsked DEF SetRole
<1>8. stale' \subseteq Team /\ stale \subseteq stale'
  BY <1>2 DEF SetRole, Marks, TeamsInvariant, TeamsTypeOK
<1>9. RowsAgree' /\ Tenure'
  <2>1. RowsAgree'
    BY <1>2, <1>5, <1>6 DEF SetRole, TeamsInvariant, TeamsTypeOK, RowsAgree, TeamsAssumption, Roles
  <2>2. Tenure'
    BY <1>6 DEF TeamsInvariant, TeamsTypeOK, Tenure, Together
  <2> QED BY <2>1, <2>2
<1>10. ASSUME NEW u \in Team, u \notin (stale \cup deserted)'
       PROVE  Led(u)'
  <2>1. Led(u)
    BY <1>8, <1>10, AreLed DEF SetRole
  <2>2. Members(u)' = Members(u)
    BY <1>6 DEF Members
  <2>3. org[p] = u /\ u = t => role[p] # "owner"
    BY <1>2, <1>10 DEF SetRole, Marks
  <2>4. Owners(u)' = Owners(u)
    BY <1>5, <1>6, <2>2, <2>3 DEF Owners, Members
  <2> QED BY <2>1, <2>2, <2>4 DEF Led, HasOwner, SetRole
<1>11. org' \in [Person -> Team \cup {None}]
  BY <1>6 DEF TeamsInvariant, TeamsTypeOK
<1> QED BY <1>4, <1>6, <1>7, <1>8, <1>9, <1>10, <1>11, MembershipStep, OtherRowsTyped DEF SetRole, InviteType

\* A deletion that goes by what is true now.
AsPlanned(q) ==
  [org |-> q.mine, dissolve |-> q.dissolve, whom |-> q.whom] = Plan(q.by, org[q.by], role[q.by])

LEMMA CarryOutDeletionKeeps ==
  ASSUME TeamsAssumption, TeamsInvariant, NEW r \in Request, CarryOutDeletion(r)
  PROVE  TeamsInvariant'
<1>1. req[r] \in RequestType /\ Prepared(req[r]) /\ req[r].at = "delete"
  BY DEF TeamsInvariant, RequestsPrepared, CarryOutDeletion
<1>2. PICK p \in Person, m \in Team \cup {None}, h \in Person \cup Team \cup {None}, d \in BOOLEAN :
        p = req[r].by /\ m = req[r].mine /\ h = req[r].whom /\ d = req[r].dissolve
  BY <1>1 DEF Prepared, RequestType
<1>3. d \/ h \in Person => m \in Team
  BY <1>1, <1>2 DEF Prepared
<1>4. PICK lost \in SUBSET Person : lost = {p} \cup IF d THEN Members(m) ELSE {}
  BY DEF Members
<1>5. PICK heirs \in SUBSET Person : heirs = {q \in Members(m) : q = h}
  BY DEF Members
<1>6. /\ exists' = IF d THEN exists \ {m} ELSE exists
      /\ invite' = [i \in Invite |-> IF d /\ invite[i].org = m THEN Closed ELSE invite[i]]
      /\ org' = [q \in Person |-> IF q \in lost THEN None ELSE org[q]]
      /\ role' = [q \in Person |-> IF q \in lost THEN "none" ELSE IF q \in heirs THEN "owner" ELSE role[q]]
      /\ before' = Apart(lost)
      /\ gone' = gone \cup {p}
      /\ stale' = stale \cup IF AsPlanned(req[r]) THEN {} ELSE {m, org[p]} \ {None}
      /\ caught' = caught \cup IF \E o \in Request \ {r} : req[o].by = p THEN {p} ELSE {}
      /\ deserted' = deserted
  BY <1>2, <1>4, <1>5 DEF CarryOutDeletion, AsPlanned
<1>7. /\ NoRequest \in RequestType /\ Prepared(NoRequest)
      /\ req' = [req EXCEPT ![r] = NoRequest]
  BY NoRequestIsFine DEF CarryOutDeletion, RequestEnds, TeamsInvariant
<1>8. RequestsPrepared'
  BY <1>7, RequestChanges DEF TeamsInvariant
<1>9. /\ org' \in [Person -> Team \cup {None}] /\ role' \in [Person -> Roles \cup {"none"}]
      /\ \A q \in Person : org'[q] = IF q \in lost THEN None ELSE org[q]
      /\ \A q \in Person : role'[q] = IF q \in lost THEN "none" ELSE IF q \in heirs THEN "owner" ELSE role[q]
  BY <1>6 DEF TeamsInvariant, TeamsTypeOK, Roles
<1>10. Tenure'
  BY <1>6, <1>9, ApartKeepsTenure DEF TeamsInvariant, TeamsTypeOK
<1>11. \A q \in heirs : h \in Person /\ q = h /\ org[q] = m
  BY <1>5 DEF Members
<1>12. RowsAgree'
  <2> SUFFICES ASSUME NEW q \in Person
               PROVE  (role'[q] = "none" <=> org'[q] = None) /\ (org'[q] # None => org'[q] \in exists')
    BY DEF RowsAgree
  <2>1. (role[q] = "none" <=> org[q] = None) /\ (org[q] # None => org[q] \in exists)
    BY DEF TeamsInvariant, TeamsTypeOK, RowsAgree
  <2>2. role'[q] = "none" <=> org'[q] = None
    BY <1>3, <1>9, <1>11, <2>1 DEF TeamsAssumption
  <2>3. d /\ q \notin lost => org[q] # m
    BY <1>4 DEF Members
  <2>4. org'[q] # None => org'[q] \in exists'
    BY <1>6, <1>9, <2>1, <2>3
  <2> QED BY <2>2, <2>4
<1>13. GoneAreOut'
  <2> SUFFICES ASSUME NEW q \in gone' \ caught'
               PROVE  org'[q] = None /\ \A o \in Request : req'[o].by = q => req'[o].at \in {"recentlyDeleted", "delete"}
    BY DEF GoneAreOut
  <2>1. q \in Person /\ q # None
    BY <1>6, OtherRowsTyped DEF TeamsAssumption
  <2>2. req'[r].by = None
    BY <1>7 DEF TeamsInvariant, RequestsPrepared, NoRequest
  <2>3. \A o \in Request : o # r => req'[o] = req[o]
    BY <1>7 DEF TeamsInvariant, RequestsPrepared
  <2>4. CASE q = p
    <3>1. \A o \in Request \ {r} : req[o].by # p
      BY <1>6, <2>4
    <3> QED BY <1>4, <1>9, <2>1, <2>2, <2>3, <2>4, <3>1
  <2>5. CASE q # p
    <3>1. q \in gone \ caught
      BY <1>6, <2>5
    <3>2. org[q] = None /\ \A o \in Request : req[o].by = q => req[o].at \in {"recentlyDeleted", "delete"}
      BY <3>1 DEF TeamsInvariant, GoneAreOut
    <3> QED BY <1>9, <2>1, <2>2, <2>3, <3>2
  <2> QED BY <2>4, <2>5
<1>14. /\ exists' \subseteq Team /\ stale' \subseteq Team /\ deserted' \subseteq Team
       /\ gone' \subseteq Person /\ caught' \subseteq Person
  <2>1. org[p] \in Team \cup {None}
    BY DEF TeamsInvariant, TeamsTypeOK
  <2> QED BY <1>6, <2>1, OtherRowsTyped
<1>15. DOMAIN invite' = Invite /\ \A i \in Invite : invite'[i] \in InviteType'
  <2> SUFFICES ASSUME NEW i \in Invite PROVE invite'[i] \in InviteType'
    BY <1>6
  <2>1. CASE invite'[i] = Closed
    BY <2>1 DEF InviteType
  <2>2. CASE invite'[i] = invite[i] /\ (d => invite[i].org # m)
    BY <1>6, <2>2, OtherRowsTyped DEF InviteType
  <2> QED BY <1>6, <2>1, <2>2
<1>16. ASSUME NEW u \in Team, u \notin (stale \cup deserted)'
       PROVE  Led(u)'
  <2>1. Led(u)
    BY <1>6, <1>16, AreLed
  <2>2. u # None
    BY DEF TeamsAssumption
  <2>3. CASE u # m /\ u # org[p]
    <3>1. \A q \in Person : org[q] = u => q \notin lost /\ q \notin heirs
      BY <1>4, <1>5, <2>3 DEF Members
    <3>2. \A q \in Person : (org[q] = u <=> org'[q] = u) /\ (org[q] = u => role'[q] = role[q])
      BY <1>9, <2>2, <3>1
    <3>3. u \in exists' => u \in exists
      BY <1>6
    <3> QED BY <2>1, <3>2, <3>3, UntouchedTeam DEF Led
  <2>4. CASE u = m \/ u = org[p]
    <3>1. AsPlanned(req[r])
      BY <1>6, <1>16, <2>2, <2>4
    <3>2. /\ m = org[p] /\ u = m
          /\ d <=> Members(m) \ {p} = {}
          /\ h = IF role[p] = "owner" THEN SuccessorFor(m, p) ELSE None
      BY <1>2, <2>2, <2>4, <3>1 DEF AsPlanned, Plan
    <3>3. p \in Members(u)
      BY <3>2 DEF Members
    <3>4. CASE d
      <4>1. Members(u)' = {}
        BY <1>4, <1>9, <2>2, <3>2, <3>4 DEF Members
      <4>2. u \notin exists'
        BY <1>6, <3>2, <3>4
      <4> QED BY <4>1, <4>2 DEF Led
    <3>5. CASE ~d
      <4>1. lost = {p}
        BY <1>4, <3>5
      <4>2. Members(u)' = Members(u) \ {p} /\ Members(u) \ {p} # {}
        BY <1>9, <2>2, <3>2, <3>5, <4>1 DEF Members
      <4>3. PICK o \in Members(u) : Owners(u) = {o}
        BY <2>1, <3>3 DEF Led, HasOwner
      <4>4. CASE role[p] = "owner"
        <5>1. h \in Members(u) \ {p}
          BY <3>2, <4>2, <4>4, SuccessorIsThere DEF TeamsInvariant, TeamsTypeOK
        <5>2. heirs = {h}
          BY <1>5, <3>2, <5>1
        <5>3. Owners(u) = {p}
          BY <3>3, <4>3, <4>4 DEF Owners
        <5>4. Owners(u)' = {h}
          BY <1>9, <4>1, <4>2, <5>1, <5>2, <5>3 DEF Owners, Members
        <5> QED BY <4>2, <5>1, <5>4 DEF Led, HasOwner
      <4>5. CASE role[p] # "owner"
        <5>1. heirs = {}
          BY <1>5, <3>2, <4>5 DEF Members, TeamsAssumption
        <5>2. o # p
          BY <4>3, <4>5 DEF Owners
        <5>3. Owners(u)' = Owners(u)
          BY <1>9, <4>1, <4>2, <4>5, <5>1 DEF Owners, Members
        <5> QED BY <4>2, <4>3, <5>2, <5>3 DEF Led, HasOwner
      <4> QED BY <4>4, <4>5
    <3> QED BY <3>4, <3>5
  <2> QED BY <2>3, <2>4
<1> QED BY <1>8, <1>9, <1>10, <1>12, <1>13, <1>14, <1>15, <1>16, MembershipStep

\* No step breaks the invariant.
LEMMA TeamsStep == ASSUME TeamsAssumption, TeamsInvariant, [TeamsNext]_teamsVars PROVE TeamsInvariant'
<1>1. CASE UNCHANGED teamsVars
  BY <1>1 DEF teamsVars, teamRows, teamsHistory, TeamsInvariant, TeamsTypeOK, RowsAgree, Tenure, Together,
              RequestsPrepared, OneOwnerUnlessStale, Peopled, GoneAreOut, Members
<1>2. CASE TeamsNext
  BY <1>2, VisitKeeps, CreateInviteKeeps, RevokeInviteKeeps, RemoveMemberKeeps, ChangeRoleKeeps,
     AskDeletionKeeps, RecentlyDeletedKeeps, ReadInviteKeeps, ReadMembersKeeps, ClaimKeeps, LeaveKeeps,
     PutKeeps, PutInviteKeeps, RevokeKeeps, RemoveRowKeeps, SetRoleKeeps, CarryOutDeletionKeeps,
     ClaimOwnKeeps, InviteExpiresKeeps DEF TeamsNext
<1> QED BY <1>1, <1>2

LEMMA TeamsInvariantHolds == ASSUME TeamsAssumption PROVE TeamsSpec => []TeamsInvariant
BY TeamsStart, TeamsStep, PTL DEF TeamsSpec

\* The rows of teams, memberships and invitations and the requests under way
\* keep their types and agree (store-postgres.ts: the unique uid, the foreign keys).
THEOREM TeamsTypeCorrect == ASSUME TeamsAssumption PROVE TeamsSpec => []TeamsTypeOK
<1>1. TeamsInvariant => TeamsTypeOK
  BY DEF TeamsInvariant
<1> QED BY <1>1, TeamsInvariantHolds, PTL

\* A team with members has one owner unless it was written to on a read that no
\* longer held, or was joined after its last member left (routes/organizations.ts).
THEOREM OneOwnerKept == ASSUME TeamsAssumption PROVE TeamsSpec => []OneOwnerUnlessStale
<1>1. TeamsInvariant => OneOwnerUnlessStale
  BY DEF TeamsInvariant
<1> QED BY <1>1, TeamsInvariantHolds, PTL

\* A deleted account stays without a team unless another of its requests was
\* under way when it was deleted (routes/organizations.ts, ensureMembership).
THEOREM DeletedStayOut == ASSUME TeamsAssumption PROVE TeamsSpec => []DeletedStaysOut
<1>1. TeamsInvariant => DeletedStaysOut
  BY DEF TeamsInvariant, GoneAreOut, DeletedStaysOut
<1> QED BY <1>1, TeamsInvariantHolds, PTL
===============================================================================
