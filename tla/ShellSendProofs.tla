--------------------------- MODULE ShellSendProofs ---------------------------
(* Proofs about ShellSend, for any number of calls, grants, operations, runs *)
(* and crashes. A theorem that relies on the platform's input gate assumes   *)
(* InputGate; the others hold with and without it.                           *)
EXTENDS ShellSend, TLAPS

\* The key of a call and the grant in it have their types.
LEMMA KeyType == ASSUME TypeOK, NEW c \in Calls PROVE KeyOf(c) \in Key /\ GrantOf(c) \in Grants
  BY DEF TypeOK, KeyOf, GrantOf, Key

\* Storage is a nonempty sequence of images.
LEMMA ImageType ==
  ASSUME TypeOK
  PROVE  /\ Newest \in Image
         /\ \A i \in 1..Len(images) : images[i] \in Image
         /\ Len(images) \in Nat /\ Len(images) >= 1
  BY DEF TypeOK, Newest

\* Each kind of write keeps the type of storage.
LEMMA PutType ==
  ASSUME TypeOK
  PROVE  /\ \A m \in [Key -> OpRec] : PutOps(m) => images' \in Seq(Image) /\ Len(images') > 0
         /\ \A m \in SUBSET Grants : PutGrants(m) => images' \in Seq(Image) /\ Len(images') > 0
         /\ \A m \in 1..MaxRun : PutRun(m) => images' \in Seq(Image) /\ Len(images') > 0
<1>1. NoOps \in [Key -> OpRec]
  BY DEF NoOps, Absent, OpRec, OpState
<1>2. images \in Seq(Image)
  BY DEF TypeOK
<1>3. \A x \in Image : Append(images, x) \in Seq(Image) /\ Len(Append(images, x)) > 0
  BY <1>2
<1>4. \A m \in [Key -> OpRec] : [Newest EXCEPT !.ops = m] \in Image
  BY ImageType DEF Image
<1>5. \A m \in SUBSET Grants : [Newest EXCEPT !.held = m] \in Image
  BY ImageType DEF Image
<1>6. \A m \in 1..MaxRun : [Newest EXCEPT !.run = m, !.ops = NoOps] \in Image
  BY ImageType, <1>1 DEF Image
<1>. QED BY <1>3, <1>4, <1>5, <1>6 DEF PutOps, PutGrants, PutRun

\* A call may wait for the write it has just queued.
LEMMA PutAtType ==
  ASSUME TypeOK, NEW c \in Calls, putAt' = [putAt EXCEPT ![c] = Len(images) + 1]
  PROVE  putAt' \in [Calls -> Nat]
<1>1. Len(images) + 1 \in Nat
  BY ImageType
<1>2. putAt \in [Calls -> Nat]
  BY DEF TypeOK
<1>. QED BY <1>1, <1>2

\* mcpUpdateOpState keeps the type of the store.
LEMMA MarkedType ==
  ASSUME TypeOK, NEW k \in Key, NEW s \in OpState
  PROVE  Marked(k, s) \in [Key -> OpRec]
<1>1. ops \in [Key -> OpRec]
  BY DEF TypeOK
<1>2. ops[k] \in OpRec /\ [ops[k] EXCEPT !.state = s] \in OpRec
  BY <1>1 DEF OpRec
<1>3. [ops EXCEPT ![k].state = s] = [ops EXCEPT ![k] = [ops[k] EXCEPT !.state = s]]
  OBVIOUS
<1>. QED BY <1>1, <1>2, <1>3 DEF Marked

\* No step of any handler, of the host or of the platform takes a variable out of its type.
LEMMA TypeStep == TypeOK /\ [Next]_vars => TypeOK'
<1> SUFFICES ASSUME TypeOK, [Next]_vars PROVE TypeOK'
  OBVIOUS
<1> USE ConstantsAssumption, KeyType
<1>1. ASSUME NEW c \in Calls, Begin(c) PROVE TypeOK'
  <2>1. CASE Live(GrantOf(c))
    BY <1>1, <2>1 DEF TypeOK, Begin, relayVars, grantVars, hostVars
  <2>2. CASE ~Live(GrantOf(c))
    <3>1. /\ Answer(c, "revoked")
          /\ UNCHANGED <<req, putAt, relayVars, images, grantsDue, grantVars, hostUp, hostVars,
                         sent, runs, crashes>>
      BY <1>1, <2>2 DEF Begin
    <3>. QED BY <3>1 DEF TypeOK, Answer, relayVars, grantVars, hostVars
  <2>. QED BY <2>1, <2>2
<1>2. ASSUME NEW c \in Calls, Known(c) PROVE TypeOK'
  BY <1>2 DEF TypeOK, Known, Answer, relayVars, grantVars, hostVars
<1>3. ASSUME NEW c \in Calls, NEW h \in BOOLEAN, Refuse(c, h) PROVE TypeOK'
  BY <1>3 DEF TypeOK, Refuse, Answer, relayVars, grantVars, hostVars
<1>4. ASSUME NEW c \in Calls, Claim(c) PROVE TypeOK'
  <2>1. ops' \in [Key -> OpRec]
    <3>1. ops \in [Key -> OpRec] /\ Absent \in OpRec
      BY DEF TypeOK, Absent, OpRec, OpState
    <3>2. [print |-> req[c].print, state |-> "claiming"] \in OpRec
      BY DEF TypeOK, OpRec, OpState
    <3>3. PICK gone : ops' = [x \in Key |->
              IF x = KeyOf(c) THEN [print |-> req[c].print, state |-> "claiming"]
              ELSE IF x \in gone THEN Absent ELSE ops[x]]
      BY <1>4 DEF Claim
    <3>. QED BY <3>1, <3>2, <3>3
  <2>2. images' \in Seq(Image) /\ Len(images') > 0
    BY <1>4, <2>1, PutType DEF Claim
  <2>3. putAt' \in [Calls -> Nat]
    BY <1>4, PutAtType DEF Claim
  <2>. QED BY <1>4, <2>1, <2>2, <2>3 DEF TypeOK, Claim, grantVars, hostVars
<1>5. ASSUME NEW c \in Calls, TakeLease(c) PROVE TypeOK'
  <2>1. ops' \in [Key -> OpRec]
    BY <1>5, MarkedType DEF TakeLease, OpState
  <2>2. images' \in Seq(Image) /\ Len(images') > 0
    BY <1>5, <2>1, PutType DEF TakeLease
  <2>3. putAt' \in [Calls -> Nat]
    BY <1>5, PutAtType DEF TakeLease
  <2>. QED BY <1>5, <2>1, <2>2, <2>3 DEF TypeOK, TakeLease, grantVars, hostVars
<1>6. ASSUME NEW c \in Calls, StartDispatch(c) PROVE TypeOK'
  BY <1>6 DEF TypeOK, StartDispatch, relayVars, grantVars, hostVars
<1>7. ASSUME NEW c \in Calls, Emit(c) PROVE TypeOK'
  BY <1>7 DEF TypeOK, Emit, grantVars
<1>8. ASSUME NEW c \in Calls, HoldBack(c) PROVE TypeOK'
  BY <1>8 DEF TypeOK, HoldBack, relayVars, grantVars, hostVars
<1>9. ASSUME NEW c \in Calls, AckTimeout(c) PROVE TypeOK'
  BY <1>9 DEF TypeOK, AckTimeout, Settle, grantVars, hostVars
<1>10. ASSUME NEW c \in Calls, Cancel(c) PROVE TypeOK'
  BY <1>10 DEF TypeOK, Cancel, Settle, grantVars, hostVars
<1>11. ASSUME NEW c \in Calls, Finish(c) PROVE TypeOK'
  <2>0. outcome[c] \in OpState
    BY <1>11 DEF TypeOK, Finish, OpState
  <2>1. ops' \in [Key -> OpRec]
    BY <1>11, <2>0, MarkedType DEF Finish
  <2>2. images' \in Seq(Image) /\ Len(images') > 0
    BY <1>11, <2>1, PutType DEF Finish
  <2>3. putAt' \in [Calls -> Nat]
    BY <1>11, PutAtType DEF Finish
  <2>. QED BY <1>11, <2>1, <2>2, <2>3 DEF TypeOK, Finish, grantVars, hostVars
<1>12. ASSUME NEW c \in Calls, Conclude(c) PROVE TypeOK'
  BY <1>12 DEF TypeOK, Conclude, Answer, relayVars, grantVars, hostVars
<1>13. ASSUME NEW c \in Calls, NEW e \in {"none", "part", "full"}, HostWrites(c, e) PROVE TypeOK'
  <2>1. (e = "full") \in BOOLEAN
    OBVIOUS
  <2>2. acks' \in SUBSET [call : Calls, delivered : BOOLEAN]
    <3>1. [call |-> c, delivered |-> (e = "full")] \in [call : Calls, delivered : BOOLEAN]
      BY <2>1
    <3>2. /\ acks' = acks \cup {[call |-> c, delivered |-> (e = "full")]}
      BY <1>13 DEF HostWrites
    <3>3. acks \subseteq [call : Calls, delivered : BOOLEAN]
      BY DEF TypeOK
    <3>. QED BY <3>1, <3>2, <3>3, Zenon
  <2>. QED BY <1>13, <2>2 DEF TypeOK, HostWrites, callVars, relayVars, grantVars
<1>14. ASSUME NEW a \in acks, SendAck(a) PROVE TypeOK'
  <2>1. a.call \in Calls /\ KeyOf(a.call) \in Key
    BY DEF TypeOK
  <2>2. pending[KeyOf(a.call)] \in Calls \cup {NoCall}
    BY <2>1 DEF TypeOK
  <2>3. CASE a.call \in index /\ pending[KeyOf(a.call)] # NoCall
    <3> DEFINE w == pending[KeyOf(a.call)]
    <3>1. PICK r \in {"delivered", "uncertain"} : Settle(w, r)
      BY <1>14, <2>3, Zenon DEF SendAck
    <3>2. w \in Calls
      BY <2>2, <2>3
    <3>3. acks' \in SUBSET [call : Calls, delivered : BOOLEAN]
      BY <1>14 DEF SendAck, TypeOK
    <3>. QED BY <1>14, <3>1, <3>2, <3>3 DEF TypeOK, SendAck, Settle, grantVars, hostVars
  <2>4. CASE ~(a.call \in index /\ pending[KeyOf(a.call)] # NoCall)
    BY <1>14, <2>4 DEF TypeOK, SendAck, grantVars, hostVars
  <2>. QED BY <2>3, <2>4
<1>15. ASSUME NEW cut, ResolveAll(cut), UNCHANGED <<req, reply, putAt>>
       PROVE  /\ pc' \in [Calls -> {"idle", "hashing", "claiming", "storing", "sealing",
                                    "waiting", "settled", "recording", "done"}]
              /\ outcome' \in [Calls -> {"none", "delivered", "uncertain"}]
              /\ \A c \in Calls : pc'[c] \in {"settled", "recording"} => outcome'[c] # "none"
              /\ aborted' \in [Calls -> BOOLEAN]
              /\ pending' \in [Key -> Calls \cup {NoCall}] /\ index' \in SUBSET Calls
  BY <1>15 DEF TypeOK, ResolveAll
<1>16. ASSUME NEW cut, AbortOnly(cut), UNCHANGED <<req, reply, putAt>>
       PROVE  /\ pc' \in [Calls -> {"idle", "hashing", "claiming", "storing", "sealing",
                                    "waiting", "settled", "recording", "done"}]
              /\ outcome' \in [Calls -> {"none", "delivered", "uncertain"}]
              /\ \A c \in Calls : pc'[c] \in {"settled", "recording"} => outcome'[c] # "none"
              /\ aborted' \in [Calls -> BOOLEAN]
              /\ pending' \in [Key -> Calls \cup {NoCall}] /\ index' \in SUBSET Calls
  BY <1>16 DEF TypeOK, AbortOnly
<1>17. ASSUME NEW g \in Grants, Mint(g) PROVE TypeOK'
  <2>1. images' \in Seq(Image) /\ Len(images') > 0
    BY <1>17, PutType DEF Mint, TypeOK
  <2>. QED BY <1>17, <2>1 DEF TypeOK, Mint, callVars, hostVars
<1>18. ASSUME NEW gone, NEW cut, Revoke(gone, cut) PROVE TypeOK'
  <2>1. images' \in Seq(Image) /\ Len(images') > 0
    BY <1>18, PutType DEF Revoke, TypeOK
  <2>. QED BY <1>15, <1>16, <1>18, <2>1 DEF TypeOK, Revoke, grantVars, hostVars
<1>19. ASSUME NEW g \in Grants, ExpireGrant(g) PROVE TypeOK'
  BY <1>15, <1>19 DEF TypeOK, ExpireGrant, hostVars
<1>20. CASE HostDrop
  BY <1>15, <1>20 DEF TypeOK, HostDrop, grantVars, hostVars
<1>21. CASE HostReturn
  BY <1>21 DEF TypeOK, HostReturn, callVars, relayVars, grantVars, hostVars
<1>22. ASSUME NEW r \in 1..MaxRun, EndRun(r), runs' \in 1..MaxRun,
              ended' \in SUBSET (1..MaxRun)
       PROVE  TypeOK'
  <2>1. images' \in Seq(Image) /\ Len(images') > 0
    BY <1>22, PutType DEF EndRun
  <2>2. NoOps \in [Key -> OpRec]
    BY DEF NoOps, Absent, OpRec, OpState
  <2>. QED BY <1>15, <1>22, <2>1, <2>2 DEF TypeOK, EndRun, grantVars
<1>23. CASE Resume
  BY <1>22, <1>23 DEF TypeOK, Resume
<1>24. CASE TaskExit
  BY <1>22, <1>24 DEF TypeOK, TaskExit
<1>25. CASE StoreGrants
  <2>1. images' \in Seq(Image) /\ Len(images') > 0
    BY <1>25, PutType DEF StoreGrants, TypeOK
  <2>. QED BY <1>25, <2>1 DEF TypeOK, StoreGrants, callVars, relayVars, grantVars, hostVars
<1>26. CASE Commit
  <2>1. images' \in Seq(Image) /\ Len(images') > 0
    BY <1>26 DEF TypeOK, Commit
  <2>. QED BY <1>26, <2>1 DEF TypeOK, Commit, relayVars, grantVars, hostVars
<1>27. CASE Crash
  <2>1. PICK i \in 1..Len(images) :
          /\ run' = images[i].run
          /\ held' = images[i].held
          /\ ops' = [k \in Key |-> Recovered(images[i].ops[k])]
          /\ images' = <<[images[i] EXCEPT !.ops = ops']>>
    BY <1>27 DEF Crash
  <2>2. images[i] \in Image
    BY ImageType
  <2>3. \A rec \in OpRec : Recovered(rec) \in OpRec
    BY DEF Recovered, OpRec, OpState
  <2>4. ops' \in [Key -> OpRec]
    BY <2>1, <2>2, <2>3 DEF Image
  <2>5. [images[i] EXCEPT !.ops = ops'] \in Image
    BY <2>2, <2>4 DEF Image
  <2>6. images' \in Seq(Image) /\ Len(images') > 0
    BY <2>1, <2>5
  <2>7. run' \in 1..MaxRun /\ held' \in SUBSET Grants
    BY <2>1, <2>2 DEF Image
  <2>8. /\ pc' \in [Calls -> {"idle", "hashing", "claiming", "storing", "sealing",
                              "waiting", "settled", "recording", "done"}]
        /\ reply' \in [Calls -> {"none", "delivered", "uncertain", "in_flight", "conflict",
                                 "busy", "disconnected", "revoked", "lost"}]
        /\ \A c \in Calls : pc'[c] \in {"idle", "done"}
    BY <1>27 DEF TypeOK, Crash, Active
  <2>9. /\ outcome' \in [Calls -> {"none", "delivered", "uncertain"}]
        /\ aborted' \in [Calls -> BOOLEAN] /\ putAt' \in [Calls -> Nat]
        /\ pending' \in [Key -> Calls \cup {NoCall}] /\ index' = {} /\ lease' = NoGrant
        /\ grantsDue' = FALSE /\ hostUp' \in BOOLEAN /\ crashes' \in 0..MaxCrashes
    BY <1>27 DEF TypeOK, Crash
  <2>10. UNCHANGED <<req, grantRun, expired, toHost, acks, ended, written, sent, runs>>
    BY <1>27 DEF Crash, grantVars, hostVars
  <2>. QED BY <2>4, <2>6, <2>7, <2>8, <2>9, <2>10 DEF TypeOK
<1>28. CASE UNCHANGED vars
  BY <1>28 DEF TypeOK, vars, callVars, relayVars, grantVars, hostVars
<1>29. held \subseteq Grants
  BY DEF TypeOK
<1>. QED
  BY <1>1, <1>2, <1>3, <1>4, <1>5, <1>6, <1>7, <1>8, <1>9, <1>10, <1>11, <1>12, <1>13, <1>14,
     <1>17, <1>18, <1>19, <1>20, <1>21, <1>23, <1>24, <1>25, <1>26, <1>27, <1>28, <1>29
  DEF Next, Step, Host, Relay

\* Every variable keeps its type in every step of every handler.
THEOREM TypeCorrect == Spec => []TypeOK
<1>1. Init => TypeOK
  <2> SUFFICES ASSUME Init PROVE TypeOK
    OBVIOUS
  <2>1. NoOps \in [Key -> OpRec]
    BY DEF NoOps, Absent, OpRec, OpState
  <2>2. [run |-> 1, held |-> {}, ops |-> NoOps] \in Image
    BY <2>1, ConstantsAssumption DEF Image
  <2>3. images \in Seq(Image) /\ Len(images) > 0
    BY <2>2 DEF Init
  <2>4. req \in [Calls -> [key : Key, print : Prints]] /\ ops \in [Key -> OpRec]
    BY <2>1 DEF Init
  <2>5. /\ pending \in [Key -> Calls \cup {NoCall}]
        /\ grantRun \in [Grants -> 0..MaxRun]
        /\ putAt \in [Calls -> Nat] /\ aborted \in [Calls -> BOOLEAN]
        /\ run \in 1..MaxRun /\ runs \in 1..MaxRun /\ crashes \in 0..MaxCrashes
    BY ConstantsAssumption DEF Init
  <2>6. /\ pc \in [Calls -> {"idle", "hashing", "claiming", "storing", "sealing",
                             "waiting", "settled", "recording", "done"}]
        /\ outcome \in [Calls -> {"none", "delivered", "uncertain"}]
        /\ \A c \in Calls : pc[c] \in {"settled", "recording"} => outcome[c] # "none"
        /\ reply \in [Calls -> {"none", "delivered", "uncertain", "in_flight", "conflict",
                                "busy", "disconnected", "revoked", "lost"}]
        /\ written \in [Calls -> {"none", "part", "full"}]
    BY DEF Init
  <2>7. /\ held = {} /\ lease = NoGrant /\ index = {} /\ grantsDue = FALSE /\ expired = {}
        /\ hostUp = TRUE /\ toHost = {} /\ acks = {} /\ ended = {} /\ sent = {}
    BY DEF Init
  <2>. QED BY <2>3, <2>4, <2>5, <2>6, <2>7 DEF TypeOK
<1>2. TypeOK /\ [Next]_vars => TypeOK'
  BY TypeStep
<1>. QED BY <1>1, <1>2, PTL DEF Spec

-----------------------------------------------------------------------------
(* At most once. The invariant's parts follow each other through the handler *)
(* of one call; what every action does to storage is stated once.            *)

\* mcpPersistOps adds one image, which differs from the newest in the operations only.
LEMMA PutOpsShape ==
  ASSUME TypeOK, NEW m \in [Key -> OpRec], PutOps(m)
  PROVE  /\ Len(images') = Len(images) + 1
         /\ \A i \in 1..Len(images) : images'[i] = images[i]
         /\ Newest' = images'[Len(images) + 1]
         /\ Newest'.run = Newest.run /\ Newest'.held = Newest.held /\ Newest'.ops = m
<1> DEFINE x == [Newest EXCEPT !.ops = m]
<1>1. x \in Image /\ x.run = Newest.run /\ x.held = Newest.held /\ x.ops = m
  BY ImageType DEF Image
<1>2. images \in Seq(Image) /\ images' = Append(images, x)
  BY DEF TypeOK, PutOps
<1> HIDE DEF x
<1>3. /\ Len(images') = Len(images) + 1
      /\ \A i \in 1..Len(images) : images'[i] = images[i]
      /\ images'[Len(images) + 1] = x
  BY <1>1, <1>2
<1>. QED BY <1>1, <1>3 DEF Newest

\* persistGrants adds one image, which differs from the newest in the grants only.
LEMMA PutGrantsShape ==
  ASSUME TypeOK, NEW m \in SUBSET Grants, PutGrants(m)
  PROVE  /\ Len(images') = Len(images) + 1
         /\ \A i \in 1..Len(images) : images'[i] = images[i]
         /\ Newest' = images'[Len(images) + 1]
         /\ Newest'.run = Newest.run /\ Newest'.held = m /\ Newest'.ops = Newest.ops
<1> DEFINE x == [Newest EXCEPT !.held = m]
<1>1. x \in Image /\ x.run = Newest.run /\ x.held = m /\ x.ops = Newest.ops
  BY ImageType DEF Image
<1>2. images \in Seq(Image) /\ images' = Append(images, x)
  BY DEF TypeOK, PutGrants
<1> HIDE DEF x
<1>3. /\ Len(images') = Len(images) + 1
      /\ \A i \in 1..Len(images) : images'[i] = images[i]
      /\ images'[Len(images) + 1] = x
  BY <1>1, <1>2
<1>. QED BY <1>1, <1>3 DEF Newest

\* The end of a run adds one image with an empty store and the next run.
LEMMA PutRunShape ==
  ASSUME TypeOK, NEW m \in 1..MaxRun, PutRun(m)
  PROVE  /\ Len(images') = Len(images) + 1
         /\ \A i \in 1..Len(images) : images'[i] = images[i]
         /\ Newest' = images'[Len(images) + 1]
         /\ Newest'.run = m /\ Newest'.held = Newest.held /\ Newest'.ops = NoOps
<1> DEFINE x == [Newest EXCEPT !.run = m, !.ops = NoOps]
<1>0. NoOps \in [Key -> OpRec]
  BY DEF NoOps, Absent, OpRec, OpState
<1>1. x \in Image /\ x.run = m /\ x.held = Newest.held /\ x.ops = NoOps
  BY <1>0, ImageType DEF Image
<1>2. images \in Seq(Image) /\ images' = Append(images, x)
  BY DEF TypeOK, PutRun
<1> HIDE DEF x
<1>3. /\ Len(images') = Len(images) + 1
      /\ \A i \in 1..Len(images) : images'[i] = images[i]
      /\ images'[Len(images) + 1] = x
  BY <1>1, <1>2
<1>. QED BY <1>1, <1>3 DEF Newest

\* What it is for a grant to be barred, spelled out for memory.
LEMMA BarredMemory ==
  \A g : Barred(Memory, g) <=>
         g \notin held \/ grantRun[g] # run \/ g \in expired \/ grantRun[g] \in ended
  BY DEF Barred, Memory

\* What it is for memory to have forgotten a call's operation.
LEMMA ForgetsMemory == \A c : Forgets(Memory, c) <=> ops[KeyOf(c)].state = "absent"
  BY DEF Forgets, Memory

\* Steps that touch neither the store nor the grants nor the host.
LEMMA QuietStep ==
  ASSUME TypeOK, SendInvariant,
         UNCHANGED <<req, run, runs, held, ops, images, putAt, grantRun, ended, sent, toHost,
                     written>>,
         expired \subseteq expired',
         \A c \in Calls : PreSend(c)' => PreSend(c) /\ (pc[c] = "claiming" <=> pc'[c] = "claiming"),
         \A c \in Calls : pc'[c] # "idle" => pc[c] # "idle" \/ grantRun[GrantOf(c)] # 0,
         \A c \in sent : pc'[c] \notin {"idle", "hashing"}
  PROVE  SendInvariant'
<1>1. /\ Newest' = Newest /\ Len(images') = Len(images)
      /\ \A c : KeyOf(c)' = KeyOf(c) /\ GrantOf(c)' = GrantOf(c)
  BY DEF Newest, KeyOf, GrantOf
<1>2. \A c : /\ Forgets(Memory, c)' <=> Forgets(Memory, c)
             /\ \A i : Forgets(images[i], c)' <=> Forgets(images[i], c)
  BY <1>1 DEF Forgets, Memory
<1>3. \A g : /\ Barred(Memory, g) => Barred(Memory, g)'
             /\ Barred(Newest, g) => Barred(Newest, g)'
             /\ \A i : Barred(images[i], g) => Barred(images[i], g)'
  BY <1>1 DEF Barred, Memory
<1>4. NeverForgotten'
  BY <1>1, <1>2, <1>3 DEF SendInvariant, NeverForgotten
<1>5. ClaimRemembered'
  BY <1>1, <1>2, <1>3 DEF SendInvariant, ClaimRemembered
<1>6. ClaimAlone'
  BY <1>1, <1>3 DEF SendInvariant, ClaimAlone
<1>7. SentAlone' /\ AtMostOnce'
  BY <1>1 DEF SendInvariant, SentAlone, AtMostOnce
<1>8. Progressed'
  BY <1>1 DEF SendInvariant, Progressed, TypeOK
<1>9. StorageFollows' /\ RunsInOrder'
  BY <1>1, <1>3 DEF SendInvariant, StorageFollows, RunsInOrder
<1>10. WriteInFlight'
  BY <1>1 DEF SendInvariant, WriteInFlight, PreSend
<1>. QED BY <1>4, <1>5, <1>6, <1>7, <1>8, <1>9, <1>10 DEF SendInvariant

\* What bars a grant in memory bars it in the newest image.
LEMMA Follows == ASSUME StorageFollows, NEW g, Barred(Memory, g) PROVE Barred(Newest, g)
<1>1. CASE g \in Newest.held \ held
  BY <1>1 DEF StorageFollows
<1>2. CASE g \notin Newest.held \ held
  BY <1>2, BarredMemory DEF StorageFollows, Barred
<1>. QED BY <1>1, <1>2

\* A grant that is not live in the relay is barred.
LEMMA NotLive == \A g : ~Live(g) => Barred(Memory, g)
  BY BarredMemory DEF Live

\* A live grant is barred only by the exit of its program.
LEMMA LiveBarred == \A g : Live(g) /\ Barred(Memory, g) => grantRun[g] \in ended
  BY BarredMemory DEF Live

\* Storing the operations: a record may leave the store only when its grant is no longer live.
LEMMA OpsWritten ==
  ASSUME TypeOK, SendInvariant,
         ops' \in [Key -> OpRec], PutOps(ops'),
         UNCHANGED <<req, run, runs, held, grantRun, expired, ended, sent, written, toHost>>,
         \A k \in Key : ops'[k].state = "absent" => ops[k].state = "absent" \/ ~Live(k[1])
  PROVE  /\ NeverForgotten' /\ SentAlone' /\ AtMostOnce' /\ StorageFollows' /\ RunsInOrder'
         /\ \A g : Barred(Memory, g)' <=> Barred(Memory, g)
         /\ \A c \in Calls : (Forgets(Memory, c) => Barred(Memory, GrantOf(c))) =>
               /\ (Forgets(Memory, c) => Barred(Memory, GrantOf(c)))'
               /\ (Forgets(Newest, c) => Barred(Newest, GrantOf(c)))'
<1>1. /\ Len(images') = Len(images) + 1
      /\ \A i \in 1..Len(images) : images'[i] = images[i]
      /\ Newest' = images'[Len(images) + 1]
      /\ Newest'.run = Newest.run /\ Newest'.held = Newest.held /\ Newest'.ops = ops'
  BY PutOpsShape
<1>2. \A c : KeyOf(c)' = KeyOf(c) /\ GrantOf(c)' = GrantOf(c)
  BY DEF KeyOf, GrantOf
<1>3. \A g : Barred(Memory, g)' <=> Barred(Memory, g)
  BY DEF Barred, Memory
<1>4. \A g : Barred(Newest, g) => Barred(Newest, g)'
  BY <1>1 DEF Barred
<1>5. \A i \in 1..Len(images) :
         /\ \A g : Barred(images[i], g)' <=> Barred(images[i], g)
         /\ \A c : Forgets(images[i], c)' <=> Forgets(images[i], c)
  BY <1>1, <1>2 DEF Barred, Forgets
<1>6. ASSUME NEW c \in Calls, Forgets(Memory, c) => Barred(Memory, GrantOf(c))
      PROVE  /\ (Forgets(Memory, c) => Barred(Memory, GrantOf(c)))'
             /\ (Forgets(Newest, c) => Barred(Newest, GrantOf(c)))'
  <2>1. KeyOf(c) \in Key /\ KeyOf(c)[1] = GrantOf(c)
    BY KeyType DEF KeyOf, GrantOf
  <2>2. ops'[KeyOf(c)].state = "absent" => Barred(Memory, GrantOf(c))
    BY <1>6, <2>1, NotLive, ForgetsMemory
  <2>3. Forgets(Memory, c)' <=> ops'[KeyOf(c)].state = "absent"
    BY <1>2 DEF Forgets, Memory
  <2>4. Forgets(Newest, c)' <=> ops'[KeyOf(c)].state = "absent"
    BY <1>1, <1>2 DEF Forgets
  <2>5. Barred(Memory, GrantOf(c)) => Barred(Newest, GrantOf(c))
    BY Follows DEF SendInvariant
  <2>. QED BY <1>2, <1>3, <1>4, <2>2, <2>3, <2>4, <2>5
<1>7. NeverForgotten'
  <2> SUFFICES ASSUME NEW c \in sent
               PROVE  /\ (Forgets(Memory, c) => Barred(Memory, GrantOf(c)))'
                      /\ \A i \in 1..Len(images') :
                            (Forgets(images[i], c) => Barred(images[i], GrantOf(c)))'
    BY <1>2 DEF NeverForgotten
  <2>1. c \in Calls
    BY DEF TypeOK
  <2>2. Forgets(Memory, c) => Barred(Memory, GrantOf(c))
    BY DEF SendInvariant, NeverForgotten
  <2>3. \A i \in 1..Len(images) : Forgets(images[i], c) => Barred(images[i], GrantOf(c))
    BY DEF SendInvariant, NeverForgotten
  <2>4. ASSUME NEW i, i = Len(images) + 1
        PROVE  (Forgets(images[i], c) => Barred(images[i], GrantOf(c)))'
    <3>1. (Forgets(Newest, c) => Barred(Newest, GrantOf(c)))'
      BY <1>6, <2>1, <2>2
    <3>. QED BY <1>1, <2>4, <3>1 DEF Forgets, Barred
  <2>5. ASSUME NEW i \in 1..Len(images)
        PROVE  (Forgets(images[i], c) => Barred(images[i], GrantOf(c)))'
    BY <1>2, <1>5, <2>3
  <2>6. \A i \in 1..Len(images') : i \in 1..Len(images) \/ i = Len(images) + 1
    BY <1>1, ImageType
  <2>. QED BY <1>6, <2>1, <2>2, <2>4, <2>5, <2>6
<1>8. SentAlone' /\ AtMostOnce'
  BY <1>2 DEF SendInvariant, SentAlone, AtMostOnce
<1>9. StorageFollows'
  BY <1>1, <1>4 DEF SendInvariant, StorageFollows
<1>10. RunsInOrder'
  <2>1. Newest.run <= runs /\ \A g \in Newest.held : grantRun[g] # 0
    BY ImageType DEF SendInvariant, RunsInOrder, Newest
  <2>. QED BY <1>1, <2>1, ImageType DEF SendInvariant, RunsInOrder
<1>. QED BY <1>3, <1>6, <1>7, <1>8, <1>9, <1>10

\* The same of one call whose operation is known from some image on.
LEMMA OpsRemembered ==
  ASSUME TypeOK, SendInvariant,
         ops' \in [Key -> OpRec], PutOps(ops'),
         UNCHANGED <<req, run, runs, held, grantRun, expired, ended, sent, written, toHost>>,
         \A k \in Key : ops'[k].state = "absent" => ops[k].state = "absent" \/ ~Live(k[1]),
         NEW d \in Calls, NEW from \in Nat,
         Forgets(Memory, d) => Barred(Memory, GrantOf(d)),
         \A i \in 1..Len(images) :
            i >= from /\ Forgets(images[i], d) => Barred(images[i], GrantOf(d))
  PROVE  /\ (Forgets(Memory, d) => Barred(Memory, GrantOf(d)))'
         /\ \A i \in 1..Len(images') :
               i >= from => (Forgets(images[i], d) => Barred(images[i], GrantOf(d)))'
<1>1. /\ Len(images') = Len(images) + 1
      /\ \A i \in 1..Len(images) : images'[i] = images[i]
      /\ Newest' = images'[Len(images) + 1]
  BY PutOpsShape
<1>2. KeyOf(d)' = KeyOf(d) /\ GrantOf(d)' = GrantOf(d)
  BY DEF KeyOf, GrantOf
<1>3. /\ (Forgets(Memory, d) => Barred(Memory, GrantOf(d)))'
      /\ (Forgets(Newest, d) => Barred(Newest, GrantOf(d)))'
  BY OpsWritten
<1>4. ASSUME NEW i, i = Len(images) + 1
      PROVE  (Forgets(images[i], d) => Barred(images[i], GrantOf(d)))'
  BY <1>1, <1>3, <1>4 DEF Forgets, Barred
<1>5. ASSUME NEW i \in 1..Len(images), i >= from
      PROVE  (Forgets(images[i], d) => Barred(images[i], GrantOf(d)))'
  BY <1>1, <1>2, <1>5 DEF Forgets, Barred
<1>6. \A i \in 1..Len(images') : i \in 1..Len(images) \/ i = Len(images) + 1
  BY <1>1, ImageType
<1>. QED BY <1>3, <1>4, <1>5, <1>6

\* Finish and TakeLease leave every record where it is.
LEMMA MarkedKeeps ==
  ASSUME TypeOK, NEW k \in Key, NEW s \in OpState \ {"absent"}
  PROVE  /\ Marked(k, s) \in [Key -> OpRec]
         /\ \A x \in Key : Marked(k, s)[x].state = "absent" => ops[x].state = "absent"
<1>1. ops \in [Key -> OpRec] /\ ops[k] \in OpRec
  BY DEF TypeOK
<1>2. [ops EXCEPT ![k].state = s] = [ops EXCEPT ![k] = [ops[k] EXCEPT !.state = s]]
  OBVIOUS
<1>3. [ops[k] EXCEPT !.state = s].state = s
  BY <1>1 DEF OpRec
<1>. QED BY <1>1, <1>2, <1>3, MarkedType DEF Marked

\* Claiming an operation, with an eviction, keeps the invariant: the evicted grant is barred.
LEMMA ClaimStep ==
  ASSUME TypeOK, SendInvariant, NEW c \in Calls, Claim(c)
  PROVE  SendInvariant'
<1>0. KeyOf(c) \in Key /\ c \notin sent /\ ~PreSend(c)
  BY KeyType DEF Claim, SendInvariant, Progressed, PreSend
<1>1. PICK gone : gone \subseteq Evictable /\
          ops' = [x \in Key |-> IF x = KeyOf(c) THEN [print |-> req[c].print, state |-> "claiming"]
                                ELSE IF x \in gone THEN Absent ELSE ops[x]]
  BY DEF Claim, Victims
<1>2. ops' \in [Key -> OpRec]
  <2>1. ops \in [Key -> OpRec] /\ Absent \in OpRec
    BY DEF TypeOK, Absent, OpRec, OpState
  <2>2. [print |-> req[c].print, state |-> "claiming"] \in OpRec
    BY DEF TypeOK, OpRec, OpState
  <2>. QED BY <1>1, <2>1, <2>2
<1>3. PutOps(ops') /\ UNCHANGED <<req, run, runs, held, grantRun, expired, ended, sent, written, toHost>>
  BY DEF Claim, grantVars, hostVars
<1>4. \A k \in Key : ops'[k].state = "absent" => ops[k].state = "absent" \/ ~Live(k[1])
  BY <1>1 DEF Evictable
<1>5. /\ NeverForgotten' /\ SentAlone' /\ AtMostOnce' /\ StorageFollows' /\ RunsInOrder'
      /\ \A g : Barred(Memory, g)' <=> Barred(Memory, g)
  BY <1>2, <1>3, <1>4, OpsWritten
<1>6. \A d \in Calls : KeyOf(d)' = KeyOf(d) /\ GrantOf(d)' = GrantOf(d)
  BY <1>3 DEF KeyOf, GrantOf
<1>7. /\ pc'[c] = "claiming" /\ putAt'[c] = Len(images) + 1
      /\ \A d \in Calls \ {c} : pc'[d] = pc[d] /\ putAt'[d] = putAt[d]
  BY DEF Claim, TypeOK
<1>8. ClaimRemembered'
  <2> SUFFICES ASSUME NEW d \in Calls, PreSend(d)'
               PROVE  /\ (Forgets(Memory, d) => Barred(Memory, GrantOf(d)))'
                      /\ \A i \in 1..Len(images') : (pc'[d] = "claiming" => i >= putAt'[d]) =>
                            (Forgets(images[i], d) => Barred(images[i], GrantOf(d)))'
    BY DEF ClaimRemembered
  <2>1. CASE d = c
    <3>1. ops'[KeyOf(c)].state # "absent"
      BY <1>0, <1>1
    <3>2. ~Forgets(Memory, c)'
      BY <1>6, <3>1 DEF Forgets, Memory
    <3>3. Len(images') = Len(images) + 1 /\ Newest' = images'[Len(images) + 1] /\ Newest'.ops = ops'
      BY <1>2, <1>3, PutOpsShape
    <3>4. ASSUME NEW i \in 1..Len(images'), i >= Len(images) + 1
          PROVE  ~Forgets(images[i], c)'
      <4>1. i = Len(images) + 1
        BY <3>3, <3>4, ImageType
      <4>. QED BY <1>6, <3>1, <3>3, <4>1 DEF Forgets
    <3>. QED BY <1>7, <2>1, <3>2, <3>4
  <2>2. CASE d # c
    <3>1. PreSend(d) /\ pc'[d] = pc[d] /\ putAt'[d] = putAt[d]
      BY <1>7, <2>2 DEF PreSend
    <3>2. (Forgets(Memory, d) => Barred(Memory, GrantOf(d)))
      BY <3>1 DEF SendInvariant, ClaimRemembered
    <3> DEFINE from == IF pc[d] = "claiming" THEN putAt[d] ELSE 0
    <3>3. from \in Nat
      BY DEF TypeOK
    <3>4. \A i \in 1..Len(images) :
            i >= from /\ Forgets(images[i], d) => Barred(images[i], GrantOf(d))
      BY <3>1 DEF SendInvariant, ClaimRemembered
    <3> HIDE DEF from
    <3>5. /\ (Forgets(Memory, d) => Barred(Memory, GrantOf(d)))'
          /\ \A i \in 1..Len(images') :
                i >= from => (Forgets(images[i], d) => Barred(images[i], GrantOf(d)))'
      BY <1>2, <1>3, <1>4, <3>2, <3>3, <3>4, OpsRemembered
    <3>. QED BY <3>1, <3>5 DEF from
  <2>. QED BY <2>1, <2>2
<1>9. ClaimAlone'
  <2> SUFFICES ASSUME NEW x \in Calls, NEW y \in Calls, x # y, KeyOf(x) = KeyOf(y),
                      PreSend(x)', PreSend(y)' \/ y \in sent
               PROVE  Barred(Memory, GrantOf(x))
    BY <1>3, <1>5, <1>6 DEF ClaimAlone
  <2>1. GrantOf(x) = GrantOf(y)
    BY DEF KeyOf, GrantOf
  <2>2. ops[KeyOf(c)].state = "absent"
    BY DEF Claim, Present
  <2>3. \A d \in Calls : KeyOf(d) = KeyOf(c) /\ (PreSend(d) \/ d \in sent) => Barred(Memory, GrantOf(d))
    BY <2>2, ForgetsMemory DEF SendInvariant, ClaimRemembered, NeverForgotten
  <2>4. CASE x = c
    BY <1>7, <2>1, <2>3, <2>4 DEF PreSend
  <2>5. CASE y = c
    BY <1>0, <1>7, <2>1, <2>3, <2>5 DEF PreSend
  <2>6. CASE x # c /\ y # c
    BY <1>7, <2>6 DEF SendInvariant, ClaimAlone, PreSend
  <2>. QED BY <2>4, <2>5, <2>6
<1>10. Progressed'
  BY <1>0, <1>3, <1>6, <1>7 DEF SendInvariant, Progressed, PreSend, Claim
<1>11. WriteInFlight'
  <2>1. Len(images') = Len(images) + 1
    BY <1>2, <1>3, PutOpsShape
  <2>2. \A d \in Calls : putAt[d] \in Nat
    BY DEF TypeOK
  <2>3. \A d \in Calls : pc[d] = "claiming" => putAt[d] <= Len(images)
    BY DEF SendInvariant, WriteInFlight
  <2>4. \A d \in Calls : pc'[d] = "claiming" => putAt'[d] <= Len(images')
    BY <1>7, <2>1, <2>2, <2>3, ImageType
  <2>. QED BY <2>4 DEF WriteInFlight
<1>. QED BY <1>5, <1>8, <1>9, <1>10, <1>11 DEF SendInvariant

\* TakeLease and Finish: a call moves on, every record stays.
LEMMA MarkStep ==
  ASSUME TypeOK, SendInvariant, NEW c \in Calls, NEW s \in OpState \ {"absent"},
         ops' = Marked(KeyOf(c), s), PutOps(ops'),
         UNCHANGED <<req, run, runs, held, grantRun, expired, ended, sent, written, toHost>>,
         putAt' = [putAt EXCEPT ![c] = Len(images) + 1],
         NEW stage \in {"storing", "recording"}, pc' = [pc EXCEPT ![c] = stage],
         stage = "storing" => pc[c] = "claiming" /\ putAt[c] <= 1,
         pc[c] \notin {"idle", "hashing"}, c \in sent => stage = "recording"
  PROVE  SendInvariant'
<1>1. KeyOf(c) \in Key
  BY KeyType
<1>2. ops' \in [Key -> OpRec] /\ \A x \in Key : ops'[x].state = "absent" => ops[x].state = "absent"
  BY <1>1, MarkedKeeps
<1>3. /\ NeverForgotten' /\ SentAlone' /\ AtMostOnce' /\ StorageFollows' /\ RunsInOrder'
      /\ \A g : Barred(Memory, g)' <=> Barred(Memory, g)
  BY <1>2, OpsWritten
<1>4. \A d \in Calls : KeyOf(d)' = KeyOf(d) /\ GrantOf(d)' = GrantOf(d)
  BY DEF KeyOf, GrantOf
<1>5. /\ pc'[c] = stage
      /\ \A d \in Calls \ {c} : pc'[d] = pc[d] /\ putAt'[d] = putAt[d]
  BY DEF TypeOK
<1>6. \A d \in Calls : PreSend(d)' => PreSend(d)
  BY <1>5 DEF PreSend
<1>7. ClaimRemembered'
  <2> SUFFICES ASSUME NEW d \in Calls, PreSend(d)'
               PROVE  /\ (Forgets(Memory, d) => Barred(Memory, GrantOf(d)))'
                      /\ \A i \in 1..Len(images') : (pc'[d] = "claiming" => i >= putAt'[d]) =>
                            (Forgets(images[i], d) => Barred(images[i], GrantOf(d)))'
    BY DEF ClaimRemembered
  <2> DEFINE from == IF d # c /\ pc[d] = "claiming" THEN putAt[d] ELSE 0
  <2>1. from \in Nat
    BY DEF TypeOK
  <2>2. PreSend(d) /\ (d = c => pc[c] = "claiming" /\ putAt[c] <= 1)
    BY <1>5, <1>6 DEF PreSend
  <2>3. Forgets(Memory, d) => Barred(Memory, GrantOf(d))
    BY <2>2 DEF SendInvariant, ClaimRemembered
  <2>4. \A i \in 1..Len(images) :
          i >= from /\ Forgets(images[i], d) => Barred(images[i], GrantOf(d))
    BY <2>2, ImageType DEF SendInvariant, ClaimRemembered, TypeOK
  <2> HIDE DEF from
  <2>5. /\ (Forgets(Memory, d) => Barred(Memory, GrantOf(d)))'
        /\ \A i \in 1..Len(images') :
              i >= from => (Forgets(images[i], d) => Barred(images[i], GrantOf(d)))'
    BY <1>2, <2>1, <2>3, <2>4, OpsRemembered
  <2>. QED BY <1>5, <2>5 DEF from, PreSend
<1>8. ClaimAlone'
  BY <1>3, <1>4, <1>6 DEF SendInvariant, ClaimAlone
<1>9. Progressed'
  BY <1>4, <1>5 DEF SendInvariant, Progressed, PreSend
<1>10. WriteInFlight'
  <2>1. Len(images') = Len(images) + 1
    BY <1>2, PutOpsShape
  <2>2. \A d \in Calls : putAt[d] \in Nat
    BY DEF TypeOK
  <2>3. \A d \in Calls : pc[d] = "claiming" => putAt[d] <= Len(images)
    BY DEF SendInvariant, WriteInFlight
  <2>4. \A d \in Calls : pc'[d] = "claiming" => putAt'[d] <= Len(images')
    BY <1>5, <2>1, <2>2, <2>3, ImageType
  <2>. QED BY <2>4 DEF WriteInFlight
<1>. QED BY <1>3, <1>7, <1>8, <1>9, <1>10 DEF SendInvariant

\* Emitting the frame keeps the invariant: the claim was remembered and its grant is live.
LEMMA EmitStep ==
  ASSUME TypeOK, SendInvariant, NEW c \in Calls, Emit(c)
  PROVE  SendInvariant'
<1>1. UNCHANGED <<req, run, runs, held, ops, images, putAt, grantRun, expired, ended, written>>
  BY DEF Emit, grantVars
<1>2. PreSend(c) /\ pc[c] = "sealing" /\ c \notin sent /\ sent' = sent \cup {c}
      /\ toHost' = toHost \cup {c}
  BY DEF Emit, PreSend, SendInvariant, Progressed
<1>3. /\ pc'[c] = "waiting" /\ ~PreSend(c)'
      /\ \A d \in Calls \ {c} : pc'[d] = pc[d] /\ (PreSend(d)' <=> PreSend(d))
  BY DEF Emit, TypeOK, PreSend
<1>4. /\ \A d \in Calls : KeyOf(d)' = KeyOf(d) /\ GrantOf(d)' = GrantOf(d)
      /\ \A g : /\ Barred(Memory, g)' <=> Barred(Memory, g)
                /\ \A i : Barred(images[i], g)' <=> Barred(images[i], g)
  BY <1>1 DEF KeyOf, GrantOf, Barred, Memory
<1>5. \A d \in Calls : /\ Forgets(Memory, d)' <=> Forgets(Memory, d)
                       /\ \A i : Forgets(images[i], d)' <=> Forgets(images[i], d)
  BY <1>1, <1>4 DEF Forgets, Memory
<1>6. NeverForgotten'
  <2> SUFFICES ASSUME NEW d \in sent'
               PROVE  /\ Forgets(Memory, d) => Barred(Memory, GrantOf(d))
                      /\ \A i \in 1..Len(images) :
                            Forgets(images[i], d) => Barred(images[i], GrantOf(d))
    <3>1. \A d \in sent' : d \in Calls
      BY <1>2 DEF TypeOK
    <3>2. Len(images') = Len(images)
      BY <1>1
    <3>. QED BY <1>4, <1>5, <3>1, <3>2 DEF NeverForgotten
  <2>1. CASE d = c
    BY <1>2, <2>1 DEF SendInvariant, ClaimRemembered
  <2>2. CASE d \in sent
    BY <2>2 DEF SendInvariant, NeverForgotten
  <2>. QED BY <1>2, <2>1, <2>2
<1>7. ClaimRemembered'
  BY <1>1, <1>3, <1>4, <1>5 DEF SendInvariant, ClaimRemembered
<1>8. ClaimAlone'
  BY <1>2, <1>3, <1>4 DEF SendInvariant, ClaimAlone
<1>9. SentAlone'
  <2>1. \A d \in sent : KeyOf(d) = KeyOf(c) => grantRun[GrantOf(c)] \in ended
    <3> SUFFICES ASSUME NEW d \in sent, KeyOf(d) = KeyOf(c) PROVE grantRun[GrantOf(c)] \in ended
      OBVIOUS
    <3>1. d \in Calls /\ d # c
      BY <1>2 DEF TypeOK
    <3>2. Barred(Memory, GrantOf(c))
      BY <1>2, <3>1 DEF SendInvariant, ClaimAlone
    <3>. QED BY <3>2, LiveBarred DEF Emit, MayEmit
  <2>2. \A d, e \in Calls : KeyOf(d) = KeyOf(e) => GrantOf(d) = GrantOf(e)
    BY DEF KeyOf, GrantOf
  <2>. QED BY <1>1, <1>2, <1>4, <2>1, <2>2 DEF SendInvariant, SentAlone, TypeOK
<1>10. Progressed'
  BY <1>1, <1>2, <1>3, <1>4 DEF SendInvariant, Progressed, PreSend, TypeOK
<1>12. WriteInFlight'
  BY <1>1, <1>3 DEF SendInvariant, WriteInFlight
<1>11. StorageFollows' /\ RunsInOrder' /\ AtMostOnce'
  BY <1>1, <1>4 DEF SendInvariant, StorageFollows, RunsInOrder, AtMostOnce, Newest, Barred
<1>. QED BY <1>6, <1>7, <1>8, <1>9, <1>10, <1>11, <1>12 DEF SendInvariant

\* What the host does with a frame keeps the invariant: only emitted frames are typed.
LEMMA HostStep ==
  ASSUME TypeOK, SendInvariant, NEW c \in Calls, NEW e \in {"none", "part", "full"},
         HostWrites(c, e)
  PROVE  SendInvariant'
<1>1. UNCHANGED <<req, pc, run, runs, held, ops, images, putAt, grantRun, expired, ended, sent>>
  BY DEF HostWrites, callVars, relayVars, grantVars
<1>2. c \in toHost /\ c \in sent /\ toHost' = toHost \ {c}
  BY DEF HostWrites, SendInvariant, Progressed
<1>3. written'[c] = e /\ \A d \in Calls \ {c} : written'[d] = written[d]
  BY DEF HostWrites, TypeOK
<1>4. \A d \in Calls : KeyOf(d)' = KeyOf(d) /\ GrantOf(d)' = GrantOf(d) /\ (PreSend(d)' <=> PreSend(d))
  BY <1>1 DEF KeyOf, GrantOf, PreSend
<1>5. \A d \in Calls : /\ Forgets(Memory, d)' <=> Forgets(Memory, d)
                       /\ \A i : Forgets(images[i], d)' <=> Forgets(images[i], d)
  BY <1>1, <1>4 DEF Forgets, Memory
<1>6. \A g : /\ Barred(Memory, g)' <=> Barred(Memory, g)
             /\ \A i : Barred(images[i], g)' <=> Barred(images[i], g)
             /\ Barred(Newest, g)' <=> Barred(Newest, g)
  BY <1>1 DEF Barred, Memory, Newest
<1>9. NeverForgotten' /\ ClaimRemembered'
  <2>1. sent \subseteq Calls BY DEF TypeOK
  <2>2. NeverForgotten'
    BY <1>1, <1>4, <1>5, <1>6, <2>1 DEF SendInvariant, NeverForgotten
  <2>3. ClaimRemembered'
    BY <1>1, <1>4, <1>5, <1>6 DEF SendInvariant, ClaimRemembered
  <2>. QED BY <2>2, <2>3
<1>10. ClaimAlone' /\ SentAlone'
  BY <1>1, <1>4, <1>6 DEF SendInvariant, ClaimAlone, SentAlone, TypeOK
<1>11. StorageFollows' /\ RunsInOrder' /\ WriteInFlight'
  BY <1>1, <1>6 DEF SendInvariant, StorageFollows, RunsInOrder, WriteInFlight, Newest
<1>7. Progressed'
  BY <1>1, <1>2, <1>3, <1>4 DEF SendInvariant, Progressed, PreSend
<1>8. AtMostOnce'
  <2> SUFFICES ASSUME NEW a \in Calls, NEW b \in Calls, a # b, KeyOf(a) = KeyOf(b)
               PROVE  written'[a] = "none" \/ written'[b] = "none"
    BY <1>4 DEF AtMostOnce
  <2>1. CASE a # c /\ b # c
    BY <1>3, <2>1 DEF SendInvariant, AtMostOnce
  <2>2. ASSUME NEW d \in Calls, d # c, KeyOf(d) = KeyOf(c), e # "none" PROVE written[d] = "none"
    <3>1. grantRun[GrantOf(c)] \notin ended
      BY <2>2 DEF HostWrites
    <3>2. GrantOf(d) = GrantOf(c)
      BY <2>2 DEF KeyOf, GrantOf
    <3>3. d \notin sent
      BY <1>2, <2>2, <3>1, <3>2 DEF SendInvariant, SentAlone
    <3>. QED BY <3>3 DEF SendInvariant, Progressed
  <2>. QED BY <1>3, <2>1, <2>2
<1>. QED BY <1>7, <1>8, <1>9, <1>10, <1>11 DEF SendInvariant

\* A step that moves only calls which claim nothing, and changes what is held.
LEMMA GrantsWritten ==
  ASSUME TypeOK, SendInvariant,
         held' \in SUBSET Grants, PutGrants(held'),
         UNCHANGED <<req, run, runs, ops, putAt, expired, ended, sent, toHost, written>>,
         \A c \in Calls : PreSend(c)' => PreSend(c) /\ pc'[c] = pc[c],
         \A c \in Calls : pc'[c] # "idle" => pc[c] # "idle",
         \A c \in sent : pc'[c] \notin {"idle", "hashing"},
         \A g \in Grants : grantRun[g] # 0 => grantRun'[g] = grantRun[g] /\ (g \in held' => g \in held),
         \A g \in Grants : grantRun'[g] <= runs,
         \A g \in held' : grantRun'[g] # 0
  PROVE  SendInvariant'
<1>1. /\ Len(images') = Len(images) + 1
      /\ \A i \in 1..Len(images) : images'[i] = images[i]
      /\ Newest' = images'[Len(images) + 1]
      /\ Newest'.run = Newest.run /\ Newest'.held = held' /\ Newest'.ops = Newest.ops
  BY PutGrantsShape
<1>2. \A c \in Calls : KeyOf(c)' = KeyOf(c) /\ GrantOf(c)' = GrantOf(c) /\ GrantOf(c) \in Grants
  BY KeyType DEF KeyOf, GrantOf
<1>3. /\ Newest.run = run /\ Newest.run <= runs /\ held \subseteq Newest.held
      /\ \A i \in 1..Len(images) : images[i].run <= runs /\ \A g \in images[i].held : grantRun[g] # 0
  BY DEF SendInvariant, StorageFollows, RunsInOrder
<1>4. ASSUME NEW g \in Grants, grantRun[g] # 0
      PROVE  /\ Barred(Memory, g) => Barred(Memory, g)'
             /\ \A i \in 1..Len(images) : Barred(images[i], g) => Barred(images[i], g)'
             /\ Barred(Newest, g) => Barred(Newest, g)'
  BY <1>1, <1>3, <1>4 DEF Barred, Memory
<1>5. \A c \in Calls : /\ Forgets(Memory, c)' <=> Forgets(Memory, c)
                       /\ \A i \in 1..Len(images) : Forgets(images[i], c)' <=> Forgets(images[i], c)
                       /\ Forgets(Newest, c)' <=> Forgets(Newest, c)
  BY <1>1, <1>2 DEF Forgets, Memory
<1>6. ASSUME NEW c \in Calls, grantRun[GrantOf(c)] # 0,
             NEW i \in 1..Len(images'),
             \A j \in 1..Len(images) : (j = Len(images) \/ j = i) /\ Forgets(images[j], c)
                => Barred(images[j], GrantOf(c))
      PROVE  (Forgets(images[i], c) => Barred(images[i], GrantOf(c)))'
  <2>1. CASE i \in 1..Len(images)
    BY <1>2, <1>4, <1>5, <1>6, <2>1
  <2>2. CASE i = Len(images) + 1
    <3>1. Forgets(Newest, c) => Barred(Newest, GrantOf(c))
      BY <1>6, ImageType DEF Newest
    <3>2. (Forgets(Newest, c) => Barred(Newest, GrantOf(c)))'
      BY <1>2, <1>4, <1>5, <1>6, <3>1
    <3>. QED BY <1>1, <2>2, <3>2 DEF Forgets, Barred
  <2>. QED BY <1>1, <2>1, <2>2, ImageType
<1>7. NeverForgotten'
  <2> SUFFICES ASSUME NEW c \in sent
               PROVE  /\ (Forgets(Memory, c) => Barred(Memory, GrantOf(c)))'
                      /\ \A i \in 1..Len(images') :
                            (Forgets(images[i], c) => Barred(images[i], GrantOf(c)))'
    BY DEF NeverForgotten
  <2>1. c \in Calls /\ grantRun[GrantOf(c)] # 0
    BY DEF TypeOK, SendInvariant, Progressed
  <2>2. /\ Forgets(Memory, c) => Barred(Memory, GrantOf(c))
        /\ \A i \in 1..Len(images) : Forgets(images[i], c) => Barred(images[i], GrantOf(c))
    BY DEF SendInvariant, NeverForgotten
  <2>. QED BY <1>2, <1>4, <1>5, <1>6, <2>1, <2>2
<1>8. ClaimRemembered'
  <2> SUFFICES ASSUME NEW c \in Calls, PreSend(c)'
               PROVE  /\ (Forgets(Memory, c) => Barred(Memory, GrantOf(c)))'
                      /\ \A i \in 1..Len(images') : (pc'[c] = "claiming" => i >= putAt'[c]) =>
                            (Forgets(images[i], c) => Barred(images[i], GrantOf(c)))'
    BY DEF ClaimRemembered
  <2>1. PreSend(c) /\ pc'[c] = pc[c] /\ grantRun[GrantOf(c)] # 0 /\ putAt'[c] = putAt[c]
    BY DEF SendInvariant, Progressed, PreSend
  <2>2. /\ Forgets(Memory, c) => Barred(Memory, GrantOf(c))
        /\ \A i \in 1..Len(images) : (pc[c] = "claiming" => i >= putAt[c]) /\ Forgets(images[i], c)
              => Barred(images[i], GrantOf(c))
    BY <2>1 DEF SendInvariant, ClaimRemembered
  <2>3. pc[c] = "claiming" => putAt[c] <= Len(images)
    BY DEF SendInvariant, WriteInFlight
  <2>. QED BY <1>2, <1>4, <1>5, <1>6, <2>1, <2>2, <2>3, ImageType DEF TypeOK
<1>9. ClaimAlone'
  BY <1>2, <1>4 DEF SendInvariant, ClaimAlone, Progressed, PreSend
<1>10. SentAlone' /\ AtMostOnce'
  <2>1. \A c \in sent : c \in Calls /\ grantRun'[GrantOf(c)] = grantRun[GrantOf(c)]
    BY <1>2 DEF TypeOK, SendInvariant, Progressed
  <2>. QED BY <1>2, <2>1 DEF SendInvariant, SentAlone, AtMostOnce
<1>11. Progressed'
  BY <1>2 DEF SendInvariant, Progressed, PreSend, TypeOK
<1>12. StorageFollows'
  BY <1>1, <1>3 DEF StorageFollows
<1>13. RunsInOrder'
  <2>1. images'[Len(images) + 1].run <= runs /\ images'[Len(images) + 1].held = held'
    BY <1>1, <1>3
  <2>2. \A i \in 1..Len(images) : images[i].held \subseteq Grants
    BY ImageType DEF Image
  <2>. QED BY <1>1, <1>3, <2>1, <2>2, ImageType DEF SendInvariant, RunsInOrder
<1>14. WriteInFlight'
  BY <1>1, ImageType DEF SendInvariant, WriteInFlight, PreSend, TypeOK
<1>. QED BY <1>7, <1>8, <1>9, <1>10, <1>11, <1>12, <1>13, <1>14 DEF SendInvariant

\* Ending a run empties the store, in memory and in the newest image, and bars every grant.
LEMMA EndRunStep ==
  ASSUME TypeOK, WaitersWait, SendInvariant, NEW r \in 1..MaxRun, EndRun(r),
         \/ r = runs + 1 /\ runs' = runs + 1 /\ ended' = ended
         \/ r = run /\ runs' = runs /\ ended' = ended \cup {run}
  PROVE  SendInvariant'
<1>1. /\ held' = {} /\ run' = r /\ ops' = NoOps /\ PutRun(r)
      /\ UNCHANGED <<req, putAt, grantRun, expired, toHost, written, sent>>
  BY DEF EndRun, grantVars
<1>2. /\ Len(images') = Len(images) + 1
      /\ \A i \in 1..Len(images) : images'[i] = images[i]
      /\ Newest' = images'[Len(images) + 1]
      /\ Newest'.run = r /\ Newest'.held = Newest.held
  BY <1>1, PutRunShape
<1>3. \A c \in Calls : KeyOf(c)' = KeyOf(c) /\ GrantOf(c)' = GrantOf(c) /\ GrantOf(c) \in Grants
  BY <1>1, KeyType DEF KeyOf, GrantOf
<1>4. /\ Newest.run = run /\ Newest \in Image /\ run \in Nat /\ run <= runs /\ runs \in Nat
      /\ \A g \in Grants : grantRun[g] <= runs /\ grantRun[g] \in Nat
  BY ImageType DEF SendInvariant, StorageFollows, RunsInOrder, TypeOK
<1>5. /\ r = run => run \in ended' \/ r = runs + 1
      /\ ended \subseteq ended' /\ runs <= runs' /\ r <= runs'
  BY <1>4
<1>6. \A g \in Grants : /\ Barred(Memory, g)' /\ Barred(Newest, g)'
                        /\ \A i \in 1..Len(images) : Barred(images[i], g) => Barred(images[i], g)'
  <2> SUFFICES ASSUME NEW g \in Grants
               PROVE  /\ Barred(Memory, g)' /\ Barred(Newest, g)'
                      /\ \A i \in 1..Len(images) : Barred(images[i], g) => Barred(images[i], g)'
    OBVIOUS
  <2>1. grantRun'[g] # r \/ grantRun'[g] \in ended'
    BY <1>1, <1>4
  <2>. QED BY <1>1, <1>2, <1>5, <2>1 DEF Barred, Memory
<1>7. \A c \in Calls : \A i \in 1..Len(images) : Forgets(images[i], c)' <=> Forgets(images[i], c)
  BY <1>2, <1>3 DEF Forgets
<1>8. ASSUME NEW c \in Calls, NEW i, i = Len(images) + 1 PROVE Barred(images[i], GrantOf(c))'
  <2>1. Barred(Newest, GrantOf(c))'
    BY <1>3, <1>6
  <2>. QED BY <1>2, <1>8, <2>1 DEF Barred
<1>9. \A i \in 1..Len(images') : i \in 1..Len(images) \/ i = Len(images) + 1
  BY <1>2, ImageType
<1>10. \A c \in Calls : /\ PreSend(c)' => PreSend(c) /\ pc'[c] = pc[c]
                        /\ pc'[c] # "idle" => pc[c] # "idle"
                        /\ pc'[c] # pc[c] => pc'[c] = "settled"
  BY DEF EndRun, ResolveAll, PreSend, TypeOK, Waiters, WaitersWait
<1>11. NeverForgotten'
  <2> SUFFICES ASSUME NEW c \in sent
               PROVE  /\ (Forgets(Memory, c) => Barred(Memory, GrantOf(c)))'
                      /\ \A i \in 1..Len(images') :
                            (Forgets(images[i], c) => Barred(images[i], GrantOf(c)))'
    BY <1>1 DEF NeverForgotten
  <2>1. c \in Calls
    BY DEF TypeOK
  <2>2. \A i \in 1..Len(images) : Forgets(images[i], c) => Barred(images[i], GrantOf(c))
    BY DEF SendInvariant, NeverForgotten
  <2>3. ASSUME NEW i \in 1..Len(images)
        PROVE  (Forgets(images[i], c) => Barred(images[i], GrantOf(c)))'
    BY <1>3, <1>6, <1>7, <2>1, <2>2
  <2>. QED BY <1>3, <1>6, <1>8, <1>9, <2>1, <2>3
<1>12. ClaimRemembered'
  <2> SUFFICES ASSUME NEW c \in Calls, PreSend(c)'
               PROVE  /\ (Forgets(Memory, c) => Barred(Memory, GrantOf(c)))'
                      /\ \A i \in 1..Len(images') : (pc'[c] = "claiming" => i >= putAt'[c]) =>
                            (Forgets(images[i], c) => Barred(images[i], GrantOf(c)))'
    BY DEF ClaimRemembered
  <2>1. PreSend(c) /\ pc'[c] = pc[c] /\ putAt'[c] = putAt[c]
    BY <1>1, <1>10
  <2>2. \A i \in 1..Len(images) : (pc[c] = "claiming" => i >= putAt[c]) /\ Forgets(images[i], c)
              => Barred(images[i], GrantOf(c))
    BY <2>1 DEF SendInvariant, ClaimRemembered
  <2>3. ASSUME NEW i \in 1..Len(images), pc'[c] = "claiming" => i >= putAt'[c]
        PROVE  (Forgets(images[i], c) => Barred(images[i], GrantOf(c)))'
    BY <1>3, <1>6, <1>7, <2>1, <2>2, <2>3
  <2>. QED BY <1>3, <1>6, <1>8, <1>9, <2>3
<1>13. ClaimAlone'
  BY <1>3, <1>6 DEF ClaimAlone
<1>14. SentAlone' /\ AtMostOnce'
  BY <1>1, <1>3, <1>5 DEF SendInvariant, SentAlone, AtMostOnce, TypeOK
<1>15. Progressed'
  BY <1>1, <1>3, <1>10 DEF SendInvariant, Progressed, PreSend, TypeOK
<1>16. StorageFollows'
  <2>1. \A g \in Newest'.held : g \in Grants
    BY <1>2, <1>4 DEF Image
  <2>. QED BY <1>1, <1>2, <1>6, <2>1 DEF StorageFollows
<1>17. RunsInOrder'
  <2>1. \A i \in 1..Len(images) : /\ images'[i].run <= runs'
                                  /\ \A g \in images'[i].held : grantRun'[g] # 0
    <3>1. \A i \in 1..Len(images) : images[i].run \in Nat /\ images[i].run <= runs
      BY ImageType DEF Image, SendInvariant, RunsInOrder
    <3>2. runs \in Nat /\ runs' \in Nat
      BY <1>4
    <3>. QED BY <1>1, <1>2, <1>5, <3>1, <3>2 DEF SendInvariant, RunsInOrder
  <2>2. \A g \in Newest.held : grantRun[g] # 0
    BY ImageType DEF SendInvariant, RunsInOrder, Newest
  <2>3. \A i \in 1..Len(images') : images'[i].run <= runs' /\ \A g \in images'[i].held : grantRun'[g] # 0
    BY <1>1, <1>2, <1>5, <1>9, <2>1, <2>2
  <2>4. \A g \in Grants : grantRun'[g] <= runs'
    BY <1>1, <1>4
  <2>. QED BY <1>1, <1>5, <2>3, <2>4 DEF RunsInOrder
<1>18. WriteInFlight'
  <2>1. \A c \in Calls : putAt[c] \in Nat
    BY DEF TypeOK
  <2>2. \A c \in Calls : pc[c] = "claiming" => putAt[c] <= Len(images)
    BY DEF SendInvariant, WriteInFlight
  <2>. QED BY <1>1, <1>2, <1>10, <2>1, <2>2, ImageType DEF WriteInFlight, PreSend
<1>. QED BY <1>11, <1>12, <1>13, <1>14, <1>15, <1>16, <1>17, <1>18 DEF SendInvariant

\* Storage confirms its oldest write: the images move down by one.
LEMMA CommitStep == ASSUME TypeOK, SendInvariant, Commit PROVE SendInvariant'
<1>1. UNCHANGED <<req, pc, run, runs, held, ops, grantRun, expired, ended, sent, toHost, written>>
  BY DEF Commit, relayVars, grantVars, hostVars
<1>2. /\ Len(images) > 1 /\ Len(images') = Len(images) - 1
      /\ \A i \in 1..Len(images') : images'[i] = images[i + 1] /\ i + 1 \in 1..Len(images)
  <2>1. images \in Seq(Image) /\ images' = Tail(images) /\ Len(images) > 1
    BY DEF TypeOK, Commit
  <2>. QED BY <2>1
<1>3. Newest' = Newest
  BY <1>2, ImageType DEF Newest
<1>4. \A c \in Calls : /\ putAt[c] \in Nat
                       /\ putAt'[c] = IF putAt[c] = 0 THEN 0 ELSE putAt[c] - 1
  BY DEF Commit, TypeOK
<1>5. \A c : KeyOf(c)' = KeyOf(c) /\ GrantOf(c)' = GrantOf(c) /\ (PreSend(c)' <=> PreSend(c))
  BY <1>1 DEF KeyOf, GrantOf, PreSend
<1>6. /\ \A g : Barred(Memory, g)' <=> Barred(Memory, g)
      /\ \A g : Barred(Newest, g)' <=> Barred(Newest, g)
      /\ \A c : Forgets(Memory, c)' <=> Forgets(Memory, c)
  BY <1>1, <1>3, <1>5 DEF Barred, Forgets, Memory
<1>7. ASSUME NEW i \in 1..Len(images'), NEW c \in Calls,
             Forgets(images[i + 1], c) => Barred(images[i + 1], GrantOf(c))
      PROVE  (Forgets(images[i], c) => Barred(images[i], GrantOf(c)))'
  BY <1>1, <1>2, <1>5, <1>7 DEF Forgets, Barred
<1>8. NeverForgotten'
  <2> SUFFICES ASSUME NEW c \in sent
               PROVE  /\ (Forgets(Memory, c) => Barred(Memory, GrantOf(c)))'
                      /\ \A i \in 1..Len(images') :
                            (Forgets(images[i], c) => Barred(images[i], GrantOf(c)))'
    BY <1>1 DEF NeverForgotten
  <2>1. c \in Calls
    BY DEF TypeOK
  <2>. QED BY <1>2, <1>5, <1>6, <1>7, <2>1 DEF SendInvariant, NeverForgotten
<1>9. ClaimRemembered'
  <2> SUFFICES ASSUME NEW c \in Calls, PreSend(c)'
               PROVE  /\ (Forgets(Memory, c) => Barred(Memory, GrantOf(c)))'
                      /\ \A i \in 1..Len(images') : (pc'[c] = "claiming" => i >= putAt'[c]) =>
                            (Forgets(images[i], c) => Barred(images[i], GrantOf(c)))'
    BY DEF ClaimRemembered
  <2>1. ASSUME NEW i \in 1..Len(images'), pc'[c] = "claiming" => i >= putAt'[c]
        PROVE  (Forgets(images[i], c) => Barred(images[i], GrantOf(c)))'
    <3>1. pc[c] = "claiming" => i + 1 >= putAt[c]
      BY <1>1, <1>4, <2>1
    <3>2. Forgets(images[i + 1], c) => Barred(images[i + 1], GrantOf(c))
      BY <1>2, <1>5, <3>1 DEF SendInvariant, ClaimRemembered
    <3>. QED BY <1>7, <3>2
  <2>. QED BY <1>5, <1>6, <2>1 DEF SendInvariant, ClaimRemembered
<1>10. ClaimAlone' /\ SentAlone' /\ AtMostOnce'
  BY <1>1, <1>5, <1>6 DEF SendInvariant, ClaimAlone, SentAlone, AtMostOnce
<1>11. Progressed'
  BY <1>1, <1>5 DEF SendInvariant, Progressed
<1>12. StorageFollows'
  BY <1>1, <1>3, <1>6 DEF SendInvariant, StorageFollows
<1>13. RunsInOrder'
  BY <1>1, <1>2 DEF SendInvariant, RunsInOrder
<1>14. WriteInFlight'
  BY <1>1, <1>2, <1>4, ImageType DEF SendInvariant, WriteInFlight
<1>. QED BY <1>8, <1>9, <1>10, <1>11, <1>12, <1>13, <1>14 DEF SendInvariant

\* A crash brings one of the images back: what holds of each of them holds of memory.
LEMMA CrashStep == ASSUME TypeOK, SendInvariant, Crash PROVE SendInvariant'
<1>1. PICK i \in 1..Len(images) :
        /\ run' = images[i].run
        /\ held' = images[i].held
        /\ ops' = [k \in Key |-> Recovered(images[i].ops[k])]
        /\ images' = <<[images[i] EXCEPT !.ops = ops']>>
  BY DEF Crash
<1>2. UNCHANGED <<req, grantRun, expired, ended, sent, toHost, written, runs>>
  BY DEF Crash, grantVars, hostVars
<1>3. images[i] \in Image
  BY ImageType
<1>4. /\ Len(images') = 1 /\ images'[1].run = run' /\ images'[1].held = held'
      /\ images'[1].ops = ops' /\ Newest' = images'[1]
  <2>1. Len(images') = 1 /\ images'[1] = [images[i] EXCEPT !.ops = ops']
    BY <1>1
  <2>. QED BY <1>1, <1>3, <2>1 DEF Image, Newest
<1>5. \A c \in Calls : KeyOf(c)' = KeyOf(c) /\ GrantOf(c)' = GrantOf(c) /\ KeyOf(c) \in Key
  BY <1>2, KeyType DEF KeyOf, GrantOf
<1>6. \A k \in Key : ops'[k].state = "absent" <=> images[i].ops[k].state = "absent"
  <2>1. \A k \in Key : images[i].ops[k] \in OpRec
    BY <1>3 DEF Image
  <2>2. \A rec \in OpRec : Recovered(rec).state = "absent" <=> rec.state = "absent"
    BY DEF Recovered, OpRec
  <2>. QED BY <1>1, <2>1, <2>2
<1>7. \A c \in Calls : /\ Forgets(Memory, c)' <=> Forgets(images[i], c)
                       /\ \A j \in 1..Len(images') : Forgets(images[j], c)' <=> Forgets(images[i], c)
  BY <1>4, <1>5, <1>6 DEF Forgets, Memory
<1>8. \A g : /\ Barred(Memory, g)' <=> Barred(images[i], g)
             /\ \A j \in 1..Len(images') : Barred(images[j], g)' <=> Barred(images[i], g)
  BY <1>1, <1>2, <1>4 DEF Barred, Memory
<1>9. \A c \in Calls : /\ pc'[c] \in {"idle", "done"} /\ ~PreSend(c)'
                       /\ pc'[c] = "idle" <=> pc[c] = "idle"
  BY DEF Crash, Active, TypeOK, PreSend
<1>10. NeverForgotten'
  BY <1>2, <1>5, <1>7, <1>8 DEF SendInvariant, NeverForgotten, TypeOK
<1>11. ClaimRemembered' /\ ClaimAlone' /\ WriteInFlight'
  BY <1>9 DEF ClaimRemembered, ClaimAlone, WriteInFlight
<1>12. SentAlone' /\ AtMostOnce'
  BY <1>2, <1>5 DEF SendInvariant, SentAlone, AtMostOnce, TypeOK
<1>13. Progressed'
  BY <1>2, <1>5, <1>9 DEF SendInvariant, Progressed, TypeOK
<1>14. StorageFollows'
  BY <1>4 DEF StorageFollows
<1>15. RunsInOrder'
  BY <1>1, <1>2, <1>4 DEF SendInvariant, RunsInOrder
<1>. QED BY <1>10, <1>11, <1>12, <1>13, <1>14, <1>15 DEF SendInvariant

\* mcpPendingSends only ever names calls that wait, each under its own operation.
LEMMA WaitersStep == ASSUME TypeOK, WaitersWait, [Next]_vars PROVE WaitersWait'
<1> USE ConstantsAssumption
<1>1. \A c \in Calls : KeyOf(c) \in Key
  BY KeyType
<1>2. ASSUME UNCHANGED <<req, pending>>,
             \A c \in Calls : pc[c] = "waiting" => pc'[c] = "waiting"
      PROVE  WaitersWait'
  BY <1>2 DEF WaitersWait, TypeOK, KeyOf
<1>3. ASSUME NEW c \in Calls, NEW r, Settle(c, r), UNCHANGED req PROVE WaitersWait'
  BY <1>1, <1>3 DEF Settle, WaitersWait, TypeOK, KeyOf
<1>4. ASSUME UNCHANGED req, \A k \in Key : pending'[k] = NoCall PROVE WaitersWait'
  BY <1>4 DEF WaitersWait
<1>5. ASSUME NEW cut, AbortOnly(cut), UNCHANGED req PROVE WaitersWait'
  BY <1>5 DEF AbortOnly, WaitersWait, Waiters, TypeOK, KeyOf
<1>6. ASSUME NEW cut, ResolveAll(cut), UNCHANGED req PROVE WaitersWait'
  BY <1>4, <1>6 DEF ResolveAll
<1>7. ASSUME NEW c \in Calls, Begin(c) PROVE WaitersWait'
  BY <1>2, <1>7 DEF Begin, Answer, relayVars, TypeOK
<1>8. ASSUME NEW c \in Calls, Step(c) PROVE WaitersWait'
  <2>1. CASE Known(c)
    BY <1>2, <2>1 DEF Known, Answer, relayVars, TypeOK
  <2>2. ASSUME NEW h \in BOOLEAN, Refuse(c, h) PROVE WaitersWait'
    BY <1>2, <2>2 DEF Refuse, Answer, relayVars, TypeOK
  <2>3. CASE Claim(c)
    BY <1>2, <2>3 DEF Claim, TypeOK
  <2>4. CASE TakeLease(c)
    BY <1>2, <2>4 DEF TakeLease, TypeOK
  <2>5. CASE StartDispatch(c)
    BY <1>2, <2>5 DEF StartDispatch, relayVars, TypeOK
  <2>6. CASE Emit(c)
    BY <1>1, <2>6 DEF Emit, WaitersWait, TypeOK, KeyOf
  <2>7. CASE HoldBack(c)
    BY <1>2, <2>7 DEF HoldBack, relayVars, TypeOK
  <2>8. CASE AckTimeout(c)
    BY <1>3, <2>8 DEF AckTimeout
  <2>9. CASE Finish(c)
    BY <1>2, <2>9 DEF Finish, TypeOK
  <2>10. CASE Conclude(c)
    BY <1>2, <2>10 DEF Conclude, Answer, relayVars, TypeOK
  <2>. QED BY <1>8, <2>1, <2>2, <2>3, <2>4, <2>5, <2>6, <2>7, <2>8, <2>9, <2>10 DEF Step
<1>9. ASSUME NEW c \in Calls, Cancel(c) PROVE WaitersWait'
  BY <1>2, <1>3, <1>9 DEF Cancel
<1>10. CASE Host
  <2>1. ASSUME NEW c \in Calls, NEW e \in {"none", "part", "full"}, HostWrites(c, e)
        PROVE  WaitersWait'
    BY <1>2, <2>1 DEF HostWrites, callVars, relayVars
  <2>2. ASSUME NEW a \in acks, SendAck(a) PROVE WaitersWait'
    <3>1. pending[KeyOf(a.call)] \in Calls \cup {NoCall}
      BY <1>1 DEF TypeOK
    <3>2. UNCHANGED req
      BY <2>2 DEF SendAck
    <3>3. CASE a.call \in index /\ pending[KeyOf(a.call)] # NoCall
      BY <1>3, <2>2, <3>1, <3>2, <3>3, Zenon DEF SendAck
    <3>4. CASE ~(a.call \in index /\ pending[KeyOf(a.call)] # NoCall)
      BY <1>2, <2>2, <3>2, <3>4 DEF SendAck
    <3>. QED BY <3>3, <3>4
  <2>. QED BY <1>10, <2>1, <2>2 DEF Host
<1>11. CASE Relay
  <2>1. ASSUME NEW g \in Grants, Mint(g) PROVE WaitersWait'
    BY <1>2, <2>1 DEF Mint, callVars
  <2>2. ASSUME NEW g \in Grants, ExpireGrant(g) PROVE WaitersWait'
    BY <1>2, <1>6, <2>2 DEF ExpireGrant
  <2>3. ASSUME NEW gone, NEW cut, Revoke(gone, cut) PROVE WaitersWait'
    BY <1>5, <1>6, <2>3 DEF Revoke
  <2>4. CASE HostDrop
    BY <1>6, <2>4 DEF HostDrop
  <2>5. CASE HostReturn
    BY <1>2, <2>5 DEF HostReturn, callVars, relayVars
  <2>6. CASE Resume \/ TaskExit
    BY <1>6, <2>6 DEF Resume, TaskExit, EndRun
  <2>7. CASE StoreGrants
    BY <1>2, <2>7 DEF StoreGrants, callVars, relayVars
  <2>8. CASE Commit
    BY <1>2, <2>8 DEF Commit, relayVars
  <2>9. CASE Crash
    BY <1>4, <2>9 DEF Crash
  <2>. QED BY <1>11, <2>1, <2>2, <2>3, <2>4, <2>5, <2>6, <2>7, <2>8, <2>9 DEF Relay
<1>12. CASE UNCHANGED vars
  BY <1>2, <1>12 DEF vars, callVars, relayVars
<1>. QED BY <1>7, <1>8, <1>9, <1>10, <1>11, <1>12 DEF Next

\* The calls that a step settles were waiting: none of them claims anything any more.
LEMMA SettledCalls ==
  ASSUME TypeOK, WaitersWait
  PROVE  /\ \A cut : ResolveAll(cut) \/ AbortOnly(cut) =>
               \A c \in Calls : pc'[c] = pc[c] \/ (pc[c] = "waiting" /\ pc'[c] = "settled")
         /\ \A c \in Calls : \A r : pc[c] = "waiting" /\ Settle(c, r) =>
               \A d \in Calls : pc'[d] = pc[d] \/ (pc[d] = "waiting" /\ pc'[d] = "settled")
<1>1. \A c \in Waiters : pc[c] = "waiting"
  BY DEF Waiters, WaitersWait
<1>. QED BY <1>1 DEF ResolveAll, AbortOnly, Settle, TypeOK

\* Settling waiting calls, without touching store, grants or host, keeps the invariant.
LEMMA SettlingStep ==
  ASSUME TypeOK, SendInvariant,
         UNCHANGED <<req, run, runs, held, ops, images, putAt, grantRun, ended, sent, toHost,
                     written>>,
         expired \subseteq expired',
         \A c \in Calls : pc'[c] = pc[c] \/ (pc[c] = "waiting" /\ pc'[c] = "settled")
  PROVE  SendInvariant'
<1>1. \A c \in Calls : PreSend(c)' => PreSend(c) /\ (pc[c] = "claiming" <=> pc'[c] = "claiming")
  BY DEF PreSend
<1>2. \A c \in Calls : pc'[c] # "idle" => pc[c] # "idle" \/ grantRun[GrantOf(c)] # 0
  OBVIOUS
<1>3. \A c \in sent : pc'[c] \notin {"idle", "hashing"}
  BY DEF SendInvariant, Progressed, TypeOK
<1>. QED BY <1>1, <1>2, <1>3, QuietStep

\* Every step keeps the invariant.
LEMMA SendStep == ASSUME TypeOK, WaitersWait, SendInvariant, [Next]_vars PROVE SendInvariant'
<1> USE ConstantsAssumption
<1>1. \A c \in sent : c \in Calls /\ pc[c] \notin {"idle", "hashing"} /\ ~PreSend(c)
  BY DEF TypeOK, SendInvariant, Progressed
<1>2. ASSUME NEW c \in Calls, Begin(c) PROVE SendInvariant'
  <2>1. /\ pc[c] = "idle" /\ grantRun[GrantOf(c)] # 0 /\ pc'[c] \in {"hashing", "done"}
        /\ \A d \in Calls \ {c} : pc'[d] = pc[d]
    BY <1>2 DEF Begin, Answer, TypeOK
  <2>2. \A d \in Calls : PreSend(d)' => PreSend(d) /\ (pc[d] = "claiming" <=> pc'[d] = "claiming")
    BY <2>1 DEF PreSend
  <2>3. UNCHANGED <<req, run, runs, held, ops, images, putAt, grantRun, expired, ended, sent,
                    toHost, written>>
    BY <1>2 DEF Begin, relayVars, grantVars, hostVars
  <2>. QED BY <1>1, <2>1, <2>2, <2>3, QuietStep
<1>3. ASSUME NEW c \in Calls,
             pc[c] \in {"hashing", "storing", "sealing", "recording"},
             pc'[c] \in {"settled", "sealing", "done"},
             \A d \in Calls \ {c} : pc'[d] = pc[d],
             pc'[c] = "sealing" => pc[c] = "storing",
             UNCHANGED <<req, run, runs, held, ops, images, putAt, grantRun, expired, ended, sent,
                         toHost, written>>
      PROVE  SendInvariant'
  <2>1. \A d \in Calls : PreSend(d)' => PreSend(d) /\ (pc[d] = "claiming" <=> pc'[d] = "claiming")
    BY <1>3 DEF PreSend
  <2>2. \A d \in Calls : pc'[d] # "idle" => pc[d] # "idle" \/ grantRun[GrantOf(d)] # 0
    BY <1>3
  <2>3. \A d \in sent : pc'[d] \notin {"idle", "hashing"}
    BY <1>1, <1>3
  <2>. QED BY <1>3, <2>1, <2>2, <2>3, QuietStep
<1>4. ASSUME NEW c \in Calls, Known(c) PROVE SendInvariant'
  BY <1>3, <1>4 DEF Known, Answer, TypeOK, relayVars, grantVars, hostVars
<1>5. ASSUME NEW c \in Calls, NEW h \in BOOLEAN, Refuse(c, h) PROVE SendInvariant'
  BY <1>3, <1>5 DEF Refuse, Answer, TypeOK, relayVars, grantVars, hostVars
<1>6. ASSUME NEW c \in Calls, Claim(c) PROVE SendInvariant'
  BY <1>6, ClaimStep
<1>7. ASSUME NEW c \in Calls, TakeLease(c) PROVE SendInvariant'
  <2>1. c \notin sent
    BY <1>1, <1>7 DEF TakeLease, PreSend
  <2>2. UNCHANGED <<req, run, runs, held, grantRun, expired, ended, sent, written, toHost>>
    BY <1>7 DEF TakeLease, grantVars, hostVars
  <2>. QED BY <1>7, <2>1, <2>2, MarkStep DEF TakeLease, Stored, OpState
<1>8. ASSUME NEW c \in Calls, StartDispatch(c) PROVE SendInvariant'
  BY <1>3, <1>8 DEF StartDispatch, TypeOK, relayVars, grantVars, hostVars
<1>9. ASSUME NEW c \in Calls, Emit(c) PROVE SendInvariant'
  BY <1>9, EmitStep
<1>10. ASSUME NEW c \in Calls, HoldBack(c) PROVE SendInvariant'
  BY <1>3, <1>10 DEF HoldBack, TypeOK, relayVars, grantVars, hostVars
<1>11. ASSUME NEW c \in Calls, AckTimeout(c) PROVE SendInvariant'
  BY <1>11, SettledCalls, SettlingStep DEF AckTimeout, grantVars, hostVars
<1>12. ASSUME NEW c \in Calls, Finish(c) PROVE SendInvariant'
  <2>1. outcome[c] \in OpState \ {"absent"}
    BY <1>12 DEF Finish, TypeOK, OpState
  <2>2. UNCHANGED <<req, run, runs, held, grantRun, expired, ended, sent, written, toHost>>
    BY <1>12 DEF Finish, grantVars, hostVars
  <2>. QED BY <1>12, <2>1, <2>2, MarkStep DEF Finish
<1>13. ASSUME NEW c \in Calls, Conclude(c) PROVE SendInvariant'
  BY <1>3, <1>13 DEF Conclude, Answer, TypeOK, relayVars, grantVars, hostVars
<1>14. ASSUME NEW c \in Calls, Cancel(c) PROVE SendInvariant'
  BY <1>14, SettledCalls, SettlingStep DEF Cancel, grantVars, hostVars
<1>15. ASSUME NEW c \in Calls, NEW e \in {"none", "part", "full"}, HostWrites(c, e)
       PROVE  SendInvariant'
  BY <1>15, HostStep
<1>16. ASSUME NEW a \in acks, SendAck(a) PROVE SendInvariant'
  <2>1. UNCHANGED <<req, run, runs, held, ops, images, putAt, grantRun, expired, ended, sent,
                    toHost, written>>
    BY <1>16 DEF SendAck, grantVars
  <2>2. KeyOf(a.call) \in Key
    BY KeyType DEF TypeOK
  <2>3. CASE a.call \in index /\ pending[KeyOf(a.call)] # NoCall
    <3>1. PICK r : Settle(pending[KeyOf(a.call)], r)
      BY <1>16, <2>3, Zenon DEF SendAck
    <3>2. pending[KeyOf(a.call)] \in Calls /\ pc[pending[KeyOf(a.call)]] = "waiting"
      BY <2>2, <2>3 DEF TypeOK, WaitersWait
    <3>. QED BY <2>1, <3>1, <3>2, SettledCalls, SettlingStep
  <2>4. CASE ~(a.call \in index /\ pending[KeyOf(a.call)] # NoCall)
    <3>1. pc' = pc
      BY <1>16, <2>4 DEF SendAck
    <3>. QED BY <2>1, <3>1, SettlingStep
  <2>. QED BY <2>3, <2>4
<1>17. /\ \A g \in Grants : grantRun[g] <= runs
       /\ run <= runs /\ \A g \in held : grantRun[g] # 0
  BY DEF SendInvariant, RunsInOrder
<1>18. ASSUME NEW g \in Grants, Mint(g) PROVE SendInvariant'
  <2>1. /\ UNCHANGED <<req, pc, run, runs, ops, putAt, expired, ended, sent, toHost, written>>
        /\ PutGrants(held') /\ held' = held \cup {g} /\ held' \in SUBSET Grants
    BY <1>18 DEF Mint, callVars, hostVars, TypeOK
  <2>2. /\ grantRun[g] = 0 /\ grantRun'[g] = run /\ run # 0
        /\ \A h \in Grants \ {g} : grantRun'[h] = grantRun[h]
    BY <1>18 DEF Mint, TypeOK
  <2>3. \A c \in Calls : PreSend(c)' => PreSend(c) /\ pc'[c] = pc[c]
    BY <2>1 DEF PreSend
  <2>. QED BY <1>1, <1>17, <2>1, <2>2, <2>3, GrantsWritten DEF TypeOK
<1>19. ASSUME NEW gone, NEW cut, Revoke(gone, cut) PROVE SendInvariant'
  <2>1. /\ UNCHANGED <<req, run, runs, ops, putAt, grantRun, expired, ended, sent, toHost, written>>
        /\ PutGrants(held') /\ held' \subseteq held /\ held' \in SUBSET Grants
    BY <1>19 DEF Revoke, grantVars, hostVars, TypeOK
  <2>2. \A c \in Calls : pc'[c] = pc[c] \/ (pc[c] = "waiting" /\ pc'[c] = "settled")
    BY <1>19, SettledCalls DEF Revoke
  <2>3. \A c \in Calls : PreSend(c)' => PreSend(c) /\ pc'[c] = pc[c]
    BY <2>2 DEF PreSend
  <2>4. \A c \in sent : pc'[c] \notin {"idle", "hashing"}
    BY <1>1, <2>2
  <2>. QED BY <1>17, <2>1, <2>2, <2>3, <2>4, GrantsWritten
<1>20. ASSUME NEW g \in Grants, ExpireGrant(g) PROVE SendInvariant'
  <2>1. /\ expired \subseteq expired'
        /\ UNCHANGED <<req, run, runs, held, ops, images, putAt, grantRun, ended, sent, toHost,
                       written>>
    BY <1>20 DEF ExpireGrant, hostVars
  <2>2. \A c \in Calls : pc'[c] = pc[c] \/ (pc[c] = "waiting" /\ pc'[c] = "settled")
    BY <1>20, SettledCalls DEF ExpireGrant
  <2>. QED BY <2>1, <2>2, SettlingStep
<1>21. CASE HostDrop
  BY <1>21, SettledCalls, SettlingStep DEF HostDrop, grantVars, hostVars
<1>22. CASE HostReturn
  BY <1>22, SettlingStep DEF HostReturn, callVars, relayVars, grantVars, hostVars
<1>23. CASE Resume
  <2>1. runs + 1 \in 1..MaxRun
    BY <1>23 DEF Resume, TypeOK
  <2>. QED BY <1>23, <2>1, EndRunStep DEF Resume
<1>24. CASE TaskExit
  BY <1>24, EndRunStep DEF TaskExit, TypeOK
<1>25. CASE StoreGrants
  <2>1. /\ UNCHANGED <<req, pc, held, run, runs, ops, putAt, grantRun, expired, ended, sent, toHost, written>>
        /\ PutGrants(held') /\ held' \in SUBSET Grants
    BY <1>25 DEF StoreGrants, callVars, relayVars, grantVars, hostVars, TypeOK, PutGrants
  <2>2. \A c \in Calls : PreSend(c)' => PreSend(c) /\ pc'[c] = pc[c]
    BY <2>1 DEF PreSend
  <2>. QED BY <1>1, <1>17, <2>1, <2>2, GrantsWritten
<1>26. CASE Commit
  BY <1>26, CommitStep
<1>27. CASE Crash
  BY <1>27, CrashStep
<1>28. CASE UNCHANGED vars
  BY <1>28, SettlingStep DEF vars, callVars, relayVars, grantVars, hostVars
<1>29. held \subseteq Grants
  BY DEF TypeOK
<1>. QED
  BY <1>2, <1>4, <1>5, <1>6, <1>7, <1>8, <1>9, <1>10, <1>11, <1>12, <1>13, <1>14, <1>15, <1>16,
     <1>18, <1>19, <1>20, <1>21, <1>22, <1>23, <1>24, <1>25, <1>26, <1>27, <1>28, <1>29
  DEF Next, Step, Host, Relay

\* The inductive invariant holds in every state, for any number of calls, grants, operations,
\* runs and crashes, with or without the input gate.
THEOREM SendInvariantHolds == Spec => []SendInvariant
<1>1. Init => WaitersWait /\ SendInvariant
  <2> SUFFICES ASSUME Init PROVE WaitersWait /\ SendInvariant
    OBVIOUS
  <2>1. WaitersWait
    BY DEF Init, WaitersWait
  <2>2. /\ \A c \in Calls : pc[c] = "idle" /\ written[c] = "none" /\ ~PreSend(c)
        /\ sent = {} /\ toHost = {} /\ held = {} /\ run = 1 /\ runs = 1
        /\ Len(images) = 1 /\ images[1].run = 1 /\ images[1].held = {}
        /\ \A g \in Grants : grantRun[g] = 0
    BY DEF Init, PreSend
  <2>3. Newest.run = 1 /\ Newest.held = {}
    BY <2>2 DEF Newest
  <2>4. StorageFollows /\ RunsInOrder
    BY <2>2, <2>3 DEF StorageFollows, RunsInOrder
  <2>5. NeverForgotten /\ ClaimRemembered /\ WriteInFlight /\ ClaimAlone /\ SentAlone
    BY <2>2 DEF NeverForgotten, ClaimRemembered, WriteInFlight, ClaimAlone, SentAlone
  <2>6. Progressed /\ AtMostOnce
    BY <2>2 DEF Progressed, AtMostOnce
  <2>. QED BY <2>1, <2>4, <2>5, <2>6 DEF SendInvariant
<1>2. TypeOK /\ WaitersWait /\ SendInvariant /\ [Next]_vars => WaitersWait' /\ SendInvariant'
  BY WaitersStep, SendStep
<1>. QED BY <1>1, <1>2, TypeCorrect, PTL DEF Spec

\* At most one of all calls that name an operation of a grant has its text typed, even in part.
THEOREM AtMostOnceHolds == Spec => []AtMostOnce
<1>1. SendInvariant => AtMostOnce
  BY DEF SendInvariant
<1>. QED BY <1>1, SendInvariantHolds, PTL

-----------------------------------------------------------------------------
(* Waiters. Calls of one operation overlap only when their grant is no longer*)
(* live, and only a live grant gets a frame out: so no two wait for one entry.*)

\* every token in mcpSendDispatchIndex is of a waiting call
IndexWaits == \A c \in index : pc[c] = "waiting"
\* the record of a call under way is there, unless its grant is no longer live
Fresh == \A c \in Calls :
    (PreSend(c) \/ pc[c] = "waiting") /\ ~Present(KeyOf(c)) => ~Live(GrantOf(c))
\* two calls of one operation are under way at once only if their grant is no longer live
OneAlive == \A c, d \in Calls :
    c # d /\ KeyOf(c) = KeyOf(d) /\ PreSend(c) /\ (PreSend(d) \/ pc[d] = "waiting")
    => ~Live(GrantOf(c))
Owned == NoOrphanWaiter /\ IndexWaits /\ Fresh /\ OneAlive

\* Who writes the operation store.
LEMMA OpsMove ==
  ASSUME [Next]_vars
  PROVE  \/ UNCHANGED ops
         \/ \E c \in Calls : Claim(c) \/ TakeLease(c) \/ Finish(c)
         \/ (\E r : EndRun(r)) \/ Crash
  BY DEF Next, Step, Host, Relay, vars, callVars, relayVars, Begin, Known, Refuse, StartDispatch,
         Emit, HoldBack, AckTimeout, Conclude, Cancel, HostWrites, SendAck, Mint, Revoke,
         ExpireGrant, HostDrop, HostReturn, Resume, TaskExit, StoreGrants, Commit

\* Who takes and gives back the writer lease.
LEMMA LeaseMove ==
  ASSUME [Next]_vars
  PROVE  \/ UNCHANGED lease
         \/ \E c \in Calls : TakeLease(c) \/ Finish(c)
         \/ (\E r : EndRun(r)) \/ Crash
  BY DEF Next, Step, Host, Relay, vars, callVars, relayVars, Begin, Known, Refuse, Claim, StartDispatch,
         Emit, HoldBack, AckTimeout, Conclude, Cancel, HostWrites, SendAck, Mint, Revoke,
         ExpireGrant, HostDrop, HostReturn, Resume, TaskExit, StoreGrants, Commit

\* A handler that resumes to answer touches nothing but its own call.
LEMMA Resumes ==
  ASSUME NEW c \in Calls, Known(c) \/ (\E h \in BOOLEAN : Refuse(c, h)) \/ Conclude(c)
  PROVE  /\ pc[c] \in {"hashing", "recording"}
         /\ pc' = [pc EXCEPT ![c] = "done"]
         /\ outcome' = [outcome EXCEPT ![c] = "none"]
         /\ UNCHANGED <<req, pending, index, held, run, lease, ops, grantsDue, grantRun, expired,
                        written, acks, ended, putAt, images>>
<1>1. CASE Known(c)
  <2>1. PICK r : Answer(c, r)
    BY <1>1, Zenon DEF Known
  <2>2. /\ pc[c] = "hashing"
        /\ UNCHANGED <<req, putAt, relayVars, images, grantsDue, grantVars, hostUp, hostVars,
                       sent, runs, crashes>>
    BY <1>1, Zenon DEF Known
  <2>. QED BY <2>1, <2>2 DEF Answer, relayVars, grantVars, hostVars
<1>2. CASE (\E h \in BOOLEAN : Refuse(c, h)) \/ Conclude(c)
  BY <1>2 DEF Refuse, Conclude, Answer, relayVars, grantVars, hostVars
<1>. QED BY <1>1, <1>2

\* Whatever step is taken, a waiting call is settled together with its entry.
LEMMA WaiterMove ==
  ASSUME TypeOK, NoOrphanWaiter, WaitersWait, [Next]_vars, ~Crash
  PROVE  \/ UNCHANGED <<pending, index>> /\ \A c \in Calls : pc[c] = "waiting" <=> pc'[c] = "waiting"
         \/ \E c \in Calls : Emit(c)
         \/ \E c \in Waiters : Settle(c, "uncertain")
         \/ \E a \in acks : /\ a.delivered /\ a.call \in index /\ pending[KeyOf(a.call)] \in Waiters
                            /\ Settle(pending[KeyOf(a.call)], "delivered")
         \/ \E cut : ResolveAll(cut) \/ AbortOnly(cut)
<1>0. \A c \in Calls : KeyOf(c) \in Key
  BY KeyType
<1>1. ASSUME NEW c \in Calls, pc[c] = "waiting" PROVE c \in Waiters
  <2>1. pending[KeyOf(c)] = c /\ KeyOf(c) \in Key /\ c # NoCall
    BY <1>0, <1>1, ConstantsAssumption DEF NoOrphanWaiter
  <2>. QED BY <2>1 DEF Waiters
<1>2. \A c \in Calls : AckTimeout(c) => \E d \in Waiters : Settle(d, "uncertain")
  BY <1>1 DEF AckTimeout
<1>3. \A c \in Calls : Cancel(c) => \/ \E d \in Waiters : Settle(d, "uncertain")
                                    \/ UNCHANGED <<pc, pending, index>>
  BY <1>1 DEF Cancel
<1>4. ASSUME NEW a \in acks, SendAck(a)
      PROVE  \/ \E d \in Waiters : Settle(d, "uncertain")
             \/ /\ a.delivered /\ a.call \in index /\ pending[KeyOf(a.call)] \in Waiters
                /\ Settle(pending[KeyOf(a.call)], "delivered")
             \/ UNCHANGED <<pc, pending, index>>
  BY <1>0, <1>4 DEF SendAck, TypeOK, Waiters
<1>5. CASE UNCHANGED <<pc, pending, index>>
  BY <1>5
<1>6. ASSUME NEW c \in Calls, Begin(c) \/ Step(c), ~Emit(c), ~AckTimeout(c)
      PROVE  UNCHANGED <<pending, index>> /\ \A d \in Calls : pc[d] = "waiting" <=> pc'[d] = "waiting"
  <2>1. CASE Begin(c)
    BY <2>1 DEF Begin, Answer, relayVars, TypeOK
  <2>2. CASE Known(c) \/ (\E h \in BOOLEAN : Refuse(c, h)) \/ Conclude(c)
    BY <2>2, Resumes, ZenonT(40) DEF TypeOK
  <2>3. CASE Claim(c) \/ TakeLease(c) \/ Finish(c)
    BY <2>3 DEF Claim, TakeLease, Finish, TypeOK
  <2>4. CASE StartDispatch(c) \/ HoldBack(c)
    BY <2>4 DEF StartDispatch, HoldBack, relayVars, TypeOK
  <2>. QED BY <1>6, <2>1, <2>2, <2>3, <2>4 DEF Step
<1>7. CASE Host
  BY <1>4, <1>5, <1>7 DEF Host, HostWrites, callVars, relayVars
<1>8. CASE Relay
  BY <1>5, <1>8 DEF Relay, Mint, Revoke, ExpireGrant, HostDrop, HostReturn, Resume, TaskExit, EndRun,
         StoreGrants, Commit, callVars, relayVars
<1>9. CASE UNCHANGED vars
  BY <1>5, <1>9 DEF vars, callVars, relayVars
<1>. QED BY <1>2, <1>3, <1>5, <1>6, <1>7, <1>8, <1>9 DEF Next, Step

\* Where the run of a grant ended, or the grant was revoked, it stays so while the instance lives.
Gone(g) == g \notin held \/ grantRun[g] # run

\* While the instance lives, a grant that was minted never becomes live again, and one that is
\* gone stays so.
LEMMA GrantMove ==
  ASSUME TypeOK, SendInvariant, [Next]_vars, ~Crash, NEW g \in Grants, grantRun[g] # 0
  PROVE  /\ grantRun'[g] = grantRun[g]
         /\ Gone(g) => Gone(g)'
         /\ Live(g)' => Live(g)
<1> DEFINE Kept == grantRun'[g] = grantRun[g] /\ (Gone(g) => Gone(g)') /\ (Live(g)' => Live(g))
<1> SUFFICES Kept
  OBVIOUS
<1>0. grantRun[g] <= runs /\ runs \in Nat /\ grantRun[g] \in Nat
  BY DEF SendInvariant, RunsInOrder, TypeOK
<1>1. CASE UNCHANGED <<run, grantRun>> /\ held' \subseteq held /\ expired \subseteq expired'
  BY <1>1 DEF Gone, Live
<1>2. CASE \E h \in Grants : Mint(h)
  BY <1>2 DEF Mint, Gone, Live, TypeOK
<1>4. CASE Resume \/ TaskExit
  BY <1>0, <1>4 DEF Resume, TaskExit, EndRun, Gone, Live, grantVars
<1> HIDE DEF Kept
<1>5. ASSUME NEW c \in Calls, Begin(c) \/ Cancel(c) \/ Step(c) PROVE Kept
  BY <1>1, <1>5, Resumes DEF Step, Begin, Cancel, Claim, TakeLease, StartDispatch, Emit, HoldBack,
                             AckTimeout, Finish, relayVars, grantVars
<1>6. CASE Host
  BY <1>1, <1>6 DEF Host, HostWrites, SendAck, relayVars, grantVars
<1>7. CASE Relay
  <2>1. ASSUME NEW gone, NEW cut, Revoke(gone, cut) PROVE Kept
    BY <1>1, <2>1 DEF Revoke, grantVars
  <2>2. ASSUME NEW h \in Grants, ExpireGrant(h) PROVE Kept
    BY <1>1, <2>2 DEF ExpireGrant
  <2>3. CASE HostDrop \/ HostReturn \/ StoreGrants \/ Commit
    BY <1>1, <2>3 DEF HostDrop, HostReturn, StoreGrants, Commit, relayVars, grantVars
  <2>. QED BY <1>2, <1>4, <1>7, <2>1, <2>2, <2>3 DEF Relay
<1>8. CASE UNCHANGED vars
  BY <1>1, <1>8 DEF vars, relayVars, grantVars
<1>. QED BY <1>5, <1>6, <1>7, <1>8 DEF Next

\* Whatever step is taken, one call either stays where it is, or takes a step of its own, or is
\* settled while it waits.
LEMMA CallActs ==
  ASSUME TypeOK, WaitersWait, [Next]_vars, ~Crash, NEW c \in Calls
  PROVE  \/ pc'[c] = pc[c] /\ outcome'[c] = outcome[c]
         \/ Begin(c) \/ Known(c) \/ (\E h \in BOOLEAN : Refuse(c, h)) \/ Conclude(c)
         \/ Claim(c) \/ TakeLease(c) \/ StartDispatch(c) \/ Emit(c) \/ HoldBack(c) \/ Finish(c)
         \/ pc[c] = "waiting" /\ pc'[c] = "settled" /\ EventOK
<1> DEFINE Moved ==
         \/ pc'[c] = pc[c] /\ outcome'[c] = outcome[c]
         \/ Begin(c) \/ Known(c) \/ (\E h \in BOOLEAN : Refuse(c, h)) \/ Conclude(c)
         \/ Claim(c) \/ TakeLease(c) \/ StartDispatch(c) \/ Emit(c) \/ HoldBack(c) \/ Finish(c)
         \/ pc[c] = "waiting" /\ pc'[c] = "settled" /\ EventOK
<1> SUFFICES Moved
  OBVIOUS
<1>0. \A d \in Waiters : pc[d] = "waiting"
  BY DEF Waiters, WaitersWait
<1>1. CASE UNCHANGED <<pc, outcome>>
  BY <1>1
<1>2. ASSUME NEW d \in Calls, Begin(d) PROVE Moved
  <2>1. CASE d = c
    BY <1>2, <2>1
  <2>2. CASE d # c
    BY <1>2, <2>2 DEF Begin, Answer, TypeOK
  <2>. QED BY <2>1, <2>2
<1>3. ASSUME NEW d \in Calls, Known(d) \/ (\E h \in BOOLEAN : Refuse(d, h)) \/ Conclude(d)
      PROVE  Moved
  <2>1. CASE d = c
    BY <1>3, <2>1
  <2>2. CASE d # c
    BY <1>3, <2>2, Resumes DEF TypeOK
  <2>. QED BY <2>1, <2>2
<1>4. ASSUME NEW d \in Calls, Claim(d) \/ TakeLease(d) \/ Finish(d) PROVE Moved
  <2>1. CASE d = c
    BY <1>4, <2>1
  <2>2. CASE d # c
    BY <1>4, <2>2 DEF Claim, TakeLease, Finish, TypeOK
  <2>. QED BY <2>1, <2>2
<1>5. ASSUME NEW d \in Calls, StartDispatch(d) \/ HoldBack(d) \/ Emit(d) PROVE Moved
  <2>1. CASE d = c
    BY <1>5, <2>1
  <2>2. CASE d # c
    BY <1>5, <2>2 DEF StartDispatch, HoldBack, Emit, TypeOK
  <2>. QED BY <2>1, <2>2
<1>6. ASSUME NEW d, NEW r, pc[d] = "waiting", Settle(d, r), EventOK PROVE Moved
  BY <1>6 DEF Settle, TypeOK
<1>7. ASSUME NEW cut, ResolveAll(cut) \/ AbortOnly(cut), EventOK PROVE Moved
  <2>1. /\ pc'[c] = "settled" /\ c \in Waiters
        \/ UNCHANGED <<pc[c], outcome[c]>>
    BY <1>7 DEF ResolveAll, AbortOnly
  <2>. QED BY <1>0, <1>7, <2>1
<1> HIDE DEF Moved
<1>8. ASSUME NEW d \in Calls, AckTimeout(d) \/ Cancel(d) PROVE Moved
  BY <1>1, <1>6, <1>8 DEF AckTimeout, Cancel
<1>9. CASE Host
  <2>1. ASSUME NEW d \in Calls, NEW e, HostWrites(d, e) PROVE Moved
    BY <1>1, <2>1 DEF HostWrites, callVars
  <2>2. ASSUME NEW a \in acks, SendAck(a) PROVE Moved
    <3>1. KeyOf(a.call) \in Key
      BY KeyType DEF TypeOK
    <3>2. CASE a.call \in index /\ pending[KeyOf(a.call)] # NoCall
      <4>1. PICK r : Settle(pending[KeyOf(a.call)], r)
        BY <2>2, <3>2, Zenon DEF SendAck
      <4>2. pending[KeyOf(a.call)] \in Waiters
        BY <3>1, <3>2 DEF Waiters
      <4>3. EventOK
        BY <2>2 DEF SendAck
      <4>. QED BY <1>0, <1>6, <4>1, <4>2, <4>3
    <3>3. CASE ~(a.call \in index /\ pending[KeyOf(a.call)] # NoCall)
      BY <1>1, <2>2, <3>3 DEF SendAck
    <3>. QED BY <3>2, <3>3
  <2>. QED BY <1>9, <2>1, <2>2 DEF Host
<1>10. CASE Relay
  <2>1. ASSUME NEW gone, NEW cut, Revoke(gone, cut) PROVE Moved
    BY <1>7, <2>1 DEF Revoke
  <2>2. ASSUME NEW h \in Grants, ExpireGrant(h) PROVE Moved
    BY <1>1, <1>7, <2>2 DEF ExpireGrant
  <2>3. CASE HostDrop \/ Resume \/ TaskExit
    BY <1>7, <2>3 DEF HostDrop, Resume, TaskExit, EndRun
  <2>4. CASE (\E h \in Grants : Mint(h)) \/ HostReturn \/ StoreGrants \/ Commit
    BY <1>1, <2>4 DEF Mint, HostReturn, StoreGrants, Commit, callVars
  <2>. QED BY <1>10, <2>1, <2>2, <2>3, <2>4 DEF Relay
<1>11. CASE UNCHANGED vars
  BY <1>1, <1>11 DEF vars, callVars
<1>. QED BY <1>2, <1>3, <1>4, <1>5, <1>8, <1>9, <1>10, <1>11 DEF Next, Step

\* The same, when it does not matter which action admits or answers the call.
LEMMA CallMove ==
  ASSUME TypeOK, WaitersWait, [Next]_vars, ~Crash, NEW c \in Calls
  PROVE  \/ pc'[c] = pc[c] /\ outcome'[c] = outcome[c]
         \/ /\ pc[c] # "done" /\ pc'[c] \in {"hashing", "done"}
            /\ outcome'[c] \in {"none", outcome[c]}
         \/ Claim(c) \/ TakeLease(c) \/ StartDispatch(c) \/ Emit(c) \/ HoldBack(c) \/ Finish(c)
         \/ pc[c] = "waiting" /\ pc'[c] = "settled" /\ EventOK
<1>1. Begin(c) \/ Known(c) \/ (\E h \in BOOLEAN : Refuse(c, h)) \/ Conclude(c)
      => /\ pc[c] # "done" /\ pc'[c] \in {"hashing", "done"}
         /\ outcome'[c] \in {"none", outcome[c]}
  BY Resumes DEF Begin, Answer, TypeOK
<1>. QED BY <1>1, CallActs

\* What a call asks for never changes.
LEMMA RequestsStay == ASSUME [Next]_vars PROVE UNCHANGED req
  BY Resumes DEF Next, Step, Host, Relay, vars, Begin, Claim, TakeLease, StartDispatch, Emit,
         HoldBack, AckTimeout, Cancel, Finish, HostWrites, SendAck, Mint, Revoke, ExpireGrant,
         HostDrop, HostReturn, Resume, TaskExit, EndRun, StoreGrants, Commit, Crash

\* The claim leaves a record of the call; what it takes out is of a grant that is not live.
LEMMA ClaimOps ==
  ASSUME TypeOK, NEW c \in Calls, Claim(c)
  PROVE  /\ ops'[KeyOf(c)] = [print |-> req[c].print, state |-> "claiming"]
         /\ \A k \in Key \ {KeyOf(c)} : \/ ops'[k] = ops[k]
                                        \/ ops'[k] = Absent /\ ~Live(k[1])
<1>1. KeyOf(c) \in Key
  BY KeyType
<1>2. PICK gone \in IF Victims = {} THEN {{}} ELSE {{v} : v \in Victims} :
        ops' = [x \in Key |-> IF x = KeyOf(c) THEN [print |-> req[c].print, state |-> "claiming"]
                              ELSE IF x \in gone THEN Absent ELSE ops[x]]
  BY DEF Claim
<1>3. \A k \in gone : ~Live(k[1])
  BY <1>2 DEF Victims, Evictable
<1>. QED BY <1>1, <1>2, <1>3

\* mcpUpdateOpState neither adds nor removes a record, and keeps its fingerprint.
LEMMA MarkedOps ==
  ASSUME TypeOK, NEW k \in Key, NEW s \in OpState \ {"absent"}, ops' = Marked(k, s)
  PROVE  /\ \A x \in Key : (Present(x)' <=> Present(x)) /\ ops'[x].print = ops[x].print
         /\ \A x \in Key : x # k => ops'[x] = ops[x]
         /\ Present(k) => ops'[k].state = s
<1>1. ops \in [Key -> OpRec]
  BY DEF TypeOK
<1>. QED BY <1>1 DEF Marked, Present, OpRec

\* No step takes from a waiting call the entry that its acknowledgement and its timer settle.
LEMMA OwnedStep ==
  ASSUME TypeOK, WaitersWait, SendInvariant, Owned, [Next]_vars
  PROVE  Owned'
<1>. USE ConstantsAssumption
<1>1. CASE Crash
  BY <1>1 DEF Crash, Owned, NoOrphanWaiter, IndexWaits, Fresh, OneAlive, PreSend, Active, TypeOK
<1>2. CASE ~Crash
  <2>1. \A c \in Calls : KeyOf(c) \in Key /\ GrantOf(c) \in Grants /\ KeyOf(c)[1] = GrantOf(c)
    BY KeyType DEF KeyOf, GrantOf
  <2>2. UNCHANGED req
    BY RequestsStay
  <2>3. \A c \in Calls : KeyOf(c)' = KeyOf(c) /\ GrantOf(c)' = GrantOf(c)
    BY <2>2 DEF KeyOf, GrantOf
  <2>4. ASSUME NEW c \in Calls, pc[c] # "idle" PROVE Live(GrantOf(c))' => Live(GrantOf(c))
    <3>1. GrantOf(c) \in Grants /\ grantRun[GrantOf(c)] # 0
      BY <2>1, <2>4 DEF SendInvariant, Progressed
    <3>. QED BY <1>2, <2>3, <3>1, GrantMove DEF Live
  <2>5. ASSUME NEW c \in Calls
        PROVE  /\ PreSend(c)' => PreSend(c) \/ Claim(c)
               /\ pc'[c] = "waiting" => pc[c] = "waiting" \/ Emit(c)
    BY <1>2, CallMove, ZenonT(40) DEF PreSend, Claim, TakeLease, StartDispatch, Emit, Finish, HoldBack, TypeOK
  <2>6. NoOrphanWaiter'
    <3>1. CASE UNCHANGED <<pending, index>> /\ \A c \in Calls : pc[c] = "waiting" <=> pc'[c] = "waiting"
      BY <2>3, <3>1 DEF Owned, NoOrphanWaiter
    <3>2. ASSUME NEW c \in Calls, Emit(c) PROVE NoOrphanWaiter'
      <4>1. \A d \in Calls : d # c /\ pc[d] = "waiting" => KeyOf(d) # KeyOf(c)
        BY <3>2 DEF Emit, MayEmit, Owned, OneAlive, PreSend
      <4>2. /\ pc' = [pc EXCEPT ![c] = "waiting"]
            /\ pending' = [pending EXCEPT ![KeyOf(c)] = c]
            /\ index' = index \cup {c}
        BY <3>2 DEF Emit
      <4>. QED BY <2>1, <2>3, <4>1, <4>2 DEF Owned, NoOrphanWaiter, TypeOK
    <3>3. ASSUME NEW c \in Waiters, NEW r, Settle(c, r) PROVE NoOrphanWaiter'
      <4>1. c \in Calls
        BY DEF Waiters, TypeOK
      <4>2. /\ pc' = [pc EXCEPT ![c] = "settled"]
            /\ pending' = [pending EXCEPT ![KeyOf(c)] = NoCall]
            /\ index' = index \ {c}
        BY <3>3 DEF Settle
      <4>3. \A d \in Calls : pc[d] = "waiting" /\ d # c => KeyOf(d) # KeyOf(c) \/ pc[c] # "waiting"
        BY <4>1 DEF Owned, NoOrphanWaiter
      <4>4. pc[c] = "waiting"
        BY DEF Waiters, WaitersWait
      <4>. QED BY <2>1, <2>3, <4>1, <4>2, <4>3, <4>4 DEF Owned, NoOrphanWaiter, TypeOK
    <3>4. ASSUME NEW cut, ResolveAll(cut) \/ AbortOnly(cut) PROVE NoOrphanWaiter'
      <4>1. \A c \in Calls : pc[c] = "waiting" => c \in Waiters
        BY <2>1 DEF Owned, NoOrphanWaiter, Waiters
      <4>. QED BY <2>1, <2>3, <3>4, <4>1 DEF ResolveAll, AbortOnly, Owned, NoOrphanWaiter
    <3>. QED BY <1>2, <3>1, <3>2, <3>3, <3>4, WaiterMove DEF Owned
  <2>7. IndexWaits'
    <3>1. CASE UNCHANGED <<pending, index>> /\ \A c \in Calls : pc[c] = "waiting" <=> pc'[c] = "waiting"
      BY <3>1 DEF Owned, IndexWaits, TypeOK
    <3>2. ASSUME NEW c \in Calls, Emit(c) PROVE IndexWaits'
      BY <3>2 DEF Emit, Owned, IndexWaits, TypeOK
    <3>3. ASSUME NEW c \in Waiters, NEW r, Settle(c, r) PROVE IndexWaits'
      BY <3>3 DEF Settle, Owned, IndexWaits, TypeOK
    <3>4. ASSUME NEW cut, ResolveAll(cut) \/ AbortOnly(cut) PROVE IndexWaits'
      BY <3>4 DEF ResolveAll, AbortOnly, Owned, IndexWaits, TypeOK
    <3>. QED BY <1>2, <3>1, <3>2, <3>3, <3>4, WaiterMove DEF Owned
  <2>8. \A k \in Key : ~Present(k)' => ~Present(k) \/ ~Live(k[1]) \/ (\A g : ~Live(g)')
    <3>1. ASSUME NEW c \in Calls, Claim(c), NEW k \in Key, ~Present(k)'
          PROVE  ~Present(k) \/ ~Live(k[1])
      <4>1. /\ ops'[KeyOf(c)] = [print |-> req[c].print, state |-> "claiming"]
            /\ k = KeyOf(c) \/ ops'[k] = ops[k] \/ ~Live(k[1])
        BY <3>1, ClaimOps
      <4>2. ops'[k].state = "absent"
        BY <3>1 DEF Present
      <4>. QED BY <4>1, <4>2 DEF Present
    <3>2. ASSUME NEW c \in Calls, TakeLease(c) \/ Finish(c), NEW k \in Key, ~Present(k)'
          PROVE  ~Present(k)
      <4>1. outcome[c] \in OpState \ {"absent"} \/ TakeLease(c)
        BY <3>2 DEF Finish, TypeOK, OpState
      <4>2. PICK s \in OpState \ {"absent"} : ops' = Marked(KeyOf(c), s)
        BY <3>2, <4>1 DEF TakeLease, Finish, OpState
      <4>. QED BY <2>1, <3>2, <4>2, MarkedOps
    <3>3. ASSUME NEW r, EndRun(r) PROVE \A g : ~Live(g)'
      BY <3>3 DEF EndRun, Live
    <3>. QED BY <1>2, <3>1, <3>2, <3>3, OpsMove DEF Present
  <2>9. Fresh'
    <3>1. ASSUME NEW c \in Calls, Claim(c) PROVE Present(KeyOf(c))'
      <4>1. ops'[KeyOf(c)] = [print |-> req[c].print, state |-> "claiming"]
        BY <3>1, ClaimOps
      <4>. QED BY <2>3, <4>1 DEF Present
    <3>2. SUFFICES ASSUME NEW c \in Calls, PreSend(c)' \/ pc'[c] = "waiting", ~Present(KeyOf(c))'
                   PROVE  ~Live(GrantOf(c))'
      BY <2>3 DEF Fresh
    <3>3. PreSend(c) \/ pc[c] = "waiting"
      BY <2>3, <2>5, <3>1, <3>2 DEF Emit, PreSend
    <3>4. Present(KeyOf(c)) => ~Live(GrantOf(c)) \/ ~Live(GrantOf(c))'
      BY <2>1, <2>3, <2>8, <3>2
    <3>. QED BY <2>3, <2>4, <3>3, <3>4 DEF Owned, Fresh, PreSend
  <2>10. OneAlive'
    <3>1. SUFFICES ASSUME NEW c \in Calls, NEW d \in Calls, c # d, KeyOf(c) = KeyOf(d),
                          PreSend(c)', PreSend(d)' \/ pc'[d] = "waiting"
                   PROVE  ~Live(GrantOf(c))'
      BY <2>3 DEF OneAlive
    <3>2. GrantOf(c) = GrantOf(d)
      BY <3>1 DEF KeyOf, GrantOf
    <3>3. CASE Claim(c)
      <4>1. PreSend(d) \/ pc[d] = "waiting"
        BY <3>1, <3>3 DEF Claim, PreSend, TypeOK
      <4>. QED BY <2>3, <2>4, <3>1, <3>2, <3>3, <4>1 DEF Claim, Owned, Fresh, PreSend
    <3>4. CASE Claim(d)
      <4>1. PreSend(c)
        BY <3>1, <3>4 DEF Claim, PreSend, TypeOK
      <4>. QED BY <2>3, <2>4, <3>1, <3>4, <4>1 DEF Claim, Owned, Fresh, PreSend
    <3>5. CASE ~Claim(c) /\ ~Claim(d)
      <4>1. PreSend(c) /\ (PreSend(d) \/ pc[d] = "waiting")
        BY <2>5, <3>1, <3>5 DEF Emit, PreSend
      <4>. QED BY <2>3, <2>4, <3>1, <4>1 DEF Owned, OneAlive, PreSend
    <3>. QED BY <3>3, <3>4, <3>5
  <2>. QED BY <2>6, <2>7, <2>9, <2>10 DEF Owned
<1>. QED BY <1>1, <1>2

\* The second put of a run's end is only owed after an event.
LEMMA DueMove ==
  ASSUME [Next]_vars, ~Crash
  PROVE  grantsDue' => grantsDue \/ EventOK
  BY Resumes DEF Next, Step, Host, Relay, vars, Begin, Claim, TakeLease, StartDispatch, Emit,
         HoldBack, AckTimeout, Cancel, Finish, HostWrites, SendAck, Mint, Revoke, ExpireGrant,
         HostDrop, HostReturn, Resume, TaskExit, EndRun, StoreGrants, Commit

\* A grant goes in one event, which settles the calls that wait for it as uncertain.
LEMMA GoneMove ==
  ASSUME TypeOK, NoOrphanWaiter, [Next]_vars, ~Crash, NEW g \in Grants,
         ~Gone(g), Gone(g)', grantRun'[g] = grantRun[g]
  PROVE  /\ EventOK
         /\ \A c \in Calls : GrantOf(c) = g /\ pc[c] = "waiting"
                             => pc'[c] = "settled" /\ outcome'[c] = "uncertain"
<1>0. \A c \in Calls : pc[c] = "waiting" => c \in Waiters
  <2>1. \A c \in Calls : KeyOf(c) \in Key /\ c # NoCall
    BY KeyType, ConstantsAssumption
  <2>. QED BY <2>1 DEF NoOrphanWaiter, Waiters
<1> DEFINE Goal == /\ EventOK
         /\ \A c \in Calls : GrantOf(c) = g /\ pc[c] = "waiting"
                             => pc'[c] = "settled" /\ outcome'[c] = "uncertain"
<1> SUFFICES Goal
  OBVIOUS
<1>1. CASE held \subseteq held' /\ UNCHANGED run
  BY <1>1 DEF Gone
<1>2. ASSUME NEW cut, ResolveAll(cut), EventOK PROVE Goal
  BY <1>0, <1>2 DEF ResolveAll
<1>3. ASSUME NEW gone, NEW cut, Revoke(gone, cut),
             \A c \in Calls : GrantOf(c) \in gone => c \in cut
      PROVE  Goal
  BY <1>0, <1>2, <1>3 DEF Revoke, AbortOnly, Gone
<1> HIDE DEF Goal
<1>4. ASSUME NEW c \in Calls, Begin(c) \/ Cancel(c) \/ Step(c) PROVE Goal
  BY <1>1, <1>4, Resumes DEF Step, Begin, Cancel, Claim, TakeLease, StartDispatch, Emit, HoldBack,
                             AckTimeout, Finish, relayVars, grantVars
<1>5. CASE Host
  BY <1>1, <1>5 DEF Host, HostWrites, SendAck, relayVars, grantVars
<1>6. CASE Relay
  <2>1. ASSUME NEW h \in held, Revoke({h}, {c \in Calls : GrantOf(c) = h}) PROVE Goal
    BY <1>3, <2>1
  <2>2. CASE Revoke(held, Calls)
    BY <1>3, <2>2
  <2>3. CASE Resume \/ TaskExit
    BY <1>2, <2>3 DEF Resume, TaskExit, EndRun
  <2>4. CASE \E h \in Grants : Mint(h) \/ ExpireGrant(h)
    BY <1>1, <2>4 DEF Mint, ExpireGrant
  <2>5. CASE HostDrop \/ HostReturn \/ StoreGrants \/ Commit
    BY <1>1, <2>5 DEF HostDrop, HostReturn, StoreGrants, Commit, relayVars, grantVars
  <2>. QED BY <1>6, <2>1, <2>2, <2>3, <2>4, <2>5 DEF Relay
<1>7. CASE UNCHANGED vars
  BY <1>1, <1>7 DEF vars, relayVars, grantVars
<1>. QED BY <1>4, <1>5, <1>6, <1>7 DEF Next

-----------------------------------------------------------------------------
(* The lease. While a handler awaits storage the gate keeps the next event off,*)
(* so between the claim and the lease nobody else can claim.                *)

\* from taking the lease to giving it back
Leasing(c) == pc[c] \in {"storing", "sealing", "waiting", "settled"}

\* a call that stores its claim is alone: nobody else stores, nobody has a result to record
OneStores ==
    \A c, d \in Calls : pc[c] \in {"claiming", "storing"} =>
        /\ ~grantsDue
        /\ pc[d] \notin {"settled", "recording"}
        /\ pc[d] \in {"claiming", "storing"} => d = c

\* a call of a grant that is not gone holds the lease, alone
LeaseHeld ==
    \A c, d \in Calls : Leasing(c) /\ ~Gone(GrantOf(c)) =>
        /\ lease = GrantOf(c)
        /\ pc[d] # "claiming"
        /\ Leasing(d) /\ ~Gone(GrantOf(d)) => d = c

\* who waits, and who was acknowledged just now, has a grant that is not gone
WaitersStand ==
    \A c \in Calls :
        pc[c] = "waiting" \/ (pc[c] = "settled" /\ outcome[c] = "delivered") => ~Gone(GrantOf(c))

\* the record of a call under way is its own, and not final
RecordKept ==
    \A c \in Calls : (pc[c] = "claiming" \/ Leasing(c)) /\ ~Gone(GrantOf(c)) =>
        /\ ops[KeyOf(c)].print = req[c].print
        /\ ops[KeyOf(c)].state \in {"claiming", "dispatched"}

LeaseInvariant == OneStores /\ LeaseHeld /\ WaitersStand /\ RecordKept

\* With the input gate no event comes between a write and the handler that awaits it.
LEMMA Undisturbed ==
  ASSUME InputGate, NEW c \in Calls, pc[c] \in {"claiming", "storing", "recording", "settled"}
  PROVE  ~EventOK
  BY DEF EventOK, Storing

\* From which await to which each action of a call goes.
LEMMA CallSteps ==
  ASSUME TypeOK, NEW c \in Calls
  PROVE  /\ Claim(c) => pc[c] = "hashing" /\ pc' = [pc EXCEPT ![c] = "claiming"] /\ pc'[c] = "claiming"
         /\ TakeLease(c) => pc[c] = "claiming" /\ pc' = [pc EXCEPT ![c] = "storing"] /\ pc'[c] = "storing"
         /\ StartDispatch(c) => /\ pc[c] = "storing" /\ pc'[c] \in {"sealing", "settled"}
                                /\ pc'[c] = "settled" => outcome'[c] = "uncertain"
         /\ Emit(c) => pc[c] = "sealing" /\ pc'[c] = "waiting"
         /\ HoldBack(c) => /\ pc[c] = "sealing" /\ pc'[c] = "settled"
                           /\ outcome'[c] = "uncertain" /\ EventOK
         /\ Finish(c) => pc[c] = "settled" /\ pc' = [pc EXCEPT ![c] = "recording"] /\ pc'[c] = "recording"
  BY DEF Claim, TakeLease, StartDispatch, Emit, HoldBack, Finish, TypeOK

\* No step lets a second call past the lease or touches the record of the one that has it.
LEMMA LeaseStep ==
  ASSUME InputGate, TypeOK, WaitersWait, SendInvariant, NoOrphanWaiter, LeaseInvariant, [Next]_vars
  PROVE  LeaseInvariant'
<1>. USE ConstantsAssumption
<1>1. CASE Crash
  BY <1>1 DEF Crash, LeaseInvariant, OneStores, LeaseHeld, WaitersStand, RecordKept,
              Leasing, Active, TypeOK
<1>2. CASE ~Crash
  <2>1. \A c \in Calls : /\ KeyOf(c) \in Key /\ GrantOf(c) \in Grants /\ KeyOf(c)[1] = GrantOf(c)
                         /\ KeyOf(c)' = KeyOf(c) /\ GrantOf(c)' = GrantOf(c)
    BY KeyType, RequestsStay DEF KeyOf, GrantOf
  <2>2. ASSUME NEW c \in Calls, pc'[c] = "claiming" \/ Leasing(c)'
        PROVE  /\ Claim(c) \/ pc[c] = "claiming" \/ Leasing(c)
               /\ pc'[c] = "claiming" => Claim(c) \/ pc[c] = "claiming"
               /\ Leasing(c)' => Leasing(c) \/ TakeLease(c)
               /\ pc'[c] = "waiting" => Emit(c) \/ pc[c] = "waiting"
    BY <1>2, <2>2, CallMove, CallSteps DEF Leasing
  <2>3. ASSUME NEW c \in Calls, pc[c] # "idle"
        PROVE  /\ grantRun[GrantOf(c)] # 0 /\ grantRun'[GrantOf(c)] = grantRun[GrantOf(c)]
               /\ Gone(GrantOf(c)) => Gone(GrantOf(c))'
    <3>1. GrantOf(c) \in Grants /\ grantRun[GrantOf(c)] # 0
      BY <2>1, <2>3 DEF SendInvariant, Progressed
    <3>. QED BY <1>2, <2>1, <3>1, GrantMove DEF Gone
  <2>4. ASSUME NEW c \in Calls, pc'[c] = "claiming" \/ Leasing(c)', ~Gone(GrantOf(c))'
        PROVE  pc[c] # "idle" /\ ~Gone(GrantOf(c))
    BY <2>2, <2>3, <2>4 DEF Leasing, Claim
  <2>5. ASSUME NEW r, EndRun(r) PROVE \A g : Gone(g)'
    BY <2>5 DEF EndRun, Gone
  <2>6. OneStores'
    <3>1. SUFFICES ASSUME NEW c \in Calls, NEW d \in Calls, pc'[c] \in {"claiming", "storing"}
                   PROVE  /\ ~grantsDue'
                          /\ pc'[d] \notin {"settled", "recording"}
                          /\ pc'[d] \in {"claiming", "storing"} => d = c
      BY DEF OneStores
    <3>2. CASE Claim(c)
      <4>1. EventOK /\ pc' = [pc EXCEPT ![c] = "claiming"] /\ grantsDue' = grantsDue
        BY <3>2 DEF Claim
      <4>. QED BY <4>1 DEF EventOK, Storing, TypeOK
    <3>3. CASE ~Claim(c)
      <4>1. pc[c] \in {"claiming", "storing"}
        BY <1>2, <3>1, <3>3, CallMove, CallSteps
      <4>2. /\ ~grantsDue /\ ~EventOK
            /\ \A e \in Calls : pc[e] \notin {"settled", "recording"}
            /\ \A e \in Calls : pc[e] \in {"claiming", "storing"} => e = c
        BY <4>1, Undisturbed DEF LeaseInvariant, OneStores
      <4>3. ~Claim(d)
        BY <4>2 DEF Claim
      <4>4. /\ pc'[d] = pc[d] \/ pc'[d] \in {"hashing", "done"}
            \/ TakeLease(d) \/ StartDispatch(d) \/ Emit(d)
        BY <1>2, <4>2, <4>3, CallMove, CallSteps
      <4>5. pc'[d] \notin {"settled", "recording"}
        BY <3>1, <4>2, <4>4, CallSteps
      <4>6. pc'[d] \in {"claiming", "storing"} => d = c
        BY <4>2, <4>4, CallSteps
      <4>. QED BY <1>2, <4>2, <4>5, <4>6, DueMove
    <3>. QED BY <3>2, <3>3
  <2>7. LeaseHeld'
    <3>1. SUFFICES ASSUME NEW c \in Calls, NEW d \in Calls, Leasing(c)', ~Gone(GrantOf(c))'
                   PROVE  /\ lease' = GrantOf(c)
                          /\ pc'[d] # "claiming"
                          /\ Leasing(d)' /\ ~Gone(GrantOf(d))' => d = c
      BY <2>1 DEF LeaseHeld
    <3>2. ~Gone(GrantOf(c)) /\ (Leasing(c) \/ TakeLease(c))
      BY <2>2, <2>4, <3>1
    <3>3. Leasing(d)' /\ ~Gone(GrantOf(d))' => ~Gone(GrantOf(d)) /\ (Leasing(d) \/ TakeLease(d))
      BY <2>2, <2>4
    <3>4. ASSUME NEW x \in Calls, TakeLease(x)
          PROVE  /\ lease' = GrantOf(c)
                 /\ pc'[d] # "claiming"
                 /\ Leasing(d)' /\ ~Gone(GrantOf(d))' => d = c
      <4>1. /\ pc[x] = "claiming" /\ pc' = [pc EXCEPT ![x] = "storing"]
            /\ lease' = GrantOf(x)
        BY <3>4 DEF TakeLease
      <4>2. \A e \in Calls : Leasing(e)' /\ ~Gone(GrantOf(e))' => e = x
        <5>1. ASSUME NEW e \in Calls, e # x, Leasing(e)', ~Gone(GrantOf(e))' PROVE FALSE
          <6>1. Leasing(e) /\ ~Gone(GrantOf(e))
            BY <2>4, <4>1, <5>1 DEF Leasing, TypeOK
          <6>. QED BY <4>1, <6>1 DEF LeaseInvariant, LeaseHeld
        <5>. QED BY <5>1
      <4>3. c = x
        BY <3>1, <4>2
      <4>4. pc'[d] # "claiming"
        BY <4>1 DEF LeaseInvariant, OneStores, TypeOK
      <4>. QED BY <4>1, <4>2, <4>3, <4>4
    <3>5. ASSUME NEW x \in Calls, Finish(x)
          PROVE  /\ lease' = GrantOf(c)
                 /\ pc'[d] # "claiming"
                 /\ Leasing(d)' /\ ~Gone(GrantOf(d))' => d = c
      <4>1. /\ pc[x] = "settled" /\ pc' = [pc EXCEPT ![x] = "recording"]
            /\ lease' = IF lease = GrantOf(x) THEN NoGrant ELSE lease
        BY <3>5 DEF Finish
      <4>2. \A e \in Calls : Leasing(e)' /\ ~Gone(GrantOf(e))'
                             => e # x /\ Leasing(e) /\ ~Gone(GrantOf(e))
        BY <2>4, <4>1 DEF Leasing, TypeOK
      <4>3. Leasing(x)
        BY <4>1 DEF Leasing
      <4>4. c # x /\ Leasing(c) /\ ~Gone(GrantOf(c))
        BY <3>1, <4>2
      <4>5. lease = GrantOf(c) /\ lease # GrantOf(x)
        BY <4>3, <4>4 DEF LeaseInvariant, LeaseHeld
      <4>6. pc'[d] # "claiming"
        BY <4>1, <4>4 DEF LeaseInvariant, LeaseHeld, TypeOK
      <4>7. Leasing(d)' /\ ~Gone(GrantOf(d))' => d = c
        BY <4>2, <4>4 DEF LeaseInvariant, LeaseHeld
      <4>. QED BY <4>1, <4>5, <4>6, <4>7
    <3>6. CASE UNCHANGED lease /\ ~TakeLease(c) /\ ~TakeLease(d)
      <4>1. lease = GrantOf(c) /\ lease # NoGrant /\ pc[d] # "claiming"
        BY <2>1, <3>2, <3>6 DEF LeaseInvariant, LeaseHeld
      <4>2. ~Claim(d)
        BY <4>1 DEF Claim, MayClaim
      <4>. QED BY <2>2, <3>2, <3>3, <3>6, <4>1, <4>2 DEF LeaseInvariant, LeaseHeld
    <3>. QED BY <1>2, <2>5, <3>1, <3>4, <3>5, <3>6, LeaseMove
  <2>8. WaitersStand'
    <3>1. SUFFICES ASSUME NEW c \in Calls,
                          pc'[c] = "waiting" \/ (pc'[c] = "settled" /\ outcome'[c] = "delivered"),
                          Gone(GrantOf(c))'
                   PROVE  FALSE
      BY <2>1 DEF WaitersStand
    <3>2. ~Emit(c)
      BY <2>1, <3>1 DEF Emit, MayEmit, Live, Gone, grantVars
    <3>3. pc[c] = "waiting" \/ (pc[c] = "settled" /\ outcome[c] = "delivered")
      <4>1. \/ pc'[c] = pc[c] /\ outcome'[c] = outcome[c]
            \/ pc[c] = "waiting"
        BY <1>2, <3>1, <3>2, CallMove, CallSteps
      <4>. QED BY <3>1, <4>1
    <3>4. ~Gone(GrantOf(c))
      BY <3>3 DEF LeaseInvariant, WaitersStand
    <3>5. /\ EventOK
          /\ pc[c] = "waiting" => pc'[c] = "settled" /\ outcome'[c] = "uncertain"
      BY <1>2, <2>1, <2>3, <3>1, <3>3, <3>4, GoneMove DEF Gone
    <3>. QED BY <3>1, <3>3, <3>5, Undisturbed
  <2>9. RecordKept'
    <3>1. SUFFICES ASSUME NEW c \in Calls, pc'[c] = "claiming" \/ Leasing(c)', ~Gone(GrantOf(c))'
                   PROVE  /\ ops'[KeyOf(c)].print = req[c].print
                          /\ ops'[KeyOf(c)].state \in {"claiming", "dispatched"}
      BY <2>1, RequestsStay DEF RecordKept
    <3>2. ~Gone(GrantOf(c)) /\ (Claim(c) \/ pc[c] = "claiming" \/ Leasing(c))
      BY <2>2, <2>4, <3>1
    <3>3. CASE Claim(c)
      <4>1. ops'[KeyOf(c)] = [print |-> req[c].print, state |-> "claiming"]
        BY <3>3, ClaimOps
      <4>. QED BY <4>1
    <3>4. CASE ~Claim(c)
      <4>1. /\ pc[c] = "claiming" \/ Leasing(c)
            /\ ops[KeyOf(c)].print = req[c].print
            /\ ops[KeyOf(c)].state \in {"claiming", "dispatched"}
        BY <3>2, <3>4 DEF LeaseInvariant, RecordKept
      <4>2. ASSUME NEW x \in Calls, Claim(x) PROVE FALSE
        <5>1. EventOK /\ lease = NoGrant
          BY <4>2 DEF Claim, MayClaim
        <5>2. lease = GrantOf(c)
          BY <3>2, <4>1, <5>1, Undisturbed DEF LeaseInvariant, LeaseHeld
        <5>. QED BY <2>1, <5>1, <5>2
      <4>3. ASSUME NEW x \in Calls, TakeLease(x)
            PROVE  /\ ops'[KeyOf(c)].print = req[c].print
                   /\ ops'[KeyOf(c)].state \in {"claiming", "dispatched"}
        <5>1. "dispatched" \in OpState \ {"absent"} /\ ops' = Marked(KeyOf(x), "dispatched")
          BY <4>3 DEF TakeLease, OpState
        <5>2. /\ ops'[KeyOf(c)].print = ops[KeyOf(c)].print
              /\ KeyOf(c) # KeyOf(x) => ops'[KeyOf(c)] = ops[KeyOf(c)]
              /\ Present(KeyOf(x)) => ops'[KeyOf(x)].state = "dispatched"
          BY <2>1, <5>1, MarkedOps
        <5>. QED BY <4>1, <5>2 DEF Present
      <4>4. ASSUME NEW x \in Calls, Finish(x) PROVE ops'[KeyOf(c)] = ops[KeyOf(c)]
        <5>1. /\ outcome[x] \in OpState \ {"absent"} /\ ops' = Marked(KeyOf(x), outcome[x])
              /\ pc[x] = "settled" /\ pc'[x] = "recording"
          BY <4>4 DEF Finish, TypeOK, OpState
        <5>2. KeyOf(c) # KeyOf(x) => ops'[KeyOf(c)] = ops[KeyOf(c)]
          BY <2>1, <5>1, MarkedOps
        <5>3. KeyOf(c) # KeyOf(x)
          <6>1. SUFFICES ASSUME KeyOf(c) = KeyOf(x) PROVE FALSE
            OBVIOUS
          <6>2. c # x
            BY <3>1, <5>1 DEF Leasing
          <6>3. Leasing(x) /\ ~Gone(GrantOf(x))
            BY <3>2, <5>1, <6>1 DEF Leasing, KeyOf, GrantOf
          <6>. QED BY <3>2, <4>1, <6>2, <6>3 DEF LeaseInvariant, LeaseHeld
        <5>. QED BY <5>2, <5>3
      <4>5. CASE UNCHANGED ops
        BY <4>1, <4>5
      <4>. QED BY <1>2, <2>5, <3>1, <4>1, <4>2, <4>3, <4>4, <4>5, OpsMove
    <3>. QED BY <3>3, <3>4
  <2>. QED BY <2>6, <2>7, <2>8, <2>9 DEF LeaseInvariant
<1>. QED BY <1>1, <1>2

-----------------------------------------------------------------------------
(* Truth. From the host's write through acknowledgement, outcome, record and*)
(* image to the answer, what is said was done.                              *)

\* the host typed a whole text of this operation, with this fingerprint
Typed(k, p) == \E d \in Calls : KeyOf(d) = k /\ req[d].print = p /\ written[d] = "full"

\* what an acknowledgement on its way says, the host did
AcksTrue == \A a \in acks : a.delivered => written[a.call] = "full"
\* what a store says was delivered was typed
RecordTrue(m) == \A k \in Key : m[k].state = "delivered" => Typed(k, m[k].print)
\* so does memory, and every image a crash could bring back
RecordsTrue == RecordTrue(ops) /\ \A i \in 1..Len(images) : RecordTrue(images[i].ops)
\* what a dispatch settled with is true of its own fingerprint
OutcomesTrue == \A c \in Calls : outcome[c] = "delivered" => Typed(KeyOf(c), req[c].print)
\* who is answered is done
AnsweredOnce == \A c \in Calls : reply[c] # "none" => pc[c] = "done"

TruthInvariant == AcksTrue /\ RecordsTrue /\ OutcomesTrue /\ AnsweredOnce /\ TruthfulDelivery

\* Only the host types.
LEMMA WrittenMove ==
  ASSUME [Next]_vars
  PROVE  \/ UNCHANGED written
         \/ \E c \in Calls, e \in {"none", "part", "full"} : HostWrites(c, e)
  BY Resumes DEF Next, Step, Host, Relay, vars, hostVars, Begin, Claim, TakeLease, StartDispatch, Emit,
         HoldBack, AckTimeout, Cancel, Finish, SendAck, Mint, Revoke, ExpireGrant,
         HostDrop, HostReturn, Resume, TaskExit, EndRun, StoreGrants, Commit, Crash

\* Only the host acknowledges.
LEMMA AcksMove ==
  ASSUME [Next]_vars
  PROVE  \/ acks' \subseteq acks
         \/ \E c \in Calls, e \in {"none", "part", "full"} : HostWrites(c, e)
  BY Resumes DEF Next, Step, Host, Relay, vars, hostVars, Begin, Claim, TakeLease, StartDispatch, Emit,
         HoldBack, AckTimeout, Cancel, Finish, SendAck, Mint, Revoke, ExpireGrant,
         HostDrop, HostReturn, Resume, TaskExit, EndRun, StoreGrants, Commit, Crash

\* Every image holds the operations of an older one, or those of memory, or none.
LEMMA ImagesMove ==
  ASSUME TypeOK, [Next]_vars, ~Crash, NEW i \in 1..Len(images')
  PROVE  \/ images'[i].ops \in {ops', NoOps}
         \/ \E j \in 1..Len(images) : images'[i].ops = images[j].ops
<1> DEFINE Old == \E j \in 1..Len(images) : images'[i].ops = images[j].ops
           New == images'[i].ops \in {ops', NoOps}
<1>0. /\ Len(images) \in Nat /\ Len(images) >= 1 /\ images \in Seq(Image)
      /\ Newest = images[Len(images)] /\ Newest' = images'[Len(images')]
  BY ImageType DEF Newest, TypeOK
<1>1. \/ UNCHANGED images
      \/ PutOps(ops') /\ ops' \in [Key -> OpRec]
      \/ \E m \in SUBSET Grants : PutGrants(m)
      \/ \E m \in 1..MaxRun : PutRun(m)
      \/ Commit
  <2>1. TypeOK'
    BY TypeStep
  <2>2. ops' \in [Key -> OpRec] /\ held' \in SUBSET Grants /\ run' \in 1..MaxRun /\ held \in SUBSET Grants
    BY <2>1 DEF TypeOK
  <2>. QED BY <2>2, Resumes DEF Next, Step, Host, Relay, vars, Begin, Claim, TakeLease,
         StartDispatch, Emit, HoldBack, AckTimeout, Cancel, Finish, HostWrites, SendAck, Mint, Revoke,
         ExpireGrant, HostDrop, HostReturn, Resume, TaskExit, EndRun, StoreGrants
<1>2. CASE UNCHANGED images
  BY <1>2
<1>3. ASSUME Len(images') = Len(images) + 1,
             \A j \in 1..Len(images) : images'[j] = images[j],
             Newest'.ops \in {Newest.ops, ops', NoOps}
      PROVE  New \/ Old
  <2>1. CASE i <= Len(images)
    BY <1>0, <1>3, <2>1
  <2>2. CASE i = Len(images) + 1
    BY <1>0, <1>3, <2>2
  <2>. QED BY <1>0, <1>3, <2>1, <2>2
<1>4. CASE PutOps(ops') /\ ops' \in [Key -> OpRec]
  BY <1>3, <1>4, PutOpsShape
<1>5. ASSUME NEW m \in SUBSET Grants, PutGrants(m) PROVE New \/ Old
  BY <1>3, <1>5, PutGrantsShape
<1>6. ASSUME NEW m \in 1..MaxRun, PutRun(m) PROVE New \/ Old
  BY <1>3, <1>6, PutRunShape
<1>7. CASE Commit
  <2>1. images' = Tail(images) /\ Len(images) > 1
    BY <1>7 DEF Commit
  <2>2. Len(images') = Len(images) - 1 /\ images'[i] = images[i + 1]
    BY <1>0, <2>1
  <2>. QED BY <1>0, <2>2
<1>. QED BY <1>1, <1>2, <1>4, <1>5, <1>6, <1>7

\* A dispatch settles as delivered only by the acknowledgement of its own frame.
LEMMA OutcomeMove ==
  ASSUME TypeOK, WaitersWait, Owned, [Next]_vars, ~Crash, NEW c \in Calls, outcome'[c] = "delivered"
  PROVE  \/ outcome[c] = "delivered"
         \/ \E a \in acks : a.delivered /\ a.call = c
<1>1. CASE pc[c] = "waiting" /\ pc'[c] = "settled"
  <2>1. ASSUME NEW x \in Waiters, Settle(x, "uncertain") PROVE outcome[c] = "delivered"
    BY <2>1 DEF Settle, TypeOK
  <2>2. ASSUME NEW cut, ResolveAll(cut) \/ AbortOnly(cut) PROVE outcome[c] = "delivered"
    BY <2>2 DEF ResolveAll, AbortOnly
  <2>3. ASSUME NEW a \in acks, a.delivered, a.call \in index,
               Settle(pending[KeyOf(a.call)], "delivered")
        PROVE  outcome[c] = "delivered" \/ a.call = c
    <3>1. pending[KeyOf(a.call)] = a.call
      BY <2>3 DEF Owned, IndexWaits, NoOrphanWaiter, TypeOK
    <3>. QED BY <2>3, <3>1 DEF Settle, TypeOK
  <2>4. ~ \E x \in Calls : Emit(x)
    BY <1>1 DEF Emit, TypeOK
  <2>. QED BY <1>1, <2>1, <2>2, <2>3, <2>4, WaiterMove DEF Owned
<1>2. CASE ~(pc[c] = "waiting" /\ pc'[c] = "settled")
  <2>1. Claim(c) \/ TakeLease(c) \/ Emit(c) \/ Finish(c) => outcome'[c] = outcome[c]
    BY DEF Claim, TakeLease, Emit, Finish
  <2>2. StartDispatch(c) => outcome'[c] # "delivered"
    BY DEF StartDispatch, TypeOK
  <2>. QED BY <1>2, <2>1, <2>2, CallMove, CallSteps
<1>. QED BY <1>1, <1>2

\* what a handler answers
Replies == {"delivered", "uncertain", "in_flight", "conflict", "busy", "disconnected", "revoked"}

\* The reply of a call is given once, and a final one is the outcome or the one on record.
LEMMA ReplyMove ==
  ASSUME TypeOK, [Next]_vars, ~Crash
  PROVE  \/ UNCHANGED reply
         \/ \E c \in Calls, r \in Replies :
               /\ pc[c] # "done" /\ pc'[c] = "done"
               /\ reply' = [reply EXCEPT ![c] = r]
               /\ r \in {"delivered", "uncertain"} =>
                     \/ pc[c] = "recording" /\ r = outcome[c]
                     \/ r = ops[KeyOf(c)].state /\ ops[KeyOf(c)].print = req[c].print
<1> USE DEF Replies
<1> DEFINE Told == \E c \in Calls, r \in Replies :
               /\ pc[c] # "done" /\ pc'[c] = "done"
               /\ reply' = [reply EXCEPT ![c] = r]
               /\ r \in {"delivered", "uncertain"} =>
                     \/ pc[c] = "recording" /\ r = outcome[c]
                     \/ r = ops[KeyOf(c)].state /\ ops[KeyOf(c)].print = req[c].print
<1>0. ASSUME NEW c \in Calls, pc[c] # "done",
             NEW r \in Replies,
             Answer(c, r),
             r \in {"delivered", "uncertain"} =>
                     \/ pc[c] = "recording" /\ r = outcome[c]
                     \/ r = ops[KeyOf(c)].state /\ ops[KeyOf(c)].print = req[c].print
      PROVE  Told
  BY <1>0 DEF Answer, TypeOK
<1> HIDE DEF Told
<1>1. ASSUME NEW c \in Calls, Begin(c) PROVE UNCHANGED reply \/ Told
  BY <1>0, <1>1 DEF Begin
<1>2. ASSUME NEW c \in Calls, Known(c) PROVE Told
  <2> DEFINE rec == ops[KeyOf(c)]
             r == CASE rec.print # req[c].print -> "conflict"
                    [] rec.print = req[c].print /\ rec.state \in {"delivered", "uncertain"} -> rec.state
                    [] OTHER -> "in_flight"
  <2>1. Answer(c, r) /\ pc[c] # "done"
    BY <1>2 DEF Known
  <2>2. r \in {"delivered", "uncertain", "in_flight", "conflict"}
    OBVIOUS
  <2>3. r \in {"delivered", "uncertain"} => r = rec.state /\ rec.print = req[c].print
    OBVIOUS
  <2> HIDE DEF r
  <2>. QED BY <1>0, <2>1, <2>2, <2>3
<1>3. ASSUME NEW c \in Calls, NEW h \in BOOLEAN, Refuse(c, h) PROVE Told
  BY <1>0, <1>3 DEF Refuse
<1>4. ASSUME NEW c \in Calls, Conclude(c) PROVE Told
  <2>1. outcome[c] \in {"delivered", "uncertain"}
    BY <1>4 DEF Conclude, TypeOK
  <2>. QED BY <1>0, <1>4, <2>1 DEF Conclude
<1>5. \/ UNCHANGED reply
      \/ \E c \in Calls : Begin(c) \/ Known(c) \/ (\E h \in BOOLEAN : Refuse(c, h)) \/ Conclude(c)
  BY DEF Next, Step, Host, Relay, vars, callVars, Claim, TakeLease, StartDispatch, Emit,
         HoldBack, AckTimeout, Cancel, Finish, HostWrites, SendAck, Mint, Revoke, ExpireGrant,
         HostDrop, HostReturn, Resume, TaskExit, EndRun, StoreGrants, Commit
<1>. QED BY <1>1, <1>2, <1>3, <1>4, <1>5 DEF Told

\* What is typed stays typed.
LEMMA TypedStays ==
  ASSUME TypeOK, SendInvariant, [Next]_vars, NEW d \in Calls, written[d] = "full"
  PROVE  written'[d] = "full"
<1>1. ASSUME NEW c \in Calls, NEW e, HostWrites(c, e) PROVE written'[d] = "full"
  BY <1>1 DEF HostWrites, SendInvariant, Progressed, TypeOK
<1>. QED BY <1>1, WrittenMove

\* No step records, acknowledges or says that a text was typed when it was not.
LEMMA TruthStep ==
  ASSUME InputGate, TypeOK, WaitersWait, SendInvariant, Owned, LeaseInvariant,
         TruthInvariant, [Next]_vars
  PROVE  TruthInvariant'
<1> DEFINE TypedNext(k, p) == \E d \in Calls : KeyOf(d) = k /\ req[d].print = p /\ written'[d] = "full"
<1>0. \A k, p : Typed(k, p) => TypedNext(k, p)
  BY TypedStays DEF Typed
<1>1. /\ \A c \in Calls : KeyOf(c) \in Key /\ KeyOf(c)' = KeyOf(c)
      /\ req' = req
      /\ \A k, p : Typed(k, p)' <=> TypedNext(k, p)
  BY KeyType, RequestsStay DEF KeyOf, Typed
<1> HIDE DEF TypedNext
<1>2. AcksTrue'
  <2>1. ASSUME NEW c \in Calls, NEW e, HostWrites(c, e) PROVE AcksTrue'
    <3>1. \A a \in acks : a.delivered => a.call # c
      BY <2>1 DEF HostWrites, TruthInvariant, AcksTrue, SendInvariant, Progressed, TypeOK
    <3>2. /\ acks' = acks \cup {[call |-> c, delivered |-> (e = "full")]} 
          /\ written' = [written EXCEPT ![c] = e]
      BY <2>1 DEF HostWrites
    <3>3. \A a \in acks' : a \in acks \/ (a.call = c /\ (a.delivered => e = "full"))
      <4>1. ASSUME NEW a, a = [call |-> c, delivered |-> (e = "full")]
            PROVE  a.call = c /\ a.delivered = (e = "full")
        BY <4>1
      <4>. QED BY <3>2, <4>1, Zenon
    <3>. QED BY <3>1, <3>2, <3>3 DEF TruthInvariant, AcksTrue, TypeOK
  <2>. QED BY <2>1, AcksMove, WrittenMove DEF TruthInvariant, AcksTrue
<1>3. \A k \in Key : ops'[k].state = "delivered" => TypedNext(k, ops'[k].print)
  <2>1. ASSUME NEW k \in Key, ops'[k] = ops[k], ops'[k].state = "delivered"
        PROVE  TypedNext(k, ops'[k].print)
    BY <1>0, <2>1 DEF TruthInvariant, RecordsTrue, RecordTrue
  <2>2. ASSUME NEW c \in Calls, Claim(c), NEW k \in Key, ops'[k].state = "delivered"
        PROVE  ops'[k] = ops[k]
    <3>1. /\ ops'[KeyOf(c)] = [print |-> req[c].print, state |-> "claiming"]
          /\ k = KeyOf(c) \/ ops'[k] = ops[k] \/ ops'[k] = Absent
      BY <2>2, ClaimOps
    <3>. QED BY <2>2, <3>1 DEF Absent
  <2>3. ASSUME NEW c \in Calls, TakeLease(c), NEW k \in Key, ops'[k].state = "delivered"
        PROVE  ops'[k] = ops[k]
    <3>1. "dispatched" \in OpState \ {"absent"} /\ ops' = Marked(KeyOf(c), "dispatched")
      BY <2>3 DEF TakeLease, OpState
    <3>2. /\ k # KeyOf(c) => ops'[k] = ops[k]
          /\ Present(KeyOf(c)) => ops'[KeyOf(c)].state = "dispatched"
      BY <1>1, <3>1, MarkedOps
    <3>3. ~Present(KeyOf(c)) => ops' = ops
      BY <3>1 DEF Marked
    <3>. QED BY <2>3, <3>2, <3>3
  <2>4. ASSUME NEW c \in Calls, Finish(c), NEW k \in Key, ops'[k].state = "delivered", ops'[k] # ops[k]
        PROVE  TypedNext(k, ops'[k].print)
    <3>1. pc[c] = "settled" /\ outcome[c] \in OpState \ {"absent"} /\ ops' = Marked(KeyOf(c), outcome[c])
      BY <2>4 DEF Finish, TypeOK, OpState
    <3>2. /\ k # KeyOf(c) => ops'[k] = ops[k]
          /\ ops'[k].print = ops[k].print
          /\ Present(KeyOf(c)) => ops'[KeyOf(c)].state = outcome[c]
      BY <1>1, <3>1, MarkedOps
    <3>3. ~Present(KeyOf(c)) => ops' = ops
      BY <3>1 DEF Marked
    <3>4. k = KeyOf(c) /\ outcome[c] = "delivered"
      BY <2>4, <3>2, <3>3
    <3>5. ops[k].print = req[c].print
      BY <3>1, <3>4 DEF LeaseInvariant, WaitersStand, RecordKept, Leasing, Present
    <3>6. Typed(k, req[c].print)
      BY <3>4 DEF TruthInvariant, OutcomesTrue
    <3>. QED BY <1>0, <3>2, <3>5, <3>6
  <2>5. ASSUME NEW r, EndRun(r), NEW k \in Key PROVE ops'[k].state # "delivered"
    BY <2>5 DEF EndRun, NoOps, Absent
  <2>6. ASSUME Crash, NEW k \in Key, ops'[k].state = "delivered" PROVE TypedNext(k, ops'[k].print)
    <3>1. PICK i \in 1..Len(images) : ops' = [x \in Key |-> Recovered(images[i].ops[x])]
      BY <2>6 DEF Crash
    <3>2. images[i].ops[k] \in OpRec
      BY <3>1, ImageType DEF Image
    <3>3. images[i].ops[k].state = "delivered" /\ ops'[k] = images[i].ops[k]
      BY <2>6, <3>1, <3>2 DEF Recovered, OpRec
    <3>. QED BY <1>0, <3>1, <3>3 DEF TruthInvariant, RecordsTrue, RecordTrue
  <2>. QED BY <2>1, <2>2, <2>3, <2>4, <2>5, <2>6, OpsMove
<1>4. \A i \in 1..Len(images') : \A k \in Key :
        images'[i].ops[k].state = "delivered" => TypedNext(k, images'[i].ops[k].print)
  <2>1. ASSUME NEW i \in 1..Len(images'), NEW j \in 1..Len(images),
               images'[i].ops = images[j].ops, NEW k \in Key,
               images'[i].ops[k].state = "delivered"
        PROVE  TypedNext(k, images'[i].ops[k].print)
    BY <1>0, <2>1 DEF TruthInvariant, RecordsTrue, RecordTrue
  <2>2. CASE Crash
    <3>1. PICK i \in 1..Len(images) : images' = <<[images[i] EXCEPT !.ops = ops']>>
      BY <2>2 DEF Crash
    <3>2. images[i] \in Image
      BY ImageType
    <3>3. \A j \in 1..Len(images') : images'[j].ops = ops'
      BY <3>1, <3>2 DEF Image
    <3>. QED BY <1>3, <3>3
  <2>3. \A k \in Key : NoOps[k].state # "delivered"
    BY DEF NoOps, Absent
  <2>. QED BY <1>3, <2>1, <2>2, <2>3, ImagesMove
<1>5. RecordsTrue'
  BY <1>1, <1>3, <1>4 DEF RecordsTrue, RecordTrue
<1>6. OutcomesTrue'
  <2>1. ASSUME NEW c \in Calls, outcome'[c] = "delivered" PROVE TypedNext(KeyOf(c), req[c].print)
    <3>1. ~Crash
      BY <2>1 DEF Crash
    <3>2. CASE outcome[c] = "delivered"
      BY <1>0, <3>2 DEF TruthInvariant, OutcomesTrue
    <3>3. ASSUME NEW a \in acks, a.delivered, a.call = c PROVE Typed(KeyOf(c), req[c].print)
      BY <3>3 DEF TruthInvariant, AcksTrue, Typed
    <3>. QED BY <1>0, <2>1, <3>1, <3>2, <3>3, OutcomeMove
  <2>. QED BY <1>1, <2>1 DEF OutcomesTrue
<1>7. AnsweredOnce'
  <2>1. CASE Crash
    BY <2>1 DEF Crash, Active, TruthInvariant, AnsweredOnce, TypeOK
  <2>2. CASE ~Crash
    <3>1. ASSUME NEW c \in Calls, pc[c] = "done" PROVE pc'[c] = "done"
      BY <2>2, <3>1, CallMove, CallSteps
    <3>. QED BY <2>2, <3>1, ReplyMove DEF TruthInvariant, AnsweredOnce, TypeOK
  <2>. QED BY <2>1, <2>2
<1>8. TruthfulDelivery'
  <2>1. ASSUME NEW c \in Calls, reply'[c] = "delivered" PROVE TypedNext(KeyOf(c), req[c].print)
    <3>1. CASE reply[c] = "delivered"
      BY <1>0, <3>1 DEF TruthInvariant, TruthfulDelivery, Typed
    <3>2. CASE reply[c] # "delivered"
      <4>1. ~Crash
        BY <2>1, <3>2 DEF Crash
      <4>2. \/ pc[c] = "recording" /\ outcome[c] = "delivered"
            \/ ops[KeyOf(c)].state = "delivered" /\ ops[KeyOf(c)].print = req[c].print
        BY <2>1, <3>2, <4>1, ReplyMove DEF TypeOK
      <4>. QED BY <1>0, <1>1, <4>2 DEF TruthInvariant, OutcomesTrue, RecordsTrue, RecordTrue
    <3>. QED BY <3>1, <3>2
  <2>. QED BY <1>1, <2>1 DEF TruthfulDelivery, TypedNext
<1>. QED BY <1>2, <1>5, <1>6, <1>7, <1>8 DEF TruthInvariant

-----------------------------------------------------------------------------
(* The invariants from the start on, and what they are for.                 *)
(* The abstract promise is refined step by step: TypedOnce, ToldTruly.      *)

\* Nobody waits at the start.
LEMMA OwnedInit == Init => Owned
  BY DEF Init, Owned, NoOrphanWaiter, IndexWaits, Fresh, OneAlive, PreSend

\* Nobody holds the lease at the start.
LEMMA LeaseInit == Init => LeaseInvariant
  BY DEF Init, LeaseInvariant, OneStores, LeaseHeld, WaitersStand, RecordKept, Leasing

\* Nothing has been said at the start.
LEMMA TruthInit == Init => TruthInvariant
<1> SUFFICES ASSUME Init PROVE TruthInvariant
  OBVIOUS
<1>1. Len(images) = 1 /\ images[1].ops = NoOps /\ ops = NoOps
  BY DEF Init
<1>2. RecordsTrue
  BY <1>1 DEF RecordsTrue, RecordTrue, NoOps, Absent
<1>. QED BY <1>2 DEF Init, TruthInvariant, AcksTrue, OutcomesTrue, AnsweredOnce, TruthfulDelivery

\* No entry is there at the start.
LEMMA WaitersInit == Init => WaitersWait
  BY DEF Init, WaitersWait

\* The entries of mcpPendingSends and the calls that wait are one and the same.
LEMMA SenderSafe == Spec => []WaitersWait /\ []Owned
<1>1. TypeOK /\ WaitersWait /\ SendInvariant /\ Owned /\ [Next]_vars => Owned'
  BY OwnedStep
<1>2. TypeOK /\ WaitersWait /\ [Next]_vars => WaitersWait'
  BY WaitersStep
<1>. QED BY <1>1, <1>2, OwnedInit, WaitersInit, TypeCorrect, SendInvariantHolds, PTL DEF Spec

\* A waiting handler always owns the entry its acknowledgement and its timer settle, with and
\* without the input gate.
THEOREM NoOrphanWaiterHolds == Spec => []NoOrphanWaiter
<1>1. Owned => NoOrphanWaiter
  BY DEF Owned
<1>. QED BY <1>1, SenderSafe, PTL

\* With the input gate the lease keeps the writers apart.
LEMMA LeaseInvariantHolds == ASSUME InputGate PROVE Spec => []LeaseInvariant
<1>1. TypeOK /\ WaitersWait /\ SendInvariant /\ Owned /\ LeaseInvariant /\ [Next]_vars
      => LeaseInvariant'
  BY LeaseStep DEF Owned
<1>. QED BY <1>1, LeaseInit, SenderSafe, TypeCorrect, SendInvariantHolds, PTL DEF Spec

\* With the input gate, whoever waits for an acknowledgement holds the writer lease, alone.
THEOREM SingleWriterHolds == ASSUME InputGate PROVE Spec => []SingleWriter
<1>1. LeaseInvariant => SingleWriter
  BY DEF LeaseInvariant, LeaseHeld, WaitersStand, Leasing, SingleWriter
<1>. QED BY <1>1, LeaseInvariantHolds, PTL

\* Nobody lets go of the lease but who gives it back, and the end of a run or of the relay's instance.
LEMMA OwnedLeaseStep ==
  ASSUME TypeOK, WaitersWait, LeaseOwned, [Next]_vars
  PROVE  LeaseOwned'
<1>. USE ConstantsAssumption
<1>1. CASE Crash
  BY <1>1 DEF Crash, LeaseOwned
<1>2. ASSUME NEW r, EndRun(r) PROVE LeaseOwned'
  BY <1>2 DEF EndRun, LeaseOwned
<1>3. \A c \in Calls : GrantOf(c)' = GrantOf(c)
  BY RequestsStay DEF GrantOf
<1>4. ASSUME NEW c \in Calls, TakeLease(c) PROVE LeaseOwned'
  <2>1. lease' = GrantOf(c) /\ pc'[c] = "storing"
    BY <1>4, CallSteps DEF TakeLease
  <2>. QED BY <1>3, <2>1 DEF LeaseOwned
<1>5. ASSUME ~Crash, NEW c \in Calls, Leasing(c), ~Finish(c) PROVE Leasing(c)'
  <2>1. pc[c] \notin {"hashing", "recording", "idle", "claiming"}
    BY <1>5 DEF Leasing
  <2>2. ~Begin(c) /\ ~Known(c) /\ (\A h \in BOOLEAN : ~Refuse(c, h)) /\ ~Conclude(c) /\ ~Claim(c) /\ ~TakeLease(c)
    BY <2>1, Resumes, CallSteps DEF Begin
  <2>3. pc'[c] = pc[c] \/ StartDispatch(c) \/ Emit(c) \/ HoldBack(c) \/ pc'[c] = "settled"
    BY <1>5, <2>2, CallActs
  <2>. QED BY <1>5, <2>3, CallSteps DEF Leasing
<1>6. ASSUME ~Crash, NEW x \in Calls, Finish(x) PROVE LeaseOwned'
  <2>1. lease' = (IF lease = GrantOf(x) THEN NoGrant ELSE lease) /\ pc' = [pc EXCEPT ![x] = "recording"]
    BY <1>6 DEF Finish
  <2>2. CASE lease' # NoGrant
    <3>1. PICK c \in Calls : lease = GrantOf(c) /\ Leasing(c)
      BY <2>1, <2>2 DEF LeaseOwned, Leasing
    <3>2. lease' = lease /\ c # x
      BY <2>1, <2>2, <3>1
    <3>3. pc'[c] = pc[c]
      BY <2>1, <3>2 DEF TypeOK
    <3>. QED BY <1>3, <3>1, <3>2, <3>3 DEF LeaseOwned, Leasing
  <2>. QED BY <2>2 DEF LeaseOwned
<1>7. CASE ~Crash /\ UNCHANGED lease /\ \A x \in Calls : ~Finish(x)
  <2>1. CASE lease # NoGrant
    <3>1. PICK c \in Calls : lease = GrantOf(c) /\ Leasing(c)
      BY <2>1 DEF LeaseOwned, Leasing
    <3>2. Leasing(c)'
      BY <1>5, <1>7, <3>1
    <3>. QED BY <1>3, <1>7, <3>1, <3>2 DEF LeaseOwned, Leasing
  <2>. QED BY <1>7, <2>1 DEF LeaseOwned
<1>. QED BY <1>1, <1>2, <1>4, <1>6, <1>7, LeaseMove

\* The writer lease is never left behind: whoever holds it has a call under way that gives it back, with
\* and without the input gate.
THEOREM LeaseOwnedHolds == Spec => []LeaseOwned
<1>1. Init => LeaseOwned
  BY DEF Init, LeaseOwned
<1>. QED BY <1>1, OwnedLeaseStep, SenderSafe, TypeCorrect, PTL DEF Spec

\* With the input gate nothing untrue is recorded.
LEMMA TruthInvariantHolds == ASSUME InputGate PROVE Spec => []TruthInvariant
<1>1. TypeOK /\ WaitersWait /\ SendInvariant /\ Owned /\ LeaseInvariant /\ TruthInvariant /\ [Next]_vars
      => TruthInvariant'
  BY TruthStep
<1>. QED BY <1>1, TruthInit, LeaseInvariantHolds, SenderSafe, TypeCorrect,
            SendInvariantHolds, PTL DEF Spec

\* With the input gate a client is told "delivered" only if the host typed the whole text with
\* the fingerprint it asked for.
THEOREM TruthfulDeliveryHolds == ASSUME InputGate PROVE Spec => []TruthfulDelivery
<1>1. TruthInvariant => TruthfulDelivery
  BY DEF TruthInvariant
<1>. QED BY <1>1, TruthInvariantHolds, PTL

\* At the start nothing is typed and nothing is said.
LEMMA PromiseInitially == Init => Contract!PromiseInit
  BY DEF Init, Contract!PromiseInit, SendEffect, SendTold

\* The promise is kept by a step of the host.
LEMMA TypedOnce ==
  ASSUME TypeOK, SendInvariant, SendInvariant', NEW c \in Calls,
         NEW e \in {"none", "part", "full"}, HostWrites(c, e)
  PROVE  [Contract!PromiseNext]_<<SendEffect, SendTold>>
<1> DEFINE k == KeyOf(c)
           s == [attempt |-> c, print |-> req[c].print, whole |-> (e = "full")]
<1>1. /\ c \in toHost /\ written' = [written EXCEPT ![c] = e]
      /\ req' = req /\ reply' = reply /\ k \in Key /\ written[c] = "none"
      /\ \A d \in Calls : KeyOf(d)' = KeyOf(d)
  BY KeyType DEF HostWrites, callVars, SendInvariant, Progressed, KeyOf
<1>2. SendTold' = SendTold
  BY <1>1 DEF SendTold
<1>3. CASE e = "none"
  <2>1. written' = written
    BY <1>1, <1>3 DEF TypeOK
  <2>2. SendEffect' = SendEffect
    BY <1>1, <2>1 DEF SendEffect
  <2>. QED BY <1>2, <2>2
<1>4. CASE e # "none"
  <2>1. \A d \in Calls : d # c /\ KeyOf(d) = k => written[d] = "none"
    <3>1. \A d \in Calls : d # c /\ KeyOf(d) = k => written'[c] = "none" \/ written'[d] = "none"
      BY <1>1 DEF SendInvariant, AtMostOnce
    <3>. QED BY <1>1, <1>4, <3>1 DEF TypeOK
  <2>2. SendEffect[k] = {}
    BY <1>1, <2>1 DEF SendEffect
  <2>3. SendEffect' = [SendEffect EXCEPT ![k] = {s}]
    <3> DEFINE Eff(w, x) == {[attempt |-> b, print |-> req[b].print, whole |-> (w[b] = "full")] :
                            b \in {d \in Calls : KeyOf(d) = x /\ w[d] # "none"}}
    <3>1. SendEffect = [x \in Key |-> Eff(written, x)] /\ SendEffect' = [x \in Key |-> Eff(written', x)]
      BY <1>1 DEF SendEffect
    <3>2. ASSUME NEW x \in Key, x # k PROVE Eff(written', x) = Eff(written, x)
      <4>1. {d \in Calls : KeyOf(d) = x /\ written'[d] # "none"}
            = {d \in Calls : KeyOf(d) = x /\ written[d] # "none"}
        BY <1>1, <3>2 DEF TypeOK
      <4>2. \A d \in Calls : KeyOf(d) = x => written'[d] = written[d]
        BY <1>1, <3>2 DEF TypeOK
      <4>. QED BY <4>1, <4>2
    <3>3. Eff(written', k) = {s}
      <4>1. {d \in Calls : KeyOf(d) = k /\ written'[d] # "none"} = {c}
        BY <1>1, <1>4, <2>1 DEF TypeOK
      <4>2. written'[c] = e
        BY <1>1 DEF TypeOK
      <4>. QED BY <4>1, <4>2
    <3> HIDE DEF Eff
    <3>. QED BY <1>1, <3>1, <3>2, <3>3
  <2>4. s \in Contract!Effects
    <3>1. (e = "full") \in BOOLEAN /\ req[c].print \in Prints
      BY DEF TypeOK
    <3>. QED BY <3>1 DEF Contract!Effects
  <2> HIDE DEF s
  <2>5. Contract!Type(k, s)
    BY <1>2, <2>2, <2>3 DEF Contract!Type
  <2>. QED BY <1>1, <2>4, <2>5 DEF Contract!PromiseNext
<1>. QED BY <1>3, <1>4

\* What has been said of the operations, when what one call was told changes.
LEMMA ToldOnce ==
  ASSUME TypeOK, UNCHANGED req, NEW c \in Calls, reply[c] = "none", NEW r,
         reply' = [reply EXCEPT ![c] = r]
  PROVE  IF r \in {"delivered", "uncertain"}
           THEN SendTold' = [SendTold EXCEPT ![KeyOf(c)] =
                                @ \cup {[print |-> req[c].print, result |-> r]}]
           ELSE SendTold' = SendTold
<1> DEFINE k == KeyOf(c)
           Told(w, x) == {[print |-> req[b].print, result |-> w[b]] :
                            b \in {d \in Calls : KeyOf(d) = x /\ w[d] \in {"delivered", "uncertain"}}}
<1>1. /\ k \in Key /\ reply'[c] = r /\ \A d \in Calls : KeyOf(d)' = KeyOf(d)
      /\ \A d \in Calls : d # c => reply'[d] = reply[d]
  BY KeyType DEF TypeOK, KeyOf
<1>2. SendTold = [x \in Key |-> Told(reply, x)] /\ SendTold' = [x \in Key |-> Told(reply', x)]
  BY <1>1 DEF SendTold
<1>3. ASSUME NEW x \in Key, x # k \/ r \notin {"delivered", "uncertain"}
      PROVE  Told(reply', x) = Told(reply, x)
  <2>1. {d \in Calls : KeyOf(d) = x /\ reply'[d] \in {"delivered", "uncertain"}}
        = {d \in Calls : KeyOf(d) = x /\ reply[d] \in {"delivered", "uncertain"}}
    BY <1>1, <1>3
  <2>2. \A d \in Calls : KeyOf(d) = x /\ reply[d] \in {"delivered", "uncertain"} => reply'[d] = reply[d]
    BY <1>1
  <2>. QED BY <2>1, <2>2
<1>4. CASE r \in {"delivered", "uncertain"}
  <2>1. {d \in Calls : KeyOf(d) = k /\ reply'[d] \in {"delivered", "uncertain"}}
        = {d \in Calls : KeyOf(d) = k /\ reply[d] \in {"delivered", "uncertain"}} \cup {c}
    BY <1>1, <1>4
  <2>2. Told(reply', k) = Told(reply, k) \cup {[print |-> req[c].print, result |-> r]}
    BY <1>1, <2>1
  <2> HIDE DEF Told
  <2>. QED BY <1>1, <1>2, <1>3, <1>4, <2>2
<1>5. CASE r \notin {"delivered", "uncertain"}
  <2> HIDE DEF Told
  <2>. QED BY <1>2, <1>3, <1>5
<1>. QED BY <1>4, <1>5

\* The promise is kept by every other step: what is said is the truth.
LEMMA ToldTruly ==
  ASSUME TypeOK, TruthInvariant, TruthInvariant', [Next]_vars, UNCHANGED written
  PROVE  [Contract!PromiseNext]_<<SendEffect, SendTold>>
<1>1. UNCHANGED req /\ \A d \in Calls : KeyOf(d)' = KeyOf(d)
  BY RequestsStay DEF KeyOf
<1>2. SendEffect' = SendEffect
  BY <1>1 DEF SendEffect
<1>3. \A c \in Calls : pc[c] # "done" => reply[c] = "none"
  BY DEF TruthInvariant, AnsweredOnce
<1>4. CASE UNCHANGED reply
  <2>1. SendTold' = SendTold
    BY <1>1, <1>4 DEF SendTold
  <2>. QED BY <1>2, <2>1
<1>5. CASE Crash
  <2>1. \A d \in Calls : reply'[d] = reply[d] \/ (reply[d] = "none" /\ reply'[d] = "lost")
    BY <1>3, <1>5 DEF Crash, Active
  <2>2. \A x : {d \in Calls : KeyOf(d) = x /\ reply'[d] \in {"delivered", "uncertain"}}
             = {d \in Calls : KeyOf(d) = x /\ reply[d] \in {"delivered", "uncertain"}}
    BY <2>1
  <2>3. \A d \in Calls : reply[d] \in {"delivered", "uncertain"} => reply'[d] = reply[d]
    BY <2>1
  <2>4. SendTold' = SendTold
    BY <1>1, <2>2, <2>3 DEF SendTold
  <2>. QED BY <1>2, <2>4
<1>6. ASSUME NEW c \in Calls, NEW r, pc[c] # "done", reply' = [reply EXCEPT ![c] = r]
      PROVE  [Contract!PromiseNext]_<<SendEffect, SendTold>>
  <2> DEFINE s == [print |-> req[c].print, result |-> r]
  <2>1. reply[c] = "none" /\ KeyOf(c) \in Key
    BY <1>3, <1>6, KeyType
  <2>2. CASE r \notin {"delivered", "uncertain"}
    BY <1>1, <1>2, <1>6, <2>1, <2>2, ToldOnce
  <2>3. CASE r \in {"delivered", "uncertain"}
    <3>1. SendTold' = [SendTold EXCEPT ![KeyOf(c)] = @ \cup {s}]
      BY <1>1, <1>6, <2>1, <2>3, ToldOnce
    <3>2. s \in Contract!Sayings
      BY <2>3 DEF Contract!Sayings, TypeOK
    <3>3. ASSUME r = "delivered"
          PROVE  \E e \in SendEffect[KeyOf(c)] : e.whole /\ e.print = s.print
      <4>1. reply'[c] = "delivered"
        BY <1>6, <3>3 DEF TypeOK
      <4>2. PICK d \in Calls : KeyOf(d) = KeyOf(c) /\ req[d].print = req[c].print /\ written[d] = "full"
        BY <1>1, <4>1 DEF TruthInvariant, TruthfulDelivery
      <4> DEFINE e == [attempt |-> d, print |-> req[d].print, whole |-> (written[d] = "full")]
      <4>3. e \in SendEffect[KeyOf(c)]
        BY <2>1, <4>2 DEF SendEffect
      <4>4. e.whole = (written[d] = "full") /\ e.print = s.print
        BY <4>2
      <4> HIDE DEF e
      <4>. QED BY <4>2, <4>3, <4>4
    <3>4. s.result = r
      OBVIOUS
    <3> HIDE DEF s
    <3>5. Contract!Tell(KeyOf(c), s)
      BY <1>2, <3>1, <3>3, <3>4 DEF Contract!Tell
    <3>. QED BY <2>1, <3>2, <3>5 DEF Contract!PromiseNext
  <2>. QED BY <2>2, <2>3
<1>. QED BY <1>4, <1>5, <1>6, ReplyMove

\* With the input gate the handler implements the abstract promise: every step types one
\* operation for the first time, or says something true of one, or does neither.
THEOREM PromiseKept == ASSUME InputGate PROVE Spec => KeepsPromise
<1>1. TypeOK /\ SendInvariant /\ SendInvariant' /\ TruthInvariant /\ TruthInvariant' /\ [Next]_vars
      => [Contract!PromiseNext]_<<SendEffect, SendTold>>
  BY TypedOnce, ToldTruly, WrittenMove
<1>. QED
  BY <1>1, PromiseInitially, TruthInvariantHolds, TypeCorrect, SendInvariantHolds, PTL
  DEF Spec, KeepsPromise, Contract!Promise

-----------------------------------------------------------------------------
(* Answers. A client is told a result after the image with the record is    *)
(* confirmed; every image a crash could bring back has it too.              *)

\* the results that are recorded
Final == {"delivered", "uncertain"}
\* the record that a replay of the answer of a call is given from
Answered(c) == [print |-> req[c].print, state |-> reply[c]]

\* at most one call has a result to record
OneRecords ==
    \A c, d \in Calls :
        pc[c] \in {"settled", "recording"} /\ pc[d] \in {"settled", "recording"} => c = d

\* its record says its result, unless its grant is gone
Recorded ==
    \A c \in Calls : pc[c] = "recording" /\ ~Gone(GrantOf(c)) =>
        ops[KeyOf(c)] = [print |-> req[c].print, state |-> outcome[c]]

\* a result on record is in every image, but for the images before the write that brings it
ResultsStored ==
    /\ Newest.ops = ops
    /\ \A k \in Key, i \in 1..Len(images) :
           /\ ops[k].state \in Final
           /\ \A c \in Calls : pc[c] = "recording" /\ KeyOf(c) = k => putAt[c] <= i
           => images[i].ops[k] = ops[k]

\* what a client was told is on record, in memory and in every image a crash could bring back,
\* unless its grant is barred there
AnswersKept ==
    \A c \in Calls : reply[c] \in Final =>
        /\ Barred(Memory, GrantOf(c)) \/ ops[KeyOf(c)] = Answered(c)
        /\ \A i \in 1..Len(images) :
               Barred(images[i], GrantOf(c)) \/ images[i].ops[KeyOf(c)] = Answered(c)

AnswerInvariant == OneRecords /\ Recorded /\ ResultsStored /\ AnswersKept

\* What bars a grant in memory bars it in the newest image, after a step as before it.
LEMMA FollowsNext == ASSUME StorageFollows', NEW g, Barred(Memory, g)' PROVE Barred(Newest, g)'
<1>1. CASE g \in Newest'.held \ held'
  BY <1>1 DEF StorageFollows
<1>2. CASE g \notin Newest'.held \ held'
  BY <1>2 DEF StorageFollows, Barred, Memory
<1>. QED BY <1>1, <1>2

\* The exit of a program is never taken back.
LEMMA EndedMove == ASSUME [Next]_vars PROVE ended \subseteq ended'
  BY Resumes DEF Next, Step, Host, Relay, vars, hostVars, Begin, Claim, TakeLease, StartDispatch,
         Emit, HoldBack, AckTimeout, Cancel, Finish, HostWrites, SendAck, Mint, Revoke, ExpireGrant,
         HostDrop, HostReturn, Resume, TaskExit, EndRun, StoreGrants, Commit, Crash

\* Grants only ever expire.
LEMMA ExpiredMove == ASSUME [Next]_vars PROVE expired \subseteq expired'
  BY Resumes DEF Next, Step, Host, Relay, vars, grantVars, Begin, Claim, TakeLease, StartDispatch,
         Emit, HoldBack, AckTimeout, Cancel, Finish, HostWrites, SendAck, Mint, Revoke, ExpireGrant,
         HostDrop, HostReturn, Resume, TaskExit, EndRun, StoreGrants, Commit, Crash

\* A call that waits for its result to be stored goes on only when it is.
LEMMA RecordingMove ==
  ASSUME TypeOK, WaitersWait, [Next]_vars, ~Crash, NEW c \in Calls, pc[c] = "recording"
  PROVE  \/ pc'[c] = "recording" /\ outcome'[c] = outcome[c]
         \/ Conclude(c)
<1>1. ~Begin(c) /\ ~Known(c) /\ ~(\E h \in BOOLEAN : Refuse(c, h))
  BY DEF Begin, Known, Refuse
<1>. QED BY <1>1, CallActs, CallSteps

\* What a step other than a crash may do to one record.
LEMMA RecordMove ==
  ASSUME TypeOK, [Next]_vars, ~Crash, NEW k \in Key
  PROVE  \/ ops'[k] = ops[k]
         \/ \E c \in Calls : /\ Claim(c) /\ KeyOf(c) = k /\ ops[k].state = "absent"
                             /\ ops'[k].state = "claiming"
         \/ (\E c \in Calls : Claim(c)) /\ ops'[k] = Absent /\ ~Live(k[1])
         \/ \E c \in Calls : TakeLease(c) /\ KeyOf(c) = k /\ ops'[k].state = "dispatched"
         \/ \E c \in Calls : /\ Finish(c) /\ KeyOf(c) = k /\ ops[k].state # "absent"
                             /\ ops'[k] = [print |-> ops[k].print, state |-> outcome[c]]
         \/ (\E r : EndRun(r)) /\ ops' = NoOps
<1>0. ops \in [Key -> OpRec] /\ \A c \in Calls : KeyOf(c) \in Key
  BY KeyType DEF TypeOK
<1>1. ASSUME NEW c \in Calls, Claim(c)
      PROVE  \/ ops'[k] = ops[k]
             \/ KeyOf(c) = k /\ ops[k].state = "absent" /\ ops'[k].state = "claiming"
             \/ ops'[k] = Absent /\ ~Live(k[1])
  <2>1. /\ ops'[KeyOf(c)] = [print |-> req[c].print, state |-> "claiming"]
        /\ k = KeyOf(c) \/ ops'[k] = ops[k] \/ (ops'[k] = Absent /\ ~Live(k[1]))
    BY <1>1, ClaimOps
  <2>2. ops'[KeyOf(c)].state = "claiming"
    BY <2>1
  <2>3. ops[KeyOf(c)].state = "absent"
    BY <1>1 DEF Claim, Present
  <2>. QED BY <2>1, <2>2, <2>3
<1>2. ASSUME NEW c \in Calls, TakeLease(c)
      PROVE  ops'[k] = ops[k] \/ (KeyOf(c) = k /\ ops'[k].state = "dispatched")
  <2>1. "dispatched" \in OpState \ {"absent"} /\ ops' = Marked(KeyOf(c), "dispatched")
    BY <1>2 DEF TakeLease, OpState
  <2>2. /\ k # KeyOf(c) => ops'[k] = ops[k]
        /\ Present(KeyOf(c)) => ops'[KeyOf(c)].state = "dispatched"
    BY <1>0, <2>1, MarkedOps
  <2>. QED BY <2>1, <2>2 DEF Marked
<1>3. ASSUME NEW c \in Calls, Finish(c)
      PROVE  \/ ops'[k] = ops[k]
             \/ /\ KeyOf(c) = k /\ ops[k].state # "absent"
                /\ ops'[k] = [print |-> ops[k].print, state |-> outcome[c]]
  <2>1. outcome[c] \in OpState \ {"absent"} /\ ops' = Marked(KeyOf(c), outcome[c])
    BY <1>3 DEF Finish, TypeOK, OpState
  <2>2. k # KeyOf(c) => ops'[k] = ops[k]
    BY <1>0, <2>1, MarkedOps
  <2>3. ops[k] \in OpRec
    BY <1>0
  <2>4. [ops[k] EXCEPT !.state = outcome[c]] = [print |-> ops[k].print, state |-> outcome[c]]
    BY <2>3 DEF OpRec
  <2>5. CASE Present(KeyOf(c)) /\ k = KeyOf(c)
    BY <1>0, <2>1, <2>4, <2>5 DEF Marked, Present
  <2>6. CASE ~Present(KeyOf(c))
    BY <2>1, <2>6 DEF Marked
  <2>. QED BY <2>2, <2>5, <2>6
<1>4. ASSUME NEW r, EndRun(r) PROVE ops' = NoOps
  BY <1>4 DEF EndRun
<1>. QED BY <1>1, <1>2, <1>3, <1>4, OpsMove

\* Every step but a crash either leaves storage alone, or has it confirm a write, or adds one
\* image, which has the operations as they are then; a call waits for the image it adds itself.
LEMMA StorageMove ==
  ASSUME TypeOK, [Next]_vars, ~Crash, Newest.ops = ops
  PROVE  \/ UNCHANGED <<images, putAt, ops>>
         \/ Commit
         \/ /\ Len(images') = Len(images) + 1
            /\ \A i \in 1..Len(images) : images'[i] = images[i]
            /\ Newest' = images'[Len(images) + 1] /\ Newest'.ops = ops'
            /\ \A c \in Calls : putAt'[c] \in {putAt[c], Len(images) + 1}
<1> DEFINE Grown == /\ Len(images') = Len(images) + 1
                    /\ \A i \in 1..Len(images) : images'[i] = images[i]
                    /\ Newest' = images'[Len(images) + 1] /\ Newest'.ops = ops'
                    /\ \A c \in Calls : putAt'[c] \in {putAt[c], Len(images) + 1}
<1>1. /\ ops' \in [Key -> OpRec] /\ held' \in SUBSET Grants /\ run' \in 1..MaxRun
      /\ held \in SUBSET Grants
  <2>1. TypeOK'
    BY TypeStep
  <2>. QED BY <2>1 DEF TypeOK
<1>2. \A c \in Calls : putAt' = [putAt EXCEPT ![c] = Len(images) + 1]
                       => \A d \in Calls : putAt'[d] \in {putAt[d], Len(images) + 1}
  BY DEF TypeOK
<1>3. ASSUME NEW c \in Calls, Claim(c) \/ TakeLease(c) \/ Finish(c) PROVE Grown
  BY <1>1, <1>2, <1>3, PutOpsShape DEF Claim, TakeLease, Finish
<1>4. ASSUME NEW m \in SUBSET Grants, PutGrants(m), UNCHANGED <<ops, putAt>> PROVE Grown
  BY <1>4, PutGrantsShape
<1>5. ASSUME NEW r \in 1..MaxRun, EndRun(r) PROVE Grown
  BY <1>5, PutRunShape DEF EndRun
<1>6. ASSUME NEW r, EndRun(r) PROVE r \in 1..MaxRun
  BY <1>1, <1>6 DEF EndRun
<1> SUFFICES UNCHANGED <<images, putAt, ops>> \/ Commit \/ Grown
  OBVIOUS
<1> HIDE DEF Grown
<1>7. CASE UNCHANGED <<images, putAt, ops>>
  BY <1>7
<1>8. ASSUME NEW c \in Calls, Begin(c) \/ Cancel(c) \/ Step(c)
      PROVE  UNCHANGED <<images, putAt, ops>> \/ Grown
  BY <1>3, <1>8, Resumes DEF Step, Begin, StartDispatch, Emit, HoldBack, AckTimeout, Cancel, relayVars
<1>9. CASE Host
  BY <1>9 DEF Host, HostWrites, SendAck, callVars, relayVars
<1>10. CASE Relay
  <2>1. ASSUME NEW g \in Grants, Mint(g) PROVE Grown
    BY <1>1, <1>4, <2>1 DEF Mint, callVars
  <2>2. ASSUME NEW gone, NEW cut, Revoke(gone, cut) PROVE Grown
    BY <1>1, <1>4, <2>2 DEF Revoke
  <2>3. CASE StoreGrants
    BY <1>1, <1>4, <2>3 DEF StoreGrants, callVars, relayVars
  <2>4. CASE Resume \/ TaskExit
    BY <1>5, <1>6, <2>4 DEF Resume, TaskExit
  <2>5. CASE (\E g \in Grants : ExpireGrant(g)) \/ HostDrop \/ HostReturn
    BY <2>5 DEF ExpireGrant, HostDrop, HostReturn, callVars, relayVars
  <2>. QED BY <1>10, <2>1, <2>2, <2>3, <2>4, <2>5 DEF Relay
<1>11. CASE UNCHANGED vars
  BY <1>11 DEF vars, callVars, relayVars
<1>. QED BY <1>8, <1>9, <1>10, <1>11 DEF Next

\* A grant that minted its run stays barred, in memory, and in the newest image with it.
LEMMA BarredMove ==
  ASSUME TypeOK, SendInvariant, [Next]_vars, ~Crash, NEW g \in Grants, grantRun[g] # 0
  PROVE  /\ Barred(Memory, g) => Barred(Memory, g)'
         /\ \A m : (g \notin m.held \/ grantRun[g] # m.run \/ g \in expired \/ grantRun[g] \in ended)
                => (g \notin m.held \/ grantRun'[g] # m.run \/ g \in expired' \/ grantRun'[g] \in ended')
<1>1. /\ grantRun'[g] = grantRun[g] /\ (Gone(g) => Gone(g)')
      /\ ended \subseteq ended' /\ expired \subseteq expired'
  BY GrantMove, EndedMove, ExpiredMove
<1>. QED BY <1>1 DEF Barred, Memory, Gone

\* With the input gate, and for the calls of a grant that is not gone, a result is recorded once,
\* by the call that has it; what is answered is on record and stays so.
LEMMA AnswerStep ==
  ASSUME InputGate, TypeOK, WaitersWait, SendInvariant, SendInvariant', Owned, LeaseInvariant,
         AnsweredOnce, AnswerInvariant, [Next]_vars, ~Crash
  PROVE  AnswerInvariant'
<1>1. \A c \in Calls : /\ KeyOf(c) \in Key /\ GrantOf(c) \in Grants /\ KeyOf(c)[1] = GrantOf(c)
                       /\ KeyOf(c)' = KeyOf(c) /\ GrantOf(c)' = GrantOf(c)
  BY KeyType, RequestsStay DEF KeyOf, GrantOf
<1>2. UNCHANGED req /\ Newest.ops = ops
  BY RequestsStay DEF AnswerInvariant, ResultsStored
<1>3. OneRecords'
  <2> SUFFICES ASSUME NEW c \in Calls, NEW d \in Calls, c # d,
                      pc'[c] \in {"settled", "recording"}, pc'[d] \in {"settled", "recording"}
               PROVE  FALSE
    BY DEF OneRecords
  <2>1. \A e \in Calls : pc'[e] \in {"settled", "recording"} =>
           \/ pc[e] \in {"settled", "recording"}
           \/ StartDispatch(e) \/ HoldBack(e)
           \/ pc[e] = "waiting" /\ EventOK
    BY CallMove, CallSteps
  <2>2. \A e, x \in Calls : e # x /\ (StartDispatch(e) \/ HoldBack(e)) => pc'[x] = pc[x]
    BY DEF StartDispatch, HoldBack, TypeOK
  <2>3. \A e, x \in Calls : pc[e] \in {"settled", "recording"} =>
           /\ ~EventOK /\ ~HoldBack(x) /\ ~StartDispatch(x)
    BY Undisturbed, CallSteps DEF LeaseInvariant, OneStores
  <2>4. pc[c] \notin {"settled", "recording"} /\ pc[d] \notin {"settled", "recording"}
    BY <2>1, <2>3 DEF AnswerInvariant, OneRecords
  <2>5. pc[c] = "waiting" /\ pc[d] = "waiting"
    BY <2>1, <2>2, <2>4
  <2>. QED BY <2>5 DEF LeaseInvariant, LeaseHeld, WaitersStand, Leasing
<1>4. Recorded'
  <2> SUFFICES ASSUME NEW c \in Calls, pc'[c] = "recording", ~Gone(GrantOf(c))'
               PROVE  ops'[KeyOf(c)] = [print |-> req[c].print, state |-> outcome'[c]]
    BY <1>1, <1>2 DEF Recorded
  <2>1. \/ pc[c] = "recording" /\ outcome'[c] = outcome[c]
        \/ Finish(c)
    BY CallMove, CallSteps
  <2>2. ~Gone(GrantOf(c))
    <3>1. grantRun[GrantOf(c)] # 0
      BY <2>1 DEF Finish, SendInvariant, Progressed
    <3>. QED BY <1>1, <3>1, GrantMove DEF Gone
  <2>3. CASE Finish(c)
    <3>1. ops[KeyOf(c)].print = req[c].print /\ Present(KeyOf(c)) /\ outcome'[c] = outcome[c]
      BY <2>2, <2>3 DEF Finish, LeaseInvariant, RecordKept, Leasing, Present
    <3>2. ops[KeyOf(c)] \in OpRec
      BY <1>1 DEF TypeOK
    <3>3. ops'[KeyOf(c)] = [ops[KeyOf(c)] EXCEPT !.state = outcome[c]]
      BY <1>1, <2>3, <3>1 DEF Finish, Marked, TypeOK
    <3>. QED BY <3>1, <3>2, <3>3 DEF OpRec
  <2>4. CASE pc[c] = "recording" /\ outcome'[c] = outcome[c]
    <3>1. ~EventOK /\ \A x \in Calls : ~Claim(x)
      BY <2>4, Undisturbed DEF Claim
    <3>2. \A x \in Calls : pc[x] \notin {"claiming", "settled"}
      BY <2>1, <2>4, CallSteps DEF LeaseInvariant, OneStores, AnswerInvariant, OneRecords, Finish
    <3>3. ops' = ops
      BY <3>1, <3>2, OpsMove DEF TakeLease, Finish, EndRun
    <3>. QED BY <2>2, <2>4, <3>3 DEF AnswerInvariant, Recorded
  <2>. QED BY <2>1, <2>3, <2>4
<1>5. \A c \in Calls : pc[c] = "recording" => pc'[c] = "recording" \/ putAt[c] <= 1
  BY RecordingMove DEF Conclude, Stored
<1>6. ResultsStored'
  <2>1. Newest'.ops = ops'
    <3>1. CASE UNCHANGED <<images, putAt, ops>>
      BY <1>2, <3>1 DEF Newest
    <3>2. CASE Commit
      <4>1. images \in Seq(Image) /\ images' = Tail(images) /\ Len(images) > 1 /\ ops' = ops
        BY <3>2 DEF Commit, relayVars, TypeOK
      <4>2. images'[Len(images')] = images[Len(images)]
        BY <4>1
      <4>. QED BY <1>2, <4>1, <4>2 DEF Newest
    <3>. QED BY <1>2, <3>1, <3>2, StorageMove
  <2>2. ASSUME NEW k \in Key, NEW i \in 1..Len(images'), ops'[k].state \in Final,
               \A c \in Calls : pc'[c] = "recording" /\ KeyOf(c) = k => putAt'[c] <= i
        PROVE  images'[i].ops[k] = ops'[k]
    <3>1. CASE Commit
      <4>1. /\ images'[i] = images[i + 1] /\ i + 1 \in 1..Len(images) /\ ops' = ops /\ pc' = pc
            /\ i \in Nat
        <5>1. images \in Seq(Image) /\ images' = Tail(images) /\ Len(images) > 1
          BY <3>1 DEF TypeOK, Commit
        <5>. QED BY <3>1, <5>1 DEF Commit, relayVars
      <4>2. \A c \in Calls : putAt[c] \in Nat /\ putAt'[c] = IF putAt[c] = 0 THEN 0 ELSE putAt[c] - 1
        BY <3>1 DEF Commit, TypeOK
      <4>3. \A c \in Calls : pc[c] = "recording" /\ KeyOf(c) = k => putAt[c] <= i + 1
        BY <2>2, <4>1, <4>2
      <4>. QED BY <2>2, <4>1, <4>3 DEF AnswerInvariant, ResultsStored
    <3>2. ASSUME i \in 1..Len(images), images'[i] = images[i], ops'[k] = ops[k],
                 \A c \in Calls : putAt'[c] \in {putAt[c], Len(images) + 1}
          PROVE  images'[i].ops[k] = ops'[k]
      <4>1. \A c \in Calls : pc[c] = "recording" /\ KeyOf(c) = k => putAt[c] <= i
        <5> SUFFICES ASSUME NEW c \in Calls, pc[c] = "recording", KeyOf(c) = k PROVE putAt[c] <= i
          OBVIOUS
        <5>1. Len(images) \in Nat /\ i \in Nat /\ 1 <= i /\ i <= Len(images)
          BY <3>2, ImageType
        <5>2. CASE putAt[c] <= 1
          BY <5>1, <5>2 DEF TypeOK
        <5>3. CASE pc'[c] = "recording"
          <6>1. putAt'[c] <= i /\ putAt'[c] \in {putAt[c], Len(images) + 1}
            BY <2>2, <3>2, <5>3
          <6>. QED BY <5>1, <6>1
        <5>. QED BY <1>5, <5>2, <5>3
      <4>. QED BY <2>2, <3>2, <4>1 DEF AnswerInvariant, ResultsStored
    <3>3. CASE UNCHANGED <<images, putAt, ops>>
      BY <3>2, <3>3
    <3>4. CASE /\ Len(images') = Len(images) + 1
               /\ \A j \in 1..Len(images) : images'[j] = images[j]
               /\ Newest' = images'[Len(images) + 1] /\ Newest'.ops = ops'
               /\ \A c \in Calls : putAt'[c] \in {putAt[c], Len(images) + 1}
      <4>1. i \in 1..Len(images) \/ i = Len(images) + 1
        BY <3>4, ImageType
      <4>2. ASSUME NEW c \in Calls, Finish(c), KeyOf(c) = k PROVE i = Len(images) + 1
        <5>1. pc'[c] = "recording" /\ putAt'[c] = Len(images) + 1
          BY <4>2 DEF Finish, TypeOK
        <5>. QED BY <2>2, <4>1, <4>2, <5>1, ImageType
      <4>3. ops'[k] = ops[k] \/ i = Len(images) + 1
        <5>1. NoOps[k].state = "absent" /\ Absent.state = "absent"
          BY DEF NoOps, Absent
        <5>. QED BY <2>2, <4>2, <5>1, RecordMove DEF Final
      <4>. QED BY <3>2, <3>4, <4>1, <4>3
    <3>. QED BY <1>2, <3>1, <3>3, <3>4, StorageMove
  <2>. QED BY <1>1, <2>1, <2>2 DEF ResultsStored
<1>7. AnswersKept'
  <2> SUFFICES ASSUME NEW c \in Calls, reply'[c] \in Final,
                      NEW g \in Grants, NEW k \in Key, g = GrantOf(c), k = KeyOf(c),
                      NEW rec, rec = [print |-> req[c].print, state |-> reply'[c]]
               PROVE  /\ Barred(Memory, g)' \/ ops'[k] = rec
                      /\ \A i \in 1..Len(images') : Barred(images[i], g)' \/ images'[i].ops[k] = rec
    BY <1>1, <1>2 DEF AnswersKept, Answered, Barred
  <2>1. (reply'[c] = reply[c] => Answered(c) = rec) /\ rec.state = reply'[c] /\ rec.state \in Final
    BY DEF Answered
  <2>2. CASE reply[c] \in Final /\ reply'[c] = reply[c]
    <3>1. pc[c] = "done" /\ grantRun[g] # 0 /\ g \in Grants /\ k \in Key /\ k[1] = g
      BY <1>1, <2>2 DEF AnsweredOnce, Final, SendInvariant, Progressed
    <3>2. /\ Barred(Memory, g) \/ ops[k] = rec
          /\ \A i \in 1..Len(images) : Barred(images[i], g) \/ images[i].ops[k] = rec
      BY <2>1, <2>2 DEF AnswerInvariant, AnswersKept
    <3>3. Barred(Memory, g)' \/ ops'[k] = rec
      <4> SUFFICES ASSUME ~Barred(Memory, g)' PROVE ops'[k] = rec
        OBVIOUS
      <4>1. ~Barred(Memory, g) /\ ops[k] = rec /\ ops[k].state \in Final /\ ~Gone(g) /\ Live(g)
        <5>1. ~Barred(Memory, g)
          BY <3>1, BarredMove
        <5>2. ops[k] = rec /\ ops[k].state = rec.state
          BY <3>2, <5>1
        <5>. QED BY <2>1, <5>1, <5>2, BarredMemory, NotLive DEF Gone
      <4>2. ASSUME NEW x \in Calls, TakeLease(x) \/ Finish(x), KeyOf(x) = k PROVE FALSE
        <5>1. GrantOf(x) = g /\ (pc[x] = "claiming" \/ Leasing(x))
          BY <4>2, CallSteps DEF Leasing, KeyOf, GrantOf
        <5>. QED BY <4>1, <4>2, <5>1 DEF LeaseInvariant, RecordKept, Final
      <4>3. ASSUME NEW r, EndRun(r) PROVE FALSE
        BY <4>3 DEF EndRun, Barred, Memory
      <4>. QED BY <3>1, <4>1, <4>2, <4>3, RecordMove DEF Final
    <3>4. ASSUME NEW i \in 1..Len(images') PROVE Barred(images[i], g)' \/ images'[i].ops[k] = rec
      <4>1. ASSUME NEW j \in 1..Len(images), images'[i] = images[j]
            PROVE  Barred(images[i], g)' \/ images'[i].ops[k] = rec
        BY <3>1, <3>2, <4>1, BarredMove DEF Barred
      <4>2. ASSUME i = Len(images'), Newest'.ops = ops'
            PROVE  Barred(images[i], g)' \/ images'[i].ops[k] = rec
        <5>1. Newest' = images'[i]
          BY <4>2 DEF Newest
        <5>2. Barred(Memory, g)' => Barred(images[i], g)'
          BY <5>1, FollowsNext DEF SendInvariant, Barred
        <5>. QED BY <3>3, <4>2, <5>1, <5>2
      <4>3. CASE Commit
        <5>1. images \in Seq(Image) /\ images' = Tail(images) /\ Len(images) > 1
          BY <4>3 DEF TypeOK, Commit
        <5>2. images'[i] = images[i + 1] /\ i + 1 \in 1..Len(images)
          BY <5>1
        <5>. QED BY <4>1, <5>2
      <4>. QED BY <1>2, <4>1, <4>2, <4>3, StorageMove, ImageType
    <3>. QED BY <1>1, <2>1, <3>3, <3>4
  <2>3. CASE ~(reply[c] \in Final /\ reply'[c] = reply[c])
    <3>1. /\ pc[c] # "done" /\ pc'[c] = "done"
          /\ \/ pc[c] = "recording" /\ reply'[c] = outcome[c]
             \/ reply'[c] = ops[k].state /\ ops[k].print = req[c].print
      BY <2>3, ReplyMove DEF TypeOK, Final
    <3>2. Begin(c) \/ Known(c) \/ (\E h \in BOOLEAN : Refuse(c, h)) \/ Conclude(c)
      BY <3>1, CallActs, CallSteps
    <3>3. ASSUME ops[k] = rec, UNCHANGED <<ops, images>>,
                 \A x \in Calls : pc[x] = "recording" /\ KeyOf(x) = k => putAt[x] <= 1
          PROVE  /\ ops'[k] = rec
                 /\ \A i \in 1..Len(images') : images'[i].ops[k] = rec
      <4>1. \A i \in 1..Len(images), x \in Calls :
               pc[x] = "recording" /\ KeyOf(x) = k => putAt[x] <= i
        BY <3>3, ImageType DEF TypeOK
      <4>. QED BY <2>1, <3>3, <4>1 DEF AnswerInvariant, ResultsStored
    <3>4. CASE Known(c)
      <4>1. pc[c] = "hashing" /\ EventOK /\ UNCHANGED <<ops, images>>
        BY <3>4, Resumes DEF Known
      <4>2. ops[k] = rec
        <5>1. ops[k] \in OpRec
          BY DEF TypeOK
        <5>. QED BY <3>1, <4>1, <5>1 DEF OpRec
      <4>. QED BY <3>3, <4>1, <4>2, Undisturbed
    <3>5. CASE Conclude(c)
      <4>1. pc[c] = "recording" /\ putAt[c] <= 1 /\ UNCHANGED <<ops, images>>
        BY <3>5, Resumes DEF Conclude, Stored
      <4>2. Live(g) /\ reply'[c] = outcome[c]
        BY <3>5 DEF Conclude, Answer, TypeOK, Final
      <4>3. ops[k] = rec
        BY <4>1, <4>2 DEF AnswerInvariant, Recorded, Live, Gone
      <4>4. \A x \in Calls : pc[x] = "recording" => x = c
        BY <4>1 DEF AnswerInvariant, OneRecords
      <4>. QED BY <3>3, <4>1, <4>3, <4>4
    <3>6. CASE Begin(c) \/ (\E h \in BOOLEAN : Refuse(c, h))
      <4>1. pc[c] \in {"idle", "hashing"} /\ (reply'[c] = reply[c] \/ reply'[c] \notin Final)
        BY <3>6 DEF Begin, Refuse, Answer, TypeOK, Final
      <4>2. reply[c] \notin Final
        BY <3>1 DEF AnsweredOnce, Final
      <4>. QED BY <4>1, <4>2
    <3>. QED BY <3>2, <3>4, <3>5, <3>6
  <2>. QED BY <2>2, <2>3
<1>. QED BY <1>3, <1>4, <1>6, <1>7 DEF AnswerInvariant

\* A crash brings back an image on which every answer is on record, unless its grant is barred.
LEMMA AnswerCrash ==
  ASSUME TypeOK, AnswersKept, AnsweredOnce, Crash
  PROVE  AnswerInvariant'
<1>1. PICK i \in 1..Len(images) :
        /\ run' = images[i].run
        /\ held' = images[i].held
        /\ ops' = [k \in Key |-> Recovered(images[i].ops[k])]
        /\ images' = <<[images[i] EXCEPT !.ops = ops']>>
  BY DEF Crash
<1>2. images[i] \in Image /\ UNCHANGED <<req, grantRun, expired, ended>>
  BY ImageType DEF Crash, grantVars, hostVars
<1>3. /\ Len(images') = 1 /\ images'[1].run = run' /\ images'[1].held = held'
      /\ images'[1].ops = ops' /\ Newest' = images'[1]
  <2>1. Len(images') = 1 /\ images'[1] = [images[i] EXCEPT !.ops = ops']
    BY <1>1
  <2>. QED BY <1>1, <1>2, <2>1 DEF Image, Newest
<1>4. OneRecords' /\ Recorded'
  <2>1. \A c \in Calls : pc'[c] \in {"idle", "done"}
    BY DEF Crash, Active, TypeOK
  <2>. QED BY <2>1 DEF OneRecords, Recorded
<1>5. ResultsStored'
  BY <1>3 DEF ResultsStored
<1>6. AnswersKept'
  <2> SUFFICES ASSUME NEW c \in Calls, reply'[c] \in Final,
                      NEW g \in Grants, NEW k \in Key, g = GrantOf(c), k = KeyOf(c),
                      NEW rec, rec = [print |-> req[c].print, state |-> reply'[c]]
               PROVE  /\ Barred(Memory, g)' \/ ops'[k] = rec
                      /\ \A j \in 1..Len(images') : Barred(images[j], g)' \/ images'[j].ops[k] = rec
    <3>1. \A c \in Calls : /\ KeyOf(c) \in Key /\ GrantOf(c) \in Grants
                           /\ KeyOf(c)' = KeyOf(c) /\ GrantOf(c)' = GrantOf(c)
      BY <1>2, KeyType DEF KeyOf, GrantOf
    <3>. QED BY <1>2, <3>1 DEF AnswersKept, Answered, Barred
  <2>1. reply'[c] = reply[c]
    BY DEF Crash, AnsweredOnce, Active, Final
  <2>2. Barred(images[i], g) \/ images[i].ops[k] = rec
    BY <2>1 DEF AnswersKept, Answered
  <2>3. images[i].ops[k] = rec => ops'[k] = rec
    <3>1. rec.state = reply'[c]
      OBVIOUS
    <3>. QED BY <1>1, <3>1 DEF Recovered, Final
  <2>4. Barred(images[i], g) => Barred(Memory, g)'
    BY <1>1, <1>2 DEF Barred, Memory
  <2>5. \A j \in 1..Len(images') : Barred(Memory, g)' => Barred(images[j], g)'
    BY <1>3 DEF Barred, Memory
  <2>. QED BY <1>3, <2>2, <2>3, <2>4, <2>5
<1>. QED BY <1>4, <1>5, <1>6 DEF AnswerInvariant

\* Nobody is answered at the start.
LEMMA AnswerInit == Init => AnswerInvariant
<1> SUFFICES ASSUME Init PROVE AnswerInvariant
  OBVIOUS
<1>1. Len(images) = 1 /\ images[1].ops = NoOps /\ ops = NoOps /\ Newest = images[1]
  BY DEF Init, Newest
<1>2. OneRecords /\ Recorded /\ AnswersKept
  BY DEF Init, OneRecords, Recorded, AnswersKept, Final
<1>3. ResultsStored
  BY <1>1 DEF ResultsStored
<1>. QED BY <1>2, <1>3 DEF AnswerInvariant

\* The answers of the calls stay on record, and a crash finds them there.
LEMMA AnswerInvariantHolds == ASSUME InputGate PROVE Spec => []AnswerInvariant
<1>1. /\ TypeOK /\ WaitersWait /\ SendInvariant /\ SendInvariant' /\ Owned /\ LeaseInvariant
      /\ TruthInvariant /\ AnswerInvariant /\ [Next]_vars
      => AnswerInvariant'
  <2>1. TruthInvariant => AnsweredOnce
    BY DEF TruthInvariant
  <2>2. AnswerInvariant => AnswersKept
    BY DEF AnswerInvariant
  <2>. QED BY <2>1, <2>2, AnswerStep, AnswerCrash
<1>. QED
  BY <1>1, AnswerInit, TruthInvariantHolds, LeaseInvariantHolds, SenderSafe, TypeCorrect,
     SendInvariantHolds, PTL
  DEF Spec

\* With the input gate two calls with the same operation and arguments are never told different
\* final results, while their grant lives and its program runs.
THEOREM RepliesAgreeHolds == ASSUME InputGate PROVE Spec => []RepliesAgree
<1>1. AnswerInvariant => RepliesAgree
  <2> SUFFICES ASSUME AnswersKept, NEW c \in Calls, NEW d \in Calls, req[c] = req[d],
                      Live(GrantOf(c)), grantRun[GrantOf(c)] \notin ended,
                      {reply[c], reply[d]} \subseteq Final
               PROVE  reply[c] = reply[d]
    BY DEF AnswerInvariant, RepliesAgree, Final
  <2>1. ~Barred(Memory, GrantOf(c)) /\ KeyOf(c) = KeyOf(d) /\ GrantOf(c) = GrantOf(d)
    BY LiveBarred DEF KeyOf, GrantOf
  <2>2. ops[KeyOf(c)] = Answered(c) /\ ops[KeyOf(c)] = Answered(d)
    BY <2>1 DEF AnswersKept
  <2>3. Answered(c).state = reply[c] /\ Answered(d).state = reply[d]
    BY DEF Answered
  <2>. QED BY <2>2, <2>3
<1>. QED BY <1>1, AnswerInvariantHolds, PTL
==============================================================================
