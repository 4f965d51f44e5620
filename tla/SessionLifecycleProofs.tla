------------------------ MODULE SessionLifecycleProofs ------------------------
(* Proofs about SessionLifecycle, for any number of connections, creations,   *)
(* deaths of the instance and ticks of a life: a stored session keeps an      *)
(* alarm, a session that is at rest says the truth about its host, and the    *)
(* presence service lists no session that has ended, and of one that is at    *)
(* rest exactly the sockets that are there.                                   *)
EXTENDS SessionLifecycle, FiniteSetTheorems, TLAPS

Update   == [sets : BOOLEAN, byAlarm : BOOLEAN]
Handler  == [at : {"open", "create", "arm", "persist", "exit", "delete"},
             conn : Conns \cup {Nobody}, life : 0..MaxStarts, byAlarm : BOOLEAN]
Clearing == [life : 1..MaxStarts, ahead : Nat, socks : SUBSET Conns]

Typed ==
  /\ persistent \in BOOLEAN
  /\ meta \in Meta /\ stored \in Meta /\ alarmIn \in 0..NoAlarm
  /\ gate \in Handler /\ conn \in [Conns -> States] /\ chain \in Seq(Update)
  /\ sending \in (0..MaxStarts) \X Entry
  /\ \A r \in clears : r \in Clearing /\ r.ahead <= Len(chain)
  /\ listed \in [1..MaxStarts -> Entry]
  /\ synced \in BOOLEAN /\ orphan \in BOOLEAN /\ missed \in {"nothing", "renewal", "sockets"}
  /\ starts \in 0..MaxStarts /\ crashes \in 0..MaxCrashes

\* What is stored is what the relay knows, but within a handler that stores it.
Match ==
  /\ gate.at \in {"open", "arm"} => meta = stored
  /\ gate.at \in {"create", "arm"} => meta.left = Ttl
  /\ gate.at \in {"create", "persist", "exit"} => meta.life # 0 /\ meta.left >= stored.left
  /\ gate.at \in {"persist", "exit"} => stored.life = meta.life
  /\ gate.at = "delete" => meta = Gone /\ gate.life # 0
  /\ gate.byAlarm => gate.at \in {"persist", "delete"}

\* An alarm that is set comes in time; none is missing but within the handlers
\* that will set it.
Asked   == \E i \in 1..Len(chain) : chain[i].byAlarm
Setting == \A i \in 1..Len(chain) : chain[i].byAlarm => chain[i].sets
Running == gate.byAlarm \/ Asked
Armed ==
  /\ Setting
  /\ stored.life # 0 /\ ~orphan => alarmIn # NoAlarm \/ Running \/ gate.at = "arm"
  /\ stored.life # 0 /\ alarmIn # NoAlarm => alarmIn <= stored.left \/ gate.at = "arm"

\* One host at most is read; one that the status leaves out is about to go.
Listening(h) == conn[h] \in {"open", "broken"}
Leaving(h)   == \E r \in clears : h \in r.socks
Served ==
  /\ \A h, k \in Hosts : Listening(h) /\ Listening(k) => h = k
  /\ meta.life = 0 => \A h \in Hosts : Listening(h) => gate.at = "delete" \/ Leaving(h)
  /\ meta.life # 0 /\ (missed # "sockets" \/ Running) =>
       /\ meta.status = "connected" => \E h \in Hosts : Listening(h) \/ conn[h] = "closing"
       /\ meta.status # "connected" =>
            \A h \in Hosts : Listening(h) => (gate.at = "exit" /\ gate.conn = h) \/ Leaving(h)

\* An ended life that is listed, or about to be, is still to be removed: after
\* the updates asked for before its end.
Ghostless ==
  crashes = 0 =>
    /\ \A l \in 1..MaxStarts : listed[l] # Absent =>
         l = meta.life \/ (gate.at = "delete" /\ gate.life = l) \/ \E r \in clears : r.life = l
    /\ sending[1] # 0 =>
         /\ chain # <<>>
         /\ \/ sending[1] = meta.life \/ (gate.at = "delete" /\ gate.life = sending[1])
            \/ \E r \in clears : r.life = sending[1] /\ r.ahead # 0

LifecycleInvariant == Typed /\ Match /\ Armed /\ Served /\ Ghostless

------------------------------------------------------------------------------
(* The records and sequences the handlers make.                               *)

\* Append adds one element at the end.
LEMMA Appending ==
  ASSUME NEW S, NEW s \in Seq(S), NEW e \in S
  PROVE  /\ Append(s, e) \in Seq(S) /\ Len(Append(s, e)) = Len(s) + 1
         /\ \A i \in 1..Len(s) : Append(s, e)[i] = s[i]
         /\ Append(s, e)[Len(s) + 1] = e
         /\ Append(s, e) # <<>>
OBVIOUS

\* Tail takes the first element away.
LEMMA TakingHead ==
  ASSUME NEW S, NEW s \in Seq(S), s # <<>>
  PROVE  /\ Head(s) = s[1] /\ Head(s) \in S /\ 1 \in 1..Len(s)
         /\ Tail(s) \in Seq(S) /\ Len(Tail(s)) = Len(s) - 1
         /\ \A i \in 1..Len(Tail(s)) : i + 1 \in 1..Len(s) /\ Tail(s)[i] = s[i + 1]
         /\ \A i \in 1..Len(s) : i = 1 \/ (i - 1 \in 1..Len(Tail(s)) /\ Tail(s)[i - 1] = s[i])
OBVIOUS

\* A session that has ended.
LEMMA GoneTyped == ASSUME LifecycleAssumption
  PROVE Gone \in Meta /\ Gone.life = 0 /\ Gone.left = 0 /\ Gone.status = "none"
<1>1. 0 \in 0..MaxStarts /\ 0 \in 0..Ttl
  BY DEF LifecycleAssumption
<1>. QED BY <1>1 DEF Gone, Meta

\* The gate is open, or a handler awaits storage.
LEMMA OpenTyped == ASSUME LifecycleAssumption
  PROVE Open \in Handler /\ Open.at = "open" /\ Open.life = 0 /\ Open.byAlarm = FALSE
<1>1. 0 \in 0..MaxStarts
  BY DEF LifecycleAssumption
<1>. QED BY <1>1 DEF Open, Handler

LEMMA Persisting ==
  ASSUME LifecycleAssumption, NEW at \in {"create", "arm", "persist", "exit"}, NEW c \in Conns \cup {Nobody},
         NEW b \in BOOLEAN, Persist(at, c, b)
  PROVE  gate' \in Handler /\ gate'.at = at /\ gate'.conn = c /\ gate'.byAlarm = b
<1>1. 0 \in 0..MaxStarts
  BY DEF LifecycleAssumption
<1>2. gate' = [at |-> at, conn |-> c, life |-> 0, byAlarm |-> b]
  BY DEF Persist, Open
<1>. QED BY <1>1, <1>2 DEF Handler

LEMMA Forgetting ==
  ASSUME LifecycleAssumption, NEW b \in BOOLEAN, meta \in Meta, Forget(b)
  PROVE  /\ meta' = Gone /\ meta' \in Meta /\ meta'.life = 0
         /\ gate' \in Handler /\ gate'.at = "delete" /\ gate'.life = meta.life /\ gate'.byAlarm = b
<1>1. gate' = [at |-> "delete", conn |-> Nobody, life |-> meta.life, byAlarm |-> b]
  BY DEF Forget, Open
<1>2. meta.life \in 0..MaxStarts
  BY DEF Meta
<1>3. meta' = Gone
  BY DEF Forget
<1>4. gate' \in Handler /\ gate'.at = "delete" /\ gate'.life = meta.life /\ gate'.byAlarm = b
  BY <1>1, <1>2 DEF Handler
<1>. QED BY <1>3, <1>4, GoneTyped

LEMMA AbsentTyped == ASSUME LifecycleAssumption PROVE Absent \in Entry
<1>1. Cardinality(Viewers) \in Nat /\ 0 \in 0..Lease
  BY FS_CardinalityType DEF LifecycleAssumption
<1>. QED BY <1>1 DEF Absent, Entry

\* A report is of the life that is, or of none.
LEMMA Reporting ==
  ASSUME LifecycleAssumption, NEW m \in Meta, NEW cs
  PROVE  Report(m, cs) \in (0..MaxStarts) \X Entry /\ Report(m, cs)[1] = m.life
<1>1. m.life \in 0..MaxStarts /\ Lease \in 0..Lease /\ 0 \in 0..MaxStarts
  BY DEF Meta, LifecycleAssumption
<1>2. Cardinality(Readable(cs) \cap Viewers) \in 0..Cardinality(Viewers)
  <2>1. Readable(cs) \cap Viewers \subseteq Viewers /\ IsFiniteSet(Viewers)
    BY DEF LifecycleAssumption
  <2>. QED BY <2>1, FS_Subset, FS_CardinalityType
<1> DEFINE host == m.status = "connected" /\ Readable(cs) \cap Hosts # {}
           viewers == Cardinality(Readable(cs) \cap Viewers)
           entry == IF host \/ viewers > 0 THEN [host |-> host, viewers |-> viewers, lease |-> Lease] ELSE Absent
<1>3. host \in BOOLEAN
  OBVIOUS
<1>4. entry \in Entry
  <2> HIDE DEF host, viewers
  <2>1. viewers \in 0..Cardinality(Viewers)
    BY <1>2 DEF viewers
  <2>. QED BY <1>1, <1>3, <2>1, AbsentTyped DEF Entry
<1>5. Report(m, cs) = IF m.life = 0 THEN <<0, Absent>> ELSE <<m.life, entry>>
  BY DEF Report
<1> HIDE DEF entry
<1>. QED BY <1>1, <1>4, <1>5, AbsentTyped

\* An update is asked for: it comes last.
LEMMA Refreshing ==
  ASSUME LifecycleAssumption, Typed, NEW s \in BOOLEAN, NEW b \in BOOLEAN, NEW m \in Meta, NEW cs, Refresh(s, b, m, cs)
  PROVE  /\ chain' \in Seq(Update) /\ Len(chain') = Len(chain) + 1 /\ chain' # <<>>
         /\ Asked' <=> b \/ Asked
         /\ Setting /\ (b => s) => Setting'
         /\ sending' \in (0..MaxStarts) \X Entry
         /\ sending'[1] = m.life \/ (chain # <<>> /\ sending' = sending)
         /\ clears' = clears /\ listed' = listed /\ synced' = TRUE
<1>1. [sets |-> s, byAlarm |-> b] \in Update
  BY DEF Update
<1>2. chain \in Seq(Update) /\ sending \in (0..MaxStarts) \X Entry
  BY DEF Typed
<1>3. chain' = Append(chain, [sets |-> s, byAlarm |-> b])
  BY DEF Refresh
<1>4. /\ sending' = IF chain = <<>> THEN Report(m, cs) ELSE sending
      /\ clears' = clears /\ listed' = listed /\ synced' = TRUE
  BY DEF Refresh
<1> DEFINE u == [sets |-> s, byAlarm |-> b]
<1>5. u.sets = s /\ u.byAlarm = b
  OBVIOUS
<1> HIDE DEF u
<1>6. u \in Update /\ chain' = Append(chain, u)
  BY <1>1, <1>3 DEF u
<1>7. /\ chain' \in Seq(Update) /\ Len(chain') = Len(chain) + 1 /\ chain' # <<>> /\ Len(chain) \in Nat
      /\ \A i \in 1..Len(chain) : chain'[i] = chain[i]
      /\ chain'[Len(chain) + 1] = u
  BY <1>2, <1>6, Appending
<1>8. \A i \in 1..Len(chain') : i \in 1..Len(chain) \/ i = Len(chain) + 1
  BY <1>7
<1>9. 1..Len(chain) \subseteq 1..Len(chain') /\ Len(chain) + 1 \in 1..Len(chain')
  BY <1>7
<1>10. Asked' <=> b \/ Asked
  BY <1>5, <1>7, <1>8, <1>9 DEF Asked
<1>11. Setting /\ (b => s) => Setting'
  BY <1>5, <1>7, <1>8 DEF Setting
<1>. QED BY <1>2, <1>4, <1>7, <1>10, <1>11, Reporting

\* The alarm that is set is of the time left at most.
LEMMA Scheduling ==
  ASSUME LifecycleAssumption, NEW m \in Meta, NEW cs, alarmIn \in 0..NoAlarm
  PROVE  /\ NextAlarm(m, cs) \in 0..NoAlarm
         /\ m.life = 0 => NextAlarm(m, cs) = alarmIn
         /\ m.life # 0 => NextAlarm(m, cs) <= m.left /\ NextAlarm(m, cs) # NoAlarm
<1>1. m.left \in 0..Ttl /\ Ttl \in Nat
  BY DEF Meta, LifecycleAssumption
<1>. QED BY <1>1 DEF NextAlarm, Min2, NoAlarm

\* A session is created or resumed.
LEMMA StartStep ==
  ASSUME LifecycleAssumption, LifecycleInvariant, Start
  PROVE  LifecycleInvariant'
<1>0. Typed /\ Match /\ Armed /\ Served /\ Ghostless
  BY DEF LifecycleInvariant
<1>1. UNCHANGED <<persistent, stored, alarmIn, conn, chain, sending, clears, listed,
     synced, crashes, orphan, missed>>
  BY <1>0 DEF Start, presVars, histVars
<1>2. gate = Open /\ gate.at = "open" /\ ~gate.byAlarm
  BY OpenTyped DEF Start
<1>3. /\ meta \in Meta /\ meta.life \in 0..MaxStarts /\ meta.left \in 0..Ttl /\ stored.left \in 0..Ttl
      /\ MaxStarts \in Nat /\ Ttl \in Nat /\ Ttl # 0 /\ Len(chain) \in Nat
  BY <1>0 DEF Typed, Meta, LifecycleAssumption
<1>4. /\ starts' = starts + 1 /\ starts < MaxStarts
      /\ meta' = IF meta.life = 0 THEN [life |-> starts + 1, status |-> "waiting", left |-> Ttl]
                 ELSE [meta EXCEPT !.left = Ttl]
  BY DEF Start
<1>5. /\ meta' \in Meta /\ meta'.left = Ttl /\ meta'.life # 0 /\ starts' \in 0..MaxStarts
      /\ meta.life = 0 => meta'.status = "waiting"
      /\ meta.life # 0 => meta'.life = meta.life /\ meta'.status = meta.status
  <2>1. CASE meta.life = 0
    BY <1>0, <1>3, <1>4, <2>1 DEF Typed, Meta
  <2>2. CASE meta.life # 0
    <3>1. Ttl \in 0..Ttl /\ starts' \in 0..MaxStarts
      BY <1>0, <1>3, <1>4 DEF Typed
    <3>. QED BY <1>3, <1>4, <2>2, <3>1 DEF Meta
  <2>. QED BY <2>1, <2>2
<1>6. gate' \in Handler /\ gate'.at = "create" /\ gate'.conn = Nobody /\ gate'.byAlarm = FALSE
  BY Persisting DEF Start
<1>7. Typed'
  BY <1>0, <1>1, <1>2, <1>3, <1>4, <1>5, <1>6 DEF Typed
<1>8. Match'
  BY <1>0, <1>1, <1>2, <1>3, <1>4, <1>5, <1>6 DEF Match
<1>9. Armed'
  BY <1>0, <1>1, <1>2, <1>3, <1>4, <1>5, <1>6 DEF Armed, Running, Asked, Setting
<1>10. Served'
  BY <1>0, <1>1, <1>2, <1>3, <1>4, <1>5, <1>6 DEF Served, Running, Asked, Listening, Leaving
<1>11. Ghostless'
  BY <1>0, <1>1, <1>2, <1>3, <1>4, <1>5, <1>6 DEF Ghostless
<1>. QED BY <1>7, <1>8, <1>9, <1>10, <1>11 DEF LifecycleInvariant

\* It is stored.
LEMMA StoreStartStep ==
  ASSUME LifecycleAssumption, LifecycleInvariant, StoreStart
  PROVE  LifecycleInvariant'
<1>0. Typed /\ Match /\ Armed /\ Served /\ Ghostless
  BY DEF LifecycleInvariant
<1>1. UNCHANGED <<persistent, meta, alarmIn, conn, chain, sending, clears, listed,
     synced, starts, crashes, orphan, missed>>
  BY <1>0 DEF StoreStart, presVars, histVars
<1>2. gate.at = "create" /\ ~gate.byAlarm /\ stored' = meta
  BY <1>0 DEF StoreStart, Match
<1>3. /\ meta \in Meta /\ meta.life \in 0..MaxStarts /\ meta.left \in 0..Ttl /\ stored.left \in 0..Ttl
      /\ MaxStarts \in Nat /\ Ttl \in Nat /\ Ttl # 0 /\ Len(chain) \in Nat
  BY <1>0 DEF Typed, Meta, LifecycleAssumption
<1>4. gate' \in Handler /\ gate'.at = "arm" /\ gate'.conn = Nobody /\ gate'.byAlarm = FALSE
  BY Persisting DEF StoreStart
<1>5. Typed'
  BY <1>0, <1>1, <1>2, <1>3, <1>4 DEF Typed
<1>6. Match'
  BY <1>0, <1>1, <1>2, <1>3, <1>4 DEF Match
<1>7. Armed'
  BY <1>0, <1>1, <1>2, <1>3, <1>4 DEF Armed, Running, Asked, Setting
<1>8. Served'
  BY <1>0, <1>1, <1>2, <1>3, <1>4 DEF Served, Running, Asked, Listening, Leaving
<1>9. Ghostless'
  BY <1>0, <1>1, <1>2, <1>3, <1>4 DEF Ghostless
<1>. QED BY <1>5, <1>6, <1>7, <1>8, <1>9 DEF LifecycleInvariant

\* Its alarm is set.
LEMMA ArmStep ==
  ASSUME LifecycleAssumption, LifecycleInvariant, Arm
  PROVE  LifecycleInvariant'
<1>0. Typed /\ Match /\ Armed /\ Served /\ Ghostless
  BY DEF LifecycleInvariant
<1>1. UNCHANGED <<persistent, meta, stored, conn, chain, sending, clears, listed,
     synced, starts, crashes>>
  BY <1>0 DEF Arm, presVars, histVars
<1>2. gate.at = "arm" /\ ~gate.byAlarm /\ alarmIn' = meta.left /\ orphan' = FALSE
  BY <1>0 DEF Arm, Match
<1>3. /\ meta \in Meta /\ meta.life \in 0..MaxStarts /\ meta.left \in 0..Ttl /\ stored.left \in 0..Ttl
      /\ MaxStarts \in Nat /\ Ttl \in Nat /\ Ttl # 0 /\ Len(chain) \in Nat
  BY <1>0 DEF Typed, Meta, LifecycleAssumption
<1>4. /\ missed' \in {"nothing", "renewal", "sockets"} /\ (missed' = "sockets" <=> missed = "sockets")
  BY <1>0 DEF Arm, Typed
<1>5. gate' \in Handler /\ gate'.at = "open" /\ ~gate'.byAlarm
  BY OpenTyped DEF Arm
<1>6. alarmIn' \in 0..NoAlarm /\ alarmIn' # NoAlarm
  BY <1>2, <1>3 DEF NoAlarm
<1>7. Typed'
  BY <1>0, <1>1, <1>2, <1>3, <1>4, <1>5, <1>6 DEF Typed
<1>8. Match'
  BY <1>0, <1>1, <1>2, <1>3, <1>4, <1>5, <1>6 DEF Match
<1>9. Armed'
  BY <1>0, <1>1, <1>2, <1>3, <1>4, <1>5, <1>6 DEF Armed, Running, Asked, Setting, Match
<1>10. Served'
  BY <1>0, <1>1, <1>2, <1>3, <1>4, <1>5, <1>6 DEF Served, Running, Asked, Listening, Leaving
<1>11. Ghostless'
  BY <1>0, <1>1, <1>2, <1>3, <1>4, <1>5, <1>6 DEF Ghostless
<1>. QED BY <1>7, <1>8, <1>9, <1>10, <1>11 DEF LifecycleInvariant

\* A connection is looked at; a session whose time is up ends.
LEMMA AskStep ==
  ASSUME LifecycleAssumption, LifecycleInvariant, NEW c \in Conns, Ask(c)
  PROVE  LifecycleInvariant'
<1>0. Typed /\ Match /\ Armed /\ Served /\ Ghostless
  BY DEF LifecycleInvariant
<1>1. UNCHANGED <<persistent, stored, alarmIn, chain, sending, clears, listed, synced,
     starts, crashes, orphan, missed>>
  BY <1>0 DEF Ask, presVars, histVars
<1>2. gate = Open /\ gate.at = "open" /\ ~gate.byAlarm
  BY OpenTyped DEF Ask
<1>3. /\ meta \in Meta /\ meta.life \in 0..MaxStarts /\ meta.left \in 0..Ttl /\ stored.left \in 0..Ttl
      /\ MaxStarts \in Nat /\ Ttl \in Nat /\ Ttl # 0 /\ Len(chain) \in Nat
  BY <1>0 DEF Typed, Meta, LifecycleAssumption
<1>4. meta.life # 0 /\ conn[c] = "new"
  BY DEF Ask
<1>5. conn' \in [Conns -> States] /\ \A d \in Conns : conn'[d] = conn[d] \/ (d = c /\ conn'[d] \in {"asking", "ended"})
  BY <1>0 DEF Ask, Typed, States
<1>6. \/ UNCHANGED <<meta, gate>>
      \/ /\ meta' = Gone /\ meta' \in Meta /\ meta'.life = 0
         /\ gate' \in Handler /\ gate'.at = "delete" /\ gate'.life = meta.life /\ gate'.byAlarm = FALSE
  BY <1>3, Forgetting DEF Ask
<1>7. Typed'
  BY <1>0, <1>1, <1>2, <1>3, <1>4, <1>5, <1>6 DEF Typed
<1>8. Match'
  BY <1>0, <1>1, <1>2, <1>3, <1>4, <1>5, <1>6 DEF Match
<1>9. Armed'
  BY <1>0, <1>1, <1>2, <1>3, <1>4, <1>5, <1>6 DEF Armed, Running, Asked, Setting
<1>10. Served'
  BY <1>0, <1>1, <1>2, <1>3, <1>4, <1>5, <1>6 DEF Served, Running, Asked, Listening, Leaving, Conns
<1>11. Ghostless'
  BY <1>0, <1>1, <1>2, <1>3, <1>4, <1>5, <1>6 DEF Ghostless
<1>. QED BY <1>7, <1>8, <1>9, <1>10, <1>11 DEF LifecycleInvariant

\* A host takes over from any other.
LEMMA HostAcceptStep ==
  ASSUME LifecycleAssumption, LifecycleInvariant, NEW c \in Conns, HostAccept(c)
  PROVE  LifecycleInvariant'
<1>0. Typed /\ Match /\ Armed /\ Served /\ Ghostless
  BY DEF LifecycleInvariant
<1>1. UNCHANGED <<persistent, stored, alarmIn, chain, sending, clears, listed, synced,
     starts, crashes, orphan, missed>>
  BY <1>0 DEF HostAccept, presVars, histVars
<1>2. gate = Open /\ gate.at = "open" /\ ~gate.byAlarm
  BY OpenTyped DEF HostAccept
<1>3. /\ meta \in Meta /\ meta.life \in 0..MaxStarts /\ meta.left \in 0..Ttl /\ stored.left \in 0..Ttl
      /\ MaxStarts \in Nat /\ Ttl \in Nat /\ Ttl # 0 /\ Len(chain) \in Nat
  BY <1>0 DEF Typed, Meta, LifecycleAssumption
<1>4. c \in Hosts /\ conn[c] = "asking" /\ conn' \in [Conns -> States]
  <2>1. conn \in [Conns -> States]
    BY <1>0 DEF Typed
  <2>2. CASE meta.life = 0
    BY <2>1, <2>2 DEF HostAccept, States
  <2>3. CASE meta.life # 0
    BY <2>1, <2>3 DEF HostAccept, States
  <2>. QED BY <2>2, <2>3 DEF HostAccept
<1>5. \/ /\ meta.life = 0 /\ UNCHANGED <<meta, gate>>
         /\ \A d \in Conns : conn'[d] = IF d = c THEN "ended" ELSE conn[d]
      \/ /\ meta.life # 0 /\ meta' \in Meta /\ meta'.life = meta.life
         /\ meta'.status = "connected" /\ meta'.left = Ttl
         /\ gate' \in Handler /\ gate'.at = "persist" /\ gate'.byAlarm = FALSE
         /\ \A d \in Hosts : conn'[d] = IF d = c THEN "open" ELSE IF Listening(d) THEN "closing" ELSE conn[d]
  <2>1. CASE meta.life = 0
    BY <1>0, <2>1 DEF HostAccept, Typed
  <2>2. CASE meta.life # 0
    <3>1. Ttl \in 0..Ttl /\ meta' = [meta EXCEPT !.status = "connected", !.left = Ttl]
      BY <1>3, <2>2 DEF HostAccept
    <3>2. Persist("persist", Nobody, FALSE)
      BY <2>2 DEF HostAccept
    <3>3. \A d \in Hosts : conn'[d] = IF d = c THEN "open" ELSE IF Listening(d) THEN "closing" ELSE conn[d]
      BY <2>2 DEF HostAccept, Readable, Listening, Conns
    <3>4. meta' \in Meta /\ meta'.life = meta.life /\ meta'.status = "connected" /\ meta'.left = Ttl
      BY <1>3, <3>1 DEF Meta
    <3>. QED BY <2>2, <3>2, <3>3, <3>4, Persisting
  <2>. QED BY <2>1, <2>2
<1>6. Typed'
  BY <1>0, <1>1, <1>2, <1>3, <1>4, <1>5 DEF Typed
<1>7. Match'
  BY <1>0, <1>1, <1>2, <1>3, <1>4, <1>5 DEF Match
<1>8. Armed'
  BY <1>0, <1>1, <1>2, <1>3, <1>4, <1>5 DEF Armed, Running, Asked, Setting
<1>9. Served'
  BY <1>0, <1>1, <1>2, <1>3, <1>4, <1>5 DEF Served, Running, Asked, Listening, Leaving, Conns
<1>10. Ghostless'
  BY <1>0, <1>1, <1>2, <1>3, <1>4, <1>5 DEF Ghostless
<1>. QED BY <1>6, <1>7, <1>8, <1>9, <1>10 DEF LifecycleInvariant

\* A viewer comes.
LEMMA ViewerAcceptStep ==
  ASSUME LifecycleAssumption, LifecycleInvariant, NEW c \in Conns, ViewerAccept(c)
  PROVE  LifecycleInvariant'
<1>0. Typed /\ Match /\ Armed /\ Served /\ Ghostless
  BY DEF LifecycleInvariant
<1>1. UNCHANGED <<persistent, meta, stored, alarmIn, chain, sending, clears, listed,
     synced, starts, crashes, orphan, missed>>
  BY <1>0 DEF ViewerAccept, presVars, histVars
<1>2. gate = Open /\ gate.at = "open" /\ ~gate.byAlarm
  BY OpenTyped DEF ViewerAccept
<1>3. /\ meta \in Meta /\ meta.life \in 0..MaxStarts /\ meta.left \in 0..Ttl /\ stored.left \in 0..Ttl
      /\ MaxStarts \in Nat /\ Ttl \in Nat /\ Ttl # 0 /\ Len(chain) \in Nat
  BY <1>0 DEF Typed, Meta, LifecycleAssumption
<1>4. c \in Viewers /\ c \notin Hosts /\ conn' \in [Conns -> States]
  BY <1>0 DEF ViewerAccept, Typed, States, LifecycleAssumption
<1>5. \A h \in Hosts : conn'[h] = conn[h]
  BY <1>0, <1>4 DEF ViewerAccept, Typed, Conns
<1>6. gate' = gate \/ (meta.life # 0 /\ gate' \in Handler /\ gate'.at = "persist" /\ gate'.byAlarm = FALSE)
  BY Persisting DEF ViewerAccept
<1>7. Typed'
  BY <1>0, <1>1, <1>2, <1>3, <1>4, <1>5, <1>6 DEF Typed
<1>8. Match'
  BY <1>0, <1>1, <1>2, <1>3, <1>4, <1>5, <1>6 DEF Match
<1>9. Armed'
  BY <1>0, <1>1, <1>2, <1>3, <1>4, <1>5, <1>6 DEF Armed, Running, Asked, Setting
<1>10. Served'
  BY <1>0, <1>1, <1>2, <1>3, <1>4, <1>5, <1>6 DEF Served, Running, Asked, Listening, Leaving
<1>11. Ghostless'
  BY <1>0, <1>1, <1>2, <1>3, <1>4, <1>5, <1>6 DEF Ghostless
<1>. QED BY <1>7, <1>8, <1>9, <1>10, <1>11 DEF LifecycleInvariant

\* What the handler changed is stored, and the refresh asked for.
LEMMA StoreMetaStep ==
  ASSUME LifecycleAssumption, LifecycleInvariant, StoreMeta
  PROVE  LifecycleInvariant'
<1>0. Typed /\ Match /\ Armed /\ Served /\ Ghostless
  BY DEF LifecycleInvariant
<1>1. UNCHANGED <<persistent, meta, alarmIn, conn, clears, listed, starts, crashes,
     orphan, missed>>
  BY <1>0 DEF StoreMeta, presVars, histVars, Refresh
<1>2. gate.at = "persist" /\ stored' = meta
  BY DEF StoreMeta
<1>3. /\ meta \in Meta /\ meta.life \in 0..MaxStarts /\ meta.left \in 0..Ttl /\ stored.left \in 0..Ttl
      /\ MaxStarts \in Nat /\ Ttl \in Nat /\ Ttl # 0 /\ Len(chain) \in Nat
  BY <1>0 DEF Typed, Meta, LifecycleAssumption
<1>4. gate' \in Handler /\ gate'.at = "open" /\ ~gate'.byAlarm
  BY OpenTyped DEF StoreMeta
<1>5. gate.byAlarm \in BOOLEAN /\ Refresh(TRUE, gate.byAlarm, meta, conn)
  BY <1>0 DEF StoreMeta, Typed, Handler
<1>6. /\ chain' \in Seq(Update) /\ Len(chain') = Len(chain) + 1 /\ chain' # <<>>
      /\ Asked' <=> gate.byAlarm \/ Asked
      /\ Setting /\ (gate.byAlarm => TRUE) => Setting'
      /\ sending' \in (0..MaxStarts) \X Entry
      /\ sending'[1] = meta.life \/ (chain # <<>> /\ sending' = sending)
      /\ synced' = TRUE
  BY <1>0, <1>3, <1>5, Refreshing
<1>7. Typed'
  BY <1>0, <1>1, <1>2, <1>3, <1>4, <1>5, <1>6 DEF Typed, Clearing
<1>8. Match'
  BY <1>0, <1>1, <1>2, <1>3, <1>4, <1>5, <1>6 DEF Match
<1>9. Armed'
  <2>1. stored.life = meta.life /\ stored.left <= meta.left /\ stored.left \in Nat /\ meta.left \in Nat
    BY <1>0, <1>2, <1>3 DEF Match
  <2>2. Setting' /\ (Running => Asked') /\ alarmIn \in Nat
    BY <1>0, <1>6 DEF Armed, Running, Typed, NoAlarm
  <2>3. alarmIn <= stored.left => alarmIn <= meta.left
    BY <2>1, <2>2
  <2>4. stored.life # 0 /\ ~orphan => alarmIn # NoAlarm \/ Running
    BY <1>0, <1>2 DEF Armed
  <2>5. stored.life # 0 /\ alarmIn # NoAlarm => alarmIn <= stored.left
    BY <1>0, <1>2 DEF Armed
  <2>. QED BY <1>1, <1>2, <2>1, <2>2, <2>3, <2>4, <2>5 DEF Armed, Running
<1>10. Served'
  BY <1>0, <1>1, <1>2, <1>3, <1>4, <1>5, <1>6 DEF Served, Running, Listening, Leaving
<1>11. Ghostless'
  BY <1>0, <1>1, <1>2, <1>3, <1>4, <1>5, <1>6 DEF Ghostless
<1>. QED BY <1>7, <1>8, <1>9, <1>10, <1>11 DEF LifecycleInvariant

\* A peer is gone without a word.
LEMMA PeerGoneStep ==
  ASSUME LifecycleAssumption, LifecycleInvariant, NEW c \in Conns, PeerGone(c)
  PROVE  LifecycleInvariant'
<1>0. Typed /\ Match /\ Armed /\ Served /\ Ghostless
  BY DEF LifecycleInvariant
<1>1. UNCHANGED <<persistent, meta, stored, alarmIn, gate, chain, sending, clears,
     listed, synced, starts, crashes, orphan, missed>>
  BY <1>0 DEF PeerGone, presVars, histVars
<1>2. /\ conn[c] = "open" /\ conn' \in [Conns -> States]
      /\ \A d \in Conns : conn'[d] = IF d = c THEN "broken" ELSE conn[d]
  BY <1>0 DEF PeerGone, Typed, States
<1>3. Typed'
  BY <1>0, <1>1, <1>2 DEF Typed
<1>4. Served'
  BY <1>0, <1>1, <1>2 DEF Served, Running, Asked, Listening, Leaving, Conns
<1>5. Match' /\ Armed' /\ Ghostless'
  BY <1>0, <1>1 DEF Match, Armed, Running, Asked, Setting, Ghostless
<1>. QED BY <1>3, <1>4, <1>5 DEF LifecycleInvariant

\* A viewer's socket has ended.
LEMMA ViewerEndStep ==
  ASSUME LifecycleAssumption, LifecycleInvariant, NEW c \in Conns, c \in Viewers, SocketEnd(c)
  PROVE  LifecycleInvariant'
<1>0. Typed /\ Match /\ Armed /\ Served /\ Ghostless
  BY DEF LifecycleInvariant
<1>1. UNCHANGED <<persistent, meta, stored, alarmIn, gate, clears, listed, starts,
     crashes, orphan, missed>>
  BY <1>0 DEF SocketEnd, presVars, histVars, Refresh, LifecycleAssumption
<1>2. gate = Open /\ gate.at = "open" /\ ~gate.byAlarm
  BY OpenTyped DEF SocketEnd
<1>3. /\ meta \in Meta /\ meta.life \in 0..MaxStarts /\ meta.left \in 0..Ttl /\ stored.left \in 0..Ttl
      /\ MaxStarts \in Nat /\ Ttl \in Nat /\ Ttl # 0 /\ Len(chain) \in Nat
  BY <1>0 DEF Typed, Meta, LifecycleAssumption
<1>4. /\ conn[c] \in {"broken", "closing"} /\ conn' \in [Conns -> States]
      /\ \A d \in Conns : conn'[d] = IF d = c THEN "ended" ELSE conn[d]
  BY <1>0 DEF SocketEnd, Typed, States
<1>5. c \notin Hosts /\ Refresh(TRUE, FALSE, meta, conn')
  BY DEF SocketEnd, LifecycleAssumption
<1>6. /\ chain' \in Seq(Update) /\ Len(chain') = Len(chain) + 1 /\ chain' # <<>>
      /\ Asked' <=> FALSE \/ Asked
      /\ Setting /\ (FALSE => TRUE) => Setting'
      /\ sending' \in (0..MaxStarts) \X Entry
      /\ sending'[1] = meta.life \/ (chain # <<>> /\ sending' = sending)
      /\ synced' = TRUE
  BY <1>0, <1>3, <1>5, Refreshing
<1>7. Typed'
  BY <1>0, <1>1, <1>2, <1>3, <1>4, <1>5, <1>6 DEF Typed, Clearing
<1>8. Armed'
  BY <1>0, <1>1, <1>2, <1>3, <1>4, <1>5, <1>6 DEF Armed, Running
<1>9. Served'
  BY <1>0, <1>1, <1>2, <1>3, <1>4, <1>5, <1>6 DEF Served, Running, Listening, Leaving, Conns
<1>10. Ghostless'
  BY <1>0, <1>1, <1>2, <1>3, <1>4, <1>5, <1>6 DEF Ghostless
<1>11. Match'
  BY <1>0, <1>1 DEF Match
<1>. QED BY <1>7, <1>8, <1>9, <1>10, <1>11 DEF LifecycleInvariant

\* A host's socket ends after its session.
LEMMA NobodyEndStep ==
  ASSUME LifecycleAssumption, LifecycleInvariant, NEW c \in Conns, c \in Hosts, meta.life = 0, SocketEnd(c)
  PROVE  LifecycleInvariant'
<1>0. Typed /\ Match /\ Armed /\ Served /\ Ghostless
  BY DEF LifecycleInvariant
<1>1. UNCHANGED <<persistent, meta, stored, alarmIn, gate, chain, sending, clears,
     listed, synced, starts, crashes, orphan, missed>>
  BY <1>0 DEF SocketEnd, presVars, histVars, LifecycleAssumption
<1>2. /\ conn[c] \in {"broken", "closing"} /\ conn' \in [Conns -> States]
      /\ \A d \in Conns : conn'[d] = IF d = c THEN "ended" ELSE conn[d]
  BY <1>0 DEF SocketEnd, Typed, States
<1>3. Typed'
  BY <1>0, <1>1, <1>2 DEF Typed
<1>4. Served'
  BY <1>0, <1>1, <1>2 DEF Served, Running, Asked, Listening, Leaving, Conns
<1>5. Match' /\ Armed' /\ Ghostless'
  BY <1>0, <1>1 DEF Match, Armed, Running, Asked, Setting, Ghostless
<1>. QED BY <1>3, <1>4, <1>5 DEF LifecycleInvariant

\* A host's socket ends while another serves.
LEMMA ReplacedEndStep ==
  ASSUME LifecycleAssumption, LifecycleInvariant, NEW c \in Conns, c \in Hosts, meta.life # 0, Readable(conn') \cap Hosts # {}, SocketEnd(c)
  PROVE  LifecycleInvariant'
<1>0. Typed /\ Match /\ Armed /\ Served /\ Ghostless
  BY DEF LifecycleInvariant
<1>1. UNCHANGED <<persistent, meta, stored, alarmIn, gate, clears, listed, starts,
     crashes, orphan, missed>>
  BY <1>0 DEF SocketEnd, presVars, histVars, Refresh, LifecycleAssumption
<1>2. gate = Open /\ gate.at = "open" /\ ~gate.byAlarm
  BY OpenTyped DEF SocketEnd
<1>3. /\ meta \in Meta /\ meta.life \in 0..MaxStarts /\ meta.left \in 0..Ttl /\ stored.left \in 0..Ttl
      /\ MaxStarts \in Nat /\ Ttl \in Nat /\ Ttl # 0 /\ Len(chain) \in Nat
  BY <1>0 DEF Typed, Meta, LifecycleAssumption
<1>4. /\ conn[c] \in {"broken", "closing"} /\ conn' \in [Conns -> States]
      /\ \A d \in Conns : conn'[d] = IF d = c THEN "ended" ELSE conn[d]
  BY <1>0 DEF SocketEnd, Typed, States
<1>5. Refresh(FALSE, FALSE, meta, conn')
  BY DEF SocketEnd, LifecycleAssumption
<1>6. /\ chain' \in Seq(Update) /\ Len(chain') = Len(chain) + 1 /\ chain' # <<>>
      /\ Asked' <=> FALSE \/ Asked
      /\ Setting /\ (FALSE => FALSE) => Setting'
      /\ sending' \in (0..MaxStarts) \X Entry
      /\ sending'[1] = meta.life \/ (chain # <<>> /\ sending' = sending)
      /\ synced' = TRUE
  BY <1>0, <1>3, <1>5, Refreshing
<1>7. \E h \in Hosts : conn'[h] \in {"open", "broken"}
  BY DEF Readable
<1>8. Typed'
  BY <1>0, <1>1, <1>2, <1>3, <1>4, <1>5, <1>6, <1>7 DEF Typed, Clearing
<1>9. Armed'
  BY <1>0, <1>1, <1>2, <1>3, <1>4, <1>5, <1>6, <1>7 DEF Armed, Running
<1>10. Served'
  BY <1>0, <1>1, <1>2, <1>3, <1>4, <1>5, <1>6, <1>7 DEF Served, Running, Listening, Leaving, Conns
<1>11. Ghostless'
  BY <1>0, <1>1, <1>2, <1>3, <1>4, <1>5, <1>6, <1>7 DEF Ghostless
<1>12. Match'
  BY <1>0, <1>1 DEF Match
<1>. QED BY <1>8, <1>9, <1>10, <1>11, <1>12 DEF LifecycleInvariant

\* The last host's socket ends: the session says so.
LEMMA LastEndStep ==
  ASSUME LifecycleAssumption, LifecycleInvariant, NEW c \in Conns, c \in Hosts, meta.life # 0, Readable(conn') \cap Hosts = {}, SocketEnd(c)
  PROVE  LifecycleInvariant'
<1>0. Typed /\ Match /\ Armed /\ Served /\ Ghostless
  BY DEF LifecycleInvariant
<1>1. UNCHANGED <<persistent, stored, alarmIn, chain, sending, clears, listed, synced,
     starts, crashes, orphan, missed>>
  BY <1>0 DEF SocketEnd, presVars, histVars, LifecycleAssumption
<1>2. gate = Open /\ gate.at = "open" /\ ~gate.byAlarm
  BY OpenTyped DEF SocketEnd
<1>3. /\ meta \in Meta /\ meta.life \in 0..MaxStarts /\ meta.left \in 0..Ttl /\ stored.left \in 0..Ttl
      /\ MaxStarts \in Nat /\ Ttl \in Nat /\ Ttl # 0 /\ Len(chain) \in Nat
  BY <1>0 DEF Typed, Meta, LifecycleAssumption
<1>4. /\ conn[c] \in {"broken", "closing"} /\ conn' \in [Conns -> States]
      /\ \A d \in Conns : conn'[d] = IF d = c THEN "ended" ELSE conn[d]
  BY <1>0 DEF SocketEnd, Typed, States
<1>5. Ttl \in 0..Ttl /\ meta' = [meta EXCEPT !.status = "disconnected", !.left = Ttl]
  <2>1. Ttl \in 0..Ttl
    BY <1>3
  <2>2. meta' = [meta EXCEPT !.status = "disconnected", !.left = Ttl]
    BY DEF SocketEnd, LifecycleAssumption
  <2>. QED BY <2>1, <2>2
<1>6. meta' \in Meta /\ meta'.life = meta.life /\ meta'.status = "disconnected" /\ meta'.left = Ttl
  BY <1>3, <1>5 DEF Meta
<1>7. gate' \in Handler /\ gate'.at = "persist" /\ gate'.conn = Nobody /\ gate'.byAlarm = FALSE
  BY Persisting DEF SocketEnd, LifecycleAssumption
<1>8. \A h \in Hosts : conn'[h] \notin {"open", "broken"}
  BY DEF Readable, Conns
<1>9. Typed'
  BY <1>0, <1>1, <1>2, <1>3, <1>4, <1>5, <1>6, <1>7, <1>8 DEF Typed
<1>10. Match'
  BY <1>0, <1>1, <1>2, <1>3, <1>4, <1>5, <1>6, <1>7, <1>8 DEF Match
<1>11. Armed'
  BY <1>0, <1>1, <1>2, <1>3, <1>4, <1>5, <1>6, <1>7, <1>8 DEF Armed, Running, Asked, Setting
<1>12. Served'
  BY <1>0, <1>1, <1>2, <1>3, <1>4, <1>5, <1>6, <1>7, <1>8 DEF Served, Running, Asked, Listening, Leaving, Conns
<1>13. Ghostless'
  BY <1>0, <1>1, <1>2, <1>3, <1>4, <1>5, <1>6, <1>7, <1>8 DEF Ghostless
<1>. QED BY <1>9, <1>10, <1>11, <1>12, <1>13 DEF LifecycleInvariant

\* A frame refreshes the lease.
LEMMA FrameStep ==
  ASSUME LifecycleAssumption, LifecycleInvariant, NEW c \in Conns, Frame(c)
  PROVE  LifecycleInvariant'
<1>0. Typed /\ Match /\ Armed /\ Served /\ Ghostless
  BY DEF LifecycleInvariant
<1>1. UNCHANGED <<persistent, meta, stored, alarmIn, gate, conn, clears, listed,
     starts, crashes, orphan, missed>>
  BY <1>0 DEF Frame, presVars, histVars, Refresh
<1>2. gate = Open /\ gate.at = "open" /\ ~gate.byAlarm
  BY OpenTyped DEF Frame
<1>3. /\ meta \in Meta /\ meta.life \in 0..MaxStarts /\ meta.left \in 0..Ttl /\ stored.left \in 0..Ttl
      /\ MaxStarts \in Nat /\ Ttl \in Nat /\ Ttl # 0 /\ Len(chain) \in Nat
  BY <1>0 DEF Typed, Meta, LifecycleAssumption
<1>4. Refresh(TRUE, FALSE, meta, conn)
  BY DEF Frame
<1>5. /\ chain' \in Seq(Update) /\ Len(chain') = Len(chain) + 1 /\ chain' # <<>>
      /\ Asked' <=> FALSE \/ Asked
      /\ Setting /\ (FALSE => TRUE) => Setting'
      /\ sending' \in (0..MaxStarts) \X Entry
      /\ sending'[1] = meta.life \/ (chain # <<>> /\ sending' = sending)
      /\ synced' = TRUE
  BY <1>0, <1>3, <1>4, Refreshing
<1>6. Typed'
  BY <1>0, <1>1, <1>2, <1>3, <1>4, <1>5 DEF Typed, Clearing
<1>7. Armed'
  BY <1>0, <1>1, <1>2, <1>3, <1>4, <1>5 DEF Armed, Running
<1>8. Served'
  BY <1>0, <1>1, <1>2, <1>3, <1>4, <1>5 DEF Served, Running, Listening, Leaving
<1>9. Ghostless'
  BY <1>0, <1>1, <1>2, <1>3, <1>4, <1>5 DEF Ghostless
<1>10. Match'
  BY <1>0, <1>1 DEF Match
<1>. QED BY <1>6, <1>7, <1>8, <1>9, <1>10 DEF LifecycleInvariant

\* The program of a persistent session exits: the host is about to be let go.
LEMMA ExitStep ==
  ASSUME LifecycleAssumption, LifecycleInvariant, NEW c \in Conns, persistent, Exit(c)
  PROVE  LifecycleInvariant'
<1>0. Typed /\ Match /\ Armed /\ Served /\ Ghostless
  BY DEF LifecycleInvariant
<1>1. UNCHANGED <<persistent, stored, alarmIn, conn, chain, sending, clears, listed,
     synced, starts, crashes, orphan, missed>>
  BY <1>0 DEF Exit, presVars, histVars
<1>2. gate = Open /\ gate.at = "open" /\ ~gate.byAlarm
  BY OpenTyped DEF Exit
<1>3. /\ meta \in Meta /\ meta.life \in 0..MaxStarts /\ meta.left \in 0..Ttl /\ stored.left \in 0..Ttl
      /\ MaxStarts \in Nat /\ Ttl \in Nat /\ Ttl # 0 /\ Len(chain) \in Nat
  BY <1>0 DEF Typed, Meta, LifecycleAssumption
<1>4. c \in Hosts /\ Listening(c) /\ meta.life # 0
  BY DEF Exit, Readable, Listening
<1>5. Ttl \in 0..Ttl /\ meta' = [meta EXCEPT !.status = "disconnected", !.left = Ttl]
  BY <1>3 DEF Exit
<1>6. meta' \in Meta /\ meta'.life = meta.life /\ meta'.status = "disconnected" /\ meta'.left = Ttl
  BY <1>3, <1>5 DEF Meta
<1>7. gate' \in Handler /\ gate'.at = "exit" /\ gate'.conn = c /\ gate'.byAlarm = FALSE
  BY Persisting DEF Exit
<1>8. Typed'
  BY <1>0, <1>1, <1>2, <1>3, <1>4, <1>5, <1>6, <1>7 DEF Typed
<1>9. Match'
  BY <1>0, <1>1, <1>2, <1>3, <1>4, <1>5, <1>6, <1>7 DEF Match
<1>10. Armed'
  BY <1>0, <1>1, <1>2, <1>3, <1>4, <1>5, <1>6, <1>7 DEF Armed, Running, Asked, Setting
<1>11. Served'
  BY <1>0, <1>1, <1>2, <1>3, <1>4, <1>5, <1>6, <1>7 DEF Served, Running, Asked, Listening, Leaving
<1>12. Ghostless'
  BY <1>0, <1>1, <1>2, <1>3, <1>4, <1>5, <1>6, <1>7 DEF Ghostless
<1>. QED BY <1>8, <1>9, <1>10, <1>11, <1>12 DEF LifecycleInvariant

\* The program of an ordinary session exits: the session ends.
LEMMA ExitForgetStep ==
  ASSUME LifecycleAssumption, LifecycleInvariant, NEW c \in Conns, ~persistent, Exit(c)
  PROVE  LifecycleInvariant'
<1>0. Typed /\ Match /\ Armed /\ Served /\ Ghostless
  BY DEF LifecycleInvariant
<1>1. UNCHANGED <<persistent, stored, alarmIn, conn, chain, sending, clears, listed,
     synced, starts, crashes, orphan, missed>>
  BY <1>0 DEF Exit, presVars, histVars
<1>2. gate = Open /\ gate.at = "open" /\ ~gate.byAlarm
  BY OpenTyped DEF Exit
<1>3. /\ meta \in Meta /\ meta.life \in 0..MaxStarts /\ meta.left \in 0..Ttl /\ stored.left \in 0..Ttl
      /\ MaxStarts \in Nat /\ Ttl \in Nat /\ Ttl # 0 /\ Len(chain) \in Nat
  BY <1>0 DEF Typed, Meta, LifecycleAssumption
<1>4. meta.life # 0
  BY DEF Exit
<1>5. /\ meta' = Gone /\ meta' \in Meta /\ meta'.life = 0
      /\ gate' \in Handler /\ gate'.at = "delete" /\ gate'.life = meta.life /\ gate'.byAlarm = FALSE
  BY <1>3, Forgetting DEF Exit
<1>6. Typed'
  BY <1>0, <1>1, <1>2, <1>3, <1>4, <1>5 DEF Typed
<1>7. Match'
  BY <1>0, <1>1, <1>2, <1>3, <1>4, <1>5 DEF Match
<1>8. Armed'
  BY <1>0, <1>1, <1>2, <1>3, <1>4, <1>5 DEF Armed, Running, Asked, Setting
<1>9. Served'
  BY <1>0, <1>1, <1>2, <1>3, <1>4, <1>5 DEF Served, Running, Asked, Listening, Leaving
<1>10. Ghostless'
  BY <1>0, <1>1, <1>2, <1>3, <1>4, <1>5 DEF Ghostless
<1>. QED BY <1>6, <1>7, <1>8, <1>9, <1>10 DEF LifecycleInvariant

\* A status request finds the time up.
LEMMA StatusRequestStep ==
  ASSUME LifecycleAssumption, LifecycleInvariant, StatusRequest
  PROVE  LifecycleInvariant'
<1>0. Typed /\ Match /\ Armed /\ Served /\ Ghostless
  BY DEF LifecycleInvariant
<1>1. UNCHANGED <<persistent, stored, alarmIn, conn, chain, sending, clears, listed,
     synced, starts, crashes, orphan, missed>>
  BY <1>0 DEF StatusRequest, presVars, histVars
<1>2. gate = Open /\ gate.at = "open" /\ ~gate.byAlarm
  BY OpenTyped DEF StatusRequest
<1>3. /\ meta \in Meta /\ meta.life \in 0..MaxStarts /\ meta.left \in 0..Ttl /\ stored.left \in 0..Ttl
      /\ MaxStarts \in Nat /\ Ttl \in Nat /\ Ttl # 0 /\ Len(chain) \in Nat
  BY <1>0 DEF Typed, Meta, LifecycleAssumption
<1>4. meta.life # 0
  BY DEF StatusRequest, Expired
<1>5. /\ meta' = Gone /\ meta' \in Meta /\ meta'.life = 0
      /\ gate' \in Handler /\ gate'.at = "delete" /\ gate'.life = meta.life /\ gate'.byAlarm = FALSE
  BY <1>3, Forgetting DEF StatusRequest
<1>6. Typed'
  BY <1>0, <1>1, <1>2, <1>3, <1>4, <1>5 DEF Typed
<1>7. Match'
  BY <1>0, <1>1, <1>2, <1>3, <1>4, <1>5 DEF Match
<1>8. Armed'
  BY <1>0, <1>1, <1>2, <1>3, <1>4, <1>5 DEF Armed, Running, Asked, Setting
<1>9. Served'
  BY <1>0, <1>1, <1>2, <1>3, <1>4, <1>5 DEF Served, Running, Asked, Listening, Leaving
<1>10. Ghostless'
  BY <1>0, <1>1, <1>2, <1>3, <1>4, <1>5 DEF Ghostless
<1>. QED BY <1>6, <1>7, <1>8, <1>9, <1>10 DEF LifecycleInvariant

\* The exit is stored, the alarm set, the host let go.
LEMMA StoreExitStep ==
  ASSUME LifecycleAssumption, LifecycleInvariant, StoreExit
  PROVE  LifecycleInvariant'
<1>0. Typed /\ Match /\ Armed /\ Served /\ Ghostless
  BY DEF LifecycleInvariant
<1>1. UNCHANGED <<persistent, meta, chain, sending, clears, listed, synced, starts,
     crashes, orphan, missed>>
  BY <1>0 DEF StoreExit, presVars, histVars
<1>2. gate.at = "exit" /\ ~gate.byAlarm /\ meta.life # 0 /\ stored' = meta
  BY <1>0 DEF StoreExit, Match
<1>3. /\ meta \in Meta /\ meta.life \in 0..MaxStarts /\ meta.left \in 0..Ttl /\ stored.left \in 0..Ttl
      /\ MaxStarts \in Nat /\ Ttl \in Nat /\ Ttl # 0 /\ Len(chain) \in Nat
  BY <1>0 DEF Typed, Meta, LifecycleAssumption
<1>4. gate' \in Handler /\ gate'.at = "open" /\ ~gate'.byAlarm
  BY OpenTyped DEF StoreExit
<1>5. alarmIn' \in 0..NoAlarm /\ alarmIn' <= meta.left /\ alarmIn' # NoAlarm
  BY <1>0, <1>2, <1>3, Scheduling DEF StoreExit, Typed
<1>6. conn' \in [Conns -> States] /\ \A d \in Conns : conn'[d] = IF d = gate.conn THEN "closing" ELSE conn[d]
  BY <1>0 DEF StoreExit, Typed, States
<1>7. Typed'
  BY <1>0, <1>1, <1>2, <1>3, <1>4, <1>5, <1>6 DEF Typed
<1>8. Match'
  BY <1>0, <1>1, <1>2, <1>3, <1>4, <1>5, <1>6 DEF Match
<1>9. Armed'
  BY <1>0, <1>1, <1>2, <1>3, <1>4, <1>5, <1>6 DEF Armed, Running, Asked, Setting
<1>10. Served'
  BY <1>0, <1>1, <1>2, <1>3, <1>4, <1>5, <1>6 DEF Served, Running, Asked, Listening, Leaving, Conns
<1>11. Ghostless'
  BY <1>0, <1>1, <1>2, <1>3, <1>4, <1>5, <1>6 DEF Ghostless
<1>. QED BY <1>7, <1>8, <1>9, <1>10, <1>11 DEF LifecycleInvariant

\* The alarm of a session that has ended.
LEMMA AlarmIdleStep ==
  ASSUME LifecycleAssumption, LifecycleInvariant, meta.life = 0, AlarmFires
  PROVE  LifecycleInvariant'
<1>0. Typed /\ Match /\ Armed /\ Served /\ Ghostless
  BY DEF LifecycleInvariant
<1>1. UNCHANGED <<persistent, meta, stored, gate, conn, chain, sending, clears,
     listed, synced, starts, crashes, orphan, missed>>
  BY <1>0 DEF AlarmFires, presVars, histVars, Expired
<1>2. gate = Open /\ gate.at = "open" /\ ~gate.byAlarm
  BY OpenTyped DEF AlarmFires
<1>3. /\ meta \in Meta /\ meta.life \in 0..MaxStarts /\ meta.left \in 0..Ttl /\ stored.left \in 0..Ttl
      /\ MaxStarts \in Nat /\ Ttl \in Nat /\ Ttl # 0 /\ Len(chain) \in Nat
  BY <1>0 DEF Typed, Meta, LifecycleAssumption
<1>4. alarmIn = 0 /\ ~Running /\ alarmIn' = NoAlarm
  BY <1>0 DEF AlarmFires, AlarmRunning, Running, Asked, Typed
<1>5. alarmIn' \in 0..NoAlarm
  BY <1>3, <1>4 DEF NoAlarm
<1>6. Typed'
  BY <1>0, <1>1, <1>2, <1>3, <1>4, <1>5 DEF Typed
<1>7. Armed'
  BY <1>0, <1>1, <1>2, <1>3, <1>4, <1>5 DEF Armed, Running, Asked, Setting, Match
<1>8. Match' /\ Served' /\ Ghostless'
  BY <1>0, <1>1 DEF Match, Served, Running, Asked, Listening, Leaving, Ghostless
<1>. QED BY <1>6, <1>7, <1>8 DEF LifecycleInvariant

\* The alarm finds a host.
LEMMA AlarmServedStep ==
  ASSUME LifecycleAssumption, LifecycleInvariant, meta.life # 0, Readable(conn) \cap Hosts # {}, AlarmFires
  PROVE  LifecycleInvariant'
<1>0. Typed /\ Match /\ Armed /\ Served /\ Ghostless
  BY DEF LifecycleInvariant
<1>1. UNCHANGED <<persistent, stored, conn, chain, sending, clears, listed, synced,
     starts, crashes, orphan, missed>>
  BY <1>0 DEF AlarmFires, presVars, histVars
<1>2. gate = Open /\ gate.at = "open" /\ ~gate.byAlarm
  BY OpenTyped DEF AlarmFires
<1>3. /\ meta \in Meta /\ meta.life \in 0..MaxStarts /\ meta.left \in 0..Ttl /\ stored.left \in 0..Ttl
      /\ MaxStarts \in Nat /\ Ttl \in Nat /\ Ttl # 0 /\ Len(chain) \in Nat
  BY <1>0 DEF Typed, Meta, LifecycleAssumption
<1>4. alarmIn = 0 /\ ~Running /\ alarmIn' = NoAlarm
  BY <1>0 DEF AlarmFires, AlarmRunning, Running, Asked, Typed
<1>5. alarmIn' \in 0..NoAlarm
  BY <1>3, <1>4 DEF NoAlarm
<1>6. Ttl \in 0..Ttl /\ meta' = [meta EXCEPT !.status = "connected", !.left = Ttl]
  <2>1. Ttl \in 0..Ttl
    BY <1>3
  <2>2. meta' = [meta EXCEPT !.status = "connected", !.left = Ttl]
    BY DEF AlarmFires
  <2>. QED BY <2>1, <2>2
<1>7. meta' \in Meta /\ meta'.life = meta.life /\ meta'.status = "connected" /\ meta'.left = Ttl
  BY <1>3, <1>6 DEF Meta
<1>8. gate' \in Handler /\ gate'.at = "persist" /\ gate'.conn = Nobody /\ gate'.byAlarm = TRUE
  BY Persisting DEF AlarmFires
<1>9. \E h \in Hosts : Listening(h)
  BY DEF Readable, Listening
<1>10. Typed'
  BY <1>0, <1>1, <1>2, <1>3, <1>4, <1>5, <1>6, <1>7, <1>8, <1>9 DEF Typed
<1>11. Match'
  BY <1>0, <1>1, <1>2, <1>3, <1>4, <1>5, <1>6, <1>7, <1>8, <1>9 DEF Match
<1>12. Armed'
  BY <1>0, <1>1, <1>2, <1>3, <1>4, <1>5, <1>6, <1>7, <1>8, <1>9 DEF Armed, Running, Asked, Setting
<1>13. Served'
  BY <1>0, <1>1, <1>2, <1>3, <1>4, <1>5, <1>6, <1>7, <1>8, <1>9 DEF Served, Running, Asked, Listening, Leaving
<1>14. Ghostless'
  BY <1>0, <1>1, <1>2, <1>3, <1>4, <1>5, <1>6, <1>7, <1>8, <1>9 DEF Ghostless
<1>. QED BY <1>10, <1>11, <1>12, <1>13, <1>14 DEF LifecycleInvariant

\* The alarm finds no host, and that the session did not say so or may wait for one.
LEMMA AlarmAloneStep ==
  ASSUME LifecycleAssumption, LifecycleInvariant, meta.life # 0, Readable(conn) \cap Hosts = {},
         (persistent /\ ~Expired) \/ (~persistent /\ meta.status = "connected"), AlarmFires
  PROVE  LifecycleInvariant'
<1>0. Typed /\ Match /\ Armed /\ Served /\ Ghostless
  BY DEF LifecycleInvariant
<1>1. UNCHANGED <<persistent, stored, conn, chain, sending, clears, listed, synced,
     starts, crashes, orphan, missed>>
  BY <1>0 DEF AlarmFires, presVars, histVars
<1>2. gate = Open /\ gate.at = "open" /\ ~gate.byAlarm
  BY OpenTyped DEF AlarmFires
<1>3. /\ meta \in Meta /\ meta.life \in 0..MaxStarts /\ meta.left \in 0..Ttl /\ stored.left \in 0..Ttl
      /\ MaxStarts \in Nat /\ Ttl \in Nat /\ Ttl # 0 /\ Len(chain) \in Nat
  BY <1>0 DEF Typed, Meta, LifecycleAssumption
<1>4. alarmIn = 0 /\ ~Running /\ alarmIn' = NoAlarm
  BY <1>0 DEF AlarmFires, AlarmRunning, Running, Asked, Typed
<1>5. alarmIn' \in 0..NoAlarm
  BY <1>3, <1>4 DEF NoAlarm
<1>6. \E n \in {Ttl, meta.left} : meta' = [meta EXCEPT !.status = "disconnected", !.left = n]
  BY <1>3 DEF AlarmFires
<1>7. meta' \in Meta /\ meta'.life = meta.life /\ meta'.status = "disconnected" /\ meta'.left >= meta.left
  <2>1. PICK n \in {Ttl, meta.left} : meta' = [meta EXCEPT !.status = "disconnected", !.left = n]
    BY <1>6
  <2>2. n \in 0..Ttl /\ n >= meta.left
    BY <1>3
  <2>. QED BY <1>3, <2>1, <2>2 DEF Meta
<1>8. gate' \in Handler /\ gate'.at = "persist" /\ gate'.conn = Nobody /\ gate'.byAlarm = TRUE
  BY Persisting DEF AlarmFires
<1>9. \A h \in Hosts : ~Listening(h)
  BY DEF Readable, Listening, Conns
<1>10. Typed'
  BY <1>0, <1>1, <1>2, <1>3, <1>4, <1>5, <1>6, <1>7, <1>8, <1>9 DEF Typed
<1>11. Match'
  BY <1>0, <1>1, <1>2, <1>3, <1>4, <1>5, <1>6, <1>7, <1>8, <1>9 DEF Match
<1>12. Armed'
  BY <1>0, <1>1, <1>2, <1>3, <1>4, <1>5, <1>6, <1>7, <1>8, <1>9 DEF Armed, Running, Asked, Setting
<1>13. Served'
  BY <1>0, <1>1, <1>2, <1>3, <1>4, <1>5, <1>6, <1>7, <1>8, <1>9 DEF Served, Running, Asked, Listening, Leaving
<1>14. Ghostless'
  BY <1>0, <1>1, <1>2, <1>3, <1>4, <1>5, <1>6, <1>7, <1>8, <1>9 DEF Ghostless
<1>. QED BY <1>10, <1>11, <1>12, <1>13, <1>14 DEF LifecycleInvariant

\* The alarm finds no host, as the session says.
LEMMA AlarmWaitingStep ==
  ASSUME LifecycleAssumption, LifecycleInvariant, meta.life # 0, Readable(conn) \cap Hosts = {},
         ~persistent, meta.status # "connected", ~Expired, AlarmFires
  PROVE  LifecycleInvariant'
<1>0. Typed /\ Match /\ Armed /\ Served /\ Ghostless
  BY DEF LifecycleInvariant
<1>1. UNCHANGED <<persistent, meta, stored, gate, conn, clears, listed, starts,
     crashes, orphan, missed>>
  BY <1>0 DEF AlarmFires, presVars, histVars, Refresh
<1>2. gate = Open /\ gate.at = "open" /\ ~gate.byAlarm
  BY OpenTyped DEF AlarmFires
<1>3. /\ meta \in Meta /\ meta.life \in 0..MaxStarts /\ meta.left \in 0..Ttl /\ stored.left \in 0..Ttl
      /\ MaxStarts \in Nat /\ Ttl \in Nat /\ Ttl # 0 /\ Len(chain) \in Nat
  BY <1>0 DEF Typed, Meta, LifecycleAssumption
<1>4. alarmIn = 0 /\ ~Running /\ alarmIn' = NoAlarm
  BY <1>0 DEF AlarmFires, AlarmRunning, Running, Asked, Typed
<1>5. alarmIn' \in 0..NoAlarm
  BY <1>3, <1>4 DEF NoAlarm
<1>6. Refresh(TRUE, TRUE, meta, conn)
  BY DEF AlarmFires
<1>7. /\ chain' \in Seq(Update) /\ Len(chain') = Len(chain) + 1 /\ chain' # <<>>
      /\ Asked' <=> TRUE \/ Asked
      /\ Setting /\ (TRUE => TRUE) => Setting'
      /\ sending' \in (0..MaxStarts) \X Entry
      /\ sending'[1] = meta.life \/ (chain # <<>> /\ sending' = sending)
      /\ synced' = TRUE
  BY <1>0, <1>3, <1>6, Refreshing
<1>8. \A h \in Hosts : ~Listening(h)
  BY DEF Readable, Listening, Conns
<1>9. Typed'
  BY <1>0, <1>1, <1>2, <1>3, <1>4, <1>5, <1>6, <1>7, <1>8 DEF Typed, Clearing
<1>10. Armed'
  BY <1>0, <1>1, <1>2, <1>3, <1>4, <1>5, <1>6, <1>7, <1>8 DEF Armed, Running
<1>11. Served'
  BY <1>0, <1>1, <1>2, <1>3, <1>4, <1>5, <1>6, <1>7, <1>8 DEF Served, Running, Listening, Leaving
<1>12. Ghostless'
  BY <1>0, <1>1, <1>2, <1>3, <1>4, <1>5, <1>6, <1>7, <1>8 DEF Ghostless
<1>13. Match'
  BY <1>0, <1>1 DEF Match
<1>. QED BY <1>9, <1>10, <1>11, <1>12, <1>13 DEF LifecycleInvariant

\* The alarm finds the time up.
LEMMA AlarmExpiryStep ==
  ASSUME LifecycleAssumption, LifecycleInvariant, meta.life # 0, Readable(conn) \cap Hosts = {},
         Expired, persistent \/ meta.status # "connected", AlarmFires
  PROVE  LifecycleInvariant'
<1>0. Typed /\ Match /\ Armed /\ Served /\ Ghostless
  BY DEF LifecycleInvariant
<1>1. UNCHANGED <<persistent, stored, conn, chain, sending, clears, listed, synced,
     starts, crashes, orphan, missed>>
  BY <1>0 DEF AlarmFires, presVars, histVars
<1>2. gate = Open /\ gate.at = "open" /\ ~gate.byAlarm
  BY OpenTyped DEF AlarmFires
<1>3. /\ meta \in Meta /\ meta.life \in 0..MaxStarts /\ meta.left \in 0..Ttl /\ stored.left \in 0..Ttl
      /\ MaxStarts \in Nat /\ Ttl \in Nat /\ Ttl # 0 /\ Len(chain) \in Nat
  BY <1>0 DEF Typed, Meta, LifecycleAssumption
<1>4. alarmIn = 0 /\ ~Running /\ alarmIn' = NoAlarm
  BY <1>0 DEF AlarmFires, AlarmRunning, Running, Asked, Typed
<1>5. alarmIn' \in 0..NoAlarm
  BY <1>3, <1>4 DEF NoAlarm
<1>6. /\ meta' = Gone /\ meta' \in Meta /\ meta'.life = 0
      /\ gate' \in Handler /\ gate'.at = "delete" /\ gate'.life = meta.life /\ gate'.byAlarm = TRUE
  BY <1>3, Forgetting DEF AlarmFires
<1>7. Typed'
  BY <1>0, <1>1, <1>2, <1>3, <1>4, <1>5, <1>6 DEF Typed
<1>8. Match'
  BY <1>0, <1>1, <1>2, <1>3, <1>4, <1>5, <1>6 DEF Match
<1>9. Armed'
  BY <1>0, <1>1, <1>2, <1>3, <1>4, <1>5, <1>6 DEF Armed, Running, Asked, Setting
<1>10. Served'
  BY <1>0, <1>1, <1>2, <1>3, <1>4, <1>5, <1>6 DEF Served, Running, Asked, Listening, Leaving
<1>11. Ghostless'
  BY <1>0, <1>1, <1>2, <1>3, <1>4, <1>5, <1>6 DEF Ghostless
<1>. QED BY <1>7, <1>8, <1>9, <1>10, <1>11 DEF LifecycleInvariant

\* Storage is emptied; the removal of the presence waits for the updates asked for so far.
LEMMA DeleteStep ==
  ASSUME LifecycleAssumption, LifecycleInvariant, Delete
  PROVE  LifecycleInvariant'
<1>0. Typed /\ Match /\ Armed /\ Served /\ Ghostless
  BY DEF LifecycleInvariant
<1>1. UNCHANGED <<persistent, meta, conn, chain, sending, listed, synced, starts,
     crashes, orphan, missed>>
  BY <1>0 DEF Delete, presVars, histVars
<1>2. gate.at = "delete" /\ meta = Gone /\ gate.life # 0 /\ stored' = Gone /\ stored' \in Meta /\ stored'.life = 0
  BY <1>0, GoneTyped DEF Delete, Match
<1>3. /\ meta \in Meta /\ meta.life \in 0..MaxStarts /\ meta.left \in 0..Ttl /\ stored.left \in 0..Ttl
      /\ MaxStarts \in Nat /\ Ttl \in Nat /\ Ttl # 0 /\ Len(chain) \in Nat
  BY <1>0 DEF Typed, Meta, LifecycleAssumption
<1>4. gate' \in Handler /\ gate'.at = "open" /\ ~gate'.byAlarm
  BY OpenTyped DEF Delete
<1>5. alarmIn' \in 0..NoAlarm
  BY <1>0, <1>3 DEF Delete, Typed, NoAlarm
<1>6. \E r \in Clearing : /\ clears' = clears \cup {r}
                         /\ r.life = gate.life /\ r.ahead = Len(chain)
                         /\ \A h \in Hosts : Listening(h) => h \in r.socks
  <2> DEFINE r == [life |-> gate.life, ahead |-> Len(chain), socks |-> HasSocket]
  <2>1. r.life = gate.life /\ r.ahead = Len(chain) /\ r.socks = HasSocket
    OBVIOUS
  <2>2. gate.life \in 1..MaxStarts
    BY <1>0, <1>2, <1>3 DEF Typed, Handler
  <2>3. r \in Clearing
    BY <1>3, <2>2 DEF Clearing, HasSocket
  <2>4. clears' = clears \cup {r}
    BY DEF Delete
  <2>5. \A h \in Hosts : Listening(h) => h \in HasSocket
    BY DEF Listening, HasSocket, Conns
  <2> HIDE DEF r
  <2>. QED BY <2>1, <2>3, <2>4, <2>5
<1>7. 0 = Gone.life
  BY GoneTyped
<1>8. Typed'
  BY <1>0, <1>1, <1>2, <1>3, <1>4, <1>5, <1>6, <1>7 DEF Typed
<1>9. Match'
  BY <1>0, <1>1, <1>2, <1>3, <1>4, <1>5, <1>6, <1>7 DEF Match
<1>10. Armed'
  BY <1>0, <1>1, <1>2, <1>3, <1>4, <1>5, <1>6, <1>7 DEF Armed, Running, Asked, Setting
<1>11. Served'
  BY <1>0, <1>1, <1>2, <1>3, <1>4, <1>5, <1>6, <1>7 DEF Served, Running, Asked, Listening, Leaving
<1>12. Ghostless'
  BY <1>0, <1>1, <1>2, <1>3, <1>4, <1>5, <1>6, <1>7 DEF Ghostless
<1>. QED BY <1>8, <1>9, <1>10, <1>11, <1>12 DEF LifecycleInvariant

\* The presence of an ended life is removed, and its sockets are closed.
LEMMA ClearStep ==
  ASSUME LifecycleAssumption, LifecycleInvariant, NEW r \in clears, Clear(r)
  PROVE  LifecycleInvariant'
<1>0. Typed /\ Match /\ Armed /\ Served /\ Ghostless
  BY DEF LifecycleInvariant
<1>1. UNCHANGED <<persistent, meta, stored, alarmIn, gate, chain, sending, starts,
     crashes, orphan, missed>>
  BY <1>0 DEF Clear, presVars, histVars
<1>2. gate = Open /\ gate.at = "open" /\ ~gate.byAlarm
  BY OpenTyped DEF Clear
<1>3. /\ meta \in Meta /\ meta.life \in 0..MaxStarts /\ meta.left \in 0..Ttl /\ stored.left \in 0..Ttl
      /\ MaxStarts \in Nat /\ Ttl \in Nat /\ Ttl # 0 /\ Len(chain) \in Nat
  BY <1>0 DEF Typed, Meta, LifecycleAssumption
<1>4. /\ r \in Clearing /\ r.ahead = 0 /\ clears' = clears \ {r} /\ synced' = FALSE
      /\ r.life \in 1..MaxStarts
  BY <1>0 DEF Clear, Typed, Clearing
<1>5. listed' \in [1..MaxStarts -> Entry] /\ \A l \in 1..MaxStarts : listed'[l] = IF l = r.life THEN Absent ELSE listed[l]
  BY <1>0, <1>4, AbsentTyped DEF Clear, Typed
<1>6. conn' \in [Conns -> States] /\ \A d \in Conns :
        \/ conn'[d] = conn[d] /\ ~(Listening(d) /\ d \in r.socks)
        \/ conn'[d] = "closing" /\ Listening(d) /\ d \in r.socks
  BY <1>0 DEF Clear, Typed, States, Readable, Listening
<1>7. Typed'
  BY <1>0, <1>1, <1>2, <1>3, <1>4, <1>5, <1>6 DEF Typed
<1>8. Served'
  BY <1>0, <1>1, <1>2, <1>3, <1>4, <1>5, <1>6 DEF Served, Running, Asked, Listening, Leaving, Conns
<1>9. Ghostless'
  <2> SUFFICES ASSUME crashes = 0 PROVE Ghostless'
    BY <1>1 DEF Ghostless
  <2>1. \A l \in 1..MaxStarts : listed'[l] # Absent =>
          l = meta.life \/ (gate.at = "delete" /\ gate.life = l) \/ \E q \in clears' : q.life = l
    <3> SUFFICES ASSUME NEW l \in 1..MaxStarts, listed'[l] # Absent, l # meta.life
                 PROVE  \E q \in clears' : q.life = l
      OBVIOUS
    <3>1. l # r.life /\ listed[l] # Absent
      BY <1>5
    <3>2. PICK q \in clears : q.life = l
      BY <1>0, <1>2, <3>1 DEF Ghostless
    <3>. QED BY <1>4, <3>1, <3>2
  <2>2. sending[1] # 0 =>
          /\ chain # <<>>
          /\ sending[1] = meta.life \/ \E q \in clears' : q.life = sending[1] /\ q.ahead # 0
    <3>1. ASSUME NEW q \in clears, q.ahead # 0 PROVE q \in clears'
      BY <1>4, <3>1
    <3>. QED BY <1>0, <1>2, <3>1 DEF Ghostless
  <2>. QED BY <1>1, <2>1, <2>2 DEF Ghostless
<1>10. Match' /\ Armed'
  BY <1>0, <1>1 DEF Match, Armed, Running, Asked, Setting
<1>. QED BY <1>7, <1>8, <1>9, <1>10 DEF LifecycleInvariant

\* The presence service answers, and the next update reads the session.
LEMMA CompleteStep ==
  ASSUME LifecycleAssumption, LifecycleInvariant, Complete
  PROVE  LifecycleInvariant'
<1>0. Typed /\ Match /\ Armed /\ Served /\ Ghostless
  BY DEF LifecycleInvariant
<1>1. UNCHANGED <<persistent, meta, stored, gate, conn, synced, starts, crashes,
     orphan>>
  BY <1>0 DEF Complete, presVars, histVars
<1>2. gate = Open /\ gate.at = "open" /\ ~gate.byAlarm
  BY OpenTyped DEF Complete
<1>3. /\ meta \in Meta /\ meta.life \in 0..MaxStarts /\ meta.left \in 0..Ttl /\ stored.left \in 0..Ttl
      /\ MaxStarts \in Nat /\ Ttl \in Nat /\ Ttl # 0 /\ Len(chain) \in Nat
  BY <1>0 DEF Typed, Meta, LifecycleAssumption
<1>4. chain \in Seq(Update) /\ chain # <<>>
  BY <1>0 DEF Complete, Typed
<1>5. /\ chain[1] = Head(chain) /\ chain' \in Seq(Update) /\ Len(chain') = Len(chain) - 1 /\ Len(chain) \in Nat
      /\ (Asked' => Asked) /\ (Asked => Asked' \/ chain[1].byAlarm)
      /\ Setting => Setting' /\ (chain[1].byAlarm => chain[1].sets)
  <2>1. chain' = Tail(chain)
    BY DEF Complete
  <2>2. /\ chain[1] = Head(chain) /\ chain' \in Seq(Update) /\ Len(chain') = Len(chain) - 1 /\ 1 \in 1..Len(chain)
        /\ \A i \in 1..Len(chain') : i + 1 \in 1..Len(chain) /\ chain'[i] = chain[i + 1]
        /\ \A i \in 1..Len(chain) : i = 1 \/ (i - 1 \in 1..Len(chain') /\ chain'[i - 1] = chain[i])
    BY <1>4, <2>1, TakingHead
  <2>3. (Asked' => Asked) /\ (Asked => Asked' \/ chain[1].byAlarm)
    BY <2>2 DEF Asked
  <2>4. Setting => Setting' /\ (chain[1].byAlarm => chain[1].sets)
    BY <2>2 DEF Setting
  <2>. QED BY <1>3, <2>2, <2>3, <2>4
<1>6. /\ listed' \in [1..MaxStarts -> Entry]
      /\ \A l \in 1..MaxStarts : listed'[l] # Absent => listed[l] # Absent \/ l = sending[1]
  <2>1. sending[1] \in 0..MaxStarts /\ sending[2] \in Entry /\ listed \in [1..MaxStarts -> Entry]
    BY <1>0 DEF Typed
  <2>2. CASE sending[1] = 0
    BY <2>1, <2>2 DEF Complete
  <2>3. CASE sending[1] # 0
    BY <2>1, <2>3 DEF Complete
  <2>. QED BY <2>2, <2>3
<1>7. /\ sending' \in (0..MaxStarts) \X Entry
      /\ sending'[1] = 0 \/ (sending'[1] = meta.life /\ Len(chain') # 0)
  <2>1. sending' = IF Len(chain) > 1 THEN Report(meta, conn) ELSE <<0, Absent>>
    BY DEF Complete
  <2>2. <<0, Absent>> \in (0..MaxStarts) \X Entry
    BY <1>3, AbsentTyped
  <2>. QED BY <1>3, <1>5, <2>1, <2>2, Reporting
<1>8. /\ \A r \in clears' : r \in Clearing /\ r.ahead <= Len(chain')
      /\ \A r \in clears : \E q \in clears' : q.life = r.life /\ q.socks = r.socks
  <2> DEFINE less(r) == [r EXCEPT !.ahead = IF @ = 0 THEN 0 ELSE @ - 1]
  <2>1. clears' = {less(r) : r \in clears}
    BY DEF Complete
  <2>2. \A r \in Clearing : \A n \in Nat :
          /\ [r EXCEPT !.ahead = n] \in Clearing /\ [r EXCEPT !.ahead = n].life = r.life
          /\ [r EXCEPT !.ahead = n].socks = r.socks /\ [r EXCEPT !.ahead = n].ahead = n
    BY DEF Clearing
  <2>3. \A r \in clears : r \in Clearing /\ r.ahead \in Nat /\ r.ahead <= Len(chain)
    BY <1>0 DEF Typed, Clearing
  <2>4. \A r \in clears : less(r) \in Clearing /\ less(r).life = r.life /\ less(r).socks = r.socks
                          /\ less(r).ahead <= Len(chain')
    <3> SUFFICES ASSUME NEW r \in clears
                 PROVE  less(r) \in Clearing /\ less(r).life = r.life /\ less(r).socks = r.socks
                        /\ less(r).ahead <= Len(chain')
      OBVIOUS
    <3> DEFINE n == IF r.ahead = 0 THEN 0 ELSE r.ahead - 1
    <3>1. n \in Nat /\ n <= Len(chain')
      BY <1>3, <1>5, <2>3
    <3>2. less(r) = [r EXCEPT !.ahead = n]
      OBVIOUS
    <3> HIDE DEF less, n
    <3>. QED BY <2>2, <2>3, <3>1, <3>2
  <2> HIDE DEF less
  <2>. QED BY <2>1, <2>4
<1>9. /\ alarmIn' \in 0..NoAlarm
      /\ \/ alarmIn' = alarmIn /\ ~chain[1].sets
         \/ chain[1].sets /\ meta.life = 0 /\ alarmIn' = alarmIn
         \/ chain[1].sets /\ alarmIn' <= meta.left /\ alarmIn' # NoAlarm
  <2>1. alarmIn \in 0..NoAlarm
    BY <1>0 DEF Typed
  <2>. QED BY <1>3, <1>5, <2>1, Scheduling DEF Complete
<1>10. /\ missed' \in {"nothing", "renewal", "sockets"}
       /\ missed' # "sockets" => missed # "sockets" \/ chain[1].byAlarm
  BY <1>0, <1>5 DEF Complete, Typed
<1>11. Typed'
  <2>1. Typed
    BY <1>0
  <2>2. listed' \in [1..MaxStarts -> Entry] /\ sending' \in (0..MaxStarts) \X Entry /\ chain' \in Seq(Update)
    BY <1>5, <1>6, <1>7
  <2>3. /\ persistent' \in BOOLEAN /\ meta' \in Meta /\ stored' \in Meta
        /\ gate' \in Handler /\ conn' \in [Conns -> States]
        /\ synced' \in BOOLEAN /\ orphan' \in BOOLEAN
        /\ starts' \in 0..MaxStarts /\ crashes' \in 0..MaxCrashes
    BY <1>1, <2>1 DEF Typed
  <2>. QED BY <1>8, <1>9, <1>10, <2>2, <2>3 DEF Typed
<1>12. Armed'
  <2>1. Setting /\ Setting' /\ (Asked' => Asked) /\ (Asked => Asked' \/ chain[1].sets)
    BY <1>0, <1>5 DEF Armed
  <2>2. stored = meta /\ stored.left \in Nat
    BY <1>0, <1>2, <1>3 DEF Match
  <2>. QED BY <1>0, <1>1, <1>2, <1>9, <2>1, <2>2 DEF Armed, Running
<1>13. Served'
  <2>1. \A h \in Hosts : Listening(h)' = Listening(h) /\ (Leaving(h) => Leaving(h)')
    BY <1>1, <1>8 DEF Listening, Leaving
  <2>2. missed' # "sockets" \/ Running' => missed # "sockets" \/ Running
    <3>1. chain[1].byAlarm => Asked
      BY <1>4, <1>5 DEF Asked
    <3>2. gate' = gate /\ (Asked' => Asked)
      BY <1>1, <1>5
    <3>. QED BY <1>10, <3>1, <3>2 DEF Running
  <2>. QED BY <1>0, <1>1, <1>2, <2>1, <2>2 DEF Served
<1>14. Ghostless'
  <2> SUFFICES ASSUME crashes = 0 PROVE Ghostless'
    BY <1>1 DEF Ghostless
  <2>1. \A l \in 1..MaxStarts : listed'[l] # Absent => l = meta.life \/ \E q \in clears' : q.life = l
    BY <1>0, <1>2, <1>6, <1>8 DEF Ghostless
  <2>2. sending'[1] # 0 => chain' # <<>> /\ sending'[1] = meta.life
    BY <1>5, <1>7
  <2>. QED BY <1>1, <2>1, <2>2 DEF Ghostless
<1>15. Match'
  BY <1>0, <1>1 DEF Match
<1>. QED BY <1>11, <1>12, <1>13, <1>14, <1>15 DEF LifecycleInvariant

\* Time passes.
LEMMA TickStep ==
  ASSUME LifecycleAssumption, LifecycleInvariant, Tick
  PROVE  LifecycleInvariant'
<1>0. Typed /\ Match /\ Armed /\ Served /\ Ghostless
  BY DEF LifecycleInvariant
<1>1. UNCHANGED <<persistent, gate, conn, chain, sending, clears, starts, crashes,
     orphan, missed>>
  BY <1>0 DEF Tick, presVars, histVars
<1>2. gate = Open /\ gate.at = "open" /\ ~gate.byAlarm
  BY OpenTyped DEF Tick
<1>3. /\ meta \in Meta /\ meta.life \in 0..MaxStarts /\ meta.left \in 0..Ttl /\ stored.left \in 0..Ttl
      /\ MaxStarts \in Nat /\ Ttl \in Nat /\ Ttl # 0 /\ Len(chain) \in Nat
  BY <1>0 DEF Typed, Meta, LifecycleAssumption
<1>4. chain = <<>> /\ clears = {} /\ alarmIn # 0 /\ Len(chain) = 0 /\ synced' = FALSE
  BY DEF Tick
<1>5. /\ meta' \in Meta /\ meta'.life = meta.life /\ meta'.status = meta.status
      /\ meta = stored => meta' = stored'
  <2>1. meta' = [meta EXCEPT !.left = Less(meta.left)] /\ stored' = [stored EXCEPT !.left = Less(stored.left)]
    BY DEF Tick
  <2>2. Less(meta.left) \in 0..Ttl
    BY <1>3 DEF Less
  <2>. QED BY <1>3, <2>1, <2>2 DEF Meta
<1>6. /\ stored' \in Meta /\ stored'.life = stored.life /\ stored'.left = Less(stored.left)
  <2>1. stored' = [stored EXCEPT !.left = Less(stored.left)] /\ stored \in Meta
    BY <1>0 DEF Tick, Typed
  <2>2. Less(stored.left) \in 0..Ttl
    BY <1>3 DEF Less
  <2>. QED BY <2>1, <2>2 DEF Meta
<1>7. alarmIn \in 0..NoAlarm /\ alarmIn' = (IF alarmIn = NoAlarm THEN NoAlarm ELSE alarmIn - 1) /\ alarmIn' \in 0..NoAlarm
  BY <1>0, <1>3, <1>4 DEF Tick, Typed, NoAlarm
<1>8. /\ listed' \in [1..MaxStarts -> Entry]
      /\ \A l \in 1..MaxStarts : listed'[l] # Absent => listed[l] # Absent
  <2>1. /\ listed \in [1..MaxStarts -> Entry]
        /\ listed' = [l \in 1..MaxStarts |->
                        IF listed[l].lease <= 1 THEN Absent ELSE [listed[l] EXCEPT !.lease = @ - 1]]
    BY <1>0 DEF Tick, Typed
  <2>2. \A e \in Entry : ~(e.lease <= 1) => [e EXCEPT !.lease = @ - 1] \in Entry
    BY DEF Entry, LifecycleAssumption
  <2>3. Absent.lease = 0
    BY DEF Absent
  <2>4. \A l \in 1..MaxStarts : listed'[l] \in Entry
    BY <2>1, <2>2, AbsentTyped
  <2>5. listed' = [l \in 1..MaxStarts |-> listed'[l]]
    BY <2>1
  <2>6. \A l \in 1..MaxStarts : listed[l] = Absent => listed'[l] = Absent
    BY <2>1, <2>3
  <2>. QED BY <2>4, <2>5, <2>6
<1>9. Typed'
  BY <1>0, <1>1, <1>2, <1>3, <1>4, <1>5, <1>6, <1>7, <1>8 DEF Typed
<1>10. Match'
  BY <1>0, <1>1, <1>2, <1>3, <1>4, <1>5, <1>6, <1>7, <1>8 DEF Match, Less
<1>11. Armed'
  BY <1>0, <1>1, <1>2, <1>3, <1>4, <1>5, <1>6, <1>7, <1>8 DEF Armed, Running, Asked, Setting, Less
<1>12. Served'
  BY <1>0, <1>1, <1>2, <1>3, <1>4, <1>5, <1>6, <1>7, <1>8 DEF Served, Running, Asked, Listening, Leaving
<1>13. Ghostless'
  BY <1>0, <1>1, <1>2, <1>3, <1>4, <1>5, <1>6, <1>7, <1>8 DEF Ghostless
<1>. QED BY <1>9, <1>10, <1>11, <1>12, <1>13 DEF LifecycleInvariant

\* The instance dies with its sockets; an alarm handler is run again.
LEMMA CrashStep ==
  ASSUME LifecycleAssumption, LifecycleInvariant, Crash
  PROVE  LifecycleInvariant'
<1>0. Typed /\ Match /\ Armed /\ Served /\ Ghostless
  BY DEF LifecycleInvariant
<1>1. UNCHANGED <<persistent, stored, starts>>
  BY <1>0 DEF Crash, presVars, histVars
<1>2. /\ meta \in Meta /\ meta.life \in 0..MaxStarts /\ meta.left \in 0..Ttl /\ stored.left \in 0..Ttl
      /\ MaxStarts \in Nat /\ Ttl \in Nat /\ Ttl # 0 /\ Len(chain) \in Nat
  BY <1>0 DEF Typed, Meta, LifecycleAssumption
<1>3. crashes' \in 0..MaxCrashes /\ crashes' # 0
  BY <1>0 DEF Crash, Typed, LifecycleAssumption
<1>4. meta' = stored /\ stored \in Meta /\ gate' \in Handler /\ gate'.at = "open" /\ ~gate'.byAlarm
  BY <1>0, OpenTyped DEF Crash, Typed
<1>5. conn' \in [Conns -> States] /\ \A d \in Conns : conn'[d] \notin {"open", "broken"}
  BY <1>0 DEF Crash, Typed, States
<1>6. /\ chain' = <<>> /\ chain' \in Seq(Update) /\ Len(chain') = 0 /\ clears' = {} /\ ~Asked' /\ Setting'
      /\ sending' \in (0..MaxStarts) \X Entry /\ synced' = FALSE /\ missed' = "sockets"
  <2>1. sending' = <<0, Absent>> /\ 0 \in 0..MaxStarts
    BY <1>2 DEF Crash
  <2>2. chain' = <<>> /\ ~Asked' /\ Setting'
    BY DEF Crash, Asked, Setting
  <2>. QED BY <2>1, <2>2, AbsentTyped DEF Crash
<1>7. listed' \in [1..MaxStarts -> Entry]
  <2>1. sending[1] \in 0..MaxStarts /\ sending[2] \in Entry /\ listed \in [1..MaxStarts -> Entry]
    BY <1>0 DEF Typed
  <2>. QED BY <2>1 DEF Crash
<1>8. /\ alarmIn' = IF Running /\ alarmIn = NoAlarm THEN 0 ELSE alarmIn
      /\ orphan' = (orphan \/ (gate.at = "arm" /\ alarmIn = NoAlarm))
  BY <1>0 DEF Crash, AlarmRunning, Running, Asked, Typed
<1>9. alarmIn \in 0..NoAlarm /\ alarmIn' \in 0..NoAlarm /\ orphan' \in BOOLEAN
  BY <1>0, <1>2, <1>8 DEF Typed, NoAlarm
<1>10. Typed'
  BY <1>0, <1>1, <1>2, <1>3, <1>4, <1>5, <1>6, <1>7, <1>8, <1>9 DEF Typed, Clearing
<1>11. Match'
  BY <1>0, <1>1, <1>2, <1>3, <1>4, <1>5, <1>6, <1>7, <1>8, <1>9 DEF Match
<1>12. Armed'
  <2>1. alarmIn # NoAlarm => alarmIn <= Ttl
    BY <1>2, <1>9 DEF NoAlarm
  <2>2. gate.at = "arm" => stored.left = Ttl
    BY <1>0 DEF Match
  <2>3. 0 # NoAlarm /\ 0 <= stored.left
    BY <1>2 DEF NoAlarm
  <2>. QED BY <1>0, <1>1, <1>4, <1>6, <1>8, <2>1, <2>2, <2>3 DEF Armed
<1>13. Served'
  BY <1>0, <1>1, <1>2, <1>3, <1>4, <1>5, <1>6, <1>7, <1>8, <1>9 DEF Served, Running, Listening, Leaving, Conns
<1>14. Ghostless'
  BY <1>0, <1>1, <1>2, <1>3, <1>4, <1>5, <1>6, <1>7, <1>8, <1>9 DEF Ghostless
<1>. QED BY <1>10, <1>11, <1>12, <1>13, <1>14 DEF LifecycleInvariant

\* At the start there is no session and no socket.
LEMMA LifecycleStart == ASSUME LifecycleAssumption PROVE Init => LifecycleInvariant
<1> SUFFICES ASSUME Init PROVE LifecycleInvariant
  OBVIOUS
<1>1. MaxStarts \in Nat /\ Ttl \in Nat /\ MaxCrashes \in Nat
  BY DEF LifecycleAssumption
<1>2. gate \in Handler /\ gate.at = "open" /\ ~gate.byAlarm /\ meta \in Meta /\ stored \in Meta /\ meta.life = 0
      /\ stored.life = 0
  BY OpenTyped, GoneTyped DEF Init
<1>3. conn \in [Conns -> States] /\ \A c \in Conns : ~Listening(c)
  BY DEF Init, States, Listening
<1>4. listed \in [1..MaxStarts -> Entry] /\ \A l \in 1..MaxStarts : listed[l] = Absent
  BY AbsentTyped DEF Init
<1>5. sending \in (0..MaxStarts) \X Entry /\ sending[1] = 0
  BY <1>1, AbsentTyped DEF Init
<1>6. chain \in Seq(Update) /\ Len(chain) = 0 /\ clears = {}
  BY DEF Init
<1>7. Typed
  <2>1. alarmIn \in 0..NoAlarm
    BY <1>1 DEF Init, NoAlarm
  <2>2. starts \in 0..MaxStarts /\ crashes \in 0..MaxCrashes
    BY <1>1 DEF Init
  <2>. QED BY <1>2, <1>3, <1>4, <1>5, <1>6, <2>1, <2>2 DEF Init, Typed
<1>8. Match /\ Armed
  BY <1>2, <1>6 DEF Init, Match, Armed, Setting
<1>9. Served /\ Ghostless
  BY <1>2, <1>3, <1>4, <1>5 DEF Served, Ghostless, Conns
<1>. QED BY <1>7, <1>8, <1>9 DEF LifecycleInvariant

LEMMA SocketEndStep == ASSUME LifecycleAssumption, LifecycleInvariant, NEW c \in Conns, SocketEnd(c)
  PROVE LifecycleInvariant'
BY ViewerEndStep, NobodyEndStep, ReplacedEndStep, LastEndStep DEF Conns

LEMMA AlarmStep == ASSUME LifecycleAssumption, LifecycleInvariant, AlarmFires PROVE LifecycleInvariant'
<1>1. CASE meta.life = 0
  BY <1>1, AlarmIdleStep
<1>2. CASE meta.life # 0 /\ Readable(conn) \cap Hosts # {}
  BY <1>2, AlarmServedStep
<1>3. CASE meta.life # 0 /\ Readable(conn) \cap Hosts = {}
  <2>1. persistent \in BOOLEAN
    BY DEF LifecycleInvariant, Typed
  <2>. QED BY <1>3, <2>1, AlarmAloneStep, AlarmWaitingStep, AlarmExpiryStep
<1>. QED BY <1>1, <1>2, <1>3

LEMMA LifecycleStutter == ASSUME LifecycleAssumption, LifecycleInvariant, UNCHANGED vars PROVE LifecycleInvariant'
<1> USE DEF vars, presVars, histVars
<1>1. Typed' /\ Match'
  BY DEF LifecycleInvariant, Typed, Match
<1>2. Armed'
  BY DEF LifecycleInvariant, Armed, Running, Asked, Setting
<1>3. Served' /\ Ghostless'
  BY DEF LifecycleInvariant, Served, Running, Asked, Listening, Leaving, Ghostless
<1>. QED BY <1>1, <1>2, <1>3 DEF LifecycleInvariant

\* Every step keeps the invariant.
LEMMA LifecycleInductive == ASSUME LifecycleAssumption, LifecycleInvariant, [Next]_vars PROVE LifecycleInvariant'
<1>1. CASE Start \/ StatusRequest \/ Tick \/ Crash
  BY <1>1, StartStep, StatusRequestStep, TickStep, CrashStep
<1>2. CASE Relay
  <2>1. CASE StoreStart \/ Arm \/ StoreMeta \/ StoreExit
    BY <2>1, StoreStartStep, ArmStep, StoreMetaStep, StoreExitStep
  <2>2. CASE Delete \/ Complete \/ AlarmFires
    BY <2>2, DeleteStep, CompleteStep, AlarmStep
  <2>3. CASE \E r \in clears : Clear(r)
    BY <2>3, ClearStep
  <2>. QED BY <1>2, <2>1, <2>2, <2>3 DEF Relay
<1>3. ASSUME NEW c \in Conns, Ask(c) \/ HostAccept(c) \/ ViewerAccept(c) \/ PeerGone(c) PROVE LifecycleInvariant'
  BY <1>3, AskStep, HostAcceptStep, ViewerAcceptStep, PeerGoneStep
<1>4. ASSUME NEW c \in Conns, SocketEnd(c) \/ Frame(c) \/ Exit(c) PROVE LifecycleInvariant'
  BY <1>4, SocketEndStep, FrameStep, ExitStep, ExitForgetStep
<1>5. CASE UNCHANGED vars
  BY <1>5, LifecycleStutter
<1>. QED BY <1>1, <1>2, <1>3, <1>4, <1>5 DEF Next

\* The invariant holds in every reachable state.
THEOREM LifecycleInvariantHolds == ASSUME LifecycleAssumption PROVE Spec => []LifecycleInvariant
<1>1. Init => LifecycleInvariant
  BY LifecycleStart
<1>2. LifecycleInvariant /\ [Next]_vars => LifecycleInvariant'
  BY LifecycleInductive
<1>. QED BY <1>1, <1>2, PTL DEF Spec

------------------------------------------------------------------------------
\* Every variable keeps its type; in particular the presence service is never
\* told of more viewers than there are.
THEOREM LifecycleTypeCorrect == ASSUME LifecycleAssumption PROVE Spec => []TypeOK
<1>1. LifecycleInvariant => TypeOK
  <2> SUFFICES ASSUME LifecycleInvariant PROVE TypeOK
    OBVIOUS
  <2>1. Typed
    BY DEF LifecycleInvariant
  <2>2. gate \in [at : {"open", "create", "arm", "persist", "exit", "delete"},
                  conn : Conns \cup {Nobody}, life : 0..MaxStarts, byAlarm : BOOLEAN]
    BY <2>1 DEF Typed, Handler
  <2>3. chain \in Seq([sets : BOOLEAN, byAlarm : BOOLEAN])
    BY <2>1 DEF Typed, Update
  <2>4. clears \in SUBSET [life : 1..MaxStarts, ahead : 0..Len(chain), socks : SUBSET Conns]
    <3>1. \A r \in clears : r \in Clearing /\ r.ahead <= Len(chain)
      BY <2>1 DEF Typed
    <3>2. Len(chain) \in Nat
      BY <2>3
    <3>3. \A r \in clears : r \in [life : 1..MaxStarts, ahead : 0..Len(chain), socks : SUBSET Conns]
      BY <3>1, <3>2 DEF Clearing
    <3>. QED BY <3>3
  <2>. QED BY <2>1, <2>2, <2>3, <2>4 DEF TypeOK, Typed
<1>. QED BY <1>1, LifecycleInvariantHolds, PTL

\* A stored session is never left without an alarm that comes in time, or a
\* handler that will set one, but for a death between storing it and its alarm.
THEOREM AlarmAlwaysArmed == ASSUME LifecycleAssumption PROVE Spec => []AlarmArmed
<1>1. LifecycleInvariant => AlarmArmed
  <2> SUFFICES ASSUME LifecycleInvariant PROVE AlarmArmed
    OBVIOUS
  <2>1. Running => AlarmRunning
    BY DEF LifecycleInvariant, Typed, Running, Asked, AlarmRunning
  <2>. QED BY <2>1 DEF LifecycleInvariant, Armed, AlarmArmed
<1>. QED BY <1>1, LifecycleInvariantHolds, PTL

\* At rest the session says "connected" exactly while a host is there, whatever
\* sockets were replaced, ended late or died, once an alarm has run.
THEOREM StatusIsTrue == ASSUME LifecycleAssumption PROVE Spec => []StatusTruth
<1>1. LifecycleInvariant => StatusTruth
  <2> SUFFICES ASSUME LifecycleInvariant, AtRest, meta.life # 0, missed # "sockets"
               PROVE  meta.status = "connected" <=> \E h \in Hosts : conn[h] = "open"
    BY DEF StatusTruth
  <2>1. Served /\ gate.at = "open" /\ clears = {} /\ \A h \in Hosts : conn[h] \notin {"broken", "closing"}
    BY OpenTyped DEF LifecycleInvariant, AtRest, Conns
  <2>. QED BY <2>1 DEF Served, Listening, Leaving
<1>. QED BY <1>1, LifecycleInvariantHolds, PTL

\* An ended session whose removal is answered is not listed.
THEOREM NoGhostIsListed == ASSUME LifecycleAssumption PROVE Spec => []NoGhost
<1>1. LifecycleInvariant => NoGhost
  BY DEF LifecycleInvariant, Ghostless, NoGhost
<1>. QED BY <1>1, LifecycleInvariantHolds, PTL

------------------------------------------------------------------------------
(* What the presence service lists. An update reports the session as it is    *)
(* when its turn comes; whatever changes the session afterwards owes another. *)

\* A change that no update has reported yet will be followed by one: the session is being stored,
\* a socket is about to report its end, or one of an ended life is about to be closed.
Owing ==
  \/ gate.at \in {"persist", "exit"}
  \/ \E c \in Conns : conn[c] \in {"broken", "closing"}
  \/ \E r \in clears : r.socks \cap Readable(conn) # {}

\* Lives are numbered as they begin: none is listed, reported or removed before, and what is still
\* to be removed is over.
Numbered ==
  /\ meta.life <= starts /\ stored.life <= starts /\ gate.life <= starts /\ sending[1] <= starts
  /\ \A r \in clears : r.life <= starts /\ r.life # meta.life
  /\ \A l \in 1..MaxStarts : l > starts => listed[l] = Absent

\* A socket without a session goes with the removal of its life, or has lost its peer.
Leftover == meta.life = 0 /\ gate.at # "delete" =>
  \A c \in Readable(conn) : conn[c] = "broken" \/ \E r \in clears : c \in r.socks

\* The exit is of a connection.
Leaver == gate.at = "exit" => gate.conn \in Conns

\* While there are sockets the alarm comes within a tick, or is about to be set.
Soon == missed = "nothing" /\ meta.life # 0 /\ Readable(conn) # {} =>
  alarmIn <= 1 \/ gate.at \in {"create", "arm", "persist"} \/ \E i \in 1..Len(chain) : chain[i].sets

\* The only update under way says what is so, or is of an earlier life and there is nothing to say
\* of this one, or another is owed.
Told == chain # <<>> /\ meta.life # 0 =>
  \/ Len(chain) > 1 \/ Owing
  \/ sending = Report(meta, conn)
  \/ sending[1] # meta.life /\ listed[meta.life] = Absent /\ Report(meta, conn)[2] = Absent

\* With none under way the service lists what is so, and the lease outlasts the alarm, or one is owed.
Says(e, f) == e.host = f.host /\ e.viewers = f.viewers
Known == chain = <<>> /\ meta.life # 0 /\ missed = "nothing" =>
  \/ Owing
  \/ /\ Says(listed[meta.life], Report(meta, conn)[2])
     /\ gate.at = "open" /\ Report(meta, conn)[2] # Absent => listed[meta.life].lease > alarmIn

AllTold == Soon /\ Told /\ Known
PresenceInvariant == Numbered /\ Leftover /\ Leaver /\ AllTold

\* The invariant of the session goes with every step.
LEMMA LifecycleStepTyped == ASSUME LifecycleAssumption, LifecycleInvariant, [Next]_vars PROVE LifecycleInvariant' /\ Typed'
  BY LifecycleInductive DEF LifecycleInvariant

\* Only the time left changes.
LEMMA Retimed ==
  ASSUME NEW m \in Meta, NEW t PROVE [m EXCEPT !.left = t].life = m.life /\ [m EXCEPT !.left = t].status = m.status
BY DEF Meta

\* Only the status and the time left change.
LEMMA Restated ==
  ASSUME NEW m \in Meta, NEW s, NEW t
  PROVE  [m EXCEPT !.status = s, !.left = t].life = m.life /\ [m EXCEPT !.status = s, !.left = t].status = s
BY DEF Meta

\* How the gate moves.
LEMMA GateMoves ==
  ASSUME LifecycleAssumption, LifecycleInvariant, [Next]_vars
  PROVE  \/ gate' = gate
         \/ gate' = Open
         \/ \E b \in BOOLEAN : Forget(b)
         \/ \E at \in {"create", "arm", "persist", "exit"}, c \in Conns \cup {Nobody}, b \in BOOLEAN :
               Persist(at, c, b) /\ (at = "exit" => c \in Conns)
<1>1. CASE Start \/ StoreStart
  BY <1>1 DEF Start, StoreStart
<1>2. ASSUME NEW c \in Conns, Ask(c) \/ StatusRequest
      PROVE gate' = gate \/ \E b \in BOOLEAN : Forget(b)
  BY <1>2 DEF Ask, StatusRequest
<1>3. ASSUME NEW c \in Conns, HostAccept(c) \/ ViewerAccept(c) \/ SocketEnd(c)
      PROVE gate' = gate \/ Persist("persist", Nobody, FALSE)
  BY <1>3 DEF HostAccept, ViewerAccept, SocketEnd
<1>4. ASSUME NEW c \in Conns, Exit(c)
      PROVE Persist("exit", c, FALSE) \/ Forget(FALSE)
  BY <1>4 DEF Exit
<1>5. CASE AlarmFires
  <2>1. gate' = gate \/ Persist("persist", Nobody, TRUE) \/ Forget(TRUE)
    BY <1>5 DEF AlarmFires
  <2>. QED BY <2>1
<1>6. CASE StatusRequest
  BY <1>6 DEF StatusRequest
<1>7. \/ gate' = gate \/ gate' = Open
      \/ Start \/ StoreStart \/ AlarmFires \/ StatusRequest
      \/ \E c \in Conns : Ask(c) \/ HostAccept(c) \/ ViewerAccept(c) \/ SocketEnd(c) \/ Exit(c)
  BY DEF Next, Relay, vars, Arm, StoreMeta, StoreExit, Delete, Complete, Clear, Tick, Crash, PeerGone, Frame
<1>. QED BY <1>1, <1>2, <1>3, <1>4, <1>5, <1>6, <1>7

\* Only Exit begins an exit.
LEMMA LeaverStep == ASSUME LifecycleAssumption, LifecycleInvariant, Leaver, [Next]_vars PROVE Leaver'
<1>1. CASE gate' = gate
  BY <1>1 DEF Leaver
<1>2. CASE gate' = Open
  BY <1>2, OpenTyped DEF Leaver
<1>3. ASSUME NEW b \in BOOLEAN, Forget(b) PROVE Leaver'
  BY <1>3 DEF Leaver, Forget, Open
<1>4. ASSUME NEW at \in {"create", "arm", "persist", "exit"}, NEW c \in Conns \cup {Nobody}, NEW b \in BOOLEAN,
             Persist(at, c, b), at = "exit" => c \in Conns
      PROVE Leaver'
  BY <1>4, Persisting DEF Leaver
<1>. QED BY <1>1, <1>2, <1>3, <1>4, GateMoves

\* How the session the relay knows moves, and its life.
LEMMA LifeMoves ==
  ASSUME LifecycleAssumption, LifecycleInvariant, [Next]_vars
  PROVE \/ meta'.life = meta.life /\ starts' >= starts
        \/ meta.life = 0 /\ meta'.life = starts' /\ starts' = starts + 1 /\ Start
        \/ meta'.life = 0 /\ gate'.at = "delete" /\ gate'.life = meta.life /\ starts' = starts
        \/ Crash
<1>0. starts \in Nat /\ meta \in Meta
  BY DEF LifecycleInvariant, Typed, LifecycleAssumption
<1>1. CASE meta' = meta /\ starts' = starts
  BY <1>0, <1>1
<1>2. CASE Start
  <2>1. CASE meta.life = 0
    BY <1>0, <1>2, <2>1 DEF Start
  <2>2. CASE meta.life # 0
    <3>1. meta' = [meta EXCEPT !.left = Ttl] /\ starts' = starts + 1
      BY <1>2, <2>2 DEF Start
    <3>2. meta'.life = meta.life
      BY <1>0, <3>1 DEF Meta
    <3>. QED BY <1>0, <3>1, <3>2
  <2>. QED BY <2>1, <2>2
<1>3. ASSUME Forget(FALSE) \/ Forget(TRUE)
      PROVE  meta'.life = 0 /\ gate'.at = "delete" /\ gate'.life = meta.life
  <2>1. FALSE \in BOOLEAN /\ TRUE \in BOOLEAN
    OBVIOUS
  <2>. QED BY <1>0, <1>3, <2>1, Forgetting, Zenon
<1>4. CASE Tick
  BY <1>0, <1>4 DEF Tick, histVars, Meta
<1>5. ASSUME NEW c \in Conns, HostAccept(c) \/ SocketEnd(c)
      PROVE  meta'.life = meta.life /\ starts' = starts
  BY <1>0, <1>5 DEF HostAccept, SocketEnd, histVars, Meta
<1>6. ASSUME NEW c \in Conns, Ask(c) \/ Exit(c)
      PROVE  starts' = starts /\ (meta'.life = meta.life \/ Forget(FALSE))
  BY <1>0, <1>6 DEF Ask, Exit, histVars, Meta
<1>7. CASE AlarmFires \/ StatusRequest
  <2>1. starts' = starts /\ (meta'.life = meta.life \/ Forget(FALSE) \/ Forget(TRUE))
    BY <1>0, <1>7 DEF AlarmFires, StatusRequest, histVars, Meta
  <2>2. CASE Forget(FALSE) \/ Forget(TRUE)
    BY <1>3, <2>1, <2>2, Zenon
  <2>3. CASE starts' = starts /\ meta'.life = meta.life
    BY <1>0, <2>3
  <2>. QED BY <2>1, <2>2, <2>3, Zenon
<1>8. (meta' = meta /\ starts' = starts) \/ Start \/ Tick \/ Crash \/ AlarmFires \/ StatusRequest
      \/ \E c \in Conns : Ask(c) \/ Exit(c) \/ HostAccept(c) \/ SocketEnd(c)
  BY DEF Next, Relay, vars, presVars, histVars, StoreStart, Arm, StoreMeta, StoreExit, Delete, Complete,
      Clear, ViewerAccept, PeerGone, Frame
<1>9. CASE \E c \in Conns : HostAccept(c) \/ SocketEnd(c)
  BY <1>0, <1>5, <1>9
<1>10. CASE \E c \in Conns : Ask(c) \/ Exit(c)
  <2>1. starts' = starts /\ (meta'.life = meta.life \/ Forget(FALSE))
    BY <1>6, <1>10
  <2>2. CASE Forget(FALSE)
    BY <1>3, <2>1, <2>2, Zenon
  <2>3. CASE starts' = starts /\ meta'.life = meta.life
    BY <1>0, <2>3
  <2>. QED BY <2>1, <2>2, <2>3, Zenon
<1>. QED BY <1>1, <1>2, <1>4, <1>7, <1>8, <1>9, <1>10

\* What is reported is reported of the session as it is.
LEMMA SendingMoves ==
  ASSUME LifecycleAssumption, LifecycleInvariant, [Next]_vars
  PROVE  sending' = sending \/ sending' = <<0, Absent>> \/ (sending'[1] = meta.life /\ meta' = meta)
<1>0. meta \in Meta /\ \A cs : Report(meta, cs)[1] = meta.life
  BY Reporting DEF LifecycleInvariant, Typed
<1>1. CASE Complete
  BY <1>0, <1>1 DEF Complete
<1>2. ASSUME NEW cs, NEW s, NEW b, Refresh(s, b, meta, cs)
      PROVE  sending' = sending \/ sending'[1] = meta.life
  BY <1>0, <1>2 DEF Refresh
<1>3. CASE StoreMeta \/ AlarmFires
  BY <1>2, <1>3 DEF StoreMeta, AlarmFires, presVars
<1>4. CASE \E c \in Conns : SocketEnd(c) \/ Frame(c)
  BY <1>2, <1>4 DEF SocketEnd, Frame, presVars
<1>5. \/ sending' = sending \/ sending' = <<0, Absent>> \/ Complete \/ StoreMeta \/ AlarmFires
      \/ \E c \in Conns : SocketEnd(c) \/ Frame(c)
  BY DEF Next, Relay, vars, presVars, Start, StoreStart, Arm, StoreExit, Delete, Clear, StatusRequest, Tick, Crash,
      Ask, HostAccept, ViewerAccept, PeerGone, Exit
<1>. QED BY <1>1, <1>3, <1>4, <1>5

\* A removal to come is of a life that ends now, or was to come before, with the same sockets.
LEMMA ClearsMove ==
  ASSUME LifecycleAssumption, LifecycleInvariant, [Next]_vars, NEW r \in clears'
  PROVE  \/ \E q \in clears : q.life = r.life /\ q.socks = r.socks
         \/ gate.at = "delete" /\ meta' = meta /\ starts' = starts /\ r.life = gate.life
<1>1. CASE clears' \subseteq clears
  BY <1>1
<1>2. CASE Delete
  BY <1>2 DEF Delete, histVars
<1>3. CASE Complete
  <2>1. PICK q \in clears : r = [q EXCEPT !.ahead = IF @ = 0 THEN 0 ELSE @ - 1]
    BY <1>3 DEF Complete
  <2>2. q \in Clearing
    BY DEF LifecycleInvariant, Typed
  <2>. QED BY <2>1, <2>2 DEF Clearing
<1>4. \A cs, s, b : Refresh(s, b, meta, cs) => clears' = clears
  BY DEF Refresh
<1>5. CASE StoreMeta \/ AlarmFires \/ \E c \in Conns : SocketEnd(c) \/ Frame(c)
  <2>1. clears' = clears
    BY <1>4, <1>5 DEF StoreMeta, AlarmFires, SocketEnd, Frame, presVars
  <2>. QED BY <1>1, <2>1
<1>6. \/ clears' \subseteq clears \/ Complete \/ Delete \/ StoreMeta \/ AlarmFires
      \/ \E c \in Conns : SocketEnd(c) \/ Frame(c)
  BY DEF Next, Relay, vars, presVars, Start, StoreStart, Arm, StoreExit, Clear, StatusRequest, Tick, Crash,
      Ask, HostAccept, ViewerAccept, PeerGone, Exit
<1>. QED BY <1>1, <1>2, <1>3, <1>5, <1>6

\* A life that is not listed is listed only by the update under way.
LEMMA ListedMoves ==
  ASSUME LifecycleAssumption, LifecycleInvariant, [Next]_vars, NEW l \in 1..MaxStarts,
         listed[l] = Absent, l # sending[1]
  PROVE  listed'[l] = Absent
<1>0. listed \in [1..MaxStarts -> Entry] /\ Absent.lease = 0
  BY DEF LifecycleInvariant, Typed, Absent
<1>1. CASE listed' = listed
  BY <1>1
<1>2. CASE Complete
  BY <1>0, <1>2 DEF Complete
<1>3. CASE Crash
  BY <1>0, <1>3 DEF Crash
<1>4. CASE Tick
  BY <1>0, <1>4 DEF Tick
<1>5. CASE \E r \in clears : Clear(r)
  BY <1>0, <1>5 DEF Clear
<1>6. \A cs, s, b : Refresh(s, b, meta, cs) => listed' = listed
  BY DEF Refresh
<1>7. CASE StoreMeta \/ AlarmFires \/ \E c \in Conns : SocketEnd(c) \/ Frame(c)
  <2>1. listed' = listed
    BY <1>6, <1>7 DEF StoreMeta, AlarmFires, SocketEnd, Frame, presVars
  <2>. QED BY <1>1, <2>1
<1>8. \/ listed' = listed \/ Complete \/ Crash \/ Tick \/ StoreMeta \/ AlarmFires
      \/ (\E r \in clears : Clear(r)) \/ \E c \in Conns : SocketEnd(c) \/ Frame(c)
  BY DEF Next, Relay, vars, presVars, Start, StoreStart, Arm, StoreExit, Delete, StatusRequest,
      Ask, HostAccept, ViewerAccept, PeerGone, Exit
<1>. QED BY <1>1, <1>2, <1>3, <1>4, <1>5, <1>7, <1>8

\* What is stored.
LEMMA StoredMoves ==
  ASSUME LifecycleAssumption, LifecycleInvariant, [Next]_vars
  PROVE  stored'.life = stored.life \/ stored'.life = 0 \/ (stored'.life = meta.life /\ meta' = meta)
<1>0. stored \in Meta
  BY DEF LifecycleInvariant, Typed
<1>1. CASE Tick
  BY <1>0, <1>1 DEF Tick, Meta
<1>2. CASE Delete
  BY <1>2, GoneTyped DEF Delete
<1>3. stored' = stored \/ (stored' = meta /\ meta' = meta) \/ Tick \/ Delete
  BY DEF Next, Relay, vars, presVars, histVars, Start, StoreStart, Arm, StoreMeta, StoreExit, Complete, AlarmFires,
      Clear, StatusRequest, Crash, Ask, HostAccept, ViewerAccept, PeerGone, Exit, SocketEnd, Frame
<1>. QED BY <1>1, <1>2, <1>3

\* The lives are numbered as they begin.
LEMMA NumberedStep ==
  ASSUME LifecycleAssumption, LifecycleInvariant, Numbered, [Next]_vars
  PROVE  Numbered'
<1>0. /\ starts \in Nat /\ starts' \in Nat /\ meta \in Meta /\ stored \in Meta /\ meta.life \in Nat /\ stored.life \in Nat
      /\ sending[1] \in Nat /\ gate.life \in Nat
      /\ (gate.at = "delete" => meta = Gone /\ meta.life = 0 /\ gate.life # 0)
      /\ \A r \in clears : r.life \in Nat /\ r.life # 0
  <2>1. starts' \in Nat
    <3>1. starts' = starts \/ starts' = starts + 1
      BY DEF Next, Relay, vars, presVars, histVars, Start, StoreStart,
        Arm, StoreMeta, StoreExit, Complete, AlarmFires, Delete, Tick,
        Clear, StatusRequest, Crash, Ask, HostAccept, ViewerAccept, PeerGone, Exit, SocketEnd, Frame
    <3>. QED BY <3>1 DEF LifecycleInvariant, Typed, LifecycleAssumption
  <2>. QED BY <2>1, GoneTyped DEF LifecycleInvariant, Typed, Match, Meta, Handler, Clearing, LifecycleAssumption
<1>1. starts' >= starts /\ meta'.life <= starts'
  <2>1. CASE Crash
    BY <1>0, <2>1 DEF Crash, Numbered
  <2>. QED BY <1>0, <2>1, LifeMoves DEF Numbered
<1>2. stored'.life <= starts'
  BY <1>0, <1>1, StoredMoves DEF Numbered
<1>3. gate'.life <= starts'
  <2>1. CASE gate' = gate \/ gate' = Open
    <3>1. gate'.life = gate.life \/ gate'.life = 0
      BY <2>1, OpenTyped
    <3>. QED BY <1>0, <1>1, <3>1 DEF Numbered
  <2>2. ASSUME NEW b \in BOOLEAN, Forget(b) PROVE gate'.life = meta.life
    BY <1>0, <2>2, Forgetting
  <2>3. ASSUME NEW at, NEW c, NEW b, Persist(at, c, b)
        PROVE gate'.life = 0
    BY <2>3 DEF Persist, Open
  <2>4. CASE \E b \in BOOLEAN : Forget(b)
    BY <1>0, <1>1, <2>2, <2>4 DEF Numbered
  <2>. QED BY <1>0, <1>1, <2>1, <2>3, <2>4, GateMoves
<1>4. sending'[1] <= starts'
  BY <1>0, <1>1, SendingMoves DEF Numbered
<1>5. ASSUME NEW r \in clears' PROVE r.life <= starts' /\ r.life # meta'.life
  <2>1. CASE gate.at = "delete" /\ meta' = meta /\ starts' = starts /\ r.life = gate.life
    BY <1>0, <2>1 DEF Numbered
  <2>2. ASSUME NEW q \in clears, q.life = r.life PROVE r.life <= starts' /\ r.life # meta'.life
    <3>1. ~Crash
      BY DEF Crash
    <3>. QED BY <1>0, <1>1, <2>2, <3>1, LifeMoves DEF Numbered
  <2>. QED BY <2>1, <2>2, ClearsMove
<1>6. ASSUME NEW l \in 1..MaxStarts, l > starts' PROVE listed'[l] = Absent
  <2>1. l > starts /\ l # sending[1]
    BY <1>0, <1>1, <1>6 DEF Numbered
  <2>. QED BY <2>1, ListedMoves DEF Numbered
<1>. QED BY <1>1, <1>2, <1>3, <1>4, <1>5, <1>6 DEF Numbered

\* A socket that is read was read before as it is, or has lost its peer, or is accepted.
LEMMA ReadMoves ==
  ASSUME LifecycleAssumption, LifecycleInvariant, [Next]_vars, NEW c \in Readable(conn')
  PROVE  \/ conn'[c] = conn[c]
         \/ conn'[c] = "broken"
         \/ meta.life # 0 /\ gate'.at = "persist" /\ meta'.life = meta.life
<1>0. conn \in [Conns -> States] /\ conn' \in [Conns -> States] /\ c \in Conns /\ conn'[c] \in {"open", "broken"} /\ meta \in Meta
  <2>1. conn' \in [Conns -> States]
    BY LifecycleStepTyped DEF Typed
  <2>. QED BY <2>1 DEF LifecycleInvariant, Typed, Readable
<1>1. CASE conn' = conn
  BY <1>1
<1>2. ASSUME NEW d \in Conns, HostAccept(d), meta.life # 0 PROVE gate'.at = "persist" /\ meta'.life = meta.life
  BY <1>0, <1>2, Persisting DEF HostAccept, Meta
<1>3. ASSUME NEW d \in Conns, HostAccept(d), meta.life = 0 PROVE conn'[c] = conn[c]
  BY <1>0, <1>3 DEF HostAccept
<1>4. ASSUME NEW d \in Conns, ViewerAccept(d), meta.life # 0 PROVE gate'.at = "persist" /\ meta'.life = meta.life
  BY <1>0, <1>4, Persisting DEF ViewerAccept
<1>5. ASSUME NEW d \in Conns, ViewerAccept(d), meta.life = 0 PROVE conn'[c] = conn[c] \/ conn'[c] = "broken"
  BY <1>0, <1>5 DEF ViewerAccept
<1>6. ASSUME NEW d \in Conns, Ask(d) \/ SocketEnd(d) \/ PeerGone(d) PROVE conn'[c] = conn[c] \/ conn'[c] = "broken"
  BY <1>0, <1>6 DEF Ask, SocketEnd, PeerGone
<1>7. CASE StoreExit
  BY <1>0, <1>7 DEF StoreExit
<1>8. CASE (\E r \in clears : Clear(r)) \/ Crash
  BY <1>0, <1>8 DEF Clear, Crash
<1>9. \/ conn' = conn \/ StoreExit \/ (\E r \in clears : Clear(r)) \/ Crash
      \/ \E d \in Conns : HostAccept(d) \/ ViewerAccept(d) \/ Ask(d) \/ SocketEnd(d) \/ PeerGone(d)
  BY DEF Next, Relay, vars, presVars, histVars, Start, StoreStart, Arm, StoreMeta, Complete, AlarmFires, Delete,
      StatusRequest, Tick, Exit, Frame
<1>. QED BY <1>1, <1>2, <1>3, <1>4, <1>5, <1>6, <1>7, <1>8, <1>9

\* Nor is a socket of a removal read after it, or the removal is still to come.
LEMMA ClearsStay ==
  ASSUME LifecycleAssumption, LifecycleInvariant, [Next]_vars, NEW r \in clears, NEW c \in r.socks, c \in Readable(conn')
  PROVE  \E q \in clears' : c \in q.socks
<1>0. conn' \in [Conns -> States] /\ c \in Conns /\ conn'[c] \in {"open", "broken"} /\ r \in Clearing
  BY LifecycleStepTyped DEF LifecycleInvariant, Typed, Readable
<1>1. CASE clears \subseteq clears'
  BY <1>1
<1>2. CASE Complete
  <2> DEFINE q == [r EXCEPT !.ahead = IF @ = 0 THEN 0 ELSE @ - 1]
  <2>1. q \in clears'
    BY <1>2 DEF Complete
  <2>2. q.socks = r.socks
    BY <1>0 DEF Clearing
  <2>. QED BY <2>1, <2>2
<1>3. ASSUME NEW p \in clears, Clear(p) PROVE r \in clears'
  <2>1. r # p
    BY <1>0, <1>3 DEF Clear, Readable
  <2>. QED BY <1>3, <2>1 DEF Clear
<1>4. CASE Crash
  <2>1. conn \in [Conns -> States]
    BY DEF LifecycleInvariant, Typed
  <2>. QED BY <1>0, <1>4, <2>1 DEF Crash, States
<1>5. \A cs, s, b : Refresh(s, b, meta, cs) => clears' = clears
  BY DEF Refresh
<1>6. CASE StoreMeta \/ AlarmFires \/ \E d \in Conns : SocketEnd(d) \/ Frame(d)
  <2>1. clears' = clears
    BY <1>5, <1>6 DEF StoreMeta, AlarmFires, SocketEnd, Frame, presVars
  <2>. QED BY <1>1, <2>1
<1>7. \/ clears \subseteq clears' \/ Complete \/ Crash \/ StoreMeta \/ AlarmFires
      \/ (\E p \in clears : Clear(p)) \/ \E d \in Conns : SocketEnd(d) \/ Frame(d)
  BY DEF Next, Relay, vars, presVars, Start, StoreStart, Arm, StoreExit, Delete, StatusRequest, Tick,
      Ask, HostAccept, ViewerAccept, PeerGone, Exit
<1>. QED BY <1>1, <1>2, <1>3, <1>4, <1>6, <1>7

\* What an ended session leaves is removed, or has lost its peer.
LEMMA LeftoverStep ==
  ASSUME LifecycleAssumption, LifecycleInvariant, Leftover, [Next]_vars
  PROVE  Leftover'
<1> SUFFICES ASSUME meta'.life = 0, gate'.at # "delete", NEW c \in Readable(conn'), conn'[c] # "broken"
             PROVE  \E q \in clears' : c \in q.socks
  BY DEF Leftover
<1>1. ~Crash
  <2>1. ASSUME Crash PROVE FALSE
    <3>1. conn \in [Conns -> States]
      BY DEF LifecycleInvariant, Typed
    <3>. QED BY <2>1, <3>1 DEF Crash, Readable, States
  <2>. QED BY <2>1
<1>2. meta.life = 0
  <2>1. starts \in Nat
    BY DEF LifecycleInvariant, Typed, LifecycleAssumption
  <2>. QED BY <1>1, <2>1, LifeMoves
<1>3. conn'[c] = conn[c]
  BY <1>2, ReadMoves
<1>4. c \in Readable(conn)
  BY <1>3 DEF Readable
<1>5. CASE gate.at # "delete"
  BY <1>2, <1>3, <1>4, <1>5, ClearsStay DEF Leftover
<1>6. CASE gate.at = "delete"
  <2>1. gate # Open
    BY <1>6, OpenTyped
  <2>2. gate' # gate
    BY <1>6
  <2>3. ~\E p \in clears : Clear(p)
    BY <2>1 DEF Clear
  <2>4. Delete
    BY <1>1, <1>6, <2>1, <2>2 DEF Next, Relay, vars, Start, StoreStart, Arm, StoreMeta, StoreExit, Complete,
      AlarmFires, Clear, StatusRequest, Tick, Ask, HostAccept, ViewerAccept, SocketEnd, PeerGone, Frame, Exit
  <2>5. c \in HasSocket
    BY <1>4 DEF Readable, HasSocket
  <2> DEFINE q == [life |-> gate.life, ahead |-> Len(chain), socks |-> HasSocket]
  <2>6. q \in clears' /\ q.socks = HasSocket
    BY <2>4 DEF Delete
  <2>. QED BY <2>5, <2>6
<1>. QED BY <1>5, <1>6

\* Without a session there is nothing to say.
LEMMA NoSession == ASSUME meta'.life = 0 PROVE AllTold'
BY DEF AllTold, Soon, Told, Known

\* A handler that stores the session asks for an update when it has.
LEMMA Persisted == ASSUME gate'.at = "persist" PROVE AllTold'
BY DEF AllTold, Soon, Told, Known, Owing

\* A report depends on the life, the status and the sockets that can be read.
LEMMA SameReport ==
  ASSUME NEW m, NEW n, NEW cs, NEW ds, m.life = n.life, m.status = n.status, Readable(cs) = Readable(ds)
  PROVE  Report(m, cs) = Report(n, ds)
BY DEF Report

\* Nothing to report has changed.
LEMMA Still ==
  ASSUME LifecycleAssumption, LifecycleInvariant, AllTold,
         meta'.life = meta.life, meta'.status = meta.status, Readable(conn') = Readable(conn),
         UNCHANGED <<chain, sending, listed, missed, alarmIn>>,
         gate'.at \in {"create", "arm"} \/ gate' = gate, Owing => Owing'
  PROVE  AllTold'
<1>1. Report(meta', conn') = Report(meta, conn)
  BY SameReport
<1>2. Soon'
  BY DEF Soon, AllTold
<1>3. Told'
  BY <1>1 DEF Told, AllTold
<1>4. Known'
  BY <1>1 DEF Known, Says, AllTold
<1>. QED BY <1>2, <1>3, <1>4 DEF AllTold

\* An update is asked for: it says what is, when its turn comes.
LEMMA Updated ==
  ASSUME LifecycleAssumption, LifecycleInvariant, NEW s \in BOOLEAN, NEW b \in BOOLEAN,
         Refresh(s, b, meta, conn'), meta' = meta,
         s \/ (Soon /\ gate.at = "open" /\ Readable(conn') \subseteq Readable(conn) /\ UNCHANGED <<alarmIn, missed>>)
  PROVE  AllTold'
<1>0. Typed /\ meta \in Meta /\ chain \in Seq(Update)
  <2>1. Typed
    BY DEF LifecycleInvariant
  <2>. QED BY <2>1 DEF Typed
<1>1. chain' # <<>> /\ Len(chain') = Len(chain) + 1 /\ Len(chain) \in Nat
  <2>1. chain' # <<>> /\ Len(chain') = Len(chain) + 1
    BY <1>0, Refreshing, Zenon
  <2>. QED BY <1>0, <2>1
<1>2. Told'
  <2>1. chain = <<>> => sending' = Report(meta, conn')
    BY DEF Refresh
  <2>2. chain # <<>> => Len(chain) > 0
    BY <1>0
  <2>. QED BY <1>1, <2>1, <2>2 DEF Told
<1>3. Known'
  BY <1>1 DEF Known
<1>4. Soon'
  <2> DEFINE u == [sets |-> s, byAlarm |-> b]
  <2>1. u \in Update /\ u.sets = s /\ chain' = Append(chain, u)
    BY DEF Refresh, Update
  <2> HIDE DEF u
  <2>2. chain'[Len(chain) + 1].sets = s /\ \A i \in 1..Len(chain) : chain'[i] = chain[i]
    BY <1>0, <2>1, Appending
  <2>3. CASE s
    <3>1. Len(chain) + 1 \in 1..Len(chain')
      BY <1>1
    <3>2. chain'[Len(chain) + 1].sets
      BY <2>2, <2>3
    <3>. QED BY <3>1, <3>2 DEF Soon
  <2>4. CASE ~s
    <3>1. \A i \in 1..Len(chain) : i \in 1..Len(chain') /\ chain'[i] = chain[i]
      BY <1>1, <2>2
    <3>. QED BY <2>4, <3>1 DEF Soon
  <2>. QED BY <2>3, <2>4
<1>. QED BY <1>2, <1>3, <1>4 DEF AllTold

\* A new life has no sockets, or those of the last are owed an end.
LEMMA StartTold ==
  ASSUME LifecycleAssumption, LifecycleInvariant, Numbered, Leftover, AllTold, Start
  PROVE  AllTold'
<1>0. /\ meta \in Meta /\ gate.at = "open" /\ gate'.at = "create" /\ starts \in Nat
      /\ starts' = starts + 1 /\ starts' \in 1..MaxStarts
      /\ UNCHANGED <<chain, sending, listed, missed, alarmIn, conn, clears>>
  <2>1. meta \in Meta /\ starts \in Nat /\ MaxStarts \in Nat
    BY DEF LifecycleInvariant, Typed, LifecycleAssumption
  <2>2. gate' \in Handler /\ gate'.at = "create"
    BY Persisting DEF Start
  <2>3. gate.at = "open"
    BY OpenTyped DEF Start
  <2>4. starts' = starts + 1 /\ starts < MaxStarts /\ UNCHANGED <<chain, sending, listed, missed, alarmIn, conn, clears>>
    BY DEF Start, presVars
  <2>. QED BY <2>1, <2>2, <2>3, <2>4
<1>1. Owing => Owing'
  BY <1>0 DEF Owing
<1>2. CASE meta.life # 0
  <2>1. meta' = [meta EXCEPT !.left = Ttl]
    BY <1>2 DEF Start
  <2>2. meta'.life = meta.life /\ meta'.status = meta.status
    BY <1>0, <2>1 DEF Meta
  <2>. QED BY <1>0, <1>1, <2>2, Still
<1>3. CASE meta.life = 0
  <2>1. meta' = [life |-> starts + 1, status |-> "waiting", left |-> Ttl]
    BY <1>3 DEF Start
  <2>2. meta'.life = starts + 1 /\ meta'.status = "waiting"
    BY <2>1
  <2>3. listed[meta'.life] = Absent /\ sending[1] # meta'.life
    BY <1>0, <2>2 DEF Numbered
  <2>4. Owing' \/ Readable(conn) = {}
    BY <1>0, <1>3 DEF Leftover, Owing, Readable
  <2>5. Readable(conn) = {} => Report(meta', conn')[2] = Absent
    <3>1. ASSUME Readable(conn) = {} PROVE Cardinality(Readable(conn) \cap Viewers) = 0
      BY <3>1, FS_EmptySet
    <3>. QED BY <1>0, <2>2, <3>1 DEF Report
  <2>6. Soon'
    BY <1>0 DEF Soon
  <2>7. Told'
    BY <1>0, <2>3, <2>4, <2>5 DEF Told
  <2>8. Known'
    BY <1>0, <2>3, <2>4, <2>5 DEF Known, Says
  <2>. QED BY <2>6, <2>7, <2>8 DEF AllTold
<1>. QED BY <1>2, <1>3

\* Storing it tells nobody anything.
LEMMA StoreStartTold ==
  ASSUME LifecycleAssumption, LifecycleInvariant, AllTold, StoreStart
  PROVE  AllTold'
<1>1. gate'.at = "arm" /\ gate.at = "create"
  BY Persisting DEF StoreStart
<1>2. UNCHANGED <<chain, sending, listed, missed, alarmIn, conn, clears, meta>>
  BY DEF StoreStart, presVars, histVars
<1>3. Owing => Owing'
  BY <1>1, <1>2 DEF Owing
<1>. QED BY <1>1, <1>2, <1>3, Still

\* The alarm of a resume may come late: only if somebody is there.
LEMMA ArmTold ==
  ASSUME LifecycleAssumption, LifecycleInvariant, AllTold, Arm
  PROVE  AllTold'
<1>1. gate.at = "arm" /\ gate'.at = "open"
  BY OpenTyped DEF Arm
<1>2. /\ UNCHANGED <<chain, sending, listed, conn, clears, meta>>
      /\ missed' = "nothing" => missed = "nothing" /\ Readable(conn) = {}
  BY DEF Arm, presVars
<1>3. Owing => Owing'
  BY <1>1, <1>2 DEF Owing
<1>4. Readable(conn) = {} => Report(meta, conn)[2] = Absent
  <2>1. ASSUME Readable(conn) = {} PROVE Cardinality(Readable(conn) \cap Viewers) = 0
    BY <2>1, FS_EmptySet
  <2>. QED BY <2>1 DEF Report
<1>5. Soon'
  BY <1>2 DEF Soon
<1>6. Told'
  BY <1>2, <1>3 DEF Told, AllTold
<1>7. Known'
  BY <1>2, <1>3, <1>4 DEF Known, AllTold
<1>. QED BY <1>5, <1>6, <1>7 DEF AllTold

\* A connection that asks is not read yet.
LEMMA AskTold ==
  ASSUME LifecycleAssumption, LifecycleInvariant, AllTold, NEW c \in Conns, Ask(c)
  PROVE  AllTold'
<1>0. meta \in Meta /\ conn \in [Conns -> States]
  BY DEF LifecycleInvariant, Typed
<1>1. CASE Expired
  <2>1. Forget(FALSE)
    BY <1>1 DEF Ask
  <2>2. meta'.life = 0
    BY <2>1, GoneTyped DEF Forget
  <2>. QED BY <2>2, NoSession
<1>2. CASE ~Expired
  <2>1. UNCHANGED <<meta, gate, chain, sending, clears, listed, missed, alarmIn>>
    BY <1>2 DEF Ask, presVars, histVars
  <2>2. \A d \in Conns : conn'[d] \in {"open", "broken", "closing"} <=> conn[d] \in {"open", "broken", "closing"}
    BY <1>0 DEF Ask
  <2>3. \A d \in Conns : conn'[d] \in {"open", "broken", "closing"} => conn'[d] = conn[d]
    BY <1>0 DEF Ask
  <2>4. Readable(conn') = Readable(conn)
    BY <2>2, <2>3 DEF Readable
  <2>5. Owing => Owing'
    BY <2>1, <2>2, <2>3, <2>4 DEF Owing
  <2>. QED BY <2>1, <2>4, <2>5, Still
<1>. QED BY <1>1, <1>2

\* Who is accepted is stored, then told.
LEMMA AcceptTold ==
  ASSUME LifecycleAssumption, LifecycleInvariant, NEW c \in Conns, HostAccept(c) \/ ViewerAccept(c)
  PROVE  AllTold'
<1>1. CASE meta.life = 0
  <2>1. meta' = meta
    BY <1>1 DEF HostAccept, ViewerAccept
  <2>. QED BY <1>1, <2>1, NoSession
<1>2. CASE meta.life # 0
  <2>1. Persist("persist", Nobody, FALSE)
    BY <1>2 DEF HostAccept, ViewerAccept
  <2>2. gate'.at = "persist"
    BY <2>1, Persisting
  <2>. QED BY <2>2, Persisted
<1>. QED BY <1>1, <1>2

\* The session is stored, and an update asked for.
LEMMA StoreMetaTold ==
  ASSUME LifecycleAssumption, LifecycleInvariant, StoreMeta
  PROVE  AllTold'
<1>1. gate.byAlarm \in BOOLEAN
  BY DEF LifecycleInvariant, Typed, Handler
<1>2. Refresh(TRUE, gate.byAlarm, meta, conn') /\ meta' = meta
  BY DEF StoreMeta
<1>. QED BY <1>1, <1>2, Updated

\* A lost peer is still counted, and its end is owed.
LEMMA PeerGoneTold ==
  ASSUME LifecycleAssumption, LifecycleInvariant, AllTold, NEW c \in Conns, PeerGone(c)
  PROVE  AllTold'
<1>0. conn \in [Conns -> States]
  BY DEF LifecycleInvariant, Typed
<1>1. UNCHANGED <<meta, gate, chain, sending, clears, listed, missed, alarmIn>> /\ conn'[c] = "broken"
  BY <1>0 DEF PeerGone, presVars, histVars
<1>2. Readable(conn') = Readable(conn)
  BY <1>0 DEF Readable, PeerGone
<1>3. Owing'
  BY <1>1 DEF Owing
<1>. QED BY <1>1, <1>2, <1>3, Still

\* The end of a socket is told, or stored first.
LEMMA SocketEndTold ==
  ASSUME LifecycleAssumption, LifecycleInvariant, AllTold, NEW c \in Conns, SocketEnd(c)
  PROVE  AllTold'
<1>0. conn \in [Conns -> States] /\ gate.at = "open"
  BY OpenTyped DEF LifecycleInvariant, Typed, SocketEnd
<1>1. Readable(conn') \subseteq Readable(conn) /\ UNCHANGED <<alarmIn, missed>>
  BY <1>0 DEF SocketEnd, Readable, histVars
<1>2. CASE meta' = meta /\ Refresh(TRUE, FALSE, meta, conn')
  BY <1>2, Updated
<1>3. CASE meta' = meta /\ Refresh(FALSE, FALSE, meta, conn')
  BY <1>0, <1>1, <1>3, Updated DEF AllTold
<1>4. CASE meta' = meta /\ meta.life = 0
  BY <1>4, NoSession
<1>5. CASE Persist("persist", Nobody, FALSE)
  BY <1>5, Persisting, Persisted
<1>. QED BY <1>2, <1>3, <1>4, <1>5 DEF SocketEnd

\* A frame asks for an update.
LEMMA FrameTold ==
  ASSUME LifecycleAssumption, LifecycleInvariant, NEW c \in Conns, Frame(c)
  PROVE  AllTold'
<1>1. Refresh(TRUE, FALSE, meta, conn') /\ meta' = meta
  BY DEF Frame
<1>. QED BY <1>1, Updated

\* A session that is forgotten has nothing to tell.
LEMMA LapseTold == ASSUME LifecycleAssumption, NEW b, Forget(b) PROVE AllTold'
<1>1. meta'.life = 0
  BY GoneTyped DEF Forget
<1>. QED BY <1>1, NoSession

\* An exit is stored first.
LEMMA ExitTold ==
  ASSUME LifecycleAssumption, LifecycleInvariant, AllTold, NEW c \in Conns, Exit(c)
  PROVE  AllTold'
<1>1. CASE persistent
  <2>1. Persist("exit", c, FALSE)
    BY <1>1 DEF Exit
  <2>2. gate'.at = "exit" /\ gate.at = "open"
    BY <2>1, Persisting, OpenTyped DEF Exit
  <2>3. UNCHANGED <<alarmIn, conn, chain, missed>>
    BY DEF Exit, presVars, histVars
  <2>4. meta.life # 0
    BY DEF Exit
  <2>5. Owing'
    BY <2>2 DEF Owing
  <2>6. Soon'
    BY <2>2, <2>3, <2>4 DEF Soon, AllTold
  <2>. QED BY <2>5, <2>6 DEF AllTold, Told, Known
<1>2. CASE ~persistent
  <2>1. Forget(FALSE)
    BY <1>2 DEF Exit
  <2>. QED BY <2>1, LapseTold
<1>. QED BY <1>1, <1>2

\* The host is let go: its end is owed.
LEMMA StoreExitTold ==
  ASSUME LifecycleAssumption, LifecycleInvariant, Leaver, AllTold, StoreExit
  PROVE  AllTold'
<1>0. conn \in [Conns -> States] /\ meta \in Meta /\ meta' = meta /\ meta.life # 0
  BY DEF LifecycleInvariant, Typed, Match, StoreExit
<1>1. gate.conn \in Conns /\ conn' = [conn EXCEPT ![gate.conn] = "closing"]
  BY DEF Leaver, StoreExit
<1>2. Owing'
  BY <1>0, <1>1 DEF Owing
<1>3. Readable(conn') \subseteq Readable(conn)
  BY <1>0, <1>1 DEF Readable
<1>4. Readable(conn) # {} => alarmIn' <= 1
  <2>1. meta.left \in Nat
    BY <1>0 DEF Meta
  <2>2. alarmIn' = NextAlarm(meta, conn)
    BY DEF StoreExit
  <2>. QED BY <1>0, <2>1, <2>2 DEF NextAlarm, Min2
<1>5. Soon'
  BY <1>3, <1>4 DEF Soon
<1>. QED BY <1>2, <1>5 DEF AllTold, Told, Known

\* The alarm stores the session, asks for an update, or ends it.
LEMMA AlarmTold ==
  ASSUME LifecycleAssumption, LifecycleInvariant, AllTold, AlarmFires
  PROVE  AllTold'
<1>1. CASE meta' = meta /\ meta.life = 0
  BY <1>1, NoSession
<1>2. CASE Persist("persist", Nobody, TRUE)
  BY <1>2, Persisting, Persisted
<1>3. CASE meta' = meta /\ Refresh(TRUE, TRUE, meta, conn) /\ conn' = conn
  BY <1>3, Updated
<1>4. CASE Forget(TRUE)
  BY <1>4, LapseTold
<1>. QED BY <1>1, <1>2, <1>3, <1>4 DEF AlarmFires

\* A deletion leaves no session.
LEMMA DeleteTold ==
  ASSUME LifecycleAssumption, LifecycleInvariant, Delete
  PROVE  AllTold'
<1>1. meta'.life = 0
  BY GoneTyped DEF LifecycleInvariant, Match, Delete
<1>. QED BY <1>1, NoSession

\* A removal is of another life; sockets it closes owe their end.
LEMMA ClearTold ==
  ASSUME LifecycleAssumption, LifecycleInvariant, Numbered, AllTold, NEW r \in clears, Clear(r)
  PROVE  AllTold'
<1>0. /\ conn \in [Conns -> States] /\ listed \in [1..MaxStarts -> Entry] /\ r \in Clearing
      /\ UNCHANGED <<meta, gate, chain, sending, alarmIn, missed>> /\ clears' = clears \ {r}
      /\ listed' = [listed EXCEPT ![r.life] = Absent] /\ meta.life # r.life
  BY DEF LifecycleInvariant, Typed, Clear, histVars, Numbered
<1>1. conn' = [c \in Conns |-> IF c \in r.socks \cap Readable(conn) THEN "closing" ELSE conn[c]]
  BY DEF Clear
<1>2. Readable(conn') \subseteq Readable(conn)
  BY <1>0, <1>1 DEF Readable
<1>3. Soon'
  BY <1>0, <1>2 DEF Soon, AllTold
<1>4. CASE r.socks \cap Readable(conn) # {}
  <2>1. Owing'
    BY <1>1, <1>4 DEF Owing, Readable
  <2>. QED BY <1>3, <2>1 DEF AllTold, Told, Known
<1>5. CASE r.socks \cap Readable(conn) = {}
  <2>1. conn' = conn
    BY <1>0, <1>1, <1>5
  <2>2. Owing => Owing'
    BY <1>0, <1>5, <2>1 DEF Owing
  <2>3. listed'[meta.life] = listed[meta.life]
    BY <1>0
  <2>4. Told'
    BY <1>0, <2>1, <2>2, <2>3 DEF Told, AllTold
  <2>5. Known'
    BY <1>0, <2>1, <2>2, <2>3 DEF Known, AllTold, Says
  <2>. QED BY <1>3, <2>4, <2>5 DEF AllTold
<1>. QED BY <1>4, <1>5

\* After a death nothing is promised until an alarm has run.
LEMMA CrashTold ==
  ASSUME LifecycleAssumption, Crash PROVE AllTold'
<1>1. missed' = "sockets" /\ chain' = <<>>
  BY DEF Crash
<1>. QED BY <1>1 DEF AllTold, Soon, Told, Known

\* A report of somebody has a whole lease, and there is a socket.
LEMMA ReportShape ==
  ASSUME LifecycleAssumption, NEW m \in Meta, NEW cs, m.life # 0, Report(m, cs)[2] # Absent
  PROVE  Report(m, cs)[2].lease = Lease /\ Readable(cs) # {}
<1> DEFINE host == m.status = "connected" /\ Readable(cs) \cap Hosts # {}
           viewers == Cardinality(Readable(cs) \cap Viewers)
           entry == [host |-> host, viewers |-> viewers, lease |-> Lease]
<1>1. Report(m, cs)[2] = IF host \/ viewers > 0 THEN entry ELSE Absent
  BY DEF Report
<1>2. entry.lease = Lease
  OBVIOUS
<1>3. Readable(cs) = {} => ~host /\ viewers = 0
  BY FS_EmptySet
<1> HIDE DEF host, viewers, entry
<1>4. host \/ viewers > 0
  BY <1>1
<1>. QED BY <1>1, <1>2, <1>3, <1>4

\* The service has answered: the next update reads the session now, or there is none.
LEMMA CompleteTold ==
  ASSUME LifecycleAssumption, LifecycleInvariant, AllTold, Complete
  PROVE  AllTold'
<1>0. /\ Typed /\ Setting /\ gate.at = "open"
      /\ UNCHANGED <<meta, conn, gate>> /\ chain # <<>>
  BY OpenTyped DEF LifecycleInvariant, Armed, Complete
<1>1. /\ meta \in Meta /\ chain \in Seq(Update) /\ sending \in (0..MaxStarts) \X Entry
      /\ listed \in [1..MaxStarts -> Entry] /\ clears \subseteq Clearing
  BY <1>0 DEF Typed
<1>2. /\ Head(chain) = chain[1] /\ chain' = Tail(chain) /\ chain' \in Seq(Update)
      /\ Len(chain') = Len(chain) - 1 /\ Len(chain) \in Nat /\ 1 \in 1..Len(chain)
      /\ \A i \in 1..Len(chain) : i = 1 \/ (i - 1 \in 1..Len(chain') /\ chain'[i - 1] = chain[i])
  <2>1. chain' = Tail(chain)
    BY DEF Complete
  <2>. QED BY <1>0, <1>1, <2>1, TakingHead
<1>3. Owing => Owing'
  <2>1. ASSUME NEW r \in clears PROVE \E q \in clears' : q.socks = r.socks
    <3> DEFINE q == [r EXCEPT !.ahead = IF @ = 0 THEN 0 ELSE @ - 1]
    <3>1. q \in clears'
      BY DEF Complete
    <3>2. q.socks = r.socks
      BY <1>1 DEF Clearing
    <3>. QED BY <3>1, <3>2
  <2>. QED BY <1>0, <2>1 DEF Owing
<1>4. Soon'
  <2> SUFFICES ASSUME missed' = "nothing", meta.life # 0, Readable(conn) # {}
               PROVE  alarmIn' <= 1 \/ \E i \in 1..Len(chain') : chain'[i].sets
    BY <1>0 DEF Soon
  <2>1. CASE Head(chain).sets
    <3>1. alarmIn' = NextAlarm(meta, conn)
      BY <2>1 DEF Complete
    <3>2. meta.left \in Nat
      BY <1>1 DEF Meta, LifecycleAssumption
    <3>. QED BY <3>1, <3>2 DEF NextAlarm, Min2
  <2>2. CASE ~Head(chain).sets
    <3>1. ~Head(chain).byAlarm
      BY <1>0, <1>2, <2>2 DEF Setting
    <3>2. missed = "nothing" /\ alarmIn' = alarmIn
      BY <2>2, <3>1 DEF Complete
    <3>3. alarmIn <= 1 \/ \E i \in 1..Len(chain) : chain[i].sets
      BY <1>0, <3>2 DEF AllTold, Soon
    <3>. QED BY <1>2, <2>2, <3>2, <3>3
  <2>. QED BY <2>1, <2>2
<1>5. CASE Len(chain) > 1
  <2>1. sending' = Report(meta, conn)
    BY <1>5 DEF Complete
  <2>2. chain' # <<>>
    <3>1. Len(chain') > 0
      BY <1>2, <1>5
    <3>2. chain' = <<>> => Len(chain') = 0
      OBVIOUS
    <3>. QED BY <3>1, <3>2
  <2>3. Told'
    <3>1. sending' = Report(meta', conn')
      <4>1. meta' = meta /\ conn' = conn
        BY <1>0
      <4>. QED BY <2>1, <4>1
    <3>. QED BY <3>1 DEF Told
  <2>4. Known'
    BY <2>2 DEF Known
  <2>. QED BY <1>4, <2>3, <2>4 DEF AllTold
<1>6. CASE ~(Len(chain) > 1)
  <2>1. chain' = <<>>
    BY <1>2, <1>6
  <2>2. Told'
    BY <2>1 DEF Told
  <2>3. Known'
    <3> SUFFICES ASSUME meta.life # 0, missed' = "nothing", ~Owing
                 PROVE  /\ Says(listed'[meta.life], Report(meta, conn)[2])
                        /\ Report(meta, conn)[2] # Absent => listed'[meta.life].lease > alarmIn'
      BY <1>0, <1>3 DEF Known
    <3>1. meta.life \in 1..MaxStarts
      BY <1>1 DEF Meta, LifecycleAssumption
    <3>2. CASE sending = Report(meta, conn)
      <4>1. sending[1] = meta.life
        BY <1>1, <3>2, Reporting
      <4>2. listed'[meta.life] = sending[2]
        BY <1>1, <3>1, <4>1 DEF Complete
      <4>3. ASSUME Report(meta, conn)[2] # Absent PROVE listed'[meta.life].lease > alarmIn'
        <5>1. Report(meta, conn)[2].lease = Lease /\ Readable(conn) # {}
          BY <1>1, <4>3, ReportShape
        <5>2. alarmIn' <= 1
          BY <1>0, <1>4, <2>1, <5>1 DEF Soon
        <5>3. alarmIn' \in Nat
          BY LifecycleStepTyped, <1>0 DEF Typed, NoAlarm, LifecycleAssumption, Next, Relay
        <5>. QED BY <3>2, <4>2, <5>1, <5>2, <5>3 DEF LifecycleAssumption
      <4>. QED BY <3>2, <4>2, <4>3 DEF Says
    <3>3. CASE sending[1] # meta.life /\ listed[meta.life] = Absent /\ Report(meta, conn)[2] = Absent
      <4>1. listed'[meta.life] = Absent
        BY <1>1, <3>1, <3>3 DEF Complete
      <4>. QED BY <3>3, <4>1 DEF Says
    <3>. QED BY <1>0, <1>6, <3>2, <3>3 DEF AllTold, Told
  <2>. QED BY <1>4, <2>2, <2>3 DEF AllTold
<1>. QED BY <1>5, <1>6

\* Time passes only while nothing is under way; the lease outlasts the alarm.
LEMMA TickTold ==
  ASSUME LifecycleAssumption, LifecycleInvariant, AllTold, Tick
  PROVE  AllTold'
<1>0. /\ meta \in Meta /\ listed \in [1..MaxStarts -> Entry] /\ alarmIn \in Nat /\ NoAlarm \in Nat /\ NoAlarm > 1
      /\ gate.at = "open" /\ chain = <<>> /\ alarmIn # 0
      /\ UNCHANGED <<gate, conn, chain, clears, missed>>
  <2>1. Ttl \in Nat /\ Ttl > 0 /\ NoAlarm = Ttl + 1
    BY DEF LifecycleAssumption, NoAlarm
  <2>2. meta \in Meta /\ listed \in [1..MaxStarts -> Entry] /\ alarmIn \in 0..NoAlarm
    BY DEF LifecycleInvariant, Typed
  <2>3. /\ gate.at = "open" /\ chain = <<>> /\ alarmIn # 0
        /\ UNCHANGED <<gate, conn, chain, clears, missed>>
    BY OpenTyped DEF Tick, histVars
  <2>. QED BY <2>1, <2>2, <2>3
<1>1. meta'.life = meta.life /\ meta'.status = meta.status
  BY <1>0 DEF Tick, Meta
<1>2. Report(meta', conn') = Report(meta, conn)
  BY <1>0, <1>1, SameReport
<1>3. alarmIn <= 1 => alarmIn' = 0
  BY <1>0 DEF Tick
<1>4. missed = "nothing" /\ meta.life # 0 /\ Readable(conn) # {} => alarmIn <= 1
  BY <1>0 DEF AllTold, Soon
<1>5. Soon'
  BY <1>0, <1>1, <1>3, <1>4 DEF Soon
<1>6. Told'
  BY <1>0 DEF Told
<1>7. Known'
  <2> SUFFICES ASSUME meta.life # 0, missed = "nothing", ~Owing
               PROVE  /\ Says(listed'[meta.life], Report(meta, conn)[2])
                      /\ Report(meta, conn)[2] # Absent => listed'[meta.life].lease > alarmIn'
    BY <1>0, <1>1, <1>2 DEF Known, Owing
  <2>1. meta.life \in 1..MaxStarts
    BY <1>0 DEF Meta, LifecycleAssumption
  <2> DEFINE e == listed[meta.life]
  <2>2. listed'[meta.life] = IF e.lease <= 1 THEN Absent ELSE [e EXCEPT !.lease = @ - 1]
    BY <1>0, <2>1 DEF Tick
  <2>3. e \in Entry
    BY <1>0, <2>1
  <2>4. /\ Says(e, Report(meta, conn)[2])
        /\ Report(meta, conn)[2] # Absent => e.lease > alarmIn
    BY <1>0 DEF AllTold, Known
  <2> HIDE DEF e
  <2>5. ~(e.lease <= 1) => /\ listed'[meta.life].host = e.host /\ listed'[meta.life].viewers = e.viewers
                           /\ listed'[meta.life].lease = e.lease - 1
    BY <2>2, <2>3 DEF Entry
  <2>6. e.lease \in Nat
    BY <2>3 DEF Entry, LifecycleAssumption
  <2>7. CASE Report(meta, conn)[2] = Absent
    BY <2>2, <2>4, <2>5, <2>7 DEF Says
  <2>8. CASE Report(meta, conn)[2] # Absent
    <3>1. Readable(conn) # {}
      BY <1>0, <2>8, ReportShape
    <3>2. alarmIn = 1 /\ alarmIn' = 0
      BY <1>0, <1>3, <1>4, <3>1
    <3>. QED BY <2>4, <2>5, <2>6, <2>8, <3>2 DEF Says
  <2>. QED BY <2>7, <2>8
<1>. QED BY <1>5, <1>6, <1>7 DEF AllTold

\* Every step keeps the invariant.
LEMMA PresenceInductive ==
  ASSUME LifecycleAssumption, LifecycleInvariant, PresenceInvariant, [Next]_vars PROVE PresenceInvariant'
<1>0. Numbered /\ Leftover /\ Leaver /\ AllTold
  BY DEF PresenceInvariant
<1>1. Numbered' /\ Leftover' /\ Leaver'
  BY <1>0, NumberedStep, LeftoverStep, LeaverStep
<1>2. AllTold'
  <2>1. CASE Start \/ StatusRequest \/ Tick \/ Crash
    <3>1. StatusRequest => AllTold'
      BY LapseTold DEF StatusRequest
    <3>. QED BY <1>0, <2>1, <3>1, StartTold, TickTold, CrashTold
  <2>2. CASE Relay
    BY <1>0, <2>2, StoreStartTold, ArmTold, StoreMetaTold, StoreExitTold, DeleteTold, CompleteTold, AlarmTold,
       ClearTold DEF Relay
  <2>3. ASSUME NEW c \in Conns, Ask(c) \/ HostAccept(c) \/ ViewerAccept(c) \/ PeerGone(c) PROVE AllTold'
    BY <1>0, <2>3, AskTold, AcceptTold, PeerGoneTold
  <2>4. ASSUME NEW c \in Conns, SocketEnd(c) \/ Frame(c) \/ Exit(c) PROVE AllTold'
    BY <1>0, <2>4, SocketEndTold, FrameTold, ExitTold
  <2>5. CASE UNCHANGED vars
    BY <1>0, <2>5 DEF vars, presVars, histVars, AllTold, Soon, Told, Known, Owing
  <2>. QED BY <2>1, <2>2, <2>3, <2>4, <2>5 DEF Next
<1>. QED BY <1>1, <1>2 DEF PresenceInvariant

\* It holds at first.
LEMMA PresenceStart == ASSUME LifecycleAssumption, Init PROVE PresenceInvariant
<1>1. meta = Gone /\ stored = Gone /\ gate = Open /\ sending = <<0, Absent>> /\ clears = {} /\ chain = <<>>
      /\ starts = 0 /\ conn = [c \in Conns |-> "new"] /\ listed = [l \in 1..MaxStarts |-> Absent]
  BY DEF Init
<1>2. Numbered
  <2>1. meta.life = 0 /\ stored.life = 0 /\ gate.life = 0
    BY <1>1, GoneTyped, OpenTyped
  <2>2. sending[1] = 0
    BY <1>1
  <2>. QED BY <1>1, <2>1, <2>2 DEF Numbered
<1>3. Leftover /\ Leaver
  BY <1>1, OpenTyped DEF Leftover, Leaver, Readable
<1>4. Soon /\ Told /\ Known
  BY <1>1, GoneTyped DEF Soon, Told, Known
<1>. QED BY <1>2, <1>3, <1>4 DEF PresenceInvariant, AllTold

\* At rest the presence service lists exactly the sockets that are there, and goes on listing
\* them: whatever updates waited for one another, whichever life was removed in between, and
\* however sockets were replaced or lost. But for a resume and a death, until an update has gone out.
THEOREM PresenceIsTrue == ASSUME LifecycleAssumption PROVE Spec => []PresenceTruth
<1>1. Spec => [](LifecycleInvariant /\ PresenceInvariant)
  <2>1. Init => LifecycleInvariant /\ PresenceInvariant
    BY LifecycleStart, PresenceStart
  <2>2. LifecycleInvariant /\ PresenceInvariant /\ [Next]_vars => (LifecycleInvariant /\ PresenceInvariant)'
    BY LifecycleInductive, PresenceInductive
  <2>. QED BY <2>1, <2>2, PTL DEF Spec
<1>2. LifecycleInvariant /\ PresenceInvariant => PresenceTruth
  <2> SUFFICES ASSUME LifecycleInvariant, PresenceInvariant, AtRest, meta.life # 0, missed = "nothing"
               PROVE  /\ listed[meta.life].host = (\E h \in Hosts : conn[h] = "open")
                      /\ listed[meta.life].viewers = Cardinality({v \in Viewers : conn[v] = "open"})
    BY DEF PresenceTruth
  <2>1. gate.at = "open" /\ clears = {} /\ chain = <<>> /\ \A c \in Conns : conn[c] \notin {"broken", "closing"}
    BY OpenTyped DEF AtRest
  <2>2. ~Owing
    BY <2>1 DEF Owing
  <2>3. Says(listed[meta.life], Report(meta, conn)[2])
    BY <2>1, <2>2 DEF PresenceInvariant, AllTold, Known
  <2>4. meta.status = "connected" <=> \E h \in Hosts : conn[h] = "open"
    BY <2>1 DEF LifecycleInvariant, Served, Listening, Leaving, Conns
  <2> DEFINE host == meta.status = "connected" /\ Readable(conn) \cap Hosts # {}
             viewers == Cardinality(Readable(conn) \cap Viewers)
             entry == [host |-> host, viewers |-> viewers, lease |-> Lease]
  <2>5. Report(meta, conn)[2] = IF host \/ viewers > 0 THEN entry ELSE Absent
    BY DEF Report
  <2>6. entry.host = host /\ entry.viewers = viewers
    OBVIOUS
  <2>7. viewers \in Nat
    <3>1. Readable(conn) \cap Viewers \subseteq Viewers /\ IsFiniteSet(Viewers)
      BY DEF LifecycleAssumption
    <3>. QED BY <3>1, FS_Subset, FS_CardinalityType
  <2>8. Readable(conn) \cap Viewers = {v \in Viewers : conn[v] = "open"}
    BY <2>1 DEF Readable, Conns
  <2>9. host = (\E h \in Hosts : conn[h] = "open")
    BY <2>1, <2>4 DEF Readable, Conns
  <2>10. viewers = Cardinality({v \in Viewers : conn[v] = "open"})
    BY <2>8
  <2> HIDE DEF host, viewers, entry
  <2>11. listed[meta.life].host = host /\ listed[meta.life].viewers = viewers
    <3>1. CASE host \/ viewers > 0
      BY <2>3, <2>5, <2>6, <3>1 DEF Says
    <3>2. CASE ~host /\ viewers = 0
      <4>1. Report(meta, conn)[2] = Absent
        BY <2>5, <3>2
      <4>2. host = FALSE
        BY <2>9, <3>2
      <4>3. Absent.host = FALSE /\ Absent.viewers = 0
        BY DEF Absent
      <4>4. listed[meta.life].host = FALSE /\ listed[meta.life].viewers = 0
        BY <2>3, <4>1, <4>3 DEF Says
      <4>. QED BY <3>2, <4>2, <4>4, Zenon
    <3>. QED BY <2>7, <3>1, <3>2
  <2>. QED BY <2>9, <2>10, <2>11
<1>. QED BY <1>1, <1>2, PTL
==============================================================================
