----------------------------- MODULE OutputProofs -----------------------------
(* Proofs about OutputStream, for any number of viewers, any room in the queue   *)
(* and any length of output; about ScreenCache, for any number of screens,       *)
(* chunks, grids and deaths of the relay instance; and about TerminalModelSeed,  *)
(* for any number of grants, seeds, runs and frames.                             *)
EXTENDS OutputStream, ScreenCache, TerminalModelSeed, FiniteSetTheorems, SequenceTheorems, TLAPS

(* OutputStream *)

\* Along frames: what bounds them, what their output goes beyond, and that output goes beyond all
\* frames before it.
Behind(u, n) == \A i \in 1..Len(u) : u[i].to <= n
Beyond(u, n) == \A i \in 1..Len(u) : IsOutput(u[i]) => n < u[i].to
Rising(u)    == \A i, j \in 1..Len(u) : i < j /\ IsOutput(u[j]) => u[i].to < u[j].to

\* Frames that may follow in a stream whose cut is a, and after which it is b.
GoesOn(u, a, b) == u \in Seq(Frame) /\ a \in Nat /\ b \in Nat /\ a <= b /\ Behind(u, b) /\ Beyond(u, a) /\ Rising(u)

\* The output behind place k. With no screen among them that is his, frames lead a viewer on from a
\* to b if they are the units between; with one, if behind the last are those it lacks.
OutputAfter(u, k)   == {u[j].to : j \in {i \in k + 1..Len(u) : IsOutput(u[i])}}
LeadsOn(u, v, a, b) == (\A j \in 1..Len(u) : ~IsFor(u[j], v)) /\ OutputAfter(u, 0) = a + 1..b
Renews(u, v, b) ==
  \E k \in 1..Len(u) :
    /\ IsFor(u[k], v)
    /\ \A j \in k + 1..Len(u) : ~IsFor(u[j], v)
    /\ OutputAfter(u, k) = u[k].to + 1..b

\* The three kinds of frames
LEMMA Frames ==
  ASSUME OutputAssumption, end \in 0..MaxUnits
  PROVE  /\ \A n \in 0..MaxUnits : Output(n) \in Frame /\ Output(n).to = n /\ IsOutput(Output(n))
         /\ \A n : \A v \in Viewers : ~IsFor(Output(n), v)
         /\ Broadcast \in Frame /\ Broadcast.to = end /\ ~IsOutput(Broadcast) /\ \A v \in Viewers : IsFor(Broadcast, v)
         /\ \A v \in Viewers : Snapshot(v) \in Frame /\ Snapshot(v).to = end /\ ~IsOutput(Snapshot(v))
         /\ \A v, w \in Viewers : IsFor(Snapshot(v), w) <=> v = w
BY DEF Frame, Output, Broadcast, Snapshot, IsOutput, IsFor, OutputAssumption

\* A frame goes up to some unit the host may have written.
LEMMA FrameTyped == ASSUME OutputAssumption, NEW f \in Frame PROVE f.to \in 0..MaxUnits /\ f.to \in Nat
BY DEF Frame, OutputAssumption

\* Frames from a to b followed by frames from b to c are frames from a to c.
LEMMA GoesOnConcat ==
  ASSUME OutputAssumption, NEW u, NEW w, NEW a, NEW b, NEW c, GoesOn(u, a, b), GoesOn(w, b, c)
  PROVE  GoesOn(u \o w, a, c)
<1>1. u \o w \in Seq(Frame) /\ Len(u \o w) = Len(u) + Len(w) /\ Len(u) \in Nat /\ Len(w) \in Nat
      /\ \A i \in 1..Len(u) + Len(w) : (u \o w)[i] = IF i <= Len(u) THEN u[i] ELSE w[i - Len(u)]
  BY ConcatProperties DEF GoesOn
<1>2. a \in Nat /\ b \in Nat /\ c \in Nat /\ a <= b /\ b <= c
  BY DEF GoesOn
<1>3. \A i \in 1..Len(u) : u[i].to \in Nat
  BY <1>1, FrameTyped, ElementOfSeq DEF GoesOn
<1>4. \A i \in 1..Len(w) : w[i].to \in Nat
  BY <1>1, FrameTyped, ElementOfSeq DEF GoesOn
<1>5. Behind(u \o w, c)
  BY <1>1, <1>2, <1>3, <1>4 DEF GoesOn, Behind
<1>6. Beyond(u \o w, a)
  BY <1>1, <1>2, <1>3, <1>4 DEF GoesOn, Beyond
<1>7. Rising(u \o w)
  <2> SUFFICES ASSUME NEW i \in 1..Len(u) + Len(w), NEW j \in 1..Len(u) + Len(w), i < j, IsOutput((u \o w)[j])
               PROVE  (u \o w)[i].to < (u \o w)[j].to
    BY <1>1 DEF Rising
  <2>1. CASE j <= Len(u)
    BY <1>1, <2>1 DEF GoesOn, Rising
  <2>2. CASE i > Len(u)
    <3>1. i - Len(u) \in 1..Len(w) /\ j - Len(u) \in 1..Len(w) /\ i - Len(u) < j - Len(u)
      BY <1>1, <2>2
    <3>2. (u \o w)[i] = w[i - Len(u)] /\ (u \o w)[j] = w[j - Len(u)]
      BY <1>1, <2>2
    <3>. QED BY <3>1, <3>2 DEF GoesOn, Rising
  <2>3. CASE i <= Len(u) /\ j > Len(u)
    <3>1. (u \o w)[i] = u[i] /\ (u \o w)[j] = w[j - Len(u)] /\ i \in 1..Len(u) /\ j - Len(u) \in 1..Len(w)
      BY <1>1, <2>3
    <3>2. u[i].to <= b /\ b < w[j - Len(u)].to
      BY <3>1 DEF GoesOn, Behind, Beyond
    <3>. QED BY <1>2, <1>3, <1>4, <3>1, <3>2, SMTT(30)
  <2>. QED BY <1>1, <2>1, <2>2, <2>3
<1>. QED BY <1>1, <1>2, <1>5, <1>6, <1>7 DEF GoesOn

\* Behind a place of the second part there is only output of the second.
LEMMA BehindRight ==
  ASSUME NEW u \in Seq(Frame), NEW w \in Seq(Frame), NEW k \in 0..Len(w)
  PROVE  OutputAfter(u \o w, Len(u) + k) = OutputAfter(w, k)
<1>1. Len(u \o w) = Len(u) + Len(w) /\ Len(u) \in Nat /\ Len(w) \in Nat
      /\ \A i \in 1..Len(u) + Len(w) : (u \o w)[i] = IF i <= Len(u) THEN u[i] ELSE w[i - Len(u)]
  BY ConcatProperties
<1>2. ASSUME NEW x \in OutputAfter(u \o w, Len(u) + k) PROVE x \in OutputAfter(w, k)
  <2>1. PICK j \in Len(u) + k + 1..Len(u) + Len(w) : IsOutput((u \o w)[j]) /\ x = (u \o w)[j].to
    BY <1>1, <1>2 DEF OutputAfter
  <2>2. j - Len(u) \in k + 1..Len(w) /\ (u \o w)[j] = w[j - Len(u)]
    BY <1>1
  <2>. QED BY <2>1, <2>2 DEF OutputAfter
<1>3. ASSUME NEW x \in OutputAfter(w, k) PROVE x \in OutputAfter(u \o w, Len(u) + k)
  <2>1. PICK j \in k + 1..Len(w) : IsOutput(w[j]) /\ x = w[j].to
    BY <1>3 DEF OutputAfter
  <2>2. j + Len(u) \in Len(u) + k + 1..Len(u \o w) /\ (u \o w)[j + Len(u)] = w[j]
    BY <1>1
  <2>. QED BY <2>1, <2>2 DEF OutputAfter
<1>. QED BY <1>2, <1>3

\* Behind a place of the first there is what is left of it and all of the second.
LEMMA BehindLeft ==
  ASSUME NEW u \in Seq(Frame), NEW w \in Seq(Frame), NEW k \in 0..Len(u)
  PROVE  OutputAfter(u \o w, k) = OutputAfter(u, k) \cup OutputAfter(w, 0)
<1>1. Len(u \o w) = Len(u) + Len(w) /\ Len(u) \in Nat /\ Len(w) \in Nat
      /\ \A i \in 1..Len(u) + Len(w) : (u \o w)[i] = IF i <= Len(u) THEN u[i] ELSE w[i - Len(u)]
  BY ConcatProperties
<1>2. ASSUME NEW x \in OutputAfter(u \o w, k) PROVE x \in OutputAfter(u, k) \cup OutputAfter(w, 0)
  <2>1. PICK j \in k + 1..Len(u) + Len(w) : IsOutput((u \o w)[j]) /\ x = (u \o w)[j].to
    BY <1>1, <1>2 DEF OutputAfter
  <2>2. CASE j <= Len(u)
    BY <1>1, <2>1, <2>2 DEF OutputAfter
  <2>3. CASE j > Len(u)
    <3>1. j - Len(u) \in 0 + 1..Len(w) /\ (u \o w)[j] = w[j - Len(u)]
      BY <1>1, <2>3
    <3>. QED BY <2>1, <3>1 DEF OutputAfter
  <2>. QED BY <1>1, <2>2, <2>3
<1>3. ASSUME NEW x \in OutputAfter(u, k) PROVE x \in OutputAfter(u \o w, k)
  <2>1. PICK j \in k + 1..Len(u) : IsOutput(u[j]) /\ x = u[j].to
    BY <1>3 DEF OutputAfter
  <2>2. j \in k + 1..Len(u \o w) /\ (u \o w)[j] = u[j]
    BY <1>1
  <2>. QED BY <2>1, <2>2 DEF OutputAfter
<1>4. ASSUME NEW x \in OutputAfter(w, 0) PROVE x \in OutputAfter(u \o w, k)
  <2>1. PICK j \in 0 + 1..Len(w) : IsOutput(w[j]) /\ x = w[j].to
    BY <1>4 DEF OutputAfter
  <2>2. j + Len(u) \in k + 1..Len(u \o w) /\ (u \o w)[j + Len(u)] = w[j]
    BY <1>1
  <2>. QED BY <2>1, <2>2 DEF OutputAfter
<1>. QED BY <1>2, <1>3, <1>4

\* It does not matter in which order frames are put together.
LEMMA FramesAssociate ==
  ASSUME NEW u \in Seq(Frame), NEW v \in Seq(Frame), NEW w \in Seq(Frame)
  PROVE  (u \o v) \o w = u \o (v \o w)
  OBVIOUS

\* Output that leads a viewer on to b, followed by what leads him on from there.
LEMMA LeadsOnConcat ==
  ASSUME NEW u \in Seq(Frame), NEW w \in Seq(Frame), NEW v, NEW a \in Nat, NEW b \in Nat, NEW c \in Nat,
         a <= b, b <= c, LeadsOn(u, v, a, b), LeadsOn(w, v, b, c)
  PROVE  LeadsOn(u \o w, v, a, c)
<1>1. Len(u \o w) = Len(u) + Len(w) /\ Len(u) \in Nat /\ Len(w) \in Nat
      /\ \A i \in 1..Len(u) + Len(w) : (u \o w)[i] = IF i <= Len(u) THEN u[i] ELSE w[i - Len(u)]
  BY ConcatProperties
<1>2. OutputAfter(u \o w, 0) = (a + 1..b) \cup (b + 1..c)
  BY <1>1, BehindLeft DEF LeadsOn
<1>3. (a + 1..b) \cup (b + 1..c) = a + 1..c
  BY SMT
<1>4. ASSUME NEW j \in 1..Len(u \o w) PROVE ~IsFor((u \o w)[j], v)
  <2>1. CASE j <= Len(u)
    <3>1. j \in 1..Len(u) /\ (u \o w)[j] = u[j]
      BY <1>1, <2>1
    <3>. QED BY <3>1 DEF LeadsOn
  <2>2. CASE ~(j <= Len(u))
    <3>1. j - Len(u) \in 1..Len(w) /\ (u \o w)[j] = w[j - Len(u)]
      BY <1>1, <2>2
    <3>. QED BY <3>1 DEF LeadsOn
  <2>. QED BY <2>1, <2>2
<1>. QED BY <1>2, <1>3, <1>4 DEF LeadsOn

\* A viewer's screen may come after any frames.
LEMMA RenewsLater ==
  ASSUME NEW u \in Seq(Frame), NEW w \in Seq(Frame), NEW v, NEW c \in Nat, Renews(w, v, c)
  PROVE  Renews(u \o w, v, c)
<1>1. Len(u \o w) = Len(u) + Len(w) /\ Len(u) \in Nat /\ Len(w) \in Nat
      /\ \A i \in 1..Len(u) + Len(w) : (u \o w)[i] = IF i <= Len(u) THEN u[i] ELSE w[i - Len(u)]
  BY ConcatProperties
<1>2. PICK k \in 1..Len(w) :
        /\ IsFor(w[k], v)
        /\ \A j \in k + 1..Len(w) : ~IsFor(w[j], v)
        /\ OutputAfter(w, k) = w[k].to + 1..c
  BY DEF Renews
<1>3. Len(u) + k \in 1..Len(u \o w) /\ (u \o w)[Len(u) + k] = w[k]
  BY <1>1
<1>4. \A j \in Len(u) + k + 1..Len(u \o w) : ~IsFor((u \o w)[j], v)
  BY <1>1, <1>2
<1>5. OutputAfter(u \o w, Len(u) + k) = w[k].to + 1..c
  BY <1>1, <1>2, BehindRight
<1>. QED BY <1>2, <1>3, <1>4, <1>5 DEF Renews

\* A viewer's screen followed by what leads on from its cut is still one that brings him up.
LEMMA RenewsOn ==
  ASSUME OutputAssumption,
         NEW u \in Seq(Frame), NEW w \in Seq(Frame), NEW v, NEW b \in Nat, NEW c \in Nat, b <= c,
         Behind(u, b), Renews(u, v, b), LeadsOn(w, v, b, c)
  PROVE  Renews(u \o w, v, c)
<1>1. Len(u \o w) = Len(u) + Len(w) /\ Len(u) \in Nat /\ Len(w) \in Nat
      /\ \A i \in 1..Len(u) + Len(w) : (u \o w)[i] = IF i <= Len(u) THEN u[i] ELSE w[i - Len(u)]
  BY ConcatProperties
<1>2. PICK k \in 1..Len(u) :
        /\ IsFor(u[k], v)
        /\ \A j \in k + 1..Len(u) : ~IsFor(u[j], v)
        /\ OutputAfter(u, k) = u[k].to + 1..b
  BY DEF Renews
<1>3. k \in 1..Len(u \o w) /\ (u \o w)[k] = u[k]
  BY <1>1
<1>4. \A j \in k + 1..Len(u \o w) : ~IsFor((u \o w)[j], v)
  BY <1>1, <1>2 DEF LeadsOn
<1>5. u[k].to \in Nat /\ u[k].to <= b
  BY <1>1, FrameTyped, ElementOfSeq DEF Behind
<1>6. OutputAfter(u \o w, k) = (u[k].to + 1..b) \cup (b + 1..c)
  <2>1. OutputAfter(u \o w, k) = OutputAfter(u, k) \cup OutputAfter(w, 0)
    BY <1>1, BehindLeft
  <2>. QED BY <1>2, <2>1 DEF LeadsOn
<1>7. (u[k].to + 1..b) \cup (b + 1..c) = u[k].to + 1..c
  BY <1>5
<1>. QED BY <1>2, <1>3, <1>4, <1>6, <1>7 DEF Renews

\* One screen
LEMMA OneScreen ==
  ASSUME OutputAssumption, NEW f \in Frame, NEW a \in Nat, a <= f.to, ~IsOutput(f)
  PROVE  /\ GoesOn(<<f>>, a, f.to)
         /\ \A v : IsFor(f, v) => Renews(<<f>>, v, f.to)
         /\ \A v : ~IsFor(f, v) => LeadsOn(<<f>>, v, f.to, f.to)
<1>1. <<f>> \in Seq(Frame) /\ Len(<<f>>) = 1 /\ <<f>>[1] = f /\ f.to \in Nat
  BY FrameTyped
<1>2. GoesOn(<<f>>, a, f.to)
  BY <1>1 DEF GoesOn, Behind, Beyond, Rising
<1>3. OutputAfter(<<f>>, 0) = {} /\ OutputAfter(<<f>>, 1) = {}
  BY <1>1 DEF OutputAfter
<1>4. f.to + 1..f.to = {}
  BY <1>1
<1>5. ASSUME NEW v, IsFor(f, v) PROVE Renews(<<f>>, v, f.to)
  <2>1. 1 \in 1..Len(<<f>>) /\ <<f>>[1] = f
    BY <1>1
  <2>2. \A j \in 1 + 1..Len(<<f>>) : ~IsFor(<<f>>[j], v)
    BY <1>1
  <2>3. OutputAfter(<<f>>, 1) = <<f>>[1].to + 1..f.to
    BY <1>3, <1>4, <2>1
  <2>4. IsFor(<<f>>[1], v)
    BY <1>5, <2>1
  <2>. QED BY <2>1, <2>2, <2>3, <2>4 DEF Renews
<1>6. ASSUME NEW v, ~IsFor(f, v) PROVE LeadsOn(<<f>>, v, f.to, f.to)
  <2>1. \A j \in 1..Len(<<f>>) : ~IsFor(<<f>>[j], v)
    BY <1>1, <1>6
  <2>. QED BY <1>3, <1>4, <2>1 DEF LeadsOn
<1>. QED BY <1>2, <1>5, <1>6

\* The units behind the cut
LEMMA SomeOutput ==
  ASSUME OutputAssumption, end \in 0..MaxUnits, NEW a \in Nat, NEW n \in Nat, a + n <= end
  PROVE  LET u == [i \in 1..n |-> Output(a + i)]
         IN  u \in Seq(Frame) /\ Len(u) = n /\ GoesOn(u, a, a + n) /\ \A v \in Viewers : LeadsOn(u, v, a, a + n)
<1> DEFINE u == [i \in 1..n |-> Output(a + i)]
<1>1. \A i \in 1..n : u[i] = Output(a + i) /\ a + i \in 0..MaxUnits
  BY DEF OutputAssumption
<1>2. \A i \in 1..n : u[i] \in Frame /\ u[i].to = a + i /\ IsOutput(u[i]) /\ \A v \in Viewers : ~IsFor(u[i], v)
  BY <1>1, Frames
<1>3. u \in Seq(Frame) /\ Len(u) = n
  BY <1>2
<1> HIDE DEF u
<1>4. GoesOn(u, a, a + n)
  BY <1>2, <1>3 DEF GoesOn, Behind, Beyond, Rising
<1>5. OutputAfter(u, 0) = a + 1..a + n
  <2>1. \A i \in 1..n : u[i].to = a + i /\ IsOutput(u[i])
    BY <1>2
  <2>2. ASSUME NEW x \in OutputAfter(u, 0) PROVE x \in a + 1..a + n
    BY <1>3, <2>1, <2>2 DEF OutputAfter
  <2>3. ASSUME NEW x \in a + 1..a + n PROVE x \in OutputAfter(u, 0)
    <3>1. x - a \in 0 + 1..Len(u) /\ u[x - a].to = x /\ IsOutput(u[x - a])
      BY <1>3, <2>1
    <3>. QED BY <3>1 DEF OutputAfter
  <2>. QED BY <2>2, <2>3
<1>6. \A v \in Viewers : LeadsOn(u, v, a, a + n)
  BY <1>2, <1>3, <1>5 DEF LeadsOn
<1>. QED BY <1>3, <1>4, <1>6 DEF u

\* Replies to several viewers, none to one twice
LEMMA SomeSnapshots ==
  ASSUME OutputAssumption, end \in 0..MaxUnits, NEW n \in Nat, NEW r, \A i \in 1..n : r[i] \in Viewers,
         \A i, j \in 1..n : i # j => r[i] # r[j]
  PROVE  LET u == [i \in 1..n |-> Snapshot(r[i])]
         IN  /\ u \in Seq(Frame) /\ Len(u) = n /\ GoesOn(u, end, end)
             /\ \A v \in Viewers : IF \E i \in 1..n : r[i] = v THEN Renews(u, v, end) ELSE LeadsOn(u, v, end, end)
<1> DEFINE u == [i \in 1..n |-> Snapshot(r[i])]
<1>1. \A i \in 1..n : /\ u[i] \in Frame /\ u[i].to = end /\ ~IsOutput(u[i])
                      /\ \A v \in Viewers : IsFor(u[i], v) <=> v = r[i]
  BY Frames
<1>2. u \in Seq(Frame) /\ Len(u) = n
  BY <1>1
<1> HIDE DEF u
<1>3. end \in Nat /\ end + 1..end = {}
  BY DEF OutputAssumption
<1>4. GoesOn(u, end, end)
  BY <1>1, <1>2, <1>3 DEF GoesOn, Behind, Beyond, Rising
<1>5. \A k \in 0..n : OutputAfter(u, k) = {}
  BY <1>1, <1>2 DEF OutputAfter
<1>6. ASSUME NEW v \in Viewers, NEW i \in 1..n, r[i] = v PROVE Renews(u, v, end)
  <2>1. IsFor(u[i], v) /\ \A j \in i + 1..n : ~IsFor(u[j], v)
    BY <1>1, <1>6
  <2>2. OutputAfter(u, i) = u[i].to + 1..end
    <3>1. u[i].to = end /\ i \in 0..n
      BY <1>1
    <3>. QED BY <1>3, <1>5, <3>1
  <2>. QED BY <1>2, <2>1, <2>2 DEF Renews
<1>7. ASSUME NEW v \in Viewers, \A i \in 1..n : r[i] # v PROVE LeadsOn(u, v, end, end)
  <2>1. \A j \in 1..Len(u) : ~IsFor(u[j], v)
    BY <1>1, <1>2, <1>7
  <2>2. OutputAfter(u, 0) = end + 1..end
    BY <1>3, <1>5
  <2>. QED BY <2>1, <2>2 DEF LeadsOn
<1>. QED BY <1>2, <1>4, <1>6, <1>7 DEF u

StreamTyped == OutputTypeOK /\ IsFiniteSet(pendSnap) /\ (conn # "open" => gen <= MaxDrops)

\* q is the queue with frames that take the stream from its cut to c.
Adds(u, q, c) ==
  /\ q = queue \o u /\ q \in Seq(Frame) /\ Len(q) <= Cap
  /\ GoesOn(u, cut, c) /\ c \in 0..end
  /\ \A v \in Viewers : LeadsOn(u, v, cut, c) \/ Renews(u, v, c)

\* Adding no frame leaves queue and cut as they are.
LEMMA AddsNothing == ASSUME OutputAssumption, StreamTyped PROVE Adds(<<>>, queue, cut)
<1>1. queue = queue \o <<>> /\ queue \in Seq(Frame) /\ Len(queue) <= Cap /\ cut \in Nat /\ cut \in 0..end
  BY ConcatEmptySeq DEF StreamTyped, OutputTypeOK, OutputAssumption
<1>2. <<>> \in Seq(Frame) /\ Len(<<>>) = 0
  BY EmptySeq
<1>3. GoesOn(<<>>, cut, cut)
  BY <1>1, <1>2 DEF GoesOn, Behind, Beyond, Rising
<1>4. OutputAfter(<<>>, 0) = {} /\ cut + 1..cut = {}
  BY <1>1, <1>2 DEF OutputAfter
<1>5. \A v \in Viewers : LeadsOn(<<>>, v, cut, cut)
  <2>1. OutputAfter(<<>>, 0) = cut + 1..cut
    BY <1>4
  <2>2. \A v \in Viewers : \A j \in 1..Len(<<>>) : ~IsFor(<<>>[j], v)
    BY <1>2
  <2>. QED BY <2>1, <2>2 DEF LeadsOn
<1>. QED BY <1>1, <1>3, <1>5 DEF Adds

\* A screen behind them is for everybody it is for.
LEMMA AddsScreen ==
  ASSUME OutputAssumption, StreamTyped, NEW u, NEW q, Adds(u, q, end), Room(q) > 0,
         NEW f \in Frame, f.to = end, ~IsOutput(f)
  PROVE  /\ Adds(u \o <<f>>, Append(q, f), end)
         /\ \A v \in Viewers : IsFor(f, v) => Renews(u \o <<f>>, v, end)
<1>1. queue \in Seq(Frame) /\ u \in Seq(Frame) /\ q \in Seq(Frame) /\ q = queue \o u /\ <<f>> \in Seq(Frame)
      /\ cut \in Nat /\ end \in Nat /\ cut <= end /\ end \in 0..end
  BY DEF Adds, GoesOn, StreamTyped, OutputTypeOK, OutputAssumption
<1>2. /\ GoesOn(<<f>>, end, end)
      /\ \A v : IsFor(f, v) => Renews(<<f>>, v, end)
      /\ \A v : ~IsFor(f, v) => LeadsOn(<<f>>, v, end, end)
  BY <1>1, OneScreen
<1>3. Append(q, f) = queue \o (u \o <<f>>)
  <2>1. Append(q, f) = q \o <<f>>
    BY <1>1, AppendIsConcat
  <2>2. queue \in Seq(Frame) /\ u \in Seq(Frame) /\ <<f>> \in Seq(Frame)
    BY <1>1
  <2>3. (queue \o u) \o <<f>> = queue \o (u \o <<f>>)
    BY <2>2
  <2>. QED BY <1>1, <2>1, <2>3
<1>4. Append(q, f) \in Seq(Frame) /\ Len(Append(q, f)) <= Cap
  BY <1>1, AppendProperties DEF Room, OutputAssumption
<1>5. GoesOn(u, cut, end) /\ GoesOn(u \o <<f>>, cut, end)
  BY <1>2, GoesOnConcat DEF Adds
<1>6. ASSUME NEW v \in Viewers, IsFor(f, v) PROVE Renews(u \o <<f>>, v, end)
  BY <1>1, <1>2, <1>6, RenewsLater
<1>7. ASSUME NEW v \in Viewers, ~IsFor(f, v) PROVE LeadsOn(u \o <<f>>, v, cut, end) \/ Renews(u \o <<f>>, v, end)
  <2>1. CASE LeadsOn(u, v, cut, end)
    <3>1. LeadsOn(<<f>>, v, end, end) /\ end <= end
      BY <1>1, <1>2, <1>7
    <3>. QED BY <1>1, <2>1, <3>1, LeadsOnConcat
  <2>2. CASE Renews(u, v, end)
    BY <1>1, <1>2, <1>5, <1>7, <2>2, RenewsOn DEF GoesOn
  <2>. QED BY <2>1, <2>2 DEF Adds
<1>. QED BY <1>1, <1>3, <1>4, <1>5, <1>6, <1>7 DEF Adds

\* Replies to several
LEMMA AddsSnapshots ==
  ASSUME OutputAssumption, StreamTyped, NEW u, NEW q, Adds(u, q, end),
         NEW n \in Nat, n <= Room(q), NEW r, \A i \in 1..n : r[i] \in Viewers, \A i, j \in 1..n : i # j => r[i] # r[j]
  PROVE  LET w == [i \in 1..n |-> Snapshot(r[i])]
         IN  Adds(u \o w, q \o w, end) /\ \A i \in 1..n : Renews(u \o w, r[i], end)
<1> DEFINE w == [i \in 1..n |-> Snapshot(r[i])]
<1>0. end \in 0..MaxUnits
  BY DEF StreamTyped, OutputTypeOK
<1>2. /\ w \in Seq(Frame) /\ Len(w) = n /\ GoesOn(w, end, end)
      /\ \A v \in Viewers : IF \E i \in 1..n : r[i] = v THEN Renews(w, v, end) ELSE LeadsOn(w, v, end, end)
  BY <1>0, SomeSnapshots
<1> HIDE DEF w
<1>1. queue \in Seq(Frame) /\ u \in Seq(Frame) /\ q \in Seq(Frame) /\ q = queue \o u
      /\ cut \in Nat /\ end \in Nat /\ cut <= end /\ end \in 0..end
  BY DEF Adds, GoesOn, StreamTyped, OutputTypeOK, OutputAssumption
<1>3. q \o w = queue \o (u \o w)
  <2>1. queue \in Seq(Frame) /\ u \in Seq(Frame) /\ w \in Seq(Frame)
    BY <1>1, <1>2
  <2>2. (queue \o u) \o w = queue \o (u \o w)
    BY <2>1, FramesAssociate
  <2>. QED BY <1>1, <2>2
<1>4. q \o w \in Seq(Frame) /\ Len(q \o w) <= Cap
  <2>1. q \o w \in Seq(Frame) /\ Len(q \o w) = Len(q) + n /\ Len(q) \in Nat
    <3>1. q \in Seq(Frame) /\ w \in Seq(Frame) /\ Len(w) = n
      BY <1>1, <1>2
    <3>2. q \o w \in Seq(Frame) /\ Len(q \o w) = Len(q) + Len(w)
      BY <3>1, ConcatProperties
    <3>. QED BY <3>1, <3>2, LenProperties
  <2>2. Len(q) <= Cap /\ Cap \in Nat
    BY DEF Adds, OutputAssumption
  <2>. QED BY <2>1, <2>2 DEF Room
<1>5. GoesOn(u, cut, end) /\ GoesOn(u \o w, cut, end)
  BY <1>2, GoesOnConcat DEF Adds
<1>6. ASSUME NEW i \in 1..n PROVE Renews(u \o w, r[i], end)
  <2>1. Renews(w, r[i], end)
    BY <1>2, <1>6
  <2>. QED BY <1>1, <1>2, <2>1, RenewsLater
<1>7. ASSUME NEW v \in Viewers, \A i \in 1..n : r[i] # v
      PROVE  LeadsOn(u \o w, v, cut, end) \/ Renews(u \o w, v, end)
  <2>0. LeadsOn(w, v, end, end)
    BY <1>2, <1>7
  <2>1. CASE LeadsOn(u, v, cut, end)
    BY <1>1, <1>2, <2>0, <2>1, LeadsOnConcat
  <2>2. CASE Renews(u, v, end)
    BY <1>1, <1>2, <1>5, <2>0, <2>2, RenewsOn DEF GoesOn
  <2>. QED BY <2>1, <2>2 DEF Adds
<1>8. Adds(u \o w, q \o w, end)
  BY <1>1, <1>3, <1>4, <1>5, <1>6, <1>7 DEF Adds
<1>. QED BY <1>6, <1>8 DEF w

\* What emitPending enqueues
LEMMA EmittedAdds ==
  ASSUME OutputAssumption, StreamTyped
  PROVE  /\ Emitted \in [queue : Seq(Frame), cut : 0..end, cooling : BOOLEAN]
         /\ \E u : Adds(u, Emitted.queue, Emitted.cut)
<1>1. /\ queue \in Seq(Frame) /\ Len(queue) \in Nat /\ Len(queue) <= Cap /\ Cap \in Nat
      /\ end \in Nat /\ cut \in Nat /\ cut <= end /\ end \in 0..MaxUnits /\ cooling \in BOOLEAN /\ Start \in Nat
      /\ Room(queue) \in Nat /\ Room(queue) <= Cap - Len(queue)
  BY DEF StreamTyped, OutputTypeOK, OutputAssumption, Start, Room
<1> DEFINE n       == IF end - cut <= Room(queue) THEN end - cut ELSE Room(queue)
           same    == [queue |-> queue, cut |-> cut, cooling |-> cooling]
           outputs == [i \in 1..n |-> Output(cut + i)]
<1>2. n \in Nat /\ n <= Room(queue) /\ cut + n <= end
  BY <1>1
<1>3. outputs \in Seq(Frame) /\ Len(outputs) = n /\ GoesOn(outputs, cut, cut + n)
      /\ \A v \in Viewers : LeadsOn(outputs, v, cut, cut + n)
  BY <1>1, <1>2, SomeOutput
<1>4. Broadcast \in Frame /\ Broadcast.to = end /\ ~IsOutput(Broadcast)
  BY <1>1, Frames
<1>5. CASE cut >= Start
  <2>1. Emitted = [same EXCEPT !.queue = queue \o outputs, !.cut = cut + n]
    BY <1>5 DEF Emitted
  <2> HIDE DEF n, outputs
  <2>2. Emitted = [queue |-> queue \o outputs, cut |-> cut + n, cooling |-> cooling]
    BY <2>1
  <2>3. queue \o outputs \in Seq(Frame) /\ Len(queue \o outputs) <= Cap
    <3>1. queue \o outputs \in Seq(Frame) /\ Len(queue \o outputs) = Len(queue) + n
      BY <1>1, <1>3, ConcatProperties
    <3>. QED BY <1>1, <1>2, <3>1
  <2>4. Adds(outputs, queue \o outputs, cut + n)
    BY <1>1, <1>2, <1>3, <2>3 DEF Adds
  <2>. QED BY <1>1, <1>2, <2>2, <2>3, <2>4
<1>6. CASE ~(cut >= Start) /\ (~safe \/ cooling)
  <2>1. Emitted = same
    BY <1>6 DEF Emitted
  <2>. QED BY <1>1, <2>1, AddsNothing
<1>7. CASE ~(cut >= Start) /\ ~(~safe \/ cooling) /\ Room(queue) = 0
  <2>1. Emitted = [same EXCEPT !.cooling = TRUE]
    BY <1>7 DEF Emitted
  <2>2. Emitted = [queue |-> queue, cut |-> cut, cooling |-> TRUE]
    BY <2>1
  <2>. QED BY <1>1, <2>2, AddsNothing
<1>8. CASE ~(cut >= Start) /\ ~(~safe \/ cooling) /\ Room(queue) # 0
  <2>1. Emitted = [queue |-> Append(queue, Broadcast), cut |-> end, cooling |-> TRUE]
    BY <1>8 DEF Emitted
  <2>2. Append(queue, Broadcast) \in Seq(Frame) /\ Len(Append(queue, Broadcast)) <= Cap
    BY <1>1, <1>4, <1>8, AppendProperties
  <2>3. Append(queue, Broadcast) = queue \o <<Broadcast>>
    BY <1>1, <1>4, AppendIsConcat
  <2>4. GoesOn(<<Broadcast>>, cut, end) /\ \A v \in Viewers : Renews(<<Broadcast>>, v, end)
    BY <1>1, <1>4, Frames, OneScreen
  <2>5. Adds(<<Broadcast>>, Append(queue, Broadcast), end)
    BY <1>1, <2>2, <2>3, <2>4 DEF Adds
  <2>. QED BY <1>1, <2>1, <2>2, <2>5
<1>. QED BY <1>5, <1>6, <1>7, <1>8

-----------------------------------------------------------------------------
\* A step of the emitter adds frames that go on from the cut to the next, and whoever is no longer
\* owed a screen has it among them.
Appends ==
  \E u : /\ Adds(u, queue', cut')
         /\ \A v \in Viewers : RepairDue(v) => RepairDue(v)' \/ Renews(u, v, cut')
         /\ emGen' = emGen \/ \A v \in Viewers : Renews(u, v, cut')

\* What the emitter's steps do not touch
EmitterKeeps == UNCHANGED <<end, safe, conn, gen, wire, relayUp, cached, viewerVars>>

\* What a step of the emitter has to see to, for the types of all to be kept.
LEMMA EmitterTyped ==
  ASSUME OutputAssumption, StreamTyped, EmitterKeeps,
         NEW u, Adds(u, queue', cut'), emGen' \in 1..gen, cooling' \in BOOLEAN, pendAll' \in BOOLEAN,
         pendSnap' \subseteq Viewers, IsFiniteSet(pendSnap'), Cardinality(pendSnap') <= Limit,
         mutex' \in {"free", "broadcast", "snapshots", "rest", "answer", "defer"},
         client' \in Viewers \cup {NoViewer}, (client' # NoViewer) <=> (mutex' \in {"answer", "defer"}),
         asked' \in Seq(Viewers)
  PROVE  StreamTyped'
<1>1. queue' \in Seq(Frame) /\ Len(queue') <= Cap /\ cut' \in 0..end'
  BY DEF Adds, EmitterKeeps
<1>2. UNCHANGED <<end, safe, conn, gen, wire, relayUp, cached, status, screen, waiting, limited, asks>>
  BY DEF EmitterKeeps, viewerVars
<1>3. OutputTypeOK'
  BY <1>1, <1>2 DEF StreamTyped, OutputTypeOK, Frame
<1>. QED BY <1>2, <1>3 DEF StreamTyped

\* flush, first in a new connection: the screen for everybody
LEMMA FlushReconnectStep ==
  ASSUME OutputAssumption, StreamTyped, FlushReconnect
  PROVE  Appends /\ StreamTyped' /\ EmitterKeeps
<1>1. /\ Room(queue) > 0 /\ queue' = Append(queue, Broadcast) /\ emGen' = gen /\ cut' = end
      /\ UNCHANGED <<pendSnap, pendAll, cooling, mutex, client, asked>> /\ EmitterKeeps
  BY DEF FlushReconnect, EmitterKeeps
<1>2. queue \in Seq(Frame) /\ end \in 0..MaxUnits /\ end \in Nat /\ cut \in Nat /\ cut <= end
      /\ Len(queue) \in Nat /\ Cap \in Nat
  BY DEF StreamTyped, OutputTypeOK, OutputAssumption
<1>3. Broadcast \in Frame /\ Broadcast.to = end /\ ~IsOutput(Broadcast) /\ \A v \in Viewers : IsFor(Broadcast, v)
  BY <1>2, Frames
<1>4. GoesOn(<<Broadcast>>, cut, end) /\ \A v \in Viewers : Renews(<<Broadcast>>, v, end)
  BY <1>2, <1>3, OneScreen
<1>5. queue' = queue \o <<Broadcast>> /\ queue' \in Seq(Frame) /\ Len(queue') <= Cap
  BY <1>1, <1>2, <1>3, AppendIsConcat, AppendProperties DEF Room
<1>6. Adds(<<Broadcast>>, queue', cut')
  BY <1>1, <1>2, <1>4, <1>5 DEF Adds
<1>7. Appends
  BY <1>1, <1>4, <1>6 DEF Appends
<1>8. emGen' \in 1..gen
  BY <1>1 DEF StreamTyped, OutputTypeOK
<1>9. StreamTyped'
  BY <1>1, <1>6, <1>8, EmitterTyped DEF StreamTyped, OutputTypeOK
<1>. QED BY <1>1, <1>7, <1>9

\* flush takes the mutex.
LEMMA FlushStartStep ==
  ASSUME OutputAssumption, StreamTyped, FlushStart
  PROVE  Appends /\ StreamTyped' /\ EmitterKeeps
<1>1. /\ mutex = "free" /\ mutex' \in {"broadcast", "snapshots", "rest"}
      /\ UNCHANGED <<cut, emGen, pendSnap, pendAll, cooling, client, queue, asked>> /\ EmitterKeeps
  BY DEF FlushStart, EmitterKeeps
<1>2. Adds(<<>>, queue', cut')
  BY <1>1, AddsNothing
<1>3. conn' = conn /\ gen' = gen
  BY <1>1 DEF EmitterKeeps
<1>4. Appends
  BY <1>1, <1>2, <1>3 DEF Appends, RepairDue
<1>5. StreamTyped'
  BY <1>1, <1>2, EmitterTyped DEF StreamTyped, OutputTypeOK
<1>. QED BY <1>1, <1>4, <1>5

\* The 250 ms are over.
LEMMA CoolStep == ASSUME OutputAssumption, StreamTyped, Cool PROVE Appends /\ StreamTyped' /\ EmitterKeeps
<1>1. /\ cooling' = FALSE
      /\ UNCHANGED <<cut, emGen, pendSnap, pendAll, mutex, client, queue, asked>> /\ EmitterKeeps
  BY DEF Cool, EmitterKeeps
<1>2. Adds(<<>>, queue', cut')
  BY <1>1, AddsNothing
<1>3. conn' = conn /\ gen' = gen
  BY <1>1 DEF EmitterKeeps
<1>4. Appends
  BY <1>1, <1>2, <1>3 DEF Appends, RepairDue
<1>5. StreamTyped'
  BY <1>1, <1>2, EmitterTyped DEF StreamTyped, OutputTypeOK
<1>. QED BY <1>1, <1>4, <1>5

\* The host reads a viewer's request, which from then on is in hand rather than in the socket.
LEMMA ReadRequestStep ==
  ASSUME OutputAssumption, StreamTyped, ReadRequest
  PROVE  Appends /\ StreamTyped' /\ EmitterKeeps
<1>1. /\ mutex = "free" /\ asked # <<>> /\ client' = Head(asked) /\ asked' = Tail(asked) /\ mutex' = "answer"
      /\ UNCHANGED <<cut, emGen, pendSnap, pendAll, cooling, queue>> /\ EmitterKeeps
  BY DEF ReadRequest, EmitterKeeps
<1>2. Adds(<<>>, queue', cut')
  BY <1>1, AddsNothing
<1>3. conn' = conn /\ gen' = gen
  BY <1>1 DEF EmitterKeeps
<1>4. asked \in Seq(Viewers) /\ client = NoViewer
  BY <1>1 DEF StreamTyped, OutputTypeOK
<1>5. /\ client' \in Viewers /\ asked' \in Seq(Viewers) /\ Len(asked') = Len(asked) - 1 /\ Len(asked) \in Nat
      /\ client' = asked[1] /\ \A i \in 1..Len(asked) - 1 : asked'[i] = asked[i + 1]
  BY <1>1, <1>4, HeadTailProperties
<1>6. ASSUME NEW v \in Viewers, NEW i \in DOMAIN asked, asked[i] = v
      PROVE  client' = v \/ \E j \in DOMAIN asked' : asked'[j] = v
  <2>1. CASE i = 1
    BY <1>5, <1>6, <2>1
  <2>2. CASE i # 1
    <3>1. i - 1 \in 1..Len(asked) - 1 /\ i - 1 \in DOMAIN asked'
      BY <1>4, <1>5, <2>2
    <3>2. asked'[i - 1] = asked[i]
      BY <1>4, <1>5, <2>2, <3>1
    <3>. QED BY <1>6, <3>1, <3>2
  <2>. QED BY <2>1, <2>2
<1>7. \A v \in Viewers : client # v
  BY <1>4 DEF OutputAssumption
<1>8. \A v \in Viewers : RepairDue(v) => RepairDue(v)'
  <2> SUFFICES ASSUME NEW v \in Viewers, RepairDue(v) PROVE RepairDue(v)'
    OBVIOUS
  <2>1. CASE \E i \in DOMAIN asked : asked[i] = v
    BY <1>6, <2>1 DEF RepairDue
  <2>2. CASE ~ \E i \in DOMAIN asked : asked[i] = v
    BY <1>1, <1>3, <1>7, <2>2 DEF RepairDue
  <2>. QED BY <2>1, <2>2
<1>9. Appends
  BY <1>1, <1>2, <1>8 DEF Appends
<1>10. client' # NoViewer
  BY <1>5 DEF OutputAssumption
<1>11. StreamTyped'
  BY <1>1, <1>2, <1>5, <1>10, EmitterTyped DEF StreamTyped, OutputTypeOK
<1>. QED BY <1>1, <1>9, <1>11

\* flush sends what is pending and lets go of the mutex.
LEMMA FlushRestStep ==
  ASSUME OutputAssumption, StreamTyped, FlushRest
  PROVE  Appends /\ StreamTyped' /\ EmitterKeeps
<1>1. /\ mutex = "rest" /\ mutex' = "free" /\ Take(Emitted)
      /\ UNCHANGED <<emGen, pendSnap, pendAll, client, asked>> /\ EmitterKeeps
  BY DEF FlushRest, EmitterKeeps
<1>2. PICK u : Adds(u, queue', cut')
  BY <1>1, EmittedAdds DEF Take
<1>3. conn' = conn /\ gen' = gen
  BY <1>1 DEF EmitterKeeps
<1>4. Appends
  BY <1>1, <1>2, <1>3 DEF Appends, RepairDue
<1>5. cooling' \in BOOLEAN
  BY <1>1, EmittedAdds DEF Take
<1>6. StreamTyped'
  BY <1>1, <1>2, <1>5, EmitterTyped DEF StreamTyped, OutputTypeOK
<1>. QED BY <1>1, <1>4, <1>6

\* One screen behind what emitPending enqueues, where it fits
LEMMA ScreenAfterEmitted ==
  ASSUME OutputAssumption, StreamTyped, NEW f \in Frame, f.to = end, ~IsOutput(f), Fits(Emitted),
         Take([Emitted EXCEPT !.queue = Append(@, f)])
  PROVE  /\ cooling' \in BOOLEAN
         /\ \E u : Adds(u, queue', cut') /\ \A v \in Viewers : IsFor(f, v) => Renews(u, v, cut')
<1>1. PICK u : Adds(u, Emitted.queue, Emitted.cut)
  BY EmittedAdds
<1>2. Emitted.cut = end /\ Room(Emitted.queue) > 0
  BY DEF Fits
<1>3. queue' = Append(Emitted.queue, f) /\ cut' = end /\ cooling' = Emitted.cooling
  BY <1>2, EmittedAdds DEF Take
<1>4. /\ Adds(u \o <<f>>, Append(Emitted.queue, f), end)
      /\ \A v \in Viewers : IsFor(f, v) => Renews(u \o <<f>>, v, end)
  BY <1>1, <1>2, AddsScreen
<1>. QED BY <1>3, <1>4, EmittedAdds

\* A request answered with a screen, refused for want of room, or taken for both
LEMMA AnswerStep == ASSUME OutputAssumption, StreamTyped, Answer PROVE Appends /\ StreamTyped' /\ EmitterKeeps
<1>1. /\ mutex = "answer" /\ UNCHANGED <<emGen, pendSnap, pendAll, asked>> /\ EmitterKeeps
  BY DEF Answer, EmitterKeeps
<1>2. conn' = conn /\ gen' = gen
  BY <1>1 DEF EmitterKeeps
<1>3. client \in Viewers
  BY <1>1 DEF StreamTyped, OutputTypeOK
<1>4. CASE Fits(Emitted)
  <2>1. Take([Emitted EXCEPT !.queue = Append(@, Snapshot(client))]) /\ mutex' = "free" /\ client' = NoViewer
    BY <1>4 DEF Answer
  <2>2. Snapshot(client) \in Frame /\ Snapshot(client).to = end /\ ~IsOutput(Snapshot(client))
        /\ IsFor(Snapshot(client), client)
    BY <1>3, Frames DEF StreamTyped, OutputTypeOK
  <2>3. PICK u : Adds(u, queue', cut') /\ \A v \in Viewers : IsFor(Snapshot(client), v) => Renews(u, v, cut')
    BY <1>4, <2>1, <2>2, ScreenAfterEmitted
  <2>4. cooling' \in BOOLEAN
    BY <1>4, <2>1, <2>2, ScreenAfterEmitted
  <2>5. \A v \in Viewers : RepairDue(v) => RepairDue(v)' \/ Renews(u, v, cut')
    BY <1>1, <1>2, <2>2, <2>3 DEF RepairDue
  <2>6. Appends
    BY <1>1, <2>3, <2>5 DEF Appends
  <2>7. StreamTyped'
    BY <1>1, <2>1, <2>3, <2>4, EmitterTyped DEF StreamTyped, OutputTypeOK
  <2>. QED BY <1>1, <2>6, <2>7
<1>5. CASE ~Fits(Emitted)
  <2>1. Take(Emitted) /\ mutex' \in {"answer", "defer"} /\ client' = client
    BY <1>5 DEF Answer
  <2>2. PICK u : Adds(u, queue', cut')
    BY <2>1, EmittedAdds DEF Take
  <2>3. cooling' \in BOOLEAN
    BY <2>1, EmittedAdds DEF Take
  <2>4. Appends
    BY <1>1, <1>2, <2>1, <2>2 DEF Appends, RepairDue
  <2>5. (client' # NoViewer) <=> (mutex' \in {"answer", "defer"})
    BY <1>3, <2>1 DEF OutputAssumption
  <2>6. StreamTyped'
    BY <1>1, <1>3, <2>1, <2>2, <2>3, <2>5, EmitterTyped DEF StreamTyped, OutputTypeOK
  <2>. QED BY <1>1, <2>4, <2>6
<1>. QED BY <1>4, <1>5

\* flush and the broadcast that was put off
LEMMA FlushBroadcastStep ==
  ASSUME OutputAssumption, StreamTyped, FlushBroadcast
  PROVE  Appends /\ StreamTyped' /\ EmitterKeeps
<1>1. /\ mutex = "broadcast" /\ mutex' \in {"snapshots", "rest"} /\ UNCHANGED <<emGen, client, asked>> /\ EmitterKeeps
  BY DEF FlushBroadcast, EmitterKeeps
<1>2. conn' = conn /\ gen' = gen
  BY <1>1 DEF EmitterKeeps
<1>3. Broadcast \in Frame /\ Broadcast.to = end /\ ~IsOutput(Broadcast) /\ \A v \in Viewers : IsFor(Broadcast, v)
  BY Frames DEF StreamTyped, OutputTypeOK
<1>4. pendSnap \subseteq Viewers /\ IsFiniteSet(pendSnap) /\ Cardinality(pendSnap) <= Limit /\ Limit \in Nat
  BY DEF StreamTyped, OutputTypeOK, OutputAssumption
<1>5. IsFiniteSet({}) /\ Cardinality({}) = 0
  BY FS_EmptySet
<1>6. CASE safe /\ Fits(Emitted)
  <2>1. Take([Emitted EXCEPT !.queue = Append(@, Broadcast)]) /\ pendAll' = FALSE /\ pendSnap' = {}
    BY <1>6 DEF FlushBroadcast
  <2>2. PICK u : Adds(u, queue', cut') /\ \A v \in Viewers : IsFor(Broadcast, v) => Renews(u, v, cut')
    BY <1>3, <1>6, <2>1, ScreenAfterEmitted
  <2>3. cooling' \in BOOLEAN
    BY <1>3, <1>6, <2>1, ScreenAfterEmitted
  <2>4. Appends
    BY <1>1, <1>3, <2>2 DEF Appends
  <2>5. pendSnap' \subseteq Viewers /\ IsFiniteSet(pendSnap') /\ Cardinality(pendSnap') <= Limit
    BY <1>4, <1>5, <2>1
  <2>6. pendAll' \in BOOLEAN
    BY <2>1
  <2>7. StreamTyped'
    BY <1>1, <2>2, <2>3, <2>5, <2>6, EmitterTyped DEF StreamTyped, OutputTypeOK
  <2>. QED BY <1>1, <2>4, <2>7
<1>7. CASE safe /\ ~Fits(Emitted)
  <2>1. Take(Emitted) /\ pendAll' = TRUE /\ pendSnap' = pendSnap
    BY <1>7 DEF FlushBroadcast
  <2>2. PICK u : Adds(u, queue', cut')
    BY <2>1, EmittedAdds DEF Take
  <2>3. cooling' \in BOOLEAN
    BY <2>1, EmittedAdds DEF Take
  <2>4. Appends
    BY <1>1, <1>2, <2>1, <2>2 DEF Appends, RepairDue
  <2>5. StreamTyped'
    BY <1>1, <1>4, <2>1, <2>2, <2>3, EmitterTyped DEF StreamTyped, OutputTypeOK
  <2>. QED BY <1>1, <2>4, <2>5
<1>8. CASE ~safe
  <2> DEFINE e == [queue |-> queue, cut |-> cut, cooling |-> cooling]
  <2>1. Take(e) /\ pendAll' = TRUE /\ pendSnap' = pendSnap
    BY <1>8 DEF FlushBroadcast, Fits
  <2>2. UNCHANGED <<queue, cut, cooling>>
    BY <2>1 DEF Take
  <2>3. Adds(<<>>, queue', cut')
    BY <2>2, AddsNothing
  <2>4. Appends
    BY <1>1, <1>2, <2>1, <2>3 DEF Appends, RepairDue
  <2>5. StreamTyped'
    BY <1>1, <1>4, <2>1, <2>2, <2>3, EmitterTyped DEF StreamTyped, OutputTypeOK
  <2>. QED BY <1>1, <2>4, <2>5
<1>. QED BY <1>6, <1>7, <1>8

\* flush and the replies that were put off, as many as there is room for
LEMMA FlushSnapshotsStep ==
  ASSUME OutputAssumption, StreamTyped, FlushSnapshots
  PROVE  Appends /\ StreamTyped' /\ EmitterKeeps
<1>1. /\ mutex = "snapshots" /\ mutex' = "rest" /\ UNCHANGED <<emGen, pendAll, client, asked>> /\ EmitterKeeps
  BY DEF FlushSnapshots, EmitterKeeps
<1>2. conn' = conn /\ gen' = gen
  BY <1>1 DEF EmitterKeeps
<1>4. pendSnap \subseteq Viewers /\ IsFiniteSet(pendSnap) /\ Cardinality(pendSnap) <= Limit /\ Limit \in Nat
  BY DEF StreamTyped, OutputTypeOK, OutputAssumption
<1>5. PICK u : Adds(u, Emitted.queue, Emitted.cut)
  BY EmittedAdds
<1>6. CASE ~Fits(Emitted)
  <2>1. Take(Emitted) /\ pendSnap' = pendSnap
    BY <1>6 DEF FlushSnapshots
  <2>2. Adds(u, queue', cut')
    BY <1>5, <2>1 DEF Take
  <2>3. cooling' \in BOOLEAN
    BY <2>1, EmittedAdds DEF Take
  <2>4. Appends
    BY <1>1, <1>2, <2>1, <2>2 DEF Appends, RepairDue
  <2>5. StreamTyped'
    BY <1>1, <1>4, <2>1, <2>2, <2>3, EmitterTyped DEF StreamTyped, OutputTypeOK
  <2>. QED BY <1>1, <2>4, <2>5
<1>7. CASE Fits(Emitted)
  <2> DEFINE n == IF Room(Emitted.queue) < Cardinality(pendSnap) THEN Room(Emitted.queue) ELSE Cardinality(pendSnap)
  <2>1. PICK replies \in UNION {SetToSeqs(s) : s \in SUBSET pendSnap} :
          /\ Len(replies) = n
          /\ Take([Emitted EXCEPT !.queue = @ \o [i \in 1..n |-> Snapshot(replies[i])]])
          /\ pendSnap' = pendSnap \ {replies[i] : i \in 1..n}
    BY <1>7 DEF FlushSnapshots
  <2>2. n \in Nat /\ n <= Room(Emitted.queue)
    <3>1. Cardinality(pendSnap) \in Nat
      BY <1>4, FS_CardinalityType
    <3>2. Room(Emitted.queue) \in Nat
      BY <1>7, EmittedAdds DEF Fits, Room, OutputAssumption
    <3>. QED BY <3>1, <3>2
  <2>3. PICK s \in SUBSET pendSnap : replies \in SetToSeqs(s)
    BY <2>1
  <2>4. Cardinality(s) \in Nat
    BY <1>4, FS_Subset, FS_CardinalityType
  <2>5. /\ replies \in [1..Cardinality(s) -> s]
        /\ \A i, j \in 1..Cardinality(s) : i # j => replies[i] # replies[j]
    BY <2>3 DEF SetToSeqs
  <2>6. Cardinality(s) = n
    BY <2>1, <2>2, <2>4, <2>5
  <2> HIDE DEF n
  <2>7. /\ \A i \in 1..n : replies[i] \in Viewers
        /\ \A i, j \in 1..n : i # j => replies[i] # replies[j]
    BY <1>4, <2>5, <2>6
  <2> DEFINE w == [i \in 1..n |-> Snapshot(replies[i])]
  <2>8. Emitted.cut = end
    BY <1>7 DEF Fits
  <2>9. Adds(u \o w, Emitted.queue \o w, end) /\ \A i \in 1..n : Renews(u \o w, replies[i], end)
    BY <1>5, <2>2, <2>7, <2>8, AddsSnapshots
  <2>10. Take([Emitted EXCEPT !.queue = @ \o w])
    BY <2>1
  <2> HIDE DEF w
  <2>11. queue' = Emitted.queue \o w /\ cut' = end /\ cooling' = Emitted.cooling
    BY <2>8, <2>10, EmittedAdds DEF Take
  <2>12. Adds(u \o w, queue', cut')
    BY <2>9, <2>11
  <2>13. \A v \in Viewers : RepairDue(v) => RepairDue(v)' \/ Renews(u \o w, v, cut')
    <3> SUFFICES ASSUME NEW v \in Viewers, RepairDue(v), ~Renews(u \o w, v, cut') PROVE RepairDue(v)'
      OBVIOUS
    <3>1. \A i \in 1..n : replies[i] # v
      BY <2>9, <2>11
    <3>2. v \in pendSnap => v \in pendSnap'
      BY <2>1, <3>1
    <3>. QED BY <1>1, <1>2, <3>2 DEF RepairDue
  <2>14. Appends
    BY <1>1, <2>12, <2>13 DEF Appends
  <2>15. pendSnap' \in SUBSET pendSnap
    BY <2>1
  <2>16. IsFiniteSet(pendSnap') /\ Cardinality(pendSnap') <= Limit
    <3>1. IsFiniteSet(pendSnap') /\ Cardinality(pendSnap') <= Cardinality(pendSnap)
      BY <1>4, <2>15, FS_Subset
    <3>2. Cardinality(pendSnap) \in Nat /\ Cardinality(pendSnap') \in Nat
      BY <1>4, <3>1, FS_CardinalityType
    <3>. QED BY <1>4, <3>1, <3>2
  <2>17. cooling' \in BOOLEAN
    BY <2>11, EmittedAdds
  <2>18. StreamTyped'
    BY <1>1, <1>4, <2>12, <2>15, <2>16, <2>17, EmitterTyped DEF StreamTyped, OutputTypeOK
  <2>. QED BY <1>1, <2>14, <2>18
<1>. QED BY <1>6, <1>7

\* A request put off: as a reply, as a broadcast when too many are, or met at once by one
LEMMA DeferStep == ASSUME OutputAssumption, StreamTyped, Defer PROVE Appends /\ StreamTyped' /\ EmitterKeeps
<1>1. /\ mutex = "defer" /\ mutex' = "free" /\ client' = NoViewer /\ UNCHANGED <<emGen, asked>> /\ EmitterKeeps
  BY DEF Defer, EmitterKeeps
<1>2. conn' = conn /\ gen' = gen
  BY <1>1 DEF EmitterKeeps
<1>3. Broadcast \in Frame /\ Broadcast.to = end /\ ~IsOutput(Broadcast) /\ \A v \in Viewers : IsFor(Broadcast, v)
  BY Frames DEF StreamTyped, OutputTypeOK
<1>4. pendSnap \subseteq Viewers /\ IsFiniteSet(pendSnap) /\ Cardinality(pendSnap) <= Limit /\ Limit \in Nat
      /\ Cardinality(pendSnap) \in Nat /\ client \in Viewers
  BY <1>1, FS_CardinalityType DEF StreamTyped, OutputTypeOK, OutputAssumption
<1>5. IsFiniteSet({}) /\ Cardinality({}) = 0
  BY FS_EmptySet
<1>6. CASE /\ client \in pendSnap \/ Cardinality(pendSnap) < Limit
           /\ pendSnap' = pendSnap \cup {client} /\ UNCHANGED <<queue, cut, cooling, pendAll>>
  <2>1. Adds(<<>>, queue', cut')
    BY <1>6, AddsNothing
  <2>2. Appends
    BY <1>1, <1>2, <1>6, <2>1 DEF Appends, RepairDue
  <2>3. IsFiniteSet(pendSnap') /\ Cardinality(pendSnap') <= Limit
    BY <1>4, <1>6, FS_AddElement
  <2>4. StreamTyped'
    BY <1>1, <1>4, <1>6, <2>1, <2>3, EmitterTyped DEF StreamTyped, OutputTypeOK
  <2>. QED BY <1>1, <2>2, <2>4
<1>7. CASE /\ client \notin pendSnap /\ Fits(Emitted)
           /\ Take([Emitted EXCEPT !.queue = Append(@, Broadcast)]) /\ pendAll' = pendAll /\ pendSnap' = {}
  <2>2. PICK u : Adds(u, queue', cut') /\ \A v \in Viewers : IsFor(Broadcast, v) => Renews(u, v, cut')
    BY <1>3, <1>7, ScreenAfterEmitted
  <2>3. cooling' \in BOOLEAN
    BY <1>3, <1>7, ScreenAfterEmitted
  <2>4. Appends
    BY <1>1, <1>3, <2>2 DEF Appends
  <2>5. StreamTyped'
    <3>1. pendSnap' \subseteq Viewers /\ IsFiniteSet(pendSnap') /\ Cardinality(pendSnap') <= Limit
      BY <1>4, <1>5, <1>7
    <3>2. pendAll' \in BOOLEAN
      BY <1>7 DEF StreamTyped, OutputTypeOK
    <3>. QED BY <1>1, <2>2, <2>3, <3>1, <3>2, EmitterTyped DEF StreamTyped, OutputTypeOK
  <2>. QED BY <1>1, <2>4, <2>5
<1>8. CASE Take(Emitted) /\ pendAll' = TRUE /\ pendSnap' = pendSnap
  <2>1. PICK u : Adds(u, queue', cut')
    BY <1>8, EmittedAdds DEF Take
  <2>2. cooling' \in BOOLEAN
    BY <1>8, EmittedAdds DEF Take
  <2>3. Appends
    BY <1>1, <1>2, <1>8, <2>1 DEF Appends, RepairDue
  <2>4. StreamTyped'
    BY <1>1, <1>4, <1>8, <2>1, <2>2, EmitterTyped DEF StreamTyped, OutputTypeOK
  <2>. QED BY <1>1, <2>3, <2>4
<1>9. \/ /\ client \in pendSnap \/ Cardinality(pendSnap) < Limit
         /\ pendSnap' = pendSnap \cup {client} /\ UNCHANGED <<queue, cut, cooling, pendAll>>
      \/ /\ client \notin pendSnap /\ Fits(Emitted)
         /\ Take([Emitted EXCEPT !.queue = Append(@, Broadcast)]) /\ pendAll' = pendAll /\ pendSnap' = {}
      \/ Take(Emitted) /\ pendAll' = TRUE /\ pendSnap' = pendSnap
  <2>1. CASE Fits(Emitted)
    BY <2>1 DEF Defer, StreamTyped, OutputTypeOK
  <2>2. CASE ~Fits(Emitted)
    BY <2>2 DEF Defer
  <2>. QED BY <2>1, <2>2
<1>. QED BY <1>6, <1>7, <1>8, <1>9

-----------------------------------------------------------------------------
\* The frames under way go on from what the relay keeps and from what each viewer shows.
Ordered ==
  /\ GoesOn(UnderWay, cached, cut)
  /\ \A v \in Viewers : GoesOn(UnderWay, screen[v].pos, cut) /\ screen[v].fit # "twice"

\* What is left when the first frame is gone starts no earlier than that frame ended.
LEMMA TailGoesOn ==
  ASSUME OutputAssumption, NEW u, NEW a, NEW b, GoesOn(u, a, b), u # <<>>
  PROVE  GoesOn(Tail(u), a, b) /\ GoesOn(Tail(u), Head(u).to, b)
<1>1. u \in Seq(Frame) /\ Len(u) \in Nat /\ a \in Nat /\ b \in Nat /\ a <= b
  BY DEF GoesOn
<1>2. /\ Tail(u) \in Seq(Frame) /\ Len(Tail(u)) = Len(u) - 1 /\ Len(u) > 0 /\ Head(u) = u[1]
      /\ \A i \in 1..Len(u) - 1 : Tail(u)[i] = u[i + 1]
  BY <1>1, HeadTailProperties
<1>3. \A i \in 1..Len(u) : u[i].to \in Nat
  BY <1>1, FrameTyped, ElementOfSeq
<1>4. Head(u).to \in Nat /\ Head(u).to <= b
  BY <1>1, <1>2, <1>3 DEF GoesOn, Behind
<1>5. Behind(Tail(u), b)
  BY <1>1, <1>2 DEF GoesOn, Behind
<1>6. Rising(Tail(u))
  <2> SUFFICES ASSUME NEW i \in 1..Len(Tail(u)), NEW j \in 1..Len(Tail(u)), i < j, IsOutput(Tail(u)[j])
               PROVE  Tail(u)[i].to < Tail(u)[j].to
    BY DEF Rising
  <2>1. i + 1 \in 1..Len(u) /\ j + 1 \in 1..Len(u) /\ i + 1 < j + 1 /\ Tail(u)[i] = u[i + 1] /\ Tail(u)[j] = u[j + 1]
    BY <1>1, <1>2
  <2>. QED BY <2>1 DEF GoesOn, Rising
<1>7. Beyond(Tail(u), a)
  BY <1>1, <1>2 DEF GoesOn, Beyond
<1>8. Beyond(Tail(u), Head(u).to)
  <2> SUFFICES ASSUME NEW j \in 1..Len(Tail(u)), IsOutput(Tail(u)[j]) PROVE Head(u).to < Tail(u)[j].to
    BY DEF Beyond
  <2>1. 1 \in 1..Len(u) /\ j + 1 \in 1..Len(u) /\ 1 < j + 1 /\ Tail(u)[j] = u[j + 1]
    BY <1>1, <1>2
  <2>. QED BY <1>2, <2>1 DEF GoesOn, Rising
<1>. QED BY <1>1, <1>2, <1>4, <1>5, <1>6, <1>7, <1>8 DEF GoesOn

\* A socket that breaks takes the end of what was written to it.
LEMMA CutGoesOn ==
  ASSUME OutputAssumption, NEW u \in Seq(Frame), NEW w \in Seq(Frame), NEW a, NEW b, GoesOn(u \o w, a, b),
         NEW n \in 0..Len(u)
  PROVE  SubSeq(u, 1, n) \in Seq(Frame) /\ GoesOn(SubSeq(u, 1, n) \o w, a, b)
<1> DEFINE p == SubSeq(u, 1, n)
           x == p \o w
           y == u \o w
           m(i) == IF i <= n THEN i ELSE i - n + Len(u)
<1>1. p \in Seq(Frame) /\ Len(p) = n /\ \A i \in 1..n : p[i] = u[i]
  <2>1. \A i \in 1..n : u[i] \in Frame
    BY ElementOfSeq
  <2>2. n \in Int /\ 1 \in Int
    OBVIOUS
  <2>. QED BY <2>1, <2>2, SubSeqProperties
<1> HIDE DEF p
<1>2. /\ x \in Seq(Frame) /\ Len(x) = n + Len(w) /\ Len(w) \in Nat /\ Len(u) \in Nat
      /\ \A i \in 1..n + Len(w) : x[i] = IF i <= n THEN p[i] ELSE w[i - n]
  <2>1. x \in Seq(Frame) /\ Len(x) = Len(p) + Len(w)
        /\ \A i \in 1..Len(p) + Len(w) : x[i] = IF i <= Len(p) THEN p[i] ELSE w[i - Len(p)]
    BY <1>1, ConcatProperties
  <2>2. Len(w) \in Nat /\ Len(u) \in Nat
    OBVIOUS
  <2> HIDE DEF x
  <2>. QED BY <1>1, <2>1, <2>2
<1>3. y \in Seq(Frame) /\ Len(y) = Len(u) + Len(w)
      /\ \A i \in 1..Len(u) + Len(w) : y[i] = IF i <= Len(u) THEN u[i] ELSE w[i - Len(u)]
  BY ConcatProperties
<1> HIDE DEF x, y
<1>4. \A i \in 1..Len(x) : m(i) \in 1..Len(y) /\ x[i] = y[m(i)]
  <2> SUFFICES ASSUME NEW i \in 1..Len(x) PROVE m(i) \in 1..Len(y) /\ x[i] = y[m(i)]
    OBVIOUS
  <2>1. CASE i <= n
    BY <1>1, <1>2, <1>3, <2>1
  <2>2. CASE i > n
    <3>1. m(i) = i - n + Len(u) /\ m(i) \in 1..Len(y) /\ m(i) > Len(u)
      BY <1>2, <1>3, <2>2
    <3>2. y[m(i)] = w[m(i) - Len(u)] /\ x[i] = w[i - n]
      BY <1>2, <1>3, <2>2, <3>1
    <3>3. m(i) - Len(u) = i - n
      BY <1>2, <2>2, <3>1
    <3>. QED BY <3>1, <3>2, <3>3
  <2>. QED BY <1>2, <2>1, <2>2
<1>5. \A i, j \in 1..Len(x) : i < j => m(i) < m(j)
  BY <1>2
<1>6. GoesOn(y, a, b)
  BY DEF y
<1> HIDE DEF m
<1>7. Behind(x, b) /\ Beyond(x, a)
  BY <1>4, <1>6 DEF GoesOn, Behind, Beyond
<1>8. Rising(x)
  <2> SUFFICES ASSUME NEW i \in 1..Len(x), NEW j \in 1..Len(x), i < j, IsOutput(x[j]) PROVE x[i].to < x[j].to
    BY DEF Rising
  <2>. QED BY <1>4, <1>5, <1>6 DEF GoesOn, Rising
<1>9. GoesOn(x, a, b)
  BY <1>2, <1>6, <1>7, <1>8 DEF GoesOn
<1>. QED BY <1>1, <1>9 DEF x, p

\* What is under way after a frame left the queue, and after one arrived
LEMMA UnderWaySent ==
  ASSUME NEW u \in Seq(Frame), NEW w \in Seq(Frame), w # <<>>
  PROVE  Append(u, Head(w)) \in Seq(Frame) /\ Tail(w) \in Seq(Frame) /\ Append(u, Head(w)) \o Tail(w) = u \o w
<1>1. Head(w) \in Frame /\ Tail(w) \in Seq(Frame) /\ Len(Tail(w)) = Len(w) - 1 /\ Head(w) = w[1]
      /\ Len(w) \in Nat /\ Len(w) > 0
      /\ \A i \in 1..Len(Tail(w)) : Tail(w)[i] = w[i + 1]
  BY HeadTailProperties
<1>2. /\ Append(u, Head(w)) \in Seq(Frame) /\ Len(Append(u, Head(w))) = Len(u) + 1 /\ Len(u) \in Nat
      /\ \A i \in 1..Len(u) : Append(u, Head(w))[i] = u[i] /\ Append(u, Head(w))[Len(u) + 1] = Head(w)
  BY <1>1, AppendProperties
<1> DEFINE x == Append(u, Head(w)) \o Tail(w)
           y == u \o w
<1>3. /\ x \in Seq(Frame) /\ Len(x) = Len(u) + Len(w)
      /\ \A i \in 1..Len(u) + Len(w) : x[i] = IF i <= Len(u) + 1 THEN Append(u, Head(w))[i] ELSE Tail(w)[i - Len(u) - 1]
  <2>1. /\ x \in Seq(Frame) /\ Len(x) = Len(Append(u, Head(w))) + Len(Tail(w))
        /\ \A i \in 1..Len(Append(u, Head(w))) + Len(Tail(w)) :
              x[i] = IF i <= Len(Append(u, Head(w))) THEN Append(u, Head(w))[i] ELSE Tail(w)[i - Len(Append(u, Head(w)))]
    BY <1>1, <1>2, ConcatProperties
  <2> HIDE DEF x
  <2>. QED BY <1>1, <1>2, <2>1
<1>4. y \in Seq(Frame) /\ Len(y) = Len(u) + Len(w)
      /\ \A i \in 1..Len(u) + Len(w) : y[i] = IF i <= Len(u) THEN u[i] ELSE w[i - Len(u)]
  BY ConcatProperties
<1> HIDE DEF x, y
<1>5. ASSUME NEW i \in 1..Len(x) PROVE x[i] = y[i]
  <2>1. CASE i <= Len(u)
    BY <1>2, <1>3, <1>4, <2>1
  <2>2. CASE i = Len(u) + 1
    <3>1. x[i] = Head(w) /\ y[i] = w[1]
      <4>1. Append(u, Head(w))[Len(u) + 1] = Head(w)
        BY <1>1, AppendProperties
      <4>. QED BY <1>2, <1>3, <1>4, <2>2, <4>1
    <3>. QED BY <1>1, <3>1
  <2>3. CASE i > Len(u) + 1
    <3>1. i - Len(u) - 1 \in 1..Len(Tail(w))
      BY <1>1, <1>2, <1>3, <2>3
    <3>2. x[i] = w[i - Len(u) - 1 + 1]
      BY <1>1, <1>3, <2>3, <3>1
    <3>. QED BY <1>2, <1>3, <1>4, <2>3, <3>2
  <2>. QED BY <1>2, <1>3, <2>1, <2>2, <2>3
<1>6. x = y
  BY <1>3, <1>4, <1>5, SeqEqual
<1>. QED BY <1>1, <1>2, <1>6 DEF x, y

\* A frame that arrives is the first under way.
LEMMA UnderWayArrived ==
  ASSUME NEW u \in Seq(Frame), NEW w \in Seq(Frame), u # <<>>
  PROVE  u \o w # <<>> /\ Head(u \o w) = Head(u) /\ Tail(u \o w) = Tail(u) \o w
<1>1. Head(u) \in Frame /\ Tail(u) \in Seq(Frame) /\ Len(Tail(u)) = Len(u) - 1 /\ Head(u) = u[1]
      /\ Len(u) \in Nat /\ Len(u) > 0
      /\ \A i \in 1..Len(Tail(u)) : Tail(u)[i] = u[i + 1]
  BY HeadTailProperties
<1> DEFINE y == u \o w
           x == Tail(u) \o w
<1>2. y \in Seq(Frame) /\ Len(y) = Len(u) + Len(w) /\ Len(w) \in Nat
      /\ \A i \in 1..Len(u) + Len(w) : y[i] = IF i <= Len(u) THEN u[i] ELSE w[i - Len(u)]
  BY ConcatProperties
<1>3. x \in Seq(Frame) /\ Len(x) = Len(Tail(u)) + Len(w)
      /\ \A i \in 1..Len(Tail(u)) + Len(w) : x[i] = IF i <= Len(Tail(u)) THEN Tail(u)[i] ELSE w[i - Len(Tail(u))]
  BY <1>1, ConcatProperties
<1> HIDE DEF x, y
<1>4. y # <<>>
  BY <1>1, <1>2
<1>5. /\ Tail(y) \in Seq(Frame) /\ Len(Tail(y)) = Len(y) - 1 /\ Head(y) = y[1]
      /\ \A i \in 1..Len(Tail(y)) : Tail(y)[i] = y[i + 1]
  BY <1>2, <1>4, HeadTailProperties
<1>6. Head(y) = Head(u)
  BY <1>1, <1>2, <1>5
<1>7. ASSUME NEW i \in 1..Len(x) PROVE x[i] = Tail(y)[i]
  <2>1. i \in 1..Len(Tail(y)) /\ i + 1 \in 1..Len(y) /\ Tail(y)[i] = y[i + 1]
    BY <1>1, <1>2, <1>3, <1>5
  <2>2. CASE i <= Len(u) - 1
    BY <1>1, <1>2, <1>3, <2>1, <2>2
  <2>3. CASE i > Len(u) - 1
    <3>1. i - Len(Tail(u)) = i + 1 - Len(u)
      BY <1>1
    <3>2. x[i] = w[i - Len(Tail(u))]
      BY <1>1, <1>3, <2>3
    <3>3. y[i + 1] = w[i + 1 - Len(u)]
      BY <1>1, <1>2, <2>1, <2>3
    <3>4. x[i] = y[i + 1]
      BY <3>1, <3>2, <3>3
    <3>. QED BY <2>1, <3>4
  <2>. QED BY <1>1, <1>2, <1>3, <2>1, <2>2, <2>3
<1>8. x = Tail(y)
  BY <1>1, <1>2, <1>3, <1>5, <1>7, SeqEqual
<1>. QED BY <1>4, <1>6, <1>8 DEF x, y

\* What is enqueued is last under way.
LEMMA UnderWayGrows ==
  ASSUME NEW u \in Seq(Frame), StreamTyped, queue' = queue \o u, wire' = wire
  PROVE  UnderWay' = UnderWay \o u /\ UnderWay \in Seq(Frame)
<1>1. queue \in Seq(Frame) /\ wire \in Seq(Frame)
  BY DEF StreamTyped, OutputTypeOK
<1>2. (wire \o queue) \o u = wire \o (queue \o u)
  BY <1>1, FramesAssociate
<1>. QED BY <1>1, <1>2 DEF UnderWay

\* The emitter's frames go on from the cut, so all that is under way still does.
LEMMA EmitterOrdered ==
  ASSUME OutputAssumption, StreamTyped, Ordered, Appends, EmitterKeeps PROVE Ordered'
<1>1. PICK u : Adds(u, queue', cut')
  BY DEF Appends
<1>2. /\ queue' = queue \o u /\ GoesOn(u, cut, cut') /\ u \in Seq(Frame) /\ queue \in Seq(Frame) /\ wire \in Seq(Frame)
  BY <1>1 DEF Adds, GoesOn, StreamTyped, OutputTypeOK
<1>3. UNCHANGED <<wire, cached, screen>>
  BY DEF EmitterKeeps, viewerVars
<1>4. UnderWay' = UnderWay \o u
  BY <1>2, <1>3, UnderWayGrows
<1>5. ASSUME NEW a, GoesOn(UnderWay, a, cut) PROVE GoesOn(UnderWay', a, cut')
  BY <1>2, <1>4, <1>5, GoesOnConcat
<1>6. GoesOn(UnderWay', cached', cut')
  BY <1>3, <1>5 DEF Ordered
<1>7. \A v \in Viewers : GoesOn(UnderWay', screen'[v].pos, cut') /\ screen'[v].fit # "twice"
  BY <1>3, <1>5 DEF Ordered
<1>. QED BY <1>6, <1>7 DEF Ordered

\* Nothing that the order is about moves.
LEMMA StillOrdered ==
  ASSUME Ordered, UNCHANGED <<cached, cut, screen>>, UnderWay' = UnderWay PROVE Ordered'
BY DEF Ordered

\* The terminal writes a unit.
LEMMA WriteStep == ASSUME OutputAssumption, StreamTyped, Write PROVE StreamTyped' /\ (Ordered => Ordered')
<1>1. /\ end' = end + 1 /\ end < MaxUnits /\ safe' \in BOOLEAN
      /\ UNCHANGED <<cut, emGen, pendSnap, pendAll, cooling, mutex, client, queue, conn, gen, wire, asked, relayUp,
                     cached, status, screen, waiting, limited, asks>>
  BY DEF Write, viewerVars
<1>2. end \in 0..MaxUnits /\ end' \in 0..MaxUnits /\ \A n \in 0..end : n \in 0..end'
  BY <1>1 DEF StreamTyped, OutputTypeOK, OutputAssumption
<1>3. \A v \in Viewers : screen'[v] \in [pos : 0..end', fit : {"whole", "gap", "twice"}]
  <2>1. \A v \in Viewers : screen[v] \in [pos : 0..end, fit : {"whole", "gap", "twice"}]
    BY DEF StreamTyped, OutputTypeOK
  <2>. QED BY <1>1, <1>2, <2>1
<1>4. screen' \in [Viewers -> [pos : 0..end', fit : {"whole", "gap", "twice"}]]
  BY <1>1, <1>3 DEF StreamTyped, OutputTypeOK
<1>5. OutputTypeOK'
  BY <1>1, <1>2, <1>4 DEF StreamTyped, OutputTypeOK, Frame
<1>6. StreamTyped'
  BY <1>1, <1>5 DEF StreamTyped
<1>7. UnderWay' = UnderWay
  BY <1>1 DEF UnderWay
<1>. QED BY <1>1, <1>6, <1>7, StillOrdered

\* The path of the frames
LEMMA PathTyped ==
  ASSUME OutputAssumption, StreamTyped, UNCHANGED <<hostVars, status, limited, asks>>,
         gen' \in 1..(MaxDrops + 1), gen <= gen', queue' \in Seq(Frame), Len(queue') <= Cap, wire' \in Seq(Frame),
         conn' \in {"down", "active", "open"}, conn' # "open" => gen' <= MaxDrops, asked' \in Seq(Viewers),
         relayUp' \in BOOLEAN, conn' # "down" => relayUp', cached' \in 0..end,
         screen' \in [Viewers -> [pos : 0..end, fit : {"whole", "gap", "twice"}]],
         waiting' \in [Viewers -> {"no", "asked", "refused"}]
  PROVE  StreamTyped'
<1>1. UNCHANGED <<end, safe, cut, emGen, pendSnap, pendAll, cooling, mutex, client, status, limited, asks>>
  BY DEF hostVars
<1>2. emGen' \in 1..gen'
  BY <1>1 DEF StreamTyped, OutputTypeOK, OutputAssumption
<1>3. OutputTypeOK'
  BY <1>1, <1>2 DEF StreamTyped, OutputTypeOK, Frame
<1>. QED BY <1>1, <1>3 DEF StreamTyped

\* The sender moves a frame from the queue to the socket.
LEMMA TransmitStep ==
  ASSUME OutputAssumption, StreamTyped, Transmit
  PROVE  StreamTyped' /\ UnderWay' = UnderWay
<1>1. /\ conn = "open" /\ queue # <<>> /\ queue' = Tail(queue) /\ wire' = Append(wire, Head(queue))
      /\ UNCHANGED <<hostVars, conn, gen, asked, relayUp, cached, status, screen, waiting, limited, asks>>
  BY DEF Transmit, viewerVars
<1>2. queue \in Seq(Frame) /\ wire \in Seq(Frame)
  BY DEF StreamTyped, OutputTypeOK
<1>3. wire' \in Seq(Frame) /\ queue' \in Seq(Frame) /\ wire' \o queue' = wire \o queue
  BY <1>1, <1>2, UnderWaySent
<1>4. Len(queue') <= Cap
  BY <1>1, <1>2, HeadTailProperties DEF StreamTyped, OutputTypeOK, OutputAssumption
<1>5. StreamTyped'
  BY <1>1, <1>3, <1>4, PathTyped, SMTT(30) DEF StreamTyped, OutputTypeOK
<1>. QED BY <1>3, <1>5 DEF UnderWay

\* The socket breaks.
LEMMA DropStep == ASSUME OutputAssumption, StreamTyped, Drop PROVE StreamTyped' /\ (Ordered => Ordered')
<1>1. /\ conn = "open" /\ gen <= MaxDrops /\ conn' = "down"
      /\ UNCHANGED <<hostVars, queue, gen, relayUp, cached, status, screen, waiting, limited, asks>>
  BY DEF Drop, viewerVars
<1>2. PICK n \in 0..Len(wire) : wire' = SubSeq(wire, 1, n)
  BY DEF Drop
<1>3. PICK m \in 0..Len(asked) : asked' = SubSeq(asked, 1, m)
  BY DEF Drop
<1>4. queue \in Seq(Frame) /\ wire \in Seq(Frame) /\ asked \in Seq(Viewers)
  BY DEF StreamTyped, OutputTypeOK
<1>5. asked' \in Seq(Viewers)
  <2>1. \A i \in 1..m : asked[i] \in Viewers
    BY <1>4, ElementOfSeq
  <2>. QED BY <1>3, <1>4, <2>1, SubSeqProperties
<1>6. wire' \in Seq(Frame)
  <2>1. \A i \in 1..n : wire[i] \in Frame
    BY <1>4, ElementOfSeq
  <2>. QED BY <1>2, <1>4, <2>1, SubSeqProperties
<1>7. StreamTyped'
  <2>1. gen' = gen /\ gen \in 1..(MaxDrops + 1) /\ gen' <= MaxDrops
    BY <1>1 DEF StreamTyped, OutputTypeOK
  <2>2. queue' = queue /\ queue \in Seq(Frame) /\ Len(queue) <= Cap
    BY <1>1 DEF StreamTyped, OutputTypeOK
  <2>3. relayUp' \in BOOLEAN /\ cached' \in 0..end /\ waiting' \in [Viewers -> {"no", "asked", "refused"}]
    BY <1>1 DEF StreamTyped, OutputTypeOK
  <2>4. screen' \in [Viewers -> [pos : 0..end, fit : {"whole", "gap", "twice"}]]
    BY <1>1 DEF StreamTyped, OutputTypeOK
  <2>5. UNCHANGED <<hostVars, status, limited, asks>> /\ conn' = "down"
    BY <1>1
  <2>. QED BY <1>5, <1>6, <2>1, <2>2, <2>3, <2>4, <2>5, PathTyped
<1>8. ASSUME NEW a, GoesOn(UnderWay, a, cut) PROVE GoesOn(UnderWay', a, cut')
  <2>1. GoesOn(wire' \o queue, a, cut)
    BY <1>2, <1>4, <1>8, CutGoesOn DEF UnderWay
  <2>. QED BY <1>1, <2>1 DEF UnderWay, hostVars
<1>9. ASSUME Ordered PROVE Ordered'
  <2>1. GoesOn(UnderWay', cached', cut')
    BY <1>1, <1>8, <1>9 DEF Ordered
  <2>2. \A v \in Viewers : GoesOn(UnderWay', screen'[v].pos, cut') /\ screen'[v].fit # "twice"
    BY <1>1, <1>8, <1>9 DEF Ordered
  <2>. QED BY <2>1, <2>2 DEF Ordered
<1>. QED BY <1>7, <1>9

\* The sender dials.
LEMMA DialStep == ASSUME OutputAssumption, StreamTyped, Dial PROVE StreamTyped' /\ UnderWay' = UnderWay
<1>1. /\ conn = "down" /\ conn' = "active" /\ relayUp' = TRUE
      /\ UNCHANGED <<hostVars, queue, gen, wire, cached, status, screen, waiting, limited, asks>>
  BY DEF Dial, viewerVars
<1>2. PICK order \in SetToSeqs(Joined) : asked' = asked \o order
  BY DEF Dial
<1>3. order \in Seq(Viewers)
  <2>1. Joined \subseteq Viewers /\ IsFiniteSet(Viewers)
    BY DEF Joined, OutputAssumption
  <2>2. Cardinality(Joined) \in Nat
    BY <2>1, FS_Subset, FS_CardinalityType
  <2>3. order \in [1..Cardinality(Joined) -> Joined]
    BY DEF SetToSeqs
  <2>. QED BY <2>1, <2>2, <2>3
<1>4. asked' \in Seq(Viewers)
  BY <1>2, <1>3, ConcatProperties DEF StreamTyped, OutputTypeOK
<1>5. StreamTyped'
  BY <1>1, <1>4, PathTyped DEF StreamTyped, OutputTypeOK
<1>. QED BY <1>1, <1>5 DEF UnderWay

\* The relay accepts the connection.
LEMMA ServeStep == ASSUME OutputAssumption, StreamTyped, Serve PROVE StreamTyped' /\ UnderWay' = UnderWay
<1>1. /\ conn = "active" /\ conn' = "open" /\ gen' = gen + 1
      /\ UNCHANGED <<hostVars, queue, wire, asked, relayUp, cached, status, screen, waiting, limited, asks>>
  BY DEF Serve, viewerVars
<1>2. gen' \in 1..(MaxDrops + 1) /\ gen <= gen'
  BY <1>1 DEF StreamTyped, OutputTypeOK, OutputAssumption
<1>3. StreamTyped'
  BY <1>1, <1>2, PathTyped DEF StreamTyped, OutputTypeOK
<1>. QED BY <1>1, <1>3 DEF UnderWay

\* The host leaves for good.
LEMMA HostEndsStep ==
  ASSUME OutputAssumption, StreamTyped, HostEnds
  PROVE  StreamTyped' /\ UnderWay' = UnderWay
<1>1. /\ conn = "down" /\ relayUp' = FALSE
      /\ UNCHANGED <<hostVars, conn, gen, queue, wire, asked, cached, status, screen, waiting, limited, asks>>
  BY DEF HostEnds, viewerVars
<1>2. conn' = "down" /\ (conn' # "open" => gen' <= MaxDrops) /\ gen' \in 1..(MaxDrops + 1) /\ gen <= gen'
  BY <1>1 DEF StreamTyped, OutputTypeOK, OutputAssumption
<1>3. StreamTyped'
  BY <1>1, <1>2, PathTyped DEF StreamTyped, OutputTypeOK
<1>. QED BY <1>1, <1>3 DEF UnderWay

\* What a viewer shows after a frame that goes beyond what he shows
LEMMA ShowsTyped ==
  ASSUME OutputAssumption, NEW c \in 0..MaxUnits, NEW f \in Frame, f.to <= c, NEW v, NEW w,
         NEW s \in [pos : 0..c, fit : {"whole", "gap", "twice"}]
  PROVE  /\ Shows(f, v, s, w) \in [pos : 0..c, fit : {"whole", "gap", "twice"}]
         /\ Shows(f, v, s, w).pos \in {s.pos, f.to}
         /\ s.fit # "twice" /\ (IsOutput(f) => s.pos < f.to) => Shows(f, v, s, w).fit # "twice"
<1>1. f.to \in 0..c /\ f.to \in Nat /\ s.pos \in 0..c /\ s.fit \in {"whole", "gap", "twice"} /\ c \in Nat /\ s.pos \in Nat
  BY FrameTyped DEF OutputAssumption
<1>2. CASE f.kind = "broadcast" \/ f.for = v
  BY <1>1, <1>2 DEF Shows
<1>3. CASE ~(f.kind = "broadcast" \/ f.for = v) /\ (f.kind = "snapshot" \/ w # "no")
  BY <1>1, <1>3 DEF Shows
<1>4. CASE ~(f.kind = "broadcast" \/ f.for = v) /\ ~(f.kind = "snapshot" \/ w # "no")
  <2> DEFINE t == IF f.to <= s.pos THEN "twice" ELSE IF f.to > s.pos + 1 /\ s.fit = "whole" THEN "gap" ELSE s.fit
  <2>1. Shows(f, v, s, w) = [pos |-> f.to, fit |-> t]
    BY <1>4 DEF Shows
  <2>2. IsOutput(f)
    BY <1>4 DEF IsOutput, Frame
  <2>3. t \in {"whole", "gap", "twice"} /\ (s.fit # "twice" /\ s.pos < f.to => t # "twice")
    BY <1>1
  <2> HIDE DEF t
  <2>. QED BY <1>1, <2>1, <2>2, <2>3
<1>. QED BY <1>2, <1>3, <1>4

\* A frame arrives: nobody shows anything beyond what he did show but that frame.
LEMMA ForwardStep ==
  ASSUME OutputAssumption, StreamTyped, Ordered, Forward
  PROVE  StreamTyped' /\ Ordered' /\ UnderWay # <<>> /\ UnderWay' = Tail(UnderWay) /\ Head(UnderWay) = Head(wire)
<1> DEFINE f == Head(wire)
           s(v) == IF v \in Joined THEN Shows(f, v, screen[v], waiting[v]) ELSE screen[v]
           w(v) == IF v \in Joined THEN WaitsAfter(f, v, waiting[v]) ELSE waiting[v]
<1>1. /\ wire # <<>> /\ wire' = Tail(wire) /\ screen' = [v \in Viewers |-> s(v)] /\ waiting' = [v \in Viewers |-> w(v)]
      /\ cached' \in {cached, f.to} /\ UNCHANGED <<hostVars, queue, conn, gen, asked, relayUp, status, limited, asks>>
  BY DEF Forward
<1>2. queue \in Seq(Frame) /\ wire \in Seq(Frame) /\ cut \in 0..end /\ end \in 0..MaxUnits /\ cut' = cut
  BY <1>1 DEF StreamTyped, OutputTypeOK, hostVars
<1>3. f \in Frame /\ Tail(wire) \in Seq(Frame)
  BY <1>1, <1>2, HeadTailProperties
<1>4. UnderWay # <<>> /\ Head(UnderWay) = f /\ UnderWay' = Tail(UnderWay)
  BY <1>1, <1>2, UnderWayArrived DEF UnderWay
<1> HIDE DEF f
<1>5. GoesOn(UnderWay', f.to, cut)
  BY <1>4, TailGoesOn DEF Ordered
<1>6. f.to \in 0..cut
  BY <1>3, <1>5, FrameTyped DEF GoesOn
<1>7. ASSUME NEW a, GoesOn(UnderWay, a, cut) PROVE GoesOn(UnderWay', a, cut) /\ (IsOutput(f) => a < f.to)
  <2>1. GoesOn(UnderWay', a, cut)
    BY <1>4, <1>7, TailGoesOn
  <2>2. UnderWay \in Seq(Frame) /\ Beyond(UnderWay, a)
    BY <1>7 DEF GoesOn
  <2>3. f = UnderWay[1] /\ 1 \in 1..Len(UnderWay)
    BY <1>4, <2>2
  <2>. QED BY <2>1, <2>2, <2>3 DEF Beyond
<1>8. ASSUME NEW v \in Viewers
      PROVE  /\ s(v) \in [pos : 0..end, fit : {"whole", "gap", "twice"}]
             /\ GoesOn(UnderWay', s(v).pos, cut) /\ s(v).fit # "twice"
  <2>1. screen[v] \in [pos : 0..end, fit : {"whole", "gap", "twice"}]
    BY DEF StreamTyped, OutputTypeOK
  <2>2. GoesOn(UnderWay, screen[v].pos, cut) /\ screen[v].fit # "twice"
    BY DEF Ordered
  <2>3. GoesOn(UnderWay', screen[v].pos, cut) /\ (IsOutput(f) => screen[v].pos < f.to)
    BY <1>7, <2>2
  <2>4. f.to <= end
    BY <1>2, <1>6
  <2>5. CASE v \in Joined
    <3>1. /\ Shows(f, v, screen[v], waiting[v]) \in [pos : 0..end, fit : {"whole", "gap", "twice"}]
          /\ Shows(f, v, screen[v], waiting[v]).pos \in {screen[v].pos, f.to}
          /\ Shows(f, v, screen[v], waiting[v]).fit # "twice"
      BY <1>2, <1>3, <2>1, <2>2, <2>3, <2>4, ShowsTyped
    <3>2. s(v) = Shows(f, v, screen[v], waiting[v])
      BY <2>5
    <3> HIDE DEF s
    <3>. QED BY <1>5, <2>3, <3>1, <3>2
  <2>6. CASE v \notin Joined
    BY <2>1, <2>2, <2>3, <2>6
  <2>. QED BY <2>5, <2>6
<1>9. \A v \in Viewers : w(v) \in {"no", "asked", "refused"}
  BY DEF WaitsAfter, StreamTyped, OutputTypeOK
<1> HIDE DEF s, w
<1>10. cached' \in 0..end /\ GoesOn(UnderWay', cached', cut)
  BY <1>1, <1>2, <1>5, <1>6, <1>7 DEF Ordered, StreamTyped, OutputTypeOK
<1>11. screen' \in [Viewers -> [pos : 0..end, fit : {"whole", "gap", "twice"}]]
  BY <1>1, <1>8
<1>12. waiting' \in [Viewers -> {"no", "asked", "refused"}]
  BY <1>1, <1>9
<1>13. StreamTyped'
  BY <1>1, <1>3, <1>10, <1>11, <1>12, PathTyped, SMTT(30) DEF StreamTyped, OutputTypeOK
<1>14. \A v \in Viewers : GoesOn(UnderWay', screen'[v].pos, cut') /\ screen'[v].fit # "twice"
  BY <1>1, <1>2, <1>8
<1>15. Ordered'
  BY <1>2, <1>10, <1>14 DEF Ordered
<1>. QED BY <1>4, <1>13, <1>15 DEF f

\* The viewers
LEMMA ViewerTyped ==
  ASSUME OutputAssumption, StreamTyped, UNCHANGED <<hostVars, queue, conn, gen, wire, relayUp, cached>>,
         asked' \in Seq(Viewers), status' \in [Viewers -> {"new", "in", "left"}],
         screen' \in [Viewers -> [pos : 0..end, fit : {"whole", "gap", "twice"}]],
         waiting' \in [Viewers -> {"no", "asked", "refused"}],
         limited' \in [Viewers -> BOOLEAN], asks' \in [Viewers -> 0..MaxAsks]
  PROVE  StreamTyped'
<1>1. UNCHANGED <<end, safe, cut, emGen, pendSnap, pendAll, cooling, mutex, client>>
  BY DEF hostVars
<1>2. OutputTypeOK'
  BY <1>1 DEF StreamTyped, OutputTypeOK, Frame
<1>. QED BY <1>1, <1>2 DEF StreamTyped

\* A viewer's request joins those of the others.
LEMMA AskTyped == ASSUME StreamTyped, NEW v \in Viewers, Ask(v) PROVE asked' \in Seq(Viewers)
BY AppendProperties DEF Ask, StreamTyped, OutputTypeOK

\* A viewer who is shown what the relay keeps
LEMMA KeptShown ==
  ASSUME OutputAssumption, StreamTyped, Ordered, UNCHANGED <<hostVars, queue, wire, cached>>, NEW v \in Viewers,
         NEW s, screen' = [screen EXCEPT ![v] = s], s.pos = cached, s.fit \in {"whole", "gap"},
         s \in [pos : 0..end, fit : {"whole", "gap", "twice"}]
  PROVE  Ordered' /\ screen' \in [Viewers -> [pos : 0..end, fit : {"whole", "gap", "twice"}]]
<1>1. screen \in [Viewers -> [pos : 0..end, fit : {"whole", "gap", "twice"}]]
  BY DEF StreamTyped, OutputTypeOK
<1>2. screen' \in [Viewers -> [pos : 0..end, fit : {"whole", "gap", "twice"}]]
  BY <1>1
<1>3. \A u \in Viewers : screen'[u] = IF u = v THEN s ELSE screen[u]
  BY <1>1
<1>4. UnderWay' = UnderWay /\ cut' = cut
  BY DEF UnderWay, hostVars
<1>5. ASSUME NEW u \in Viewers PROVE GoesOn(UnderWay, screen'[u].pos, cut) /\ screen'[u].fit # "twice"
  BY <1>3 DEF Ordered
<1>6. Ordered'
  BY <1>4, <1>5 DEF Ordered
<1>. QED BY <1>2, <1>6

\* A viewer comes, and may be shown the screen kept.
LEMMA JoinStep ==
  ASSUME OutputAssumption, StreamTyped, NEW v \in Viewers, Join(v)
  PROVE  StreamTyped' /\ (Ordered => Ordered')
<1>1. /\ status' = [status EXCEPT ![v] = "in"]
      /\ UNCHANGED <<hostVars, queue, conn, gen, wire, relayUp, cached, waiting, limited, asks>>
  BY DEF Join
<1>2. status' \in [Viewers -> {"new", "in", "left"}]
  BY <1>1 DEF StreamTyped, OutputTypeOK
<1>3. UnderWay' = UnderWay /\ cut' = cut
  BY <1>1 DEF UnderWay, hostVars
<1>4. CASE relayUp
  <2>1. Ask(v) /\ screen' = screen
    BY <1>4 DEF Join
  <2>2. StreamTyped'
    BY <1>1, <1>2, <2>1, AskTyped, ViewerTyped DEF StreamTyped, OutputTypeOK
  <2>. QED BY <1>1, <1>3, <2>1, <2>2, StillOrdered
<1>5. CASE ~relayUp
  <2>1. screen' = [screen EXCEPT ![v].pos = cached] /\ asked' = asked
    BY <1>5 DEF Join
  <2> DEFINE s == [screen[v] EXCEPT !.pos = cached]
  <2>2. screen[v] \in [pos : 0..end, fit : {"whole", "gap", "twice"}] /\ cached \in 0..end
    BY DEF StreamTyped, OutputTypeOK
  <2>3. s \in [pos : 0..end, fit : {"whole", "gap", "twice"}] /\ s.pos = cached /\ s.fit = screen[v].fit
    BY <2>2
  <2>4. screen' = [screen EXCEPT ![v] = s]
    BY <2>1
  <2> HIDE DEF s
  <2>5. screen' \in [Viewers -> [pos : 0..end, fit : {"whole", "gap", "twice"}]]
    BY <2>3, <2>4 DEF StreamTyped, OutputTypeOK
  <2>6. StreamTyped'
    BY <1>1, <1>2, <2>1, <2>5, ViewerTyped DEF StreamTyped, OutputTypeOK
  <2>7. ASSUME Ordered PROVE Ordered'
    <3>1. s.fit \in {"whole", "gap"}
      BY <2>2, <2>3, <2>7 DEF Ordered
    <3>2. UNCHANGED <<hostVars, queue, wire, cached>>
      BY <1>1
    <3>. QED BY <2>3, <2>4, <2>7, <3>1, <3>2, KeptShown
  <2>. QED BY <2>6, <2>7
<1>. QED BY <1>4, <1>5

\* A viewer leaves.
LEMMA LeaveStep ==
  ASSUME OutputAssumption, StreamTyped, NEW v \in Viewers, Leave(v)
  PROVE  StreamTyped' /\ (Ordered => Ordered')
<1>1. /\ status' = [status EXCEPT ![v] = "left"]
      /\ UNCHANGED <<hostVars, queue, conn, gen, wire, asked, relayUp, cached, screen, waiting, limited, asks>>
  BY DEF Leave
<1>2. status' \in [Viewers -> {"new", "in", "left"}]
  BY <1>1 DEF StreamTyped, OutputTypeOK
<1>3. UnderWay' = UnderWay /\ cut' = cut
  BY <1>1 DEF UnderWay, hostVars
<1>4. StreamTyped'
  BY <1>1, <1>2, ViewerTyped DEF StreamTyped, OutputTypeOK
<1>. QED BY <1>1, <1>3, <1>4, StillOrdered

\* The second for which the relay ignores a viewer's requests is over.
LEMMA SecondPassesStep ==
  ASSUME OutputAssumption, StreamTyped, NEW v \in Viewers, SecondPasses(v)
  PROVE  StreamTyped' /\ (Ordered => Ordered')
<1>1. /\ limited' = [limited EXCEPT ![v] = FALSE]
      /\ UNCHANGED <<hostVars, queue, conn, gen, wire, asked, relayUp, cached, screen, waiting, status, asks>>
  BY DEF SecondPasses
<1>2. limited' \in [Viewers -> BOOLEAN]
  BY <1>1 DEF StreamTyped, OutputTypeOK
<1>3. UnderWay' = UnderWay /\ cut' = cut
  BY <1>1 DEF UnderWay, hostVars
<1>4. StreamTyped'
  BY <1>1, <1>2, ViewerTyped DEF StreamTyped, OutputTypeOK
<1>. QED BY <1>1, <1>3, <1>4, StillOrdered

\* A viewer falls behind and asks again.
LEMMA FallBehindStep ==
  ASSUME OutputAssumption, StreamTyped, NEW v \in Viewers, FallBehind(v)
  PROVE  StreamTyped' /\ (Ordered => Ordered')
<1>1. /\ asks[v] < MaxAsks /\ asks' = [asks EXCEPT ![v] = @ + 1]
      /\ UNCHANGED <<hostVars, queue, conn, gen, wire, relayUp, cached, status>>
  BY DEF FallBehind
<1>2. asks' \in [Viewers -> 0..MaxAsks]
  <2>1. asks[v] + 1 \in 0..MaxAsks
    BY <1>1 DEF StreamTyped, OutputTypeOK, OutputAssumption
  <2>. QED BY <1>1, <2>1 DEF StreamTyped, OutputTypeOK
<1>3. UnderWay' = UnderWay /\ cut' = cut
  BY <1>1 DEF UnderWay, hostVars
<1>4. CASE limited[v] /\ waiting' = [waiting EXCEPT ![v] = "refused"] /\ UNCHANGED <<asked, screen, limited>>
  <2>1. waiting' \in [Viewers -> {"no", "asked", "refused"}]
    BY <1>4 DEF StreamTyped, OutputTypeOK
  <2>2. StreamTyped'
    BY <1>1, <1>2, <1>4, <2>1, ViewerTyped DEF StreamTyped, OutputTypeOK
  <2>. QED BY <1>1, <1>3, <1>4, <2>2, StillOrdered
<1>5. CASE /\ waiting' = [waiting EXCEPT ![v] = "asked"] /\ Ask(v)
           /\ limited' = [limited EXCEPT ![v] = TRUE] /\ UNCHANGED screen
  <2>1. waiting' \in [Viewers -> {"no", "asked", "refused"}] /\ limited' \in [Viewers -> BOOLEAN]
    BY <1>5 DEF StreamTyped, OutputTypeOK
  <2>2. StreamTyped'
    BY <1>1, <1>2, <1>5, <2>1, AskTyped, ViewerTyped DEF StreamTyped, OutputTypeOK
  <2>. QED BY <1>1, <1>3, <1>5, <2>2, StillOrdered
<1>6. CASE /\ waiting' = [waiting EXCEPT ![v] = "no"]
           /\ screen'  = [screen EXCEPT ![v] = [pos |-> cached, fit |-> "whole"]]
           /\ limited' = [limited EXCEPT ![v] = TRUE] /\ UNCHANGED asked
  <2> DEFINE s == [pos |-> cached, fit |-> "whole"]
  <2>1. waiting' \in [Viewers -> {"no", "asked", "refused"}] /\ limited' \in [Viewers -> BOOLEAN]
    BY <1>6 DEF StreamTyped, OutputTypeOK
  <2>2. screen' = [screen EXCEPT ![v] = s]
    BY <1>6
  <2>3. s \in [pos : 0..end, fit : {"whole", "gap", "twice"}] /\ s.pos = cached /\ s.fit = "whole"
    BY DEF StreamTyped, OutputTypeOK
  <2> HIDE DEF s
  <2>4. screen' \in [Viewers -> [pos : 0..end, fit : {"whole", "gap", "twice"}]]
    BY <2>2, <2>3 DEF StreamTyped, OutputTypeOK
  <2>5. StreamTyped'
    BY <1>1, <1>2, <1>6, <2>1, <2>4, ViewerTyped DEF StreamTyped, OutputTypeOK
  <2>6. Ordered => Ordered'
    BY <1>1, <2>2, <2>3, KeptShown
  <2>. QED BY <2>5, <2>6
<1>7. CASE /\ waiting' = [waiting EXCEPT ![v] = "asked"]
           /\ limited' = [limited EXCEPT ![v] = TRUE] /\ UNCHANGED <<asked, screen>>
  <2>1. waiting' \in [Viewers -> {"no", "asked", "refused"}] /\ limited' \in [Viewers -> BOOLEAN]
    BY <1>7 DEF StreamTyped, OutputTypeOK
  <2>2. StreamTyped'
    BY <1>1, <1>2, <1>7, <2>1, ViewerTyped DEF StreamTyped, OutputTypeOK
  <2>. QED BY <1>1, <1>3, <1>7, <2>2, StillOrdered
<1>. QED BY <1>4, <1>5, <1>6, <1>7 DEF FallBehind

-----------------------------------------------------------------------------
\* What covers a viewer: a screen under way and what follows it, or what he shows and what follows that.
Covered(u, v, s, w, c) == Renews(u, v, c) \/ (w = "no" /\ s.fit = "whole" /\ LeadsOn(u, v, s.pos, c))

\* To be up to date is to be led on by what is under way, or to have a screen among it.
LEMMA UpToDateIsCovered ==
  ASSUME NEW u \in Seq(Frame), Rising(u), NEW v, NEW s, NEW w, NEW c
  PROVE  Covered(u, v, s, w, c) <=>
           \E k \in 0..Len(u) :
             LET base  == IF k = 0 THEN s.pos ELSE u[k].to
                 after == {j \in k + 1..Len(u) : IsOutput(u[j])}
             IN  /\ IF k = 0 THEN w = "no" /\ s.fit = "whole" ELSE IsFor(u[k], v)
                 /\ \A j \in k + 1..Len(u) : ~IsFor(u[j], v)
                 /\ {u[j].to : j \in after} = base + 1..c
                 /\ \A i, j \in after : i < j => u[i].to < u[j].to
<1> DEFINE base(k)  == IF k = 0 THEN s.pos ELSE u[k].to
           after(k) == {j \in k + 1..Len(u) : IsOutput(u[j])}
           Good(k)  == /\ IF k = 0 THEN w = "no" /\ s.fit = "whole" ELSE IsFor(u[k], v)
                       /\ \A j \in k + 1..Len(u) : ~IsFor(u[j], v)
                       /\ {u[j].to : j \in after(k)} = base(k) + 1..c
                       /\ \A i, j \in after(k) : i < j => u[i].to < u[j].to
<1>1. Len(u) \in Nat
  OBVIOUS
<1>2. \A k \in 0..Len(u) : \A i, j \in after(k) : i < j => u[i].to < u[j].to
  BY <1>1 DEF Rising
<1>3. \A k : {u[j].to : j \in after(k)} = OutputAfter(u, k)
  BY DEF OutputAfter
<1>4. Good(0) <=> w = "no" /\ s.fit = "whole" /\ LeadsOn(u, v, s.pos, c)
  <2>1. base(0) = s.pos /\ 0 \in 0..Len(u) /\ 0 + 1 = 1
    BY <1>1
  <2>2. (\A j \in 0 + 1..Len(u) : ~IsFor(u[j], v)) <=> \A j \in 1..Len(u) : ~IsFor(u[j], v)
    BY <2>1
  <2>3. {u[j].to : j \in after(0)} = OutputAfter(u, 0)
    BY <1>3
  <2>4. \A i, j \in after(0) : i < j => u[i].to < u[j].to
    BY <1>2, <2>1
  <2> HIDE DEF base, after
  <2>. QED BY <2>1, <2>2, <2>3, <2>4 DEF LeadsOn
<1>5. ASSUME NEW k \in 1..Len(u)
      PROVE  Good(k) <=> /\ IsFor(u[k], v)
                         /\ \A j \in k + 1..Len(u) : ~IsFor(u[j], v)
                         /\ OutputAfter(u, k) = u[k].to + 1..c
  <2>1. base(k) = u[k].to /\ k \in 0..Len(u) /\ k # 0
    BY <1>1
  <2>3. {u[j].to : j \in after(k)} = OutputAfter(u, k)
    BY <1>3
  <2>4. \A i, j \in after(k) : i < j => u[i].to < u[j].to
    BY <1>2, <2>1
  <2> HIDE DEF base, after
  <2>. QED BY <2>1, <2>3, <2>4
<1> HIDE DEF Good
<1>6. Renews(u, v, c) <=> \E k \in 1..Len(u) : Good(k)
  BY <1>5 DEF Renews
<1>7. (\E k \in 0..Len(u) : Good(k)) <=> Good(0) \/ \E k \in 1..Len(u) : Good(k)
  BY <1>1
<1>8. Covered(u, v, s, w, c) <=> \E k \in 0..Len(u) : Good(k)
  BY <1>4, <1>6, <1>7 DEF Covered
<1>. QED BY <1>8 DEF Good

\* The output behind a place, seen from the frames without the first
LEMMA AfterTail ==
  ASSUME NEW u \in Seq(Frame), u # <<>>, NEW k \in 0..Len(u) - 1
  PROVE  OutputAfter(Tail(u), k) = OutputAfter(u, k + 1)
<1>1. Tail(u) \in Seq(Frame) /\ Len(Tail(u)) = Len(u) - 1 /\ Len(u) \in Nat /\ \A i \in 1..Len(u) - 1 : Tail(u)[i] = u[i + 1]
  BY HeadTailProperties
<1>2. ASSUME NEW x \in OutputAfter(Tail(u), k) PROVE x \in OutputAfter(u, k + 1)
  <2>1. PICK j \in k + 1..Len(u) - 1 : IsOutput(Tail(u)[j]) /\ x = Tail(u)[j].to
    BY <1>1, <1>2 DEF OutputAfter
  <2>2. j + 1 \in (k + 1) + 1..Len(u) /\ Tail(u)[j] = u[j + 1]
    BY <1>1
  <2>. QED BY <2>1, <2>2 DEF OutputAfter
<1>3. ASSUME NEW x \in OutputAfter(u, k + 1) PROVE x \in OutputAfter(Tail(u), k)
  <2>1. PICK j \in (k + 1) + 1..Len(u) : IsOutput(u[j]) /\ x = u[j].to
    BY <1>3 DEF OutputAfter
  <2>2. j - 1 \in k + 1..Len(Tail(u)) /\ Tail(u)[j - 1] = u[j]
    BY <1>1
  <2>. QED BY <2>1, <2>2 DEF OutputAfter
<1>. QED BY <1>2, <1>3

\* The first of the frames leaves out or adds nothing: who was covered still is.
LEMMA TailCovers ==
  ASSUME OutputAssumption, NEW u, NEW v \in Viewers, NEW s, NEW w, NEW c, GoesOn(u, s.pos, c), u # <<>>,
         Covered(u, v, s, w, c)
  PROVE  Covered(Tail(u), v, Shows(Head(u), v, s, w), WaitsAfter(Head(u), v, w), c)
<1> DEFINE f == Head(u)
<1>1. u \in Seq(Frame) /\ Len(u) \in Nat /\ Len(u) > 0 /\ Tail(u) \in Seq(Frame) /\ Len(Tail(u)) = Len(u) - 1
      /\ f = u[1] /\ f \in Frame /\ \A i \in 1..Len(u) - 1 : Tail(u)[i] = u[i + 1]
  BY HeadTailProperties DEF GoesOn
<1>2. s.pos \in Nat /\ c \in Nat /\ f.to \in Nat
  BY <1>1, FrameTyped DEF GoesOn
<1> HIDE DEF f
<1>3. OutputAfter(Tail(u), 0) = OutputAfter(u, 1)
  <2>1. OutputAfter(Tail(u), 0) = OutputAfter(u, 0 + 1)
    BY <1>1, AfterTail
  <2>. QED BY <2>1
<1>4. CASE Renews(u, v, c)
  <2>1. PICK k \in 1..Len(u) :
          /\ IsFor(u[k], v)
          /\ \A j \in k + 1..Len(u) : ~IsFor(u[j], v)
          /\ OutputAfter(u, k) = u[k].to + 1..c
    BY <1>4 DEF Renews
  <2>2. CASE k = 1
    <3>1. IsFor(f, v) /\ OutputAfter(Tail(u), 0) = f.to + 1..c
      BY <1>1, <1>3, <2>1, <2>2
    <3>2. Shows(f, v, s, w) = [pos |-> f.to, fit |-> "whole"] /\ WaitsAfter(f, v, w) = "no"
      BY <3>1 DEF IsFor, Shows, WaitsAfter
    <3>3. \A j \in 1..Len(Tail(u)) : ~IsFor(Tail(u)[j], v)
      BY <1>1, <2>1, <2>2
    <3>4. LeadsOn(Tail(u), v, f.to, c)
      BY <3>1, <3>3 DEF LeadsOn
    <3>. QED BY <3>2, <3>4 DEF Covered, f
  <2>3. CASE k # 1
    <3>1. k - 1 \in 1..Len(Tail(u)) /\ Tail(u)[k - 1] = u[k]
      BY <1>1, <2>3
    <3>2. \A j \in (k - 1) + 1..Len(Tail(u)) : ~IsFor(Tail(u)[j], v)
      BY <1>1, <2>1
    <3>3. OutputAfter(Tail(u), k - 1) = u[k].to + 1..c
      <4>1. OutputAfter(Tail(u), k - 1) = OutputAfter(u, (k - 1) + 1)
        BY <1>1, AfterTail
      <4>. QED BY <2>1, <4>1
    <3>4. Renews(Tail(u), v, c)
      BY <2>1, <3>1, <3>2, <3>3 DEF Renews
    <3>. QED BY <3>4 DEF Covered
  <2>. QED BY <2>2, <2>3
<1>5. CASE w = "no" /\ s.fit = "whole" /\ LeadsOn(u, v, s.pos, c)
  <2>1. ~IsFor(f, v) /\ \A j \in 1..Len(Tail(u)) : ~IsFor(Tail(u)[j], v)
    BY <1>1, <1>5 DEF LeadsOn
  <2>2. WaitsAfter(f, v, w) = "no"
    BY <1>5, <2>1 DEF IsFor, WaitsAfter
  <2>3. OutputAfter(u, 0) = s.pos + 1..c
    BY <1>5 DEF LeadsOn
  <2>4. CASE IsOutput(f)
    <3>1. s.pos < f.to /\ f.to \in OutputAfter(u, 0)
      <4>1. 1 \in 0 + 1..Len(u) /\ 1 \in 1..Len(u)
        BY <1>1
      <4>. QED BY <1>1, <2>4, <4>1 DEF GoesOn, Beyond, OutputAfter
    <3>2. \A x \in OutputAfter(u, 1) : f.to < x
      <4> SUFFICES ASSUME NEW x \in OutputAfter(u, 1) PROVE f.to < x
        OBVIOUS
      <4>1. PICK j \in 1 + 1..Len(u) : IsOutput(u[j]) /\ x = u[j].to
        BY DEF OutputAfter
      <4>2. 1 \in 1..Len(u) /\ j \in 1..Len(u) /\ 1 < j
        BY <1>1
      <4>. QED BY <1>1, <4>1, <4>2 DEF GoesOn, Rising
    <3>3. OutputAfter(u, 0) = {f.to} \cup OutputAfter(u, 1)
      <4>1. ASSUME NEW x \in OutputAfter(u, 0) PROVE x = f.to \/ x \in OutputAfter(u, 1)
        <5>1. PICK j \in 0 + 1..Len(u) : IsOutput(u[j]) /\ x = u[j].to
          BY <4>1 DEF OutputAfter
        <5>2. CASE j = 1
          BY <1>1, <5>1, <5>2
        <5>3. CASE j # 1
          <6>1. j \in 1 + 1..Len(u)
            BY <1>1, <5>3
          <6>. QED BY <5>1, <6>1 DEF OutputAfter
        <5>. QED BY <5>2, <5>3
      <4>2. OutputAfter(u, 1) \subseteq OutputAfter(u, 0)
        <5>1. \A j \in 1 + 1..Len(u) : j \in 0 + 1..Len(u)
          BY <1>1
        <5>. QED BY <5>1 DEF OutputAfter
      <4>. QED BY <3>1, <4>1, <4>2
    <3>4. f.to = s.pos + 1
      <4>1. s.pos + 1 \in OutputAfter(u, 0)
        BY <1>2, <2>3, <3>1
      <4>. QED BY <1>2, <3>1, <3>2, <3>3, <4>1
    <3>5. OutputAfter(u, 1) = f.to + 1..c
      <4>1. ASSUME NEW x \in OutputAfter(u, 1) PROVE x \in f.to + 1..c
        <5>1. x \in s.pos + 1..c /\ f.to < x
          BY <2>3, <3>2, <3>3
        <5>. QED BY <1>2, <5>1
      <4>2. ASSUME NEW x \in f.to + 1..c PROVE x \in OutputAfter(u, 1)
        <5>1. x \in s.pos + 1..c /\ x # f.to
          BY <1>2, <3>4
        <5>. QED BY <2>3, <3>3, <5>1
      <4>. QED BY <4>1, <4>2
    <3>6. Shows(f, v, s, w) = [pos |-> f.to, fit |-> "whole"]
      <4>1. ~(f.kind = "broadcast" \/ f.for = v) /\ ~(f.kind = "snapshot" \/ w # "no")
        BY <1>5, <2>1, <2>4 DEF IsFor, IsOutput
      <4>2. ~(f.to <= s.pos) /\ ~(f.to > s.pos + 1 /\ s.fit = "whole") /\ s.fit = "whole"
        BY <1>2, <1>5, <3>4
      <4>. QED BY <4>1, <4>2 DEF Shows
    <3>7. LeadsOn(Tail(u), v, f.to, c)
      BY <1>3, <2>1, <3>5 DEF LeadsOn
    <3>. QED BY <2>2, <3>6, <3>7 DEF Covered, f
  <2>5. CASE ~IsOutput(f)
    <3>1. Shows(f, v, s, w) = s
      BY <1>1, <2>1, <2>5 DEF IsFor, IsOutput, Shows, Frame
    <3>2. OutputAfter(u, 0) = OutputAfter(u, 1)
      <4>1. \A j \in 0 + 1..Len(u) : IsOutput(u[j]) => j \in 1 + 1..Len(u)
        BY <1>1, <2>5
      <4>2. \A j \in 1 + 1..Len(u) : j \in 0 + 1..Len(u)
        BY <1>1
      <4>. QED BY <4>1, <4>2 DEF OutputAfter
    <3>3. LeadsOn(Tail(u), v, s.pos, c)
      BY <1>3, <2>1, <2>3, <3>2 DEF LeadsOn
    <3>. QED BY <1>5, <2>2, <3>1, <3>3 DEF Covered, f
  <2>. QED BY <2>4, <2>5
<1>. QED BY <1>4, <1>5 DEF Covered

\* The two ways of being up to date, in this state
LEMMA UpToDateNow ==
  ASSUME Ordered, NEW v \in Viewers PROVE UpToDate(v) <=> Covered(UnderWay, v, screen[v], waiting[v], cut)
<1>1. UnderWay \in Seq(Frame) /\ Rising(UnderWay)
  BY DEF Ordered, GoesOn
<1>. QED BY <1>1, UpToDateIsCovered DEF UpToDate

\* and in the next
LEMMA UpToDateNext ==
  ASSUME Ordered', NEW v \in Viewers PROVE UpToDate(v)' <=> Covered(UnderWay', v, screen'[v], waiting'[v], cut')
<1>1. UnderWay' \in Seq(Frame) /\ Rising(UnderWay')
  BY DEF Ordered, GoesOn
<1>. QED BY <1>1, UpToDateIsCovered DEF UpToDate

\* On a connection whose reconnect is over, the last of a viewer's screens under way is followed by
\* what it lacks.
Following ==
  conn = "open" /\ emGen = gen =>
    \A v \in Viewers : (\E k \in 1..Len(UnderWay) : IsFor(UnderWay[k], v)) => Renews(UnderWay, v, cut)

\* What the emitter adds follows the last screens under way.
LEMMA EmitterFollows ==
  ASSUME OutputAssumption, StreamTyped, Ordered, Following, Appends, EmitterKeeps PROVE Following'
<1>1. PICK u : /\ Adds(u, queue', cut')
               /\ emGen' = emGen \/ \A v \in Viewers : Renews(u, v, cut')
  BY DEF Appends
<1>2. /\ queue' = queue \o u /\ GoesOn(u, cut, cut') /\ u \in Seq(Frame) /\ queue \in Seq(Frame) /\ wire \in Seq(Frame)
      /\ cut \in Nat /\ cut' \in Nat /\ cut <= cut'
  BY <1>1 DEF Adds, GoesOn, StreamTyped, OutputTypeOK
<1>3. UNCHANGED <<wire, conn, gen>>
  BY DEF EmitterKeeps
<1>4. UnderWay' = UnderWay \o u /\ UnderWay \in Seq(Frame) /\ Behind(UnderWay, cut)
  BY <1>2, <1>3, UnderWayGrows DEF Ordered, GoesOn
<1> SUFFICES ASSUME conn' = "open", emGen' = gen', NEW v \in Viewers,
                    NEW k \in 1..Len(UnderWay'), IsFor(UnderWay'[k], v)
             PROVE  Renews(UnderWay', v, cut')
  BY DEF Following
<1>5. CASE Renews(u, v, cut')
  BY <1>2, <1>4, <1>5, RenewsLater
<1>6. CASE ~Renews(u, v, cut')
  <2>1. LeadsOn(u, v, cut, cut') /\ emGen = gen /\ conn = "open"
    BY <1>1, <1>3, <1>6 DEF Adds
  <2>2. /\ Len(UnderWay') = Len(UnderWay) + Len(u) /\ Len(UnderWay) \in Nat /\ Len(u) \in Nat
        /\ \A i \in 1..Len(UnderWay) + Len(u) : UnderWay'[i] = IF i <= Len(UnderWay) THEN UnderWay[i] ELSE u[i - Len(UnderWay)]
    BY <1>2, <1>4, ConcatProperties
  <2>3. ASSUME k > Len(UnderWay) PROVE FALSE
    <3>1. k - Len(UnderWay) \in 1..Len(u) /\ UnderWay'[k] = u[k - Len(UnderWay)]
      BY <2>2, <2>3
    <3>2. \A j \in 1..Len(u) : ~IsFor(u[j], v)
      BY <2>1 DEF LeadsOn
    <3>. QED BY <3>1, <3>2
  <2>4. k \in 1..Len(UnderWay) /\ IsFor(UnderWay[k], v)
    BY <2>2, <2>3
  <2>5. Renews(UnderWay, v, cut)
    BY <2>1, <2>4 DEF Following
  <2>. QED BY <1>2, <1>4, <2>1, <2>5, RenewsOn
<1>. QED BY <1>5, <1>6

\* A frame that arrives leaves what followed the screens behind it as it was.
LEMMA ForwardFollows == ASSUME OutputAssumption, StreamTyped, Ordered, Following, Forward PROVE Following'
<1>1. UnderWay # <<>> /\ UnderWay' = Tail(UnderWay) /\ UnderWay \in Seq(Frame)
  BY ForwardStep DEF Ordered, GoesOn
<1>2. UNCHANGED <<conn, gen, emGen, cut>>
  BY DEF Forward, hostVars
<1>3. /\ Len(UnderWay') = Len(UnderWay) - 1 /\ Len(UnderWay) \in Nat /\ \A i \in 1..Len(UnderWay) - 1 : UnderWay'[i] = UnderWay[i + 1]
  BY <1>1, HeadTailProperties
<1> SUFFICES ASSUME conn' = "open", emGen' = gen', NEW v \in Viewers,
                    NEW k \in 1..Len(UnderWay'), IsFor(UnderWay'[k], v)
             PROVE  Renews(UnderWay', v, cut)
  BY <1>2 DEF Following
<1>4. k + 1 \in 1..Len(UnderWay) /\ IsFor(UnderWay[k + 1], v)
  BY <1>3
<1>5. PICK m \in 1..Len(UnderWay) :
        /\ IsFor(UnderWay[m], v)
        /\ \A j \in m + 1..Len(UnderWay) : ~IsFor(UnderWay[j], v)
        /\ OutputAfter(UnderWay, m) = UnderWay[m].to + 1..cut
  <2>1. Renews(UnderWay, v, cut)
    BY <1>2, <1>4 DEF Following
  <2>. QED BY <2>1 DEF Renews
<1>6. m # 1
  BY <1>3, <1>4, <1>5
<1>7. m - 1 \in 1..Len(UnderWay') /\ UnderWay'[m - 1] = UnderWay[m]
  BY <1>3, <1>6
<1>8. \A j \in (m - 1) + 1..Len(UnderWay') : ~IsFor(UnderWay'[j], v)
  BY <1>3, <1>5
<1>9. OutputAfter(UnderWay', m - 1) = OutputAfter(UnderWay, (m - 1) + 1)
  BY <1>1, <1>3, <1>7, AfterTail
<1>. QED BY <1>5, <1>7, <1>8, <1>9 DEF Renews

\* Nothing moves that the screens under way depend on.
LEMMA StillFollows ==
  ASSUME Following, UNCHANGED <<conn, gen, emGen, cut>>, UnderWay' = UnderWay
  PROVE  Following'
BY DEF Following

\* A step of the emitter forgets nobody.
LEMMA EmitterRepaired ==
  ASSUME OutputAssumption, StreamTyped, Ordered, Repaired, Appends, EmitterKeeps PROVE Repaired'
<1>1. PICK u : /\ Adds(u, queue', cut')
               /\ \A v \in Viewers : RepairDue(v) => RepairDue(v)' \/ Renews(u, v, cut')
  BY DEF Appends
<1>2. /\ queue' = queue \o u /\ GoesOn(u, cut, cut') /\ u \in Seq(Frame) /\ queue \in Seq(Frame) /\ wire \in Seq(Frame)
      /\ cut \in Nat /\ cut' \in Nat /\ cut <= cut'
  BY <1>1 DEF Adds, GoesOn, StreamTyped, OutputTypeOK
<1>3. UNCHANGED <<wire, status, screen, waiting>>
  BY DEF EmitterKeeps, viewerVars
<1>4. UnderWay' = UnderWay \o u
  BY <1>2, <1>3, UnderWayGrows
<1>5. Ordered'
  BY EmitterOrdered
<1>6. ASSUME NEW v \in Viewers, v \in Joined PROVE RepairDue(v)' \/ waiting'[v] = "refused" \/ UpToDate(v)'
  <2>0. GoesOn(UnderWay, screen[v].pos, cut)
    BY DEF Ordered
  <2>1. UnderWay \in Seq(Frame) /\ screen[v].pos \in Nat /\ screen[v].pos <= cut /\ Behind(UnderWay, cut)
    BY <2>0 DEF GoesOn
  <2>2. CASE Renews(u, v, cut')
    <3>1. Renews(UnderWay', v, cut')
      BY <1>2, <1>4, <2>1, <2>2, RenewsLater
    <3>. QED BY <1>5, <3>1, UpToDateNext DEF Covered
  <2>3. CASE RepairDue(v) /\ ~Renews(u, v, cut')
    BY <1>1, <2>3
  <2>4. CASE waiting[v] = "refused"
    BY <1>3, <2>4
  <2>5. CASE UpToDate(v) /\ ~Renews(u, v, cut')
    <3>1. LeadsOn(u, v, cut, cut')
      BY <1>1, <2>5 DEF Adds
    <3>2. CASE Renews(UnderWay, v, cut)
      <4>1. Renews(UnderWay', v, cut')
        BY <1>2, <1>4, <2>1, <3>1, <3>2, RenewsOn
      <4>. QED BY <1>5, <4>1, UpToDateNext DEF Covered
    <3>3. CASE waiting[v] = "no" /\ screen[v].fit = "whole" /\ LeadsOn(UnderWay, v, screen[v].pos, cut)
      <4>1. LeadsOn(UnderWay', v, screen[v].pos, cut')
        BY <1>2, <1>4, <2>1, <3>1, <3>3, LeadsOnConcat
      <4>2. Covered(UnderWay', v, screen'[v], waiting'[v], cut')
        BY <1>3, <3>3, <4>1 DEF Covered
      <4>. QED BY <1>5, <4>2, UpToDateNext
    <3>. QED BY <2>5, <3>2, <3>3, UpToDateNow DEF Covered
  <2>. QED BY <1>6, <2>2, <2>3, <2>4, <2>5 DEF Repaired
<1>7. Joined' = Joined /\ Joined \subseteq Viewers
  BY <1>3 DEF Joined
<1>. QED BY <1>6, <1>7 DEF Repaired

\* Nothing that a viewer's screen depends on moves.
LEMMA StillRepaired ==
  ASSUME Ordered, Repaired, UNCHANGED <<screen, waiting, cut, cached>>, UnderWay' = UnderWay,
         \A v \in Viewers : v \in Joined' => v \in Joined,
         \A v \in Viewers : RepairDue(v) => RepairDue(v)'
  PROVE  Repaired'
<1>1. Ordered'
  BY StillOrdered
<1>2. ASSUME NEW v \in Viewers PROVE UpToDate(v) => UpToDate(v)'
  <2>1. UpToDate(v) => Covered(UnderWay, v, screen[v], waiting[v], cut)
    BY UpToDateNow
  <2>2. Covered(UnderWay, v, screen[v], waiting[v], cut) => Covered(UnderWay', v, screen'[v], waiting'[v], cut')
    OBVIOUS
  <2>. QED BY <1>1, <2>1, <2>2, UpToDateNext
<1>3. Joined' \subseteq Viewers
  BY DEF Joined
<1>. QED BY <1>2, <1>3 DEF Repaired

\* The reconnect's broadcast is owed to everybody.
LEMMA ReconnectRepairs == ASSUME conn' # "open" \/ emGen' # gen' PROVE Repaired'
<1>1. \A v : RepairDue(v)'
  BY DEF RepairDue
<1>. QED BY <1>1 DEF Repaired

\* Nor does a frame on its way, or lost.
LEMMA PathRepaired ==
  ASSUME OutputAssumption, StreamTyped, Ordered, Following, Repaired, Write \/ Path PROVE Repaired'
<1>1. CASE Write
  <2>1. UNCHANGED <<cut, emGen, pendSnap, pendAll, client, queue, conn, gen, wire, asked, cached, status, screen, waiting>>
    BY <1>1 DEF Write, viewerVars
  <2>2. UnderWay' = UnderWay /\ Joined' = Joined
    BY <2>1 DEF UnderWay, Joined
  <2>3. \A v \in Viewers : RepairDue(v) => RepairDue(v)'
    BY <2>1 DEF RepairDue
  <2>. QED BY <2>1, <2>2, <2>3, StillRepaired
<1>2. CASE Transmit
  <2>1. UNCHANGED <<cut, emGen, pendSnap, pendAll, client, conn, gen, asked, cached, status, screen, waiting>>
    BY <1>2 DEF Transmit, hostVars, viewerVars
  <2>2. UnderWay' = UnderWay /\ Joined' = Joined
    BY <1>2, <2>1, TransmitStep DEF Joined
  <2>3. \A v \in Viewers : RepairDue(v) => RepairDue(v)'
    BY <2>1 DEF RepairDue
  <2>. QED BY <2>1, <2>2, <2>3, StillRepaired
<1>3. CASE Drop
  BY <1>3, ReconnectRepairs DEF Drop
<1>4. CASE Dial
  BY <1>4, ReconnectRepairs DEF Dial
<1>5. CASE Serve
  <2>1. gen' = gen + 1 /\ emGen' = emGen /\ gen \in Nat /\ emGen \in 1..gen
    BY <1>5 DEF Serve, hostVars, StreamTyped, OutputTypeOK, OutputAssumption
  <2>2. emGen' # gen'
    BY <2>1
  <2>. QED BY <2>2, ReconnectRepairs
<1>6. CASE HostEnds
  <2>1. conn = "down" /\ conn' = conn
    BY <1>6 DEF HostEnds
  <2>. QED BY <2>1, ReconnectRepairs
<1>7. CASE Forward
  <2>1. Ordered' /\ UnderWay # <<>> /\ UnderWay' = Tail(UnderWay) /\ Head(UnderWay) = Head(wire)
    BY <1>7, ForwardStep
  <2>2. UNCHANGED <<cut, emGen, pendSnap, pendAll, client, conn, gen, asked, status>>
    BY <1>7 DEF Forward, hostVars
  <2>3. ASSUME NEW v \in Viewers, v \in Joined PROVE RepairDue(v)' \/ waiting'[v] = "refused" \/ UpToDate(v)'
    <3>1. /\ screen'[v] = Shows(Head(UnderWay), v, screen[v], waiting[v])
          /\ waiting'[v] = WaitsAfter(Head(UnderWay), v, waiting[v])
      BY <1>7, <2>1, <2>3 DEF Forward
    <3>2. RepairDue(v) => RepairDue(v)'
      BY <2>2 DEF RepairDue
    <3>3. CASE UpToDate(v)
      <4>1. Covered(UnderWay, v, screen[v], waiting[v], cut) /\ GoesOn(UnderWay, screen[v].pos, cut)
        BY <3>3, UpToDateNow DEF Ordered
      <4>2. Covered(UnderWay', v, screen'[v], waiting'[v], cut')
        BY <2>1, <2>2, <3>1, <4>1, TailCovers
      <4>. QED BY <2>1, <4>2, UpToDateNext
    <3>4. CASE waiting[v] = "refused" /\ ~IsFor(Head(UnderWay), v)
      <4>1. waiting'[v] = "refused"
        BY <3>1, <3>4 DEF WaitsAfter, IsFor
      <4>. QED BY <4>1
    <3>5. CASE IsFor(Head(UnderWay), v) /\ ~RepairDue(v)'
      <4>1. conn = "open" /\ emGen = gen
        BY <2>2, <3>5 DEF RepairDue
      <4>2. Head(UnderWay) = UnderWay[1] /\ 1 \in 1..Len(UnderWay)
        BY <2>1 DEF Ordered, GoesOn
      <4>3. Renews(UnderWay, v, cut)
        BY <3>5, <4>1, <4>2 DEF Following
      <4>. QED BY <3>3, <4>3, UpToDateNow DEF Covered
    <3>. QED BY <2>3, <3>2, <3>3, <3>4, <3>5 DEF Repaired
  <2>4. Joined' = Joined /\ Joined \subseteq Viewers
    BY <2>2 DEF Joined
  <2>. QED BY <2>3, <2>4 DEF Repaired
<1>. QED BY <1>1, <1>2, <1>3, <1>4, <1>5, <1>6, <1>7 DEF Path

\* Nor does a viewer who comes, leaves or asks.
LEMMA ViewersRepaired ==
  ASSUME OutputAssumption, StreamTyped, Ordered, Repaired, NEW v \in Viewers,
         Join(v) \/ Leave(v) \/ FallBehind(v) \/ SecondPasses(v), Ordered'
  PROVE  Repaired'
<1>1. UNCHANGED <<cut, emGen, pendSnap, pendAll, client, queue, conn, gen, wire, relayUp, cached>>
  BY DEF Join, Leave, FallBehind, SecondPasses, hostVars
<1>2. UnderWay' = UnderWay
  BY <1>1 DEF UnderWay
<1>3. CASE Leave(v) \/ SecondPasses(v)
  <2>1. UNCHANGED <<screen, waiting, asked>>
    BY <1>3 DEF Leave, SecondPasses
  <2>2. \A w \in Viewers : w \in Joined' => w \in Joined
    BY <1>3 DEF Joined, Leave, SecondPasses, StreamTyped, OutputTypeOK
  <2>3. \A w \in Viewers : RepairDue(w) => RepairDue(w)'
    BY <1>1, <2>1 DEF RepairDue
  <2>. QED BY <1>1, <1>2, <2>1, <2>2, <2>3, StillRepaired
<1>4. CASE ~relayUp
  <2>1. conn' # "open"
    BY <1>1, <1>4 DEF StreamTyped, OutputTypeOK
  <2>. QED BY <2>1, ReconnectRepairs
<1>5. CASE conn = "down"
  BY <1>1, <1>5, ReconnectRepairs
<1>6. ASSUME Join(v) \/ FallBehind(v), relayUp, conn # "down" PROVE Repaired'
  <2>1. asked' = Append(asked, v) \/ (asked' = asked /\ waiting'[v] = "refused")
    <3>1. Join(v) => Ask(v)
      BY <1>6 DEF Join
    <3>2. ASSUME FallBehind(v) PROVE Ask(v) \/ (asked' = asked /\ waiting' = [waiting EXCEPT ![v] = "refused"])
      <4>1. \/ waiting' = [waiting EXCEPT ![v] = "refused"] /\ UNCHANGED <<asked, screen, limited>>
            \/ Ask(v)
            \/ ~relayUp
        BY <3>2, Zenon DEF FallBehind
      <4>. QED BY <1>6, <4>1
    <3>3. Ask(v) => asked' = Append(asked, v)
      BY <1>6 DEF Ask
    <3>4. waiting' = [waiting EXCEPT ![v] = "refused"] => waiting'[v] = "refused"
      BY DEF StreamTyped, OutputTypeOK
    <3>5. CASE Ask(v)
      BY <3>3, <3>5
    <3>6. CASE asked' = asked /\ waiting' = [waiting EXCEPT ![v] = "refused"]
      BY <3>4, <3>6
    <3>7. Ask(v) \/ (asked' = asked /\ waiting' = [waiting EXCEPT ![v] = "refused"])
      BY <1>6, <3>1, <3>2
    <3>. QED BY <3>5, <3>6, <3>7
  <2>2. asked \in Seq(Viewers)
    BY DEF StreamTyped, OutputTypeOK
  <2>3. \A w \in Viewers : (\E i \in DOMAIN asked : asked[i] = w) => \E i \in DOMAIN asked' : asked'[i] = w
    <3>1. CASE asked' = asked
      BY <3>1
    <3>2. CASE asked' = Append(asked, v)
      <4>1. DOMAIN asked = 1..Len(asked) /\ DOMAIN asked' = 1..Len(asked) + 1
            /\ \A i \in 1..Len(asked) : asked'[i] = asked[i]
        BY <2>2, <3>2, AppendProperties
      <4>2. Len(asked) \in Nat
        BY <2>2
      <4>. QED BY <4>1, <4>2
    <3>. QED BY <2>1, <3>1, <3>2
  <2>4. asked' = Append(asked, v) => \E i \in DOMAIN asked' : asked'[i] = v
    <3> SUFFICES ASSUME asked' = Append(asked, v) PROVE \E i \in DOMAIN asked' : asked'[i] = v
      OBVIOUS
    <3>1. Len(asked) + 1 \in DOMAIN asked' /\ asked'[Len(asked) + 1] = v
      BY <2>2, AppendProperties
    <3>. QED BY <3>1
  <2>5. RepairDue(v)' \/ waiting'[v] = "refused"
    BY <2>1, <2>4 DEF RepairDue
  <2>6. ASSUME NEW w \in Viewers, w # v, w \in Joined' PROVE RepairDue(w)' \/ waiting'[w] = "refused" \/ UpToDate(w)'
    <3>1. w \in Joined
      BY <1>6, <2>6 DEF Joined, Join, FallBehind, StreamTyped, OutputTypeOK
    <3>2. screen'[w] = screen[w] /\ waiting'[w] = waiting[w]
      BY <1>6, <2>6 DEF Join, FallBehind, StreamTyped, OutputTypeOK
    <3>3. RepairDue(w) => RepairDue(w)'
      BY <1>1, <2>3 DEF RepairDue
    <3>4. UpToDate(w) => UpToDate(w)'
      BY <1>1, <1>2, <3>2, UpToDateNow, UpToDateNext
    <3>. QED BY <3>1, <3>2, <3>3, <3>4 DEF Repaired
  <2>7. Joined' \subseteq Viewers
    BY DEF Joined
  <2>. QED BY <2>5, <2>6, <2>7 DEF Repaired
<1>. QED BY <1>3, <1>4, <1>5, <1>6

-----------------------------------------------------------------------------
OutputInvariant == StreamTyped /\ Ordered /\ Following /\ Repaired

\* The emitter's steps together
LEMMA EmitterAppends ==
  ASSUME OutputAssumption, StreamTyped, Emitter
  PROVE  Appends /\ StreamTyped' /\ EmitterKeeps
BY FlushReconnectStep, FlushStartStep, FlushBroadcastStep, FlushSnapshotsStep, FlushRestStep, ReadRequestStep, AnswerStep,
   DeferStep, CoolStep DEF Emitter

\* Writing, and the frames' path, leave the screens followed by what they lack.
LEMMA PathFollows == ASSUME OutputAssumption, StreamTyped, Ordered, Following, Write \/ Path PROVE Following'
<1>1. CASE Write
  <2>1. UNCHANGED <<conn, gen, emGen, cut, wire, queue>>
    BY <1>1 DEF Write
  <2>. QED BY <2>1, StillFollows DEF UnderWay
<1>2. CASE Transmit
  <2>1. UNCHANGED <<conn, gen, emGen, cut>>
    BY <1>2 DEF Transmit, hostVars
  <2>. QED BY <1>2, <2>1, TransmitStep, StillFollows
<1>3. CASE Drop \/ Dial
  BY <1>3 DEF Drop, Dial, Following
<1>4. CASE Serve
  <2>1. gen' = gen + 1 /\ emGen' = emGen /\ gen \in Nat /\ emGen \in 1..gen
    BY <1>4 DEF Serve, hostVars, StreamTyped, OutputTypeOK, OutputAssumption
  <2>2. emGen' # gen'
    BY <2>1
  <2>. QED BY <2>2 DEF Following
<1>5. CASE HostEnds
  BY <1>5 DEF HostEnds, Following
<1>6. CASE Forward
  BY <1>6, ForwardFollows
<1>. QED BY <1>1, <1>2, <1>3, <1>4, <1>5, <1>6 DEF Path

\* Writing, and the frames' path, keep the order.
LEMMA PathOrdered ==
  ASSUME OutputAssumption, StreamTyped, Ordered, Write \/ Path
  PROVE  StreamTyped' /\ Ordered'
<1>1. CASE Transmit
  BY <1>1, TransmitStep, StillOrdered DEF Transmit, hostVars, viewerVars
<1>2. CASE Dial
  BY <1>2, DialStep, StillOrdered DEF Dial, hostVars, viewerVars
<1>3. CASE Serve
  BY <1>3, ServeStep, StillOrdered DEF Serve, hostVars, viewerVars
<1>4. CASE HostEnds
  BY <1>4, HostEndsStep, StillOrdered DEF HostEnds, hostVars, viewerVars
<1>. QED BY <1>1, <1>2, <1>3, <1>4, WriteStep, DropStep, ForwardStep DEF Path

\* What viewers do keeps the order, and does not touch what is under way.
LEMMA ViewersOrdered ==
  ASSUME OutputAssumption, StreamTyped, Ordered, Following, NEW v \in Viewers,
         Join(v) \/ Leave(v) \/ FallBehind(v) \/ SecondPasses(v)
  PROVE  StreamTyped' /\ Ordered' /\ Following'
<1>1. StreamTyped' /\ Ordered'
  BY JoinStep, LeaveStep, FallBehindStep, SecondPassesStep
<1>2. UNCHANGED <<conn, gen, emGen, cut, wire, queue>>
  BY DEF Join, Leave, FallBehind, SecondPasses, hostVars
<1>3. Following'
  BY <1>2, StillFollows DEF UnderWay
<1>. QED BY <1>1, <1>3

\* A step of any of them keeps the invariant.
LEMMA OutputInductive ==
  ASSUME OutputAssumption, OutputInvariant, [OutputNext]_outputVars PROVE OutputInvariant'
<1>0. StreamTyped /\ Ordered /\ Following /\ Repaired
  BY DEF OutputInvariant
<1>1. CASE Emitter
  <2>1. Appends /\ StreamTyped' /\ EmitterKeeps
    BY <1>0, <1>1, EmitterAppends
  <2>. QED BY <1>0, <2>1, EmitterOrdered, EmitterFollows, EmitterRepaired DEF OutputInvariant
<1>2. CASE Write \/ Path
  BY <1>0, <1>2, PathOrdered, PathFollows, PathRepaired DEF OutputInvariant
<1>3. CASE Viewer
  <2>1. PICK v \in Viewers : Join(v) \/ Leave(v) \/ FallBehind(v) \/ SecondPasses(v)
    BY <1>3 DEF Viewer
  <2>2. StreamTyped' /\ Ordered' /\ Following'
    BY <1>0, <2>1, ViewersOrdered
  <2>. QED BY <1>0, <2>1, <2>2, ViewersRepaired DEF OutputInvariant
<1>4. CASE UNCHANGED outputVars
  <2>1. UNCHANGED <<end, safe, cut, emGen, pendSnap, pendAll, cooling, mutex, client, queue, conn, gen, wire, asked, relayUp,
                    cached, status, screen, waiting, limited, asks>>
    BY <1>4 DEF outputVars, hostVars, viewerVars
  <2>2. OutputTypeOK'
    BY <1>0, <2>1 DEF StreamTyped, OutputTypeOK, Frame
  <2>3. StreamTyped'
    BY <1>0, <2>1, <2>2 DEF StreamTyped
  <2>4. UnderWay' = UnderWay /\ Joined' = Joined
    BY <2>1 DEF UnderWay, Joined
  <2>5. \A v \in Viewers : RepairDue(v) => RepairDue(v)'
    BY <2>1 DEF RepairDue
  <2>6. Ordered' /\ Following' /\ Repaired'
    BY <1>0, <2>1, <2>4, <2>5, StillOrdered, StillFollows, StillRepaired
  <2>. QED BY <2>3, <2>6 DEF OutputInvariant
<1>. QED BY <1>1, <1>2, <1>3, <1>4 DEF OutputNext

\* It holds at the start.
LEMMA OutputStart == ASSUME OutputAssumption, OutputInit PROVE OutputInvariant
<1>1. StreamTyped
  <2>1. screen \in [Viewers -> [pos : 0..end, fit : {"whole", "gap", "twice"}]]
    <3>1. Blank \in [pos : 0..end, fit : {"whole", "gap", "twice"}]
      BY DEF OutputInit, Blank
    <3>. QED BY <3>1 DEF OutputInit
  <2>2. IsFiniteSet(pendSnap) /\ Cardinality(pendSnap) = 0 /\ pendSnap = {}
    BY FS_EmptySet DEF OutputInit
  <2>3. queue = <<>> /\ wire = <<>> /\ asked = <<>> /\ <<>> \in Seq(Frame) /\ <<>> \in Seq(Viewers) /\ Len(<<>>) = 0
    BY EmptySeq DEF OutputInit
  <2>4. OutputTypeOK
    <3>1. /\ end \in 0..MaxUnits /\ cut \in 0..end /\ safe \in BOOLEAN
          /\ gen \in 1..(MaxDrops + 1) /\ emGen \in 1..gen /\ cached \in 0..end
      BY DEF OutputInit, OutputAssumption
    <3>2. pendSnap \subseteq Viewers /\ Cardinality(pendSnap) <= Limit /\ Len(queue) <= Cap
      BY <2>2, <2>3 DEF OutputAssumption
    <3>3. /\ status \in [Viewers -> {"new", "in", "left"}] /\ waiting \in [Viewers -> {"no", "asked", "refused"}]
          /\ limited \in [Viewers -> BOOLEAN] /\ asks \in [Viewers -> 0..MaxAsks]
      BY DEF OutputInit, OutputAssumption
    <3>4. /\ pendAll \in BOOLEAN /\ cooling \in BOOLEAN /\ relayUp \in BOOLEAN /\ (conn # "down" => relayUp)
          /\ client = NoViewer /\ mutex = "free" /\ conn \in {"down", "active", "open"}
      BY DEF OutputInit
    <3>. QED BY <2>1, <2>3, <3>1, <3>2, <3>3, <3>4 DEF OutputTypeOK
  <2>. QED BY <2>2, <2>4 DEF StreamTyped, OutputInit
<1>2. UnderWay = <<>>
  BY ConcatEmptySeq DEF OutputInit, UnderWay
<1>3. <<>> \in Seq(Frame) /\ Len(<<>>) = 0
  BY EmptySeq
<1>4. GoesOn(UnderWay, 0, 0)
  BY <1>2, <1>3 DEF GoesOn, Behind, Beyond, Rising
<1>5. \A v \in Viewers : screen[v].pos = 0 /\ screen[v].fit = "whole"
  BY DEF OutputInit, Blank
<1>6. Ordered
  BY <1>4, <1>5 DEF Ordered, OutputInit
<1>7. Following
  BY <1>2, <1>3 DEF Following
<1>8. Repaired
  BY DEF Repaired, Joined, OutputInit
<1>. QED BY <1>1, <1>6, <1>7, <1>8 DEF OutputInvariant

\* The invariant the next three follow from
THEOREM OutputInvariantHolds == ASSUME OutputAssumption PROVE OutputSpec => []OutputInvariant
<1>1. OutputInit => OutputInvariant
  BY OutputStart
<1>2. OutputInvariant /\ [OutputNext]_outputVars => OutputInvariant'
  BY OutputInductive
<1>. QED BY <1>1, <1>2, PTL DEF OutputSpec

\* Host, queue, socket, relay and viewers keep their types: queue, put-off replies and frames in their bounds.
THEOREM OutputTypeCorrect == ASSUME OutputAssumption PROVE OutputSpec => []OutputTypeOK
<1>1. OutputInvariant => OutputTypeOK
  BY DEF OutputInvariant, StreamTyped
<1>. QED BY <1>1, OutputInvariantHolds, PTL

\* No viewer is ever shown a byte twice, in a screen and in output after it or in output twice: however
\* frames were refused, deferred, lost with a socket, repeated by screens or kept by the relay.
THEOREM NothingTwice == ASSUME OutputAssumption PROVE OutputSpec => []NeverTwice
<1>1. OutputInvariant => NeverTwice
  BY DEF OutputInvariant, Ordered, NeverTwice
<1>. QED BY <1>1, OutputInvariantHolds, PTL

\* A viewer whose request the relay did not ignore will show all up to the cut when what is under way has
\* arrived, or is still owed a screen: no refusal, deferral or broken socket makes the host forget one.
THEOREM NobodyForgotten == ASSUME OutputAssumption PROVE OutputSpec => []Repaired
<1>1. OutputInvariant => Repaired
  BY DEF OutputInvariant
<1>. QED BY <1>1, OutputInvariantHolds, PTL

-----------------------------------------------------------------------------
(* ScreenCache *)

ScreenTyped ==
  /\ size \in [Screens -> 0..MaxChunks] /\ grid \in [Screens -> MaybeGrid]
  /\ drawn \in 0..MaxScreens /\ kept \in 0..drawn
  /\ view \in [size : 0..MaxChunks, grid : MaybeGrid]
  /\ emulator \in GridSizes /\ applying \in {"nobody", "resized", "telling"} /\ understood \in BOOLEAN
  /\ features \in [at : {"idle", "swapped", "read"}, grid : MaybeGrid]
  /\ path \in Seq(Message) /\ announced \in MaybeGrid /\ crossed \subseteq 1..drawn
  /\ meta \in Kept
  /\ chunk \in [Slots -> 0..kept]
  /\ at \in {"idle", "deleting", "recording"}
  /\ hostUp \in BOOLEAN /\ broken \in BOOLEAN
  /\ crashes \in 0..MaxCrashes

\* What is in hand at the host is a screen or a grid, and screens have a size.
InHand ==
  /\ view # NoView => view.size \in Slots /\ view.grid \in GridSizes /\ drawn < MaxScreens
  /\ features.at = "read" => features.grid \in GridSizes
  /\ \A s \in 1..drawn : size[s] \in Slots

\* When it has had the first n messages of u and the grid h before them, the relay goes by g.
Hears(u, h, n, g) ==
  \E k \in 0..n : /\ \/ k = 0 /\ h = g
                     \/ k > 0 /\ u[k].screen = None /\ u[k].grid = g
                  /\ \A j \in k + 1..n : u[j].screen # None

\* Screens come in the order they were drawn, after the one kept; one that has not crossed
\* a change of grid comes in when the relay goes by its grid, and what was announced last
\* is what the relay will go by.
Lane ==
  /\ \A k \in 1..Len(path) : path[k].screen # None => kept < path[k].screen /\ path[k].screen <= drawn
  /\ \A j, k \in 1..Len(path) :
       j < k /\ path[j].screen # None /\ path[k].screen # None => path[j].screen < path[k].screen
  /\ \A k \in 1..Len(path) :
       path[k].screen # None /\ path[k].screen \notin crossed => Hears(path, meta.host, k, grid[path[k].screen])
  /\ announced # None => Hears(path, meta.host, Len(path), announced)

\* Between the writes the chunks of the screen being stored are in place, and the
\* relay still goes by its grid; the first chunk is always of the screen begun last.
Placed ==
  /\ at # "idle" => kept > 0 /\ hostUp
  /\ at # "idle" => \A i \in 1..size[kept] : chunk[i] = kept
  /\ at # "idle" /\ kept \notin crossed => meta.host = grid[kept]
  /\ kept > 0 => chunk[1] = kept
  /\ meta.chunks > 0 => kept > 0

\* No chunk is followed by one of a later screen.
Descending == \A i, j \in Slots : i < j /\ chunk[i] # None => chunk[i] >= chunk[j]

\* Whenever nothing is being written and no write was cut off, what the metadata
\* counts is the screen begun last.
Recorded ==
  at = "idle" /\ ~broken /\ kept > 0 =>
    /\ meta.chunks = size[kept]
    /\ kept \notin crossed => meta.grid = grid[kept]
    /\ \A i \in 1..size[kept] : chunk[i] = kept

\* What is shown was read from storage, which does not change while it is shown.
Replayed ==
  shown # Nothing =>
    /\ ~hostUp
    /\ meta.chunks > 0 /\ meta.chunks \in Slots
    /\ \A i \in 1..meta.chunks : chunk[i] # None
    /\ shown = [parts |-> [i \in 1..meta.chunks |-> chunk[i]], grid |-> meta.grid]

ScreenInvariant == ScreenTyped /\ InHand /\ Lane /\ Placed /\ Descending /\ Recorded /\ Replayed

------------------------------------------------------------------------------
\* A message is a screen or a grid.
LEMMA MessageParts ==
  ASSUME ScreenAssumption, NEW m \in Message
  PROVE  \/ m.screen \in Screens /\ m.screen # None /\ m.grid = None
         \/ m.screen = None /\ m.grid \in GridSizes
BY DEF Message, ScreenMsg, GridMsg, ScreenAssumption, Screens, None

\* What the relay goes by after the first n messages is not changed by a later one.
LEMMA HearsFurther ==
  ASSUME NEW u \in Seq(Message), NEW m \in Message, NEW h, NEW g, NEW n \in 0..Len(u), Hears(u, h, n, g)
  PROVE  Hears(Append(u, m), h, n, g)
<1>1. \A k \in 1..Len(u) : Append(u, m)[k] = u[k]
  OBVIOUS
<1>2. PICK k \in 0..n : /\ (k = 0 /\ h = g) \/ (k > 0 /\ u[k].screen = None /\ u[k].grid = g)
                        /\ \A j \in k + 1..n : u[j].screen # None
  BY DEF Hears
<1>3. \A j \in k + 1..n : Append(u, m)[j] = u[j]
  BY <1>1
<1>4. k > 0 => Append(u, m)[k] = u[k]
  BY <1>1
<1>. QED BY <1>2, <1>3, <1>4 DEF Hears

\* After a grid the relay goes by it.
LEMMA HearsGrid ==
  ASSUME NEW u \in Seq(Message), NEW h, NEW g
  PROVE  Hears(Append(u, GridMsg(g)), h, Len(u) + 1, g)
<1>1. Append(u, GridMsg(g))[Len(u) + 1] = GridMsg(g) /\ Len(u) + 1 \in 0..Len(u) + 1 /\ Len(u) + 1 > 0
  OBVIOUS
<1>. QED BY <1>1 DEF Hears, GridMsg

\* After a screen it goes by what it went by.
LEMMA HearsScreen ==
  ASSUME NEW u \in Seq(Message), NEW h, NEW g, NEW s \in Screens, Hears(u, h, Len(u), g)
  PROVE  Hears(Append(u, ScreenMsg(s)), h, Len(u) + 1, g)
<1>1. PICK k \in 0..Len(u) : /\ (k = 0 /\ h = g) \/ (k > 0 /\ u[k].screen = None /\ u[k].grid = g)
                             /\ \A j \in k + 1..Len(u) : u[j].screen # None
  BY DEF Hears
<1>2. \A j \in 1..Len(u) : Append(u, ScreenMsg(s))[j] = u[j]
  OBVIOUS
<1>3. Append(u, ScreenMsg(s))[Len(u) + 1].screen # None
  BY DEF ScreenMsg, Screens, None
<1>4. \A j \in k + 1..Len(u) + 1 : Append(u, ScreenMsg(s))[j].screen # None
  BY <1>1, <1>2, <1>3
<1>5. k > 0 => Append(u, ScreenMsg(s))[k] = u[k]
  BY <1>2
<1>6. k \in 0..Len(u) + 1
  OBVIOUS
<1>. QED BY <1>1, <1>4, <1>5, <1>6 DEF Hears

\* Handling the first message, a grid, leaves what the relay will go by.
LEMMA HearsAdopted ==
  ASSUME NEW u \in Seq(Message), u # <<>>, Head(u).screen = None, NEW h, NEW g, NEW n \in 1..Len(u),
         Hears(u, h, n, g)
  PROVE  Hears(Tail(u), Head(u).grid, n - 1, g)
<1>1. PICK k \in 0..n : /\ (k = 0 /\ h = g) \/ (k > 0 /\ u[k].screen = None /\ u[k].grid = g)
                        /\ \A j \in k + 1..n : u[j].screen # None
  BY DEF Hears
<1>2. Head(u) = u[1] /\ \A j \in 1..Len(u) - 1 : Tail(u)[j] = u[j + 1]
  OBVIOUS
<1>3. k > 0
  BY <1>1, <1>2
<1>4. /\ k - 1 \in 0..n - 1
      /\ \/ k - 1 = 0 /\ Head(u).grid = g
         \/ k - 1 > 0 /\ Tail(u)[k - 1].screen = None /\ Tail(u)[k - 1].grid = g
  <2>1. CASE k = 1
    BY <1>1, <1>2, <2>1
  <2>2. CASE k > 1
    <3>1. Tail(u)[k - 1] = u[k]
      BY <1>1, <1>2, <2>2
    <3>. QED BY <1>1, <2>2, <3>1
  <2>. QED BY <1>3, <2>1, <2>2
<1>5. \A j \in (k - 1) + 1..n - 1 : Tail(u)[j].screen # None
  <2> TAKE j \in (k - 1) + 1..n - 1
  <2>1. j + 1 \in k + 1..n /\ j \in 1..Len(u) - 1
    BY <1>3
  <2>. QED BY <2>1, <1>1, <1>2
<1>. QED BY <1>4, <1>5 DEF Hears

\* So does handling a screen.
LEMMA HearsPassed ==
  ASSUME NEW u \in Seq(Message), u # <<>>, Head(u).screen # None, NEW h, NEW g, NEW n \in 1..Len(u),
         Hears(u, h, n, g)
  PROVE  Hears(Tail(u), h, n - 1, g)
<1>1. PICK k \in 0..n : /\ (k = 0 /\ h = g) \/ (k > 0 /\ u[k].screen = None /\ u[k].grid = g)
                        /\ \A j \in k + 1..n : u[j].screen # None
  BY DEF Hears
<1>2. Head(u) = u[1] /\ \A j \in 1..Len(u) - 1 : Tail(u)[j] = u[j + 1]
  OBVIOUS
<1>3. k # 1
  BY <1>1, <1>2
<1>4. CASE k = 0
  <2>1. \A j \in 0 + 1..n - 1 : Tail(u)[j].screen # None
    <3> TAKE j \in 0 + 1..n - 1
    <3>1. j + 1 \in k + 1..n /\ j \in 1..Len(u) - 1
      BY <1>4
    <3>. QED BY <3>1, <1>1, <1>2
  <2>2. 0 \in 0..n - 1 /\ h = g
    BY <1>1, <1>4
  <2>. QED BY <2>1, <2>2 DEF Hears
<1>5. CASE k > 1
  <2>1. k - 1 \in 0..n - 1 /\ k - 1 > 0 /\ Tail(u)[k - 1] = u[k]
    BY <1>1, <1>2, <1>5
  <2>2. \A j \in (k - 1) + 1..n - 1 : Tail(u)[j].screen # None
    <3> TAKE j \in (k - 1) + 1..n - 1
    <3>1. j + 1 \in k + 1..n /\ j \in 1..Len(u) - 1
      BY <1>5
    <3>2. Tail(u)[j] = u[j + 1]
      BY <3>1, <1>2
    <3>3. u[j + 1].screen # None
      BY <3>1, <1>1
    <3>. QED BY <3>2, <3>3
  <2>3. Tail(u)[k - 1].screen = None /\ Tail(u)[k - 1].grid = g
    BY <1>1, <1>5, <2>1
  <2>. QED BY <2>1, <2>2, <2>3 DEF Hears
<1>. QED BY <1>3, <1>4, <1>5

------------------------------------------------------------------------------
\* Nothing is kept at the start.
LEMMA ScreenStart == ASSUME ScreenAssumption PROVE ScreenInit => ScreenInvariant
<1> SUFFICES ASSUME ScreenInit PROVE ScreenInvariant
  OBVIOUS
<1> USE ScreenAssumption DEF ScreenAssumption, ScreenInit
<1>1. ScreenTyped
  <2>1. meta \in Kept
    BY DEF Kept, MaybeGrid, None
  <2>2. chunk \in [Slots -> 0..kept]
    BY DEF None
  <2>3. drawn \in 0..MaxScreens /\ kept \in 0..drawn /\ crashes \in 0..MaxCrashes
    OBVIOUS
  <2>4. size \in [Screens -> 0..MaxChunks] /\ grid \in [Screens -> MaybeGrid]
    BY DEF MaybeGrid
  <2>5. view \in [size : 0..MaxChunks, grid : MaybeGrid] /\ features \in [at : {"idle", "swapped", "read"}, grid : MaybeGrid]
    BY DEF NoView, NotTaking, MaybeGrid
  <2>6. path \in Seq(Message) /\ announced \in MaybeGrid /\ crossed \subseteq 1..drawn
    BY DEF MaybeGrid
  <2>7. /\ emulator \in GridSizes /\ applying \in {"nobody", "resized", "telling"} /\ understood \in BOOLEAN
        /\ hostUp \in BOOLEAN /\ broken \in BOOLEAN /\ at \in {"idle", "deleting", "recording"}
    OBVIOUS
  <2>. QED BY <2>1, <2>2, <2>3, <2>4, <2>5, <2>6, <2>7 DEF ScreenTyped
<1>2. InHand /\ Lane
  BY DEF InHand, Lane, NotTaking
<1>3. Placed /\ Descending /\ Recorded
  BY DEF Placed, Descending, Recorded, None, Slots
<1>4. Replayed
  BY DEF Replayed
<1>. QED BY <1>1, <1>2, <1>3, <1>4 DEF ScreenInvariant

\* What the host does under its mutexes touches nothing on the way or in storage.
LEMMA HostStep ==
  ASSUME ScreenAssumption, ScreenInvariant,
         \/ \E g \in GridSizes : ApplyGrid(g)
         \/ LookAnnouncing \/ RelayTakesGrid \/ CurrentGrid \/ (\E n \in Slots : DrawScreen(n)) \/ RefuseScreen
  PROVE  ScreenInvariant'
<1> USE ScreenAssumption DEF ScreenAssumption
<1>0. ScreenTyped /\ InHand /\ Lane /\ Placed /\ Descending /\ Recorded /\ Replayed
  BY DEF ScreenInvariant
<1>1. /\ UNCHANGED <<size, grid, drawn, path, announced, crossed, meta, chunk, at, kept, broken, hostUp, shown, crashes>>
      /\ emulator' \in GridSizes /\ applying' \in {"nobody", "resized", "telling"} /\ understood' \in BOOLEAN
      /\ features' \in {features, [at |-> "swapped", grid |-> None], [at |-> "read", grid |-> emulator]}
      /\ view' \in {view, NoView} \/ (drawn < MaxScreens /\ \E n \in Slots : view' = [size |-> n, grid |-> emulator])
  BY <1>0 DEF ApplyGrid, LookAnnouncing, RelayTakesGrid, CurrentGrid, DrawScreen, RefuseScreen, drawingVars, applyVars,
              laneVars, storeVars, lookVars, ScreenTyped
<1>2. /\ features' \in [at : {"idle", "swapped", "read"}, grid : MaybeGrid]
      /\ features'.at = "read" => features'.grid \in GridSizes
  BY <1>0, <1>1 DEF ScreenTyped, MaybeGrid, InHand
<1>3. /\ view' \in [size : 0..MaxChunks, grid : MaybeGrid]
      /\ view' # NoView => view'.size \in Slots /\ view'.grid \in GridSizes /\ drawn < MaxScreens
  BY <1>0, <1>1 DEF ScreenTyped, MaybeGrid, InHand, NoView, Slots
<1>4. ScreenTyped' /\ InHand'
  BY <1>0, <1>1, <1>2, <1>3 DEF ScreenTyped, InHand
<1>5. Lane'
  BY <1>0, <1>1 DEF Lane
<1>6. Placed' /\ Descending' /\ Recorded' /\ Replayed'
  BY <1>0, <1>1 DEF Placed, Descending, Recorded, Replayed
<1>. QED BY <1>4, <1>5, <1>6 DEF ScreenInvariant

\* An announcement is queued.
LEMMA SendGridStep ==
  ASSUME ScreenAssumption, ScreenInvariant, AnnounceGrid \/ TellGrid PROVE ScreenInvariant'
<1> USE ScreenAssumption DEF ScreenAssumption
<1>0. ScreenTyped /\ InHand /\ Lane /\ Placed /\ Descending /\ Recorded /\ Replayed
  BY DEF ScreenInvariant
<1>1. PICK g \in GridSizes :
        /\ path' = Append(path, GridMsg(g)) /\ announced' = g
        /\ UNCHANGED <<size, grid, drawn, view, crossed, meta, chunk, at, kept, broken, hostUp, shown, crashes, emulator, understood>>
        /\ applying' \in {applying, "nobody"} /\ features' \in {features, NotTaking}
  BY <1>0 DEF AnnounceGrid, TellGrid, SendGrid, drawingVars, storeVars, lookVars, ScreenTyped, InHand
<1>2. path \in Seq(Message) /\ GridMsg(g) \in Message
  BY <1>0 DEF ScreenTyped, Message
<1>3. path' \in Seq(Message) /\ Len(path') = Len(path) + 1 /\ path'[Len(path) + 1] = GridMsg(g)
      /\ \A k \in 1..Len(path) : path'[k] = path[k]
  BY <1>1, <1>2
<1>4. ScreenTyped' /\ InHand'
  BY <1>0, <1>1, <1>3 DEF ScreenTyped, InHand, MaybeGrid, NotTaking
<1>5. Lane'
  <2>1. \A k \in 1..Len(path') : path'[k].screen # None => k \in 1..Len(path) /\ path'[k] = path[k]
    BY <1>2, <1>3 DEF GridMsg
  <2>2. \A k \in 1..Len(path') : path'[k].screen # None /\ path'[k].screen \notin crossed =>
          Hears(path', meta.host, k, grid[path'[k].screen])
    <3> SUFFICES ASSUME NEW k \in 1..Len(path'), path'[k].screen # None, path'[k].screen \notin crossed
                 PROVE  Hears(path', meta.host, k, grid[path'[k].screen])
      OBVIOUS
    <3>1. k \in 1..Len(path) /\ k \in 0..Len(path) /\ path'[k] = path[k]
      BY <2>1, <1>2
    <3>2. Hears(path, meta.host, k, grid[path[k].screen])
      BY <1>0, <3>1 DEF Lane
    <3>. QED BY <1>1, <1>2, <3>1, <3>2, HearsFurther
  <2>3. Hears(path', meta.host, Len(path'), g)
    BY <1>1, <1>2, <1>3, HearsGrid
  <2>. QED BY <1>0, <1>1, <2>1, <2>2, <2>3 DEF Lane
<1>6. Placed' /\ Descending' /\ Recorded' /\ Replayed'
  BY <1>0, <1>1 DEF Placed, Descending, Recorded, Replayed
<1>. QED BY <1>4, <1>5, <1>6 DEF ScreenInvariant

\* A screen is queued; it has crossed nothing if its grid was announced last.
LEMMA QueueScreenStep == ASSUME ScreenAssumption, ScreenInvariant, QueueScreen PROVE ScreenInvariant'
<1> USE ScreenAssumption DEF ScreenAssumption
<1>0. ScreenTyped /\ InHand /\ Lane /\ Placed /\ Descending /\ Recorded /\ Replayed
  BY DEF ScreenInvariant
<1> DEFINE s == drawn + 1
<1>1. /\ view # NoView /\ hostUp /\ drawn' = s /\ view' = NoView
      /\ size' = [size EXCEPT ![s] = view.size] /\ grid' = [grid EXCEPT ![s] = view.grid]
      /\ path' = Append(path, ScreenMsg(s))
      /\ crossed' = IF announced = view.grid THEN crossed ELSE crossed \cup {s}
      /\ UNCHANGED <<announced, meta, chunk, at, kept, broken, hostUp, shown, crashes, emulator, applying, understood, features>>
  BY DEF QueueScreen, applyVars, storeVars, lookVars
<1>2. drawn \in Nat /\ view.size \in Slots /\ view.grid \in GridSizes /\ s \in Screens /\ kept \in 0..drawn
  BY <1>0, <1>1 DEF ScreenTyped, InHand, Screens
<1>3. /\ \A t \in 1..drawn : size'[t] = size[t] /\ grid'[t] = grid[t] /\ t # s
      /\ size'[s] = view.size /\ grid'[s] = view.grid
      /\ size' \in [Screens -> 0..MaxChunks] /\ grid' \in [Screens -> MaybeGrid]
  BY <1>0, <1>1, <1>2 DEF ScreenTyped, Screens, Slots, MaybeGrid
<1>4. path \in Seq(Message) /\ ScreenMsg(s) \in Message /\ ScreenMsg(s).screen = s /\ s # None
  BY <1>0, <1>2 DEF ScreenTyped, Message, ScreenMsg, Screens, None
<1>5. path' \in Seq(Message) /\ Len(path') = Len(path) + 1 /\ path'[Len(path) + 1] = ScreenMsg(s)
      /\ \A k \in 1..Len(path) : path'[k] = path[k]
  BY <1>1, <1>4
<1>6. ScreenTyped' /\ InHand'
  <2>1. chunk' \in [Slots -> 0..kept'] /\ kept' \in 0..drawn' /\ crossed' \subseteq 1..drawn' /\ drawn' \in 0..MaxScreens
    BY <1>0, <1>1, <1>2 DEF ScreenTyped, Screens
  <2>2. view' \in [size : 0..MaxChunks, grid : MaybeGrid]
    BY <1>1 DEF NoView, MaybeGrid
  <2>3. \A t \in 1..drawn' : size'[t] \in Slots
    <3> TAKE t \in 1..drawn'
    <3>1. t = s \/ t \in 1..drawn
      BY <1>1, <1>2
    <3>. QED BY <1>0, <1>2, <1>3, <3>1 DEF InHand
  <2>4. ScreenTyped'
    BY <1>0, <1>1, <1>3, <1>5, <2>1, <2>2 DEF ScreenTyped
  <2>. QED BY <1>0, <1>1, <2>3, <2>4 DEF InHand
<1>7. Lane'
  <2>1. \A k \in 1..Len(path') : path'[k].screen # None =>
          \/ k = Len(path) + 1 /\ path'[k].screen = s
          \/ k \in 1..Len(path) /\ path'[k] = path[k] /\ kept < path[k].screen /\ path[k].screen <= drawn
    BY <1>0, <1>4, <1>5 DEF Lane
  <2>2. \A k \in 1..Len(path) : path[k].screen \in Screens \/ path[k].screen = None
    BY <1>4, MessageParts
  <2>3. \A k \in 1..Len(path') : path'[k].screen # None => kept' < path'[k].screen /\ path'[k].screen <= drawn'
    BY <1>1, <1>2, <2>1, <2>2 DEF Screens
  <2>4. \A j, k \in 1..Len(path') :
          j < k /\ path'[j].screen # None /\ path'[k].screen # None => path'[j].screen < path'[k].screen
    <3> SUFFICES ASSUME NEW j \in 1..Len(path'), NEW k \in 1..Len(path'), j < k,
                        path'[j].screen # None, path'[k].screen # None
                 PROVE  path'[j].screen < path'[k].screen
      OBVIOUS
    <3>1. j \in 1..Len(path) /\ path'[j] = path[j] /\ path[j].screen \in Screens /\ path[j].screen <= drawn
      BY <1>4, <1>5, <2>1, <2>2
    <3>2. CASE k = Len(path) + 1
      BY <1>2, <1>4, <1>5, <3>1, <3>2 DEF Screens
    <3>3. CASE k \in 1..Len(path)
      BY <1>0, <1>5, <3>1, <3>3 DEF Lane
    <3>. QED BY <1>5, <3>2, <3>3
  <2>5. \A k \in 1..Len(path') : path'[k].screen # None /\ path'[k].screen \notin crossed' =>
          Hears(path', meta.host, k, grid'[path'[k].screen])
    <3> SUFFICES ASSUME NEW k \in 1..Len(path'), path'[k].screen # None, path'[k].screen \notin crossed'
                 PROVE  Hears(path', meta.host, k, grid'[path'[k].screen])
      OBVIOUS
    <3>1. CASE k = Len(path) + 1
      <4>1. path'[k].screen = s
        BY <1>4, <1>5, <3>1
      <4>2. announced = view.grid /\ announced # None
        BY <1>1, <1>2, <4>1
      <4>3. Hears(path, meta.host, Len(path), announced)
        BY <1>0, <4>2 DEF Lane
      <4>4. Hears(Append(path, ScreenMsg(s)), meta.host, Len(path) + 1, announced)
        BY <1>2, <1>4, <4>3, HearsScreen
      <4>. QED BY <1>1, <1>3, <3>1, <4>1, <4>2, <4>4
    <3>2. CASE k # Len(path) + 1
      <4>1. k \in 1..Len(path) /\ k \in 0..Len(path) /\ path'[k] = path[k] /\ path[k].screen \in 1..drawn
        BY <1>4, <1>5, <2>1, <2>2, <3>2 DEF Screens
      <4>2. path[k].screen \notin crossed
        BY <1>1, <4>1
      <4>3. Hears(path, meta.host, k, grid[path[k].screen])
        BY <1>0, <4>1, <4>2 DEF Lane
      <4>4. Hears(path', meta.host, k, grid[path[k].screen])
        BY <1>1, <1>4, <4>1, <4>3, HearsFurther
      <4>. QED BY <1>3, <4>1, <4>4
    <3>. QED BY <3>1, <3>2
  <2>6. announced # None => Hears(path', meta.host, Len(path'), announced)
    BY <1>0, <1>1, <1>2, <1>4, <1>5, HearsScreen DEF Lane
  <2>. QED BY <1>1, <2>3, <2>4, <2>5, <2>6 DEF Lane
<1>8. kept > 0 => size'[kept] = size[kept] /\ grid'[kept] = grid[kept] /\ (kept \in crossed' <=> kept \in crossed)
  BY <1>1, <1>2, <1>3
<1>9. Placed' /\ Descending' /\ Recorded' /\ Replayed'
  BY <1>0, <1>1, <1>8 DEF Placed, Descending, Recorded, Replayed
<1>. QED BY <1>6, <1>7, <1>9 DEF ScreenInvariant

\* What a message leaves behind it when it is handled.
LEMMA TailStep ==
  ASSUME ScreenAssumption, ScreenTyped, Lane, path # <<>>
  PROVE  /\ Tail(path) \in Seq(Message) /\ Len(Tail(path)) = Len(path) - 1 /\ Len(path) \in Nat \ {0}
         /\ \A k \in 1..Len(Tail(path)) : k + 1 \in 1..Len(path) /\ Tail(path)[k] = path[k + 1]
         /\ Head(path) = path[1] /\ 1 \in 1..Len(path) /\ Head(path) \in Message
         /\ \A k \in 1..Len(Tail(path)) : Tail(path)[k].screen # None =>
              /\ kept < Tail(path)[k].screen /\ Tail(path)[k].screen <= drawn
              /\ Head(path).screen # None => Head(path).screen < Tail(path)[k].screen
         /\ \A j, k \in 1..Len(Tail(path)) :
              j < k /\ Tail(path)[j].screen # None /\ Tail(path)[k].screen # None =>
                Tail(path)[j].screen < Tail(path)[k].screen
<1>1. path \in Seq(Message)
  BY DEF ScreenTyped
<1>2. /\ Tail(path) \in Seq(Message) /\ Len(Tail(path)) = Len(path) - 1 /\ Len(path) \in Nat \ {0}
      /\ \A k \in 1..Len(Tail(path)) : k + 1 \in 1..Len(path) /\ Tail(path)[k] = path[k + 1]
      /\ Head(path) = path[1] /\ 1 \in 1..Len(path) /\ Head(path) \in Message
  BY <1>1
<1>3. \A k \in 1..Len(Tail(path)) : Tail(path)[k].screen # None =>
        /\ kept < Tail(path)[k].screen /\ Tail(path)[k].screen <= drawn
        /\ Head(path).screen # None => Head(path).screen < Tail(path)[k].screen
  <2> SUFFICES ASSUME NEW k \in 1..Len(Tail(path)), Tail(path)[k].screen # None
               PROVE  /\ kept < Tail(path)[k].screen /\ Tail(path)[k].screen <= drawn
                      /\ Head(path).screen # None => Head(path).screen < Tail(path)[k].screen
    OBVIOUS
  <2>1. k + 1 \in 1..Len(path) /\ Tail(path)[k] = path[k + 1] /\ 1 < k + 1 /\ Head(path) = path[1] /\ 1 \in 1..Len(path)
    BY <1>2
  <2>. QED BY <2>1 DEF Lane
<1>4. \A j, k \in 1..Len(Tail(path)) :
        j < k /\ Tail(path)[j].screen # None /\ Tail(path)[k].screen # None =>
          Tail(path)[j].screen < Tail(path)[k].screen
  <2> SUFFICES ASSUME NEW j \in 1..Len(Tail(path)), NEW k \in 1..Len(Tail(path)), j < k,
                      Tail(path)[j].screen # None, Tail(path)[k].screen # None
               PROVE  Tail(path)[j].screen < Tail(path)[k].screen
    OBVIOUS
  <2>1. /\ j + 1 \in 1..Len(path) /\ Tail(path)[j] = path[j + 1]
        /\ k + 1 \in 1..Len(path) /\ Tail(path)[k] = path[k + 1] /\ j + 1 < k + 1
    BY <1>2
  <2>. QED BY <2>1 DEF Lane
<1>. QED BY <1>2, <1>3, <1>4

\* The relay goes by the grid it has just been told.
LEMMA AdoptStep == ASSUME ScreenAssumption, ScreenInvariant, AdoptGrid PROVE ScreenInvariant'
<1> USE ScreenAssumption DEF ScreenAssumption
<1>0. ScreenTyped /\ InHand /\ Lane /\ Placed /\ Descending /\ Recorded /\ Replayed
  BY DEF ScreenInvariant
<1>1. /\ hostUp /\ at = "idle" /\ path # <<>> /\ path' = Tail(path) /\ Head(path).screen = None
      /\ meta' = [meta EXCEPT !.host = Head(path).grid]
      /\ UNCHANGED <<size, grid, drawn, view, announced, crossed, chunk, at, kept, broken, hostUp, shown, crashes>>
      /\ UNCHANGED applyVars
  BY DEF AdoptGrid, Delivered, drawingVars, lookVars
<1>2. Head(path) \in Message /\ Head(path).grid \in GridSizes /\ path \in Seq(Message)
  BY <1>0, <1>1, TailStep, MessageParts DEF ScreenTyped
<1>3. meta' \in Kept /\ meta'.chunks = meta.chunks /\ meta'.grid = meta.grid /\ meta'.host = Head(path).grid
  BY <1>0, <1>1, <1>2 DEF ScreenTyped, Kept, MaybeGrid
<1>4. ScreenTyped' /\ InHand'
  BY <1>0, <1>1, <1>3, TailStep DEF ScreenTyped, InHand, applyVars
<1>5. Lane'
  <2>1. \A k \in 1..Len(path') : path'[k].screen # None /\ path'[k].screen \notin crossed =>
          Hears(path', meta'.host, k, grid[path'[k].screen])
    <3> SUFFICES ASSUME NEW k \in 1..Len(path'), path'[k].screen # None, path'[k].screen \notin crossed
                 PROVE  Hears(path', meta'.host, k, grid[path'[k].screen])
      OBVIOUS
    <3>1. k + 1 \in 1..Len(path) /\ path'[k] = path[k + 1] /\ k = (k + 1) - 1
      BY <1>0, <1>1, TailStep
    <3>2. Hears(path, meta.host, k + 1, grid[path'[k].screen])
      BY <1>0, <3>1 DEF Lane
    <3>3. Hears(Tail(path), Head(path).grid, (k + 1) - 1, grid[path'[k].screen])
      BY <1>1, <1>2, <3>1, <3>2, HearsAdopted
    <3>. QED BY <1>1, <1>3, <3>1, <3>3
  <2>2. announced # None => Hears(path', meta'.host, Len(path'), announced)
    <3>1. Len(path) \in 1..Len(path) /\ Len(path') = Len(path) - 1
      BY <1>0, <1>1, TailStep
    <3>. QED BY <1>0, <1>1, <1>2, <1>3, <3>1, HearsAdopted DEF Lane
  <2>3. \A k \in 1..Len(path') : path'[k].screen # None => kept < path'[k].screen /\ path'[k].screen <= drawn
    BY <1>0, <1>1, TailStep
  <2>4. \A j, k \in 1..Len(path') :
          j < k /\ path'[j].screen # None /\ path'[k].screen # None => path'[j].screen < path'[k].screen
    BY <1>0, <1>1, TailStep
  <2>. QED BY <1>1, <2>1, <2>2, <2>3, <2>4 DEF Lane
<1>6. Placed' /\ Descending' /\ Recorded' /\ Replayed'
  BY <1>0, <1>1, <1>3 DEF Placed, Descending, Recorded, Replayed
<1>. QED BY <1>4, <1>5, <1>6 DEF ScreenInvariant

\* A screen that comes in leaves what the relay goes by.
LEMMA PassedStep ==
  ASSUME ScreenAssumption, ScreenInvariant, path # <<>>, path' = Tail(path), Head(path).screen # None,
         UNCHANGED <<grid, drawn, announced, crossed, meta>>, kept' \in {kept, Head(path).screen}
  PROVE  Lane'
<1> USE ScreenAssumption DEF ScreenAssumption
<1>0. ScreenTyped /\ Lane
  BY DEF ScreenInvariant
<1>1. path \in Seq(Message)
  BY <1>0 DEF ScreenTyped
<1>2. \A k \in 1..Len(path') : path'[k].screen # None /\ path'[k].screen \notin crossed =>
        Hears(path', meta.host, k, grid[path'[k].screen])
  <2> SUFFICES ASSUME NEW k \in 1..Len(path'), path'[k].screen # None, path'[k].screen \notin crossed
               PROVE  Hears(path', meta.host, k, grid[path'[k].screen])
    OBVIOUS
  <2>1. k + 1 \in 1..Len(path) /\ path'[k] = path[k + 1] /\ k = (k + 1) - 1
    BY <1>0, TailStep
  <2>2. Hears(path, meta.host, k + 1, grid[path'[k].screen])
    BY <1>0, <2>1 DEF Lane
  <2>3. Hears(Tail(path), meta.host, (k + 1) - 1, grid[path'[k].screen])
    BY <1>1, <2>1, <2>2, HearsPassed
  <2>. QED BY <2>1, <2>3
<1>3. announced # None => Hears(path', meta.host, Len(path'), announced)
  <2>1. Len(path) \in 1..Len(path) /\ Len(path') = Len(path) - 1
    BY <1>0, TailStep
  <2>. QED BY <1>0, <1>1, <2>1, HearsPassed DEF Lane
<1>4. \A k \in 1..Len(path') : path'[k].screen # None => kept' < path'[k].screen /\ path'[k].screen <= drawn
  BY <1>0, TailStep
<1>5. \A j, k \in 1..Len(path') :
        j < k /\ path'[j].screen # None /\ path'[k].screen # None => path'[j].screen < path'[k].screen
  BY <1>0, TailStep
<1>. QED BY <1>2, <1>3, <1>4, <1>5 DEF Lane

\* A screen that is not kept is gone.
LEMMA SkipStep == ASSUME ScreenAssumption, ScreenInvariant, Skip PROVE ScreenInvariant'
<1> USE ScreenAssumption DEF ScreenAssumption
<1>0. ScreenTyped /\ InHand /\ Lane /\ Placed /\ Descending /\ Recorded /\ Replayed
  BY DEF ScreenInvariant
<1>1. /\ path # <<>> /\ path' = Tail(path) /\ Head(path).screen # None
      /\ UNCHANGED <<size, grid, drawn, view, announced, crossed, meta, chunk, at, kept, broken, hostUp, shown, crashes>>
      /\ UNCHANGED applyVars
  BY DEF Skip, Delivered, drawingVars, storeVars, lookVars
<1>2. Lane'
  BY <1>1, PassedStep
<1>3. ScreenTyped' /\ InHand'
  BY <1>0, <1>1, TailStep DEF ScreenTyped, InHand, applyVars
<1>4. Placed' /\ Descending' /\ Recorded' /\ Replayed'
  BY <1>0, <1>1 DEF Placed, Descending, Recorded, Replayed
<1>. QED BY <1>2, <1>3, <1>4 DEF ScreenInvariant

\* cacheScreen's first write puts the new screen in front.
LEMMA KeepStep == ASSUME ScreenAssumption, ScreenInvariant, Keep PROVE ScreenInvariant'
<1> USE ScreenAssumption DEF ScreenAssumption
<1>0. ScreenTyped /\ InHand /\ Lane /\ Placed /\ Descending /\ Recorded /\ Replayed
  BY DEF ScreenInvariant
<1> DEFINE s == Head(path).screen
<1>1. /\ at = "idle" /\ hostUp /\ path # <<>> /\ path' = Tail(path) /\ s # None
      /\ kept' = s
      /\ chunk' = [i \in Slots |-> IF i <= size[s] THEN s ELSE chunk[i]]
      /\ at' \in {"deleting", "recording"}
      /\ UNCHANGED <<size, grid, drawn, view, announced, crossed, meta, broken, hostUp, shown, crashes>>
      /\ UNCHANGED applyVars
  BY DEF Keep, Delivered, drawingVars, lookVars
<1>2. Lane'
  BY <1>1, PassedStep
<1>3. s \in Screens /\ kept < s /\ s <= drawn /\ s \in 1..drawn /\ size[s] \in Slots /\ s > 0 /\ drawn \in Nat /\ kept \in Nat
  <2>1. Head(path) = path[1] /\ 1 \in 1..Len(path) /\ Head(path) \in Message
    BY <1>0, <1>1, TailStep
  <2>2. s \in Screens /\ kept < s /\ s <= drawn
    BY <1>0, <1>1, <2>1, MessageParts DEF Lane
  <2>3. s \in 1..drawn /\ drawn \in Nat /\ kept \in Nat
    BY <1>0, <2>2 DEF ScreenTyped, Screens
  <2>. QED BY <1>0, <2>2, <2>3 DEF InHand
<1>4. s \notin crossed => meta.host = grid[s]
  <2> SUFFICES ASSUME s \notin crossed PROVE meta.host = grid[s]
    OBVIOUS
  <2>1. path[1].screen = s /\ 1 \in 1..Len(path)
    BY <1>0, <1>1, TailStep
  <2>2. Hears(path, meta.host, 1, grid[s])
    BY <1>0, <1>1, <2>1 DEF Lane
  <2>. QED BY <1>1, <2>1, <2>2 DEF Hears
<1>5. \A i \in Slots : chunk'[i] \in 0..s
  BY <1>0, <1>1, <1>3 DEF ScreenTyped
<1>6. chunk' \in [Slots -> 0..kept']
  BY <1>1, <1>5
<1>7. ScreenTyped' /\ InHand'
  <2>1. path' \in Seq(Message) /\ kept' \in 0..drawn' /\ at' \in {"idle", "deleting", "recording"}
    BY <1>0, <1>1, <1>3, TailStep
  <2>. QED BY <1>0, <1>1, <1>6, <2>1 DEF ScreenTyped, InHand, applyVars
<1>8. \A i \in 1..size[s] : chunk'[i] = s
  BY <1>1, <1>3 DEF Slots
<1>9. Placed'
  <2>1. chunk'[1] = kept' /\ kept' > 0 /\ hostUp'
    BY <1>1, <1>3, <1>8 DEF Slots
  <2>2. \A i \in 1..size'[kept'] : chunk'[i] = kept'
    BY <1>1, <1>8
  <2>3. kept' \notin crossed' => meta'.host = grid'[kept']
    BY <1>1, <1>4
  <2>. QED BY <2>1, <2>2, <2>3 DEF Placed
<1>10. Descending'
  <2> SUFFICES ASSUME NEW i \in Slots, NEW j \in Slots, i < j, chunk'[i] # None PROVE chunk'[i] >= chunk'[j]
    BY DEF Descending
  <2>1. CASE i <= size[s]
    <3>1. chunk'[i] = s /\ chunk'[j] \in 0..s
      BY <1>1, <1>5, <2>1
    <3>. QED BY <1>3, <3>1
  <2>2. CASE ~(i <= size[s])
    <3>1. ~(j <= size[s])
      BY <1>3, <2>2 DEF Slots
    <3>2. chunk'[i] = chunk[i] /\ chunk'[j] = chunk[j]
      BY <1>1, <2>2, <3>1
    <3>. QED BY <1>0, <3>2 DEF Descending
  <2>. QED BY <2>1, <2>2
<1>11. Recorded' /\ Replayed'
  BY <1>0, <1>1 DEF Recorded, Replayed
<1>. QED BY <1>2, <1>7, <1>9, <1>10, <1>11 DEF ScreenInvariant

\* The surplus of the predecessor goes.
LEMMA DeleteStep == ASSUME ScreenAssumption, ScreenInvariant, DeleteSurplus PROVE ScreenInvariant'
<1> USE ScreenAssumption DEF ScreenAssumption
<1>0. ScreenTyped /\ InHand /\ Lane /\ Placed /\ Descending /\ Recorded /\ Replayed
  BY DEF ScreenInvariant
<1>1. /\ at = "deleting" /\ at' = "recording"
      /\ chunk' = [i \in Slots |-> IF size[kept] < i /\ i <= meta.chunks THEN None ELSE chunk[i]]
      /\ UNCHANGED <<size, grid, drawn, view, path, announced, crossed, meta, kept, broken, hostUp, shown, crashes>>
      /\ UNCHANGED applyVars
  BY DEF DeleteSurplus, drawingVars, laneVars, lookVars
<1>2. kept \in 1..drawn /\ size[kept] \in Slots /\ kept > 0
  <2>1. kept \in 1..drawn /\ kept > 0
    BY <1>0, <1>1 DEF ScreenTyped, Placed
  <2>. QED BY <1>0, <2>1 DEF InHand
<1>3. chunk' \in [Slots -> 0..kept']
  BY <1>0, <1>1 DEF ScreenTyped, None
<1>4. ScreenTyped' /\ InHand'
  BY <1>0, <1>1, <1>3 DEF ScreenTyped, InHand, applyVars
<1>5. \A i \in Slots : chunk'[i] \in {chunk[i], None} /\ (i <= size[kept] => chunk'[i] = chunk[i])
  BY <1>0, <1>1, <1>2 DEF ScreenTyped, Slots, Kept
<1>6. Placed'
  BY <1>0, <1>1, <1>2, <1>5 DEF Placed, Slots
<1>7. Descending'
  BY <1>0, <1>1, <1>5 DEF Descending, ScreenTyped, Slots, None
<1>8. Lane' /\ Recorded' /\ Replayed'
  BY <1>0, <1>1 DEF Lane, Recorded, Replayed, Placed
<1>. QED BY <1>4, <1>6, <1>7, <1>8 DEF ScreenInvariant

\* The metadata follows, and with it what was cut off before is made up for.
LEMMA RecordStep == ASSUME ScreenAssumption, ScreenInvariant, Record PROVE ScreenInvariant'
<1> USE ScreenAssumption DEF ScreenAssumption
<1>0. ScreenTyped /\ InHand /\ Lane /\ Placed /\ Descending /\ Recorded /\ Replayed
  BY DEF ScreenInvariant
<1>1. /\ at = "recording" /\ at' = "idle"
      /\ meta' = [meta EXCEPT !.chunks = size[kept], !.grid = meta.host]
      /\ broken' = FALSE
      /\ UNCHANGED <<size, grid, drawn, view, path, announced, crossed, chunk, kept, hostUp, shown, crashes>>
      /\ UNCHANGED applyVars
  BY DEF Record, drawingVars, laneVars, lookVars
<1>2. kept \in 1..drawn /\ size[kept] \in Slots /\ kept > 0
  <2>1. kept \in 1..drawn /\ kept > 0
    BY <1>0, <1>1 DEF ScreenTyped, Placed
  <2>. QED BY <1>0, <2>1 DEF InHand
<1>3. meta' \in Kept /\ meta'.chunks = size[kept] /\ meta'.grid = meta.host /\ meta'.host = meta.host
  <2>1. meta \in [chunks : 0..MaxChunks, grid : MaybeGrid, host : MaybeGrid] /\ size[kept] \in 0..MaxChunks
    BY <1>0, <1>2 DEF ScreenTyped, Kept, Slots
  <2>. QED BY <1>1, <2>1 DEF Kept
<1>4. ScreenTyped' /\ InHand'
  BY <1>0, <1>1, <1>3 DEF ScreenTyped, InHand, applyVars
<1>5. Lane'
  BY <1>0, <1>1, <1>3 DEF Lane
<1>6. Placed' /\ Descending'
  BY <1>0, <1>1, <1>2, <1>3 DEF Placed, Descending
<1>7. Recorded'
  BY <1>0, <1>1, <1>2, <1>3 DEF Recorded, Placed
<1>8. Replayed'
  BY <1>0, <1>1 DEF Replayed, Placed
<1>. QED BY <1>4, <1>5, <1>6, <1>7, <1>8 DEF ScreenInvariant

\* What is left under way when announcements may be lost counts as having crossed one.
LEMMA LostStep ==
  ASSUME ScreenAssumption, ScreenInvariant, SocketBreaks \/ GridLost, UNCHANGED <<grid, drawn, kept>>
  PROVE  /\ Lane' /\ path' \in Seq(Message) /\ announced' = None
         /\ crossed \subseteq crossed' /\ crossed' \subseteq 1..drawn
<1> USE ScreenAssumption DEF ScreenAssumption
<1>0. ScreenTyped /\ Lane
  BY DEF ScreenInvariant
<1>1. path \in Seq(Message) /\ Len(path) \in Nat
  BY <1>0 DEF ScreenTyped
<1>2. PICK n \in 0..Len(path) : path' = SubSeq(path, n + 1, Len(path))
  <2>1. CASE SocketBreaks
    BY <2>1 DEF SocketBreaks
  <2>2. CASE GridLost
    <3>1. path # <<>> /\ path' = Tail(path)
      BY <2>2 DEF GridLost
    <3>2. Tail(path) = SubSeq(path, 1 + 1, Len(path)) /\ 1 \in 0..Len(path)
      BY <1>1, <3>1
    <3>. QED BY <3>1, <3>2
  <2>. QED BY <2>1, <2>2
<1>3. announced' = None /\ crossed' = crossed \cup ({path'[k].screen : k \in 1..Len(path')} \ {None})
  BY DEF SocketBreaks, GridLost, Astray, LeftBehind
<1>4. /\ path' \in Seq(Message) /\ Len(path') = Len(path) - n
      /\ \A k \in 1..Len(path') : k + n \in 1..Len(path) /\ path'[k] = path[k + n]
  <2>1. /\ SubSeq(path, n + 1, Len(path)) \in Seq(Message)
        /\ Len(SubSeq(path, n + 1, Len(path))) = Len(path) - n
        /\ \A k \in 1..Len(path) - n : SubSeq(path, n + 1, Len(path))[k] = path[n + 1 + k - 1]
    BY <1>1, SubSeqProperties
  <2>2. \A k \in 1..Len(path) - n : k + n \in 1..Len(path) /\ n + 1 + k - 1 = k + n
    BY <1>1
  <2>. QED BY <1>2, <2>1, <2>2
<1>5. \A k \in 1..Len(path') : path'[k].screen # None => kept < path'[k].screen /\ path'[k].screen <= drawn
  BY <1>0, <1>4 DEF Lane
<1>6. \A j, k \in 1..Len(path') :
        j < k /\ path'[j].screen # None /\ path'[k].screen # None => path'[j].screen < path'[k].screen
  <2> SUFFICES ASSUME NEW j \in 1..Len(path'), NEW k \in 1..Len(path'), j < k,
                      path'[j].screen # None, path'[k].screen # None
               PROVE  path'[j].screen < path'[k].screen
    OBVIOUS
  <2>1. j + n \in 1..Len(path) /\ path'[j] = path[j + n] /\ k + n \in 1..Len(path) /\ path'[k] = path[k + n] /\ j + n < k + n
    BY <1>4
  <2>. QED BY <1>0, <2>1 DEF Lane
<1>7. \A k \in 1..Len(path') : path'[k].screen # None => path'[k].screen \in crossed'
  BY <1>3
<1>8. crossed' \subseteq 1..drawn
  <2>1. \A k \in 1..Len(path') : path'[k].screen \in Screens \/ path'[k].screen = None
    BY <1>4, MessageParts
  <2>2. \A k \in 1..Len(path') : path'[k].screen # None => path'[k].screen \in 1..drawn
    BY <1>0, <1>5, <2>1 DEF ScreenTyped, Screens
  <2>3. {path'[k].screen : k \in 1..Len(path')} \ {None} \subseteq 1..drawn
    BY <2>2
  <2>4. crossed \subseteq 1..drawn
    BY <1>0 DEF ScreenTyped
  <2>. QED BY <1>3, <2>3, <2>4
<1>9. Lane'
  BY <1>3, <1>5, <1>6, <1>7 DEF Lane
<1>. QED BY <1>3, <1>4, <1>8, <1>9

\* Reading, coming, going and dying leave storage alone.
LEMMA OtherStep ==
  ASSUME ScreenAssumption, ScreenInvariant, HostLeaves \/ HostReturns \/ Show \/ Crash \/ UNCHANGED cacheVars
  PROVE  ScreenInvariant'
<1> USE ScreenAssumption DEF ScreenAssumption
<1>0. ScreenTyped /\ InHand /\ Lane /\ Placed /\ Descending /\ Recorded /\ Replayed
  BY DEF ScreenInvariant
<1>1. CASE HostLeaves
  <2>1. /\ at = "idle" /\ hostUp /\ hostUp' = FALSE
        /\ UNCHANGED <<size, grid, drawn, view, meta, chunk, at, kept, broken, shown, crashes>>
        /\ UNCHANGED applyVars
    BY <1>1 DEF HostLeaves, drawingVars, storeVars
  <2>2. Lane' /\ path' \in Seq(Message) /\ announced' = None /\ crossed \subseteq crossed' /\ crossed' \subseteq 1..drawn
    BY <1>1, <2>1, LostStep DEF HostLeaves
  <2>3. ScreenTyped' /\ InHand'
    BY <1>0, <2>1, <2>2 DEF ScreenTyped, InHand, applyVars, MaybeGrid
  <2>4. Placed' /\ Descending' /\ Recorded' /\ Replayed'
    BY <1>0, <2>1, <2>2 DEF Placed, Descending, Recorded, Replayed
  <2>. QED BY <2>2, <2>3, <2>4 DEF ScreenInvariant
<1>2. CASE HostReturns
  <2>1. /\ at = "idle" /\ hostUp' = TRUE /\ understood' = FALSE /\ shown' = Nothing
        /\ UNCHANGED <<size, grid, drawn, view, path, announced, crossed, meta, chunk, at, kept, broken, crashes>>
        /\ UNCHANGED <<emulator, applying, features>>
    BY <1>2 DEF HostReturns, drawingVars, laneVars, storeVars
  <2>2. ScreenTyped' /\ InHand' /\ Lane'
    BY <1>0, <2>1 DEF ScreenTyped, InHand, Lane
  <2>3. Placed' /\ Descending' /\ Recorded' /\ Replayed'
    BY <1>0, <2>1 DEF Placed, Descending, Recorded, Replayed
  <2>. QED BY <2>2, <2>3 DEF ScreenInvariant
<1>3. CASE Show
  <2>1. /\ ~hostUp /\ at = "idle"
        /\ UNCHANGED <<size, grid, drawn, view, path, announced, crossed, meta, chunk, at, kept, broken, hostUp, crashes>>
        /\ UNCHANGED applyVars
    BY <1>3 DEF Show, drawingVars, laneVars, storeVars
  <2>2. Replayed'
    <3> SUFFICES ASSUME shown' # Nothing PROVE Replayed'
      BY DEF Replayed, Nothing
    <3>1. Replay # <<>> /\ shown' = [parts |-> Replay, grid |-> meta.grid]
      BY <1>3 DEF Show
    <3>2. (\A i \in 1..meta.chunks : chunk[i] # None) /\ Replay = [i \in 1..meta.chunks |-> chunk[i]]
      BY <3>1 DEF Replay
    <3>3. meta.chunks \in 0..MaxChunks
      BY <1>0 DEF ScreenTyped, Kept
    <3>4. meta.chunks # 0
      <4>1. ASSUME meta.chunks = 0 PROVE [i \in 1..meta.chunks |-> chunk[i]] = <<>>
        BY <4>1
      <4>. QED BY <3>1, <3>2, <4>1
    <3>. QED BY <2>1, <3>1, <3>2, <3>3, <3>4 DEF Replayed, Slots
  <2>3. ScreenTyped' /\ InHand' /\ Lane'
    BY <1>0, <2>1 DEF ScreenTyped, InHand, Lane, applyVars
  <2>. QED BY <1>0, <2>1, <2>2, <2>3 DEF Placed, Descending, Recorded, ScreenInvariant
<1>4. CASE Crash
  <2>1. /\ crashes' \in 0..MaxCrashes /\ broken' = (broken \/ at # "idle") /\ at' = "idle" /\ hostUp' \in BOOLEAN
        /\ shown' = Nothing
        /\ UNCHANGED <<size, grid, drawn, view, meta, chunk, kept>>
        /\ UNCHANGED applyVars
    <3>1. crashes' \in 0..MaxCrashes /\ broken' = (broken \/ at # "idle") /\ at' = "idle" /\ shown' = Nothing
      BY <1>0, <1>4 DEF Crash, ScreenTyped
    <3>2. hostUp' \in BOOLEAN
      BY <1>0, <1>4 DEF Crash, ScreenTyped
    <3>3. UNCHANGED <<size, grid, drawn, view, meta, chunk, kept>> /\ UNCHANGED applyVars
      BY <1>4 DEF Crash, drawingVars
    <3>. QED BY <3>1, <3>2, <3>3
  <2>2. \/ UNCHANGED <<path, announced, crossed>>
        \/ SocketBreaks \/ GridLost
    BY <1>4 DEF Crash, laneVars
  <2>3. /\ Lane' /\ path' \in Seq(Message) /\ announced' \in MaybeGrid
        /\ crossed \subseteq crossed' /\ crossed' \subseteq 1..drawn
    <3>1. CASE UNCHANGED <<path, announced, crossed>>
      BY <1>0, <2>1, <3>1 DEF Lane, ScreenTyped
    <3>2. CASE SocketBreaks \/ GridLost
      BY <2>1, <3>2, LostStep DEF MaybeGrid
    <3>. QED BY <2>2, <3>1, <3>2
  <2>4. ScreenTyped' /\ InHand'
    BY <1>0, <2>1, <2>3 DEF ScreenTyped, InHand, applyVars
  <2>5. Placed' /\ Descending' /\ Recorded' /\ Replayed'
    BY <1>0, <2>1, <2>3 DEF Placed, Descending, Recorded, Replayed
  <2>. QED BY <2>3, <2>4, <2>5 DEF ScreenInvariant
<1>5. CASE UNCHANGED cacheVars
  <2>1. /\ UNCHANGED <<size, grid, drawn, view, path, announced, crossed, meta, chunk, at, kept, broken, hostUp, shown, crashes>>
        /\ UNCHANGED applyVars
    BY <1>5 DEF cacheVars, drawingVars, laneVars, storeVars, lookVars
  <2>2. ScreenTyped' /\ InHand' /\ Lane'
    BY <1>0, <2>1 DEF ScreenTyped, InHand, Lane, applyVars
  <2>. QED BY <1>0, <2>1, <2>2 DEF Placed, Descending, Recorded, Replayed, ScreenInvariant
<1>. QED BY <1>1, <1>2, <1>3, <1>4, <1>5

THEOREM ScreenInvariantHolds == ASSUME ScreenAssumption PROVE ScreenSpec => []ScreenInvariant
<1>1. ScreenInit => ScreenInvariant
  BY ScreenStart
<1>2. ScreenInvariant /\ [ScreenNext]_cacheVars => ScreenInvariant'
  BY HostStep, SendGridStep, QueueScreenStep, AdoptStep, SkipStep, KeepStep, DeleteStep, RecordStep, OtherStep DEF ScreenNext
<1>. QED BY <1>1, <1>2, PTL DEF ScreenSpec

\* A function over the first n numbers is a sequence of length n.
LEMMA PartsAreSequence ==
  ASSUME NEW n \in Nat, NEW S, NEW f \in [1..n -> S] PROVE f \in Seq(S) /\ Len(f) = n
OBVIOUS

\* A replay has as many parts as chunks are counted.
LEMMA ReplayParts ==
  ASSUME ScreenAssumption, ScreenInvariant, shown # Nothing
  PROVE  /\ meta.chunks \in Slots /\ kept \in Screens
         /\ shown.parts \in Seq(0..drawn) /\ Len(shown.parts) = meta.chunks /\ shown.grid = meta.grid
         /\ \A i \in 1..meta.chunks : shown.parts[i] = chunk[i] /\ chunk[i] # None /\ i \in Slots
         /\ shown.parts[1] = kept
<1> USE ScreenAssumption DEF ScreenAssumption
<1>1. ScreenTyped /\ Placed /\ Replayed
  BY DEF ScreenInvariant
<1>2. meta.chunks \in Slots /\ shown.grid = meta.grid /\ shown.parts = [i \in 1..meta.chunks |-> chunk[i]]
  <2>1. meta.chunks \in Slots /\ shown = [parts |-> [i \in 1..meta.chunks |-> chunk[i]], grid |-> meta.grid]
    BY <1>1 DEF Replayed
  <2>. QED BY <2>1
<1>3. \A i \in 1..meta.chunks : i \in Slots /\ chunk[i] \in 0..drawn
  <2>1. MaxChunks \in Nat /\ meta.chunks \in 1..MaxChunks
    BY <1>2 DEF Slots
  <2>2. \A i \in 1..meta.chunks : i \in Slots
    BY <2>1 DEF Slots
  <2>3. \A i \in Slots : chunk[i] \in 0..drawn
    BY <1>1 DEF ScreenTyped
  <2>. QED BY <2>2, <2>3
<1>4. [i \in 1..meta.chunks |-> chunk[i]] \in Seq(0..drawn) /\ Len([i \in 1..meta.chunks |-> chunk[i]]) = meta.chunks
  <2>1. meta.chunks \in Nat
    BY <1>2 DEF Slots
  <2>2. [i \in 1..meta.chunks |-> chunk[i]] \in [1..meta.chunks -> 0..drawn]
    BY <1>3
  <2>. QED BY <2>1, <2>2, PartsAreSequence
<1>5. kept \in Screens /\ chunk[1] = kept
  BY <1>1, <1>2 DEF Placed, ScreenTyped, Screens, Slots, Replayed
<1>6. 1 \in 1..meta.chunks
  BY <1>2 DEF Slots
<1>7. \A i \in 1..meta.chunks : shown.parts[i] = chunk[i] /\ chunk[i] # None /\ i \in Slots
  BY <1>1, <1>2, <1>3 DEF Replayed
<1>8. shown.parts \in Seq(0..drawn) /\ Len(shown.parts) = meta.chunks
  BY <1>2, <1>4
<1>. QED BY <1>2, <1>5, <1>6, <1>7, <1>8

\* Every variable keeps its type: chunks are of screens that were drawn, and what
\* is shown is a sequence of them (cacheScreen, cachedScreen).
THEOREM ScreenTypeCorrect == ASSUME ScreenAssumption PROVE ScreenSpec => []ScreenTypeOK
<1>1. ScreenAssumption /\ ScreenInvariant => ScreenTypeOK
  <2> SUFFICES ASSUME ScreenAssumption, ScreenInvariant PROVE ScreenTypeOK
    OBVIOUS
  <2>1. shown \in [parts : Seq(0..drawn), grid : MaybeGrid]
    <3>1. CASE shown = Nothing
      BY <3>1 DEF Nothing, MaybeGrid
    <3>2. CASE shown # Nothing
      <4>1. shown = [parts |-> shown.parts, grid |-> shown.grid]
        BY <3>2 DEF ScreenInvariant, Replayed
      <4>2. meta.grid \in MaybeGrid
        BY DEF ScreenInvariant, ScreenTyped, Kept
      <4>. QED BY <3>2, <4>1, <4>2, ReplayParts
    <3>. QED BY <3>1, <3>2
  <2>2. chunk \in [Slots -> 0..drawn]
    BY DEF ScreenInvariant, ScreenTyped
  <2>. QED BY <2>1, <2>2 DEF ScreenTypeOK, ScreenInvariant, ScreenTyped
<1>. QED BY <1>1, ScreenInvariantHolds, PTL

\* Unless an instance died between the writes of one screen (and even then once
\* the next screen is kept) a replay is the screen kept last, complete: nothing
\* else cuts or mixes screens.  And it is told at its own grid unless it crossed a
\* change of grid on its way: the relay keeps the grid announced last, and the
\* order of the queue and the input gate see to it that this is the screen's
\* (cacheScreen, cachedScreen, sendCachedScreen, adoptHostGrid).
THEOREM WholeScreens == ASSUME ScreenAssumption PROVE ScreenSpec => []WholeUnlessBroken
<1>1. ScreenAssumption /\ ScreenInvariant => WholeUnlessBroken
  <2> SUFFICES ASSUME ScreenAssumption, ScreenInvariant, ~broken, shown # Nothing
               PROVE  /\ Whole(shown) /\ shown.parts[1] = kept
                      /\ kept \notin crossed => shown.grid = grid[kept]
    BY DEF WholeUnlessBroken
  <2>1. at = "idle" /\ kept > 0
    BY DEF ScreenInvariant, Replayed, Placed, ScreenTyped
  <2>2. /\ meta.chunks = size[kept] /\ \A i \in 1..size[kept] : chunk[i] = kept
        /\ kept \notin crossed => meta.grid = grid[kept]
    BY <2>1 DEF ScreenInvariant, Recorded
  <2>. QED BY <2>2, ReplayParts DEF Whole
<1>. QED BY <1>1, ScreenInvariantHolds, PTL

\* Wherever an instance dies, a replay begins with the screen begun last and no
\* part is followed by one of a later screen (cacheScreen's order of writes).
THEOREM NewestComesFirst == ASSUME ScreenAssumption PROVE ScreenSpec => []NewestFirst
<1>1. ScreenAssumption /\ ScreenInvariant => NewestFirst
  BY ReplayParts DEF NewestFirst, ScreenInvariant, Descending
<1>. QED BY <1>1, ScreenInvariantHolds, PTL

-----------------------------------------------------------------------------
(* TerminalModelSeed *)

\* The output frames behind place k of these, by their number
PrintedAfter(u, k) == {u[j].at : j \in {i \in k + 1..Len(u) : u[i].kind = "output"}}
\* One frame was sent before another: output comes after all that was shown before it.
Before(f, g) == f.at <= g.at /\ (g.kind = "output" => f.at < g.at)
Rises(u) == \A i, j \in 1..Len(u) : i < j => Before(u[i], u[j])
\* Each frame is followed by all the output there was after it, up to frame n.
Complete(u, n) == \A k \in 1..Len(u) : u[k].at <= n /\ PrintedAfter(u, k) = u[k].at + 1..n

\* The frames whose opening the cryptography has been asked for, oldest first
Opening == [i \in 1..Len(crypto) |-> crypto[i].about]

\* Without a host or a model there is nothing of theirs; what is under way is of the host behind the
\* socket, in the order it sent it and without a gap.
Linked ==
  /\ host = Absent => model = Absent /\ frames = <<>> /\ requests = {}
  /\ model = Absent => pending = {} /\ resolves = Absent /\ torn = 0
  /\ \A i \in 1..Len(frames) : frames[i].run = host
  /\ host = run => Rises(frames) /\ Complete(frames, printed)

\* A question for a key belongs to one seed, which awaits it; one that has asked for a snapshot, or is
\* answered one, does not.
Keys ==
  /\ \A i \in 1..Len(crypto) : crypto[i].kind = "unwrap" => seed[crypto[i].about].awaits = "key"
  /\ \A i, j \in 1..Len(crypto) :
       crypto[i].kind = "unwrap" /\ crypto[j].kind = "unwrap" /\ crypto[i].about = crypto[j].about => i = j
  /\ \A s \in requests \cup pending : seed[s].awaits # "key"
  /\ \A i \in 1..Len(frames) :
       frames[i].kind = "snapshot" => frames[i].for \in DOMAIN seed /\ seed[frames[i].for].awaits # "key"

\* The shared promise is that of the one seed which is under way and still its own; while that awaits
\* its key there is no model, and nothing was asked since.
Shared ==
  /\ seeding # Absent => seed[seeding].awaits # "nothing"
  /\ \A s \in DOMAIN seed : seed[s].own /\ seed[s].awaits # "nothing" => seeding = s
  /\ resolves # Absent => seed[resolves].awaits = "snapshot" /\ seed[resolves].own
  /\ seeding # Absent /\ seed[seeding].awaits = "key" =>
       /\ model = Absent
       /\ \A i \in 1..Len(crypto) : crypto[i].kind = "unwrap" /\ crypto[i].about = seeding => i = Len(crypto)

\* The seed under way cannot end but by giving up: the host it was asked of is no longer there to answer,
\* and no answer is under way (so no call is given the blank model).
Doomed ==
  /\ seeding # Absent
  /\ host # run \/ pending \cap requests = {}
  /\ \A i \in 1..Len(crypto) : Opening[i].kind # "snapshot"
  /\ \A i \in 1..Len(frames) : frames[i].kind = "snapshot" => frames[i].for \notin pending

\* What waits to be opened goes on from the screen, or will when the next screen that is not behind the
\* torn frames comes: with what is under way it is all the host has printed.
Followed ==
  /\ host = run
  /\ \A i \in 1..Len(crypto) : Opening[i].run = run /\ Opening[i].at <= printed
  /\ Rises(Opening) /\ \A i \in 1..Len(crypto) : \A j \in 1..Len(frames) : Before(Opening[i], frames[j])
  /\ \A k \in 1..Len(crypto) : Opening[k].at >= torn =>
       PrintedAfter(Opening, k) \cup PrintedAfter(frames, 0) = Opening[k].at + 1..printed
  /\ Ready /\ torn = 0 =>
       /\ model.run = run /\ model.fit = "whole" /\ model.at <= printed
       /\ PrintedAfter(Opening, 0) \cup PrintedAfter(frames, 0) = model.at + 1..printed

Drawn ==
  model # Absent => (\A i \in 1..Len(crypto) : crypto[i].kind = "open") /\ (Doomed \/ Followed)

SeedInvariant == SeedTypeOK /\ Linked /\ (~outOfTurn => Keys /\ Shared /\ Drawn)

\* What a sequence is
LEMMA SeqIs == ASSUME NEW S, NEW u \in Seq(S) PROVE Len(u) \in Nat /\ DOMAIN u = 1..Len(u) /\ \A i \in 1..Len(u) : u[i] \in S
BY LenProperties, ElementOfSeq

\* What a further frame adds to the output behind a place
LEMMA PrintedAppend ==
  ASSUME NEW u \in Seq(Sent), NEW f \in Sent, NEW k \in 0..Len(u)
  PROVE  PrintedAfter(Append(u, f), k) = PrintedAfter(u, k) \cup (IF f.kind = "output" THEN {f.at} ELSE {})
<1> DEFINE w == Append(u, f)
<1>1. Len(u) \in Nat /\ k \in Nat /\ k <= Len(u)
  BY SeqIs
<1>2. Len(w) = Len(u) + 1 /\ w[Len(u) + 1] = f /\ \A i \in 1..Len(u) : w[i] = u[i]
  BY AppendProperties
<1> HIDE DEF w
<1>3. k + 1..Len(w) = (k + 1..Len(u)) \cup {Len(u) + 1}
  BY <1>1, <1>2
<1>4. \A i \in k + 1..Len(u) : w[i] = u[i]
  BY <1>1, <1>2
<1>5. PrintedAfter(w, k) = PrintedAfter(u, k) \cup (IF f.kind = "output" THEN {f.at} ELSE {})
  <2>1. PrintedAfter(w, k) \subseteq PrintedAfter(u, k) \cup (IF f.kind = "output" THEN {f.at} ELSE {})
    BY <1>2, <1>3, <1>4 DEF PrintedAfter
  <2>2. PrintedAfter(u, k) \subseteq PrintedAfter(w, k)
    BY <1>2, <1>3, <1>4 DEF PrintedAfter
  <2>3. f.kind = "output" => f.at \in PrintedAfter(w, k)
    BY <1>2, <1>3 DEF PrintedAfter
  <2>. QED BY <2>1, <2>2, <2>3
<1>. QED BY <1>5 DEF w

\* Behind the last frame there is none.
LEMMA PrintedLast == ASSUME NEW u \in Seq(Sent) PROVE PrintedAfter(u, Len(u)) = {}
<1>1. Len(u) + 1..Len(u) = {}
  BY SeqIs
<1>. QED BY <1>1 DEF PrintedAfter

\* Without the first frame the places move up by one.
LEMMA PrintedTail ==
  ASSUME NEW u \in Seq(Sent), u # <<>>, NEW k \in 0..Len(u) - 1 PROVE PrintedAfter(Tail(u), k) = PrintedAfter(u, k + 1)
<1>1. Len(u) \in Nat /\ Len(Tail(u)) = Len(u) - 1 /\ \A i \in 1..Len(u) - 1 : Tail(u)[i] = u[i + 1]
  BY HeadTailProperties, SeqIs
<1>2. \A j \in k + 1..Len(u) - 1 : j + 1 \in k + 1 + 1..Len(u) /\ Tail(u)[j] = u[j + 1]
  BY <1>1
<1>3. \A j \in k + 1 + 1..Len(u) : j - 1 \in k + 1..Len(u) - 1 /\ Tail(u)[j - 1] = u[j]
  BY <1>1
<1>4. PrintedAfter(Tail(u), k) \subseteq PrintedAfter(u, k + 1)
  BY <1>1, <1>2 DEF PrintedAfter
<1>5. PrintedAfter(u, k + 1) \subseteq PrintedAfter(Tail(u), k)
  BY <1>1, <1>3 DEF PrintedAfter
<1>. QED BY <1>4, <1>5

\* What the first frame adds to the output behind it
LEMMA PrintedFirst ==
  ASSUME NEW u \in Seq(Sent), u # <<>>
  PROVE  PrintedAfter(u, 0) = PrintedAfter(u, 1) \cup (IF u[1].kind = "output" THEN {u[1].at} ELSE {})
<1>1. Len(u) \in Nat /\ Len(u) # 0
  BY EmptySeq, SeqIs
<1>2. 1..Len(u) = {1} \cup (2..Len(u)) /\ 0 + 1 = 1 /\ 1 + 1 = 2
  BY <1>1
<1>3. PrintedAfter(u, 0) = {u[j].at : j \in {i \in 1..Len(u) : u[i].kind = "output"}}
  BY <1>2 DEF PrintedAfter
<1>4. PrintedAfter(u, 1) = {u[j].at : j \in {i \in 2..Len(u) : u[i].kind = "output"}}
  BY <1>2 DEF PrintedAfter
<1>. QED BY <1>2, <1>3, <1>4

\* Frames that are in order and complete up to n are so up to the next that the host sends,
LEMMA OneMore ==
  ASSUME NEW u \in Seq(Sent), NEW f \in Sent, NEW n \in Nat, NEW m \in Nat, Rises(u), Complete(u, n),
         IF f.kind = "output" THEN f.at = n + 1 /\ m = n + 1 ELSE f.at = n /\ m = n
  PROVE  Rises(Append(u, f)) /\ Complete(Append(u, f), m)
<1> DEFINE w == Append(u, f)
<1>0. Len(u) \in Nat /\ \A i \in 1..Len(u) : u[i].at \in Nat /\ u[i].at <= n
  <2>1. \A i \in 1..Len(u) : u[i] \in Sent
    BY SeqIs
  <2>. QED BY <2>1, SeqIs DEF Complete, Sent
<1>1. /\ Len(u) \in Nat /\ Len(w) = Len(u) + 1 /\ w[Len(u) + 1] = f
      /\ \A i \in 1..Len(u) : w[i] = u[i] /\ w[i].at \in Nat /\ u[i].at <= n
  BY <1>0, AppendProperties
<1>2. w \in Seq(Sent) /\ \A k \in 0..Len(u) : PrintedAfter(w, k) = PrintedAfter(u, k) \cup (IF f.kind = "output" THEN {f.at} ELSE {})
  BY AppendProperties, PrintedAppend
<1> HIDE DEF w
<1>3. Rises(w)
  <2> SUFFICES ASSUME NEW i \in 1..Len(w), NEW j \in 1..Len(w), i < j PROVE Before(w[i], w[j])
    BY DEF Rises
  <2>1. i \in 1..Len(u)
    BY <1>1
  <2>2. CASE j = Len(u) + 1
    <3>1. f.at \in Nat /\ n <= f.at /\ (f.kind = "output" => n < f.at)
      BY DEF Sent
    <3>2. w[i].at \in Nat /\ w[i].at <= n /\ w[j] = f
      BY <1>1, <2>1, <2>2
    <3>. QED BY <3>1, <3>2 DEF Before
  <2>3. CASE j # Len(u) + 1
    <3>1. Len(u) \in Nat /\ Len(w) = Len(u) + 1
      BY <1>1
    <3>2. j \in 1..Len(u)
      BY <2>3, <3>1
    <3>3. w[i] = u[i] /\ w[j] = u[j]
      BY <1>1, <2>1, <3>2
    <3>4. Before(u[i], u[j])
      BY <2>1, <3>2 DEF Rises
    <3>. QED BY <3>3, <3>4
  <2>. QED BY <2>2, <2>3
<1>4. Complete(w, m)
  <2> SUFFICES ASSUME NEW k \in 1..Len(w) PROVE w[k].at <= m /\ PrintedAfter(w, k) = w[k].at + 1..m
    BY DEF Complete
  <2>1. CASE k = Len(u) + 1
    <3>1. PrintedAfter(w, k) = {}
      BY <1>1, <1>2, <2>1, PrintedLast
    <3>2. w[k].at = m
      BY <1>1, <2>1
    <3>. QED BY <3>1, <3>2
  <2>2. CASE k # Len(u) + 1
    <3>1. k \in 1..Len(u) /\ k \in 0..Len(u)
      BY <1>1, <2>2
    <3>2. PrintedAfter(w, k) = (w[k].at + 1..n) \cup (IF f.kind = "output" THEN {f.at} ELSE {})
      BY <1>1, <1>2, <3>1 DEF Complete
    <3>3. w[k].at \in Nat /\ w[k].at <= n
      BY <1>1, <3>1
    <3>4. f.at \in Nat
      BY DEF Sent
    <3>5. CASE f.kind = "output"
      <4>1. PrintedAfter(w, k) = (w[k].at + 1..n) \cup {n + 1} /\ m = n + 1
        BY <3>2, <3>5
      <4>. QED BY <3>3, <4>1
    <3>6. CASE f.kind # "output"
      BY <3>2, <3>3, <3>6
    <3>. QED BY <3>5, <3>6
  <2>. QED BY <2>1, <2>2
<1>. QED BY <1>3, <1>4 DEF w

\* and when the first of them has arrived.
LEMMA OneLess ==
  ASSUME NEW u \in Seq(Sent), NEW n \in Nat, u # <<>>
  PROVE  /\ Tail(u) \in Seq(Sent)
         /\ Rises(u) => Rises(Tail(u))
         /\ Complete(u, n) => Complete(Tail(u), n)
<1>1. /\ Len(u) \in Nat /\ Len(Tail(u)) = Len(u) - 1 /\ \A i \in 1..Len(u) - 1 : Tail(u)[i] = u[i + 1]
      /\ Tail(u) \in Seq(Sent)
  BY HeadTailProperties, SeqIs
<1>2. \A i \in 1..Len(u) - 1 : i + 1 \in 1..Len(u) /\ i \in 0..Len(u) - 1
  BY <1>1
<1>3. Rises(u) => Rises(Tail(u))
  <2> SUFFICES ASSUME Rises(u), NEW i \in 1..Len(u) - 1, NEW j \in 1..Len(u) - 1, i < j
               PROVE  Before(Tail(u)[i], Tail(u)[j])
    BY <1>1 DEF Rises
  <2>1. i + 1 \in 1..Len(u) /\ j + 1 \in 1..Len(u) /\ i + 1 < j + 1
    BY <1>2
  <2>. QED BY <1>1, <2>1 DEF Rises
<1>4. Complete(u, n) => Complete(Tail(u), n)
  <2> SUFFICES ASSUME Complete(u, n), NEW k \in 1..Len(u) - 1
               PROVE  Tail(u)[k].at <= n /\ PrintedAfter(Tail(u), k) = Tail(u)[k].at + 1..n
    BY <1>1 DEF Complete
  <2>1. PrintedAfter(Tail(u), k) = PrintedAfter(u, k + 1) /\ Tail(u)[k] = u[k + 1]
    BY <1>1, <1>2, PrintedTail
  <2>. QED BY <1>2, <2>1 DEF Complete
<1>. QED BY <1>1, <1>3, <1>4

\* A seed, and a question when there are n seeds
Seed == [awaits : {"key", "snapshot", "nothing"}, own : BOOLEAN]
Asked(n) == [kind : {"open"}, about : Sent] \cup [kind : {"unwrap"}, about : 1..n]

\* The sequences, element by element
LEMMA TypesAre ==
  ASSUME SeedTypeOK
  PROVE  /\ Len(seed) \in Nat /\ DOMAIN seed = 1..Len(seed) /\ seed \in Seq(Seed)
         /\ Len(crypto) \in Nat /\ DOMAIN crypto = 1..Len(crypto) /\ crypto \in Seq(Asked(Len(seed)))
         /\ Len(frames) \in Nat /\ frames \in Seq(Sent)
         /\ \A i \in 1..Len(frames) : frames[i] \in Sent
         /\ \A i \in 1..Len(crypto) : crypto[i] \in Asked(Len(seed))
<1>1. seed \in Seq(Seed) /\ frames \in Seq(Sent)
  BY DEF SeedTypeOK, Seed
<1>2. DOMAIN seed = 1..Len(seed) /\ Len(seed) \in Nat
  BY <1>1, SeqIs
<1>3. crypto \in Seq(Asked(Len(seed)))
  BY <1>2 DEF SeedTypeOK, Asked
<1>. QED BY <1>1, <1>2, <1>3, SeqIs

\* mcpFreeModel: no seed is its own any more, and none that awaits a key is settled.
LEMMA FreedIs ==
  ASSUME SeedTypeOK, FreeModel
  PROVE  /\ model' = Absent /\ seeding' = Absent /\ pending' = {} /\ resolves' = Absent /\ torn' = 0
         /\ seed' \in Seq(Seed) /\ Len(seed') = Len(seed) /\ DOMAIN seed' = DOMAIN seed
         /\ \A s \in DOMAIN seed : ~seed'[s].own /\ (seed'[s].awaits = "key" <=> seed[s].awaits = "key")
<1>1. Len(seed) \in Nat /\ DOMAIN seed = 1..Len(seed) /\ \A s \in 1..Len(seed) : seed[s].awaits \in {"key", "snapshot", "nothing"}
  <2>1. \A s \in 1..Len(seed) : seed[s] \in Seed
    BY TypesAre, SeqIs
  <2>. QED BY <2>1, TypesAre DEF Seed
<1>2. seed' = [s \in 1..Len(seed) |->
        [awaits |-> IF seed[s].awaits = "snapshot" THEN "nothing" ELSE seed[s].awaits, own |-> FALSE]]
  BY <1>1 DEF FreeModel, GivenUp
<1>3. \A s \in 1..Len(seed) : seed'[s] \in Seed
  BY <1>1, <1>2 DEF Seed
<1>4. seed' \in Seq(Seed) /\ Len(seed') = Len(seed) /\ DOMAIN seed' = 1..Len(seed)
  BY <1>1, <1>2, <1>3
<1>. QED BY <1>1, <1>2, <1>4 DEF FreeModel

\* A question is answered; the oldest, if it is answered in its turn.
LEMMA AnsweredIs ==
  ASSUME SeedTypeOK, NEW i \in DOMAIN crypto, Answered(i)
  PROVE  /\ crypto' \in Seq(Asked(Len(seed)))
         /\ outOfTurn' \in BOOLEAN
         /\ ~outOfTurn' => ~outOfTurn /\ i = 1 /\ crypto # <<>> /\ crypto' = Tail(crypto)
<1>1. crypto \in Seq(Asked(Len(seed))) /\ Len(crypto) \in Nat /\ i \in 1..Len(crypto)
  BY TypesAre
<1>2. crypto' = SubSeq(crypto, 1, i - 1) \o SubSeq(crypto, i + 1, Len(crypto))
  BY DEF Answered, RemoveAt
<1>3. SubSeq(crypto, 1, i - 1) \in Seq(Asked(Len(seed))) /\ SubSeq(crypto, i + 1, Len(crypto)) \in Seq(Asked(Len(seed)))
  BY <1>1, SubSeqProperties
<1>4. crypto' \in Seq(Asked(Len(seed)))
  BY <1>2, <1>3, ConcatProperties
<1>5. outOfTurn' <=> (outOfTurn \/ i # 1)
  BY DEF Answered
<1>6. outOfTurn' \in BOOLEAN
  BY DEF Answered, SeedTypeOK
<1>7. crypto # <<>>
  BY <1>1, EmptySeq
<1>8. i = 1 => crypto' = Tail(crypto)
  <2> SUFFICES ASSUME i = 1 PROVE crypto' = Tail(crypto)
    OBVIOUS
  <2>1. SubSeq(crypto, 1, i - 1) = <<>>
    BY <1>1
  <2>2. SubSeq(crypto, i + 1, Len(crypto)) = Tail(crypto)
    BY <1>1, <1>7
  <2>. QED BY <1>2, <1>3, <2>1, <2>2, ConcatEmptySeq
<1>. QED BY <1>4, <1>5, <1>6, <1>7, <1>8

\* What a seed awaits is written.
LEMMA EndedIs ==
  ASSUME SeedTypeOK, NEW s \in DOMAIN seed, NEW e \in {"key", "snapshot", "nothing"}, seed' = [seed EXCEPT ![s].awaits = e]
  PROVE  /\ seed' \in Seq(Seed) /\ Len(seed') = Len(seed) /\ DOMAIN seed' = DOMAIN seed
         /\ \A r \in DOMAIN seed : (seed'[r].own <=> seed[r].own) /\ seed'[r].awaits = IF r = s THEN e ELSE seed[r].awaits
<1>1. Len(seed) \in Nat /\ DOMAIN seed = 1..Len(seed) /\ \A r \in 1..Len(seed) : seed[r] \in Seed
  BY TypesAre, SeqIs
<1>2. seed' = [r \in 1..Len(seed) |-> IF r = s THEN [seed[s] EXCEPT !.awaits = e] ELSE seed[r]]
  BY <1>1
<1>3. [seed[s] EXCEPT !.awaits = e] \in Seed
  BY <1>1 DEF Seed
<1>4. \A r \in 1..Len(seed) : seed'[r] \in Seed
  BY <1>1, <1>2, <1>3
<1>5. seed' \in Seq(Seed) /\ Len(seed') = Len(seed) /\ DOMAIN seed' = 1..Len(seed)
  <2>1. seed' = [seed EXCEPT ![s] = [seed[s] EXCEPT !.awaits = e]]
    OBVIOUS
  <2>. QED BY <1>1, <1>3, <2>1, TypesAre, ExceptSeq, SeqIs
<1>6. [seed[s] EXCEPT !.awaits = e].awaits = e /\ ([seed[s] EXCEPT !.awaits = e].own <=> seed[s].own)
  BY <1>1, <1>3 DEF Seed
<1>7. \A r \in DOMAIN seed : (seed'[r].own <=> seed[r].own) /\ seed'[r].awaits = IF r = s THEN e ELSE seed[r].awaits
  <2> SUFFICES ASSUME NEW r \in 1..Len(seed)
               PROVE  (seed'[r].own <=> seed[r].own) /\ seed'[r].awaits = IF r = s THEN e ELSE seed[r].awaits
    BY <1>1
  <2>1. CASE r = s
    <3>1. seed'[r] = [seed[s] EXCEPT !.awaits = e]
      BY <1>2, <2>1
    <3>2. seed'[r].own <=> seed[r].own
      BY <1>6, <2>1, <3>1, Zenon
    <3>3. seed'[r].awaits = e
      BY <1>6, <3>1, Zenon
    <3>. QED BY <2>1, <3>2, <3>3
  <2>2. CASE r # s
    <3>1. seed'[r] = seed[r]
      BY <1>2, <2>2
    <3>. QED BY <2>2, <3>1
  <2>. QED BY <2>1, <2>2
<1>. QED BY <1>1, <1>5, <1>7

\* mcpAppendOutput: output that goes on from the screen leaves it whole.
LEMMA AppendedIs ==
  ASSUME model \in Shown, NEW f \in Sent
  PROVE  /\ Appended(f) \in Shown /\ Appended(f).run = model.run /\ Appended(f).at = f.at
         /\ model.fit = "whole" /\ f.run = model.run /\ f.at = model.at + 1 => Appended(f).fit = "whole"
<1> DEFINE g == IF model.fit = "blank" THEN model.fit ELSE IF f.run # model.run THEN "mixed"
                ELSE IF f.at <= model.at THEN "twice" ELSE IF f.at > model.at + 1 THEN "gap" ELSE model.fit
<1>1. model.run \in Nat /\ model.at \in Nat /\ f.at \in Nat
  BY DEF Shown, Sent
<1>2. Appended(f) = [model EXCEPT !.at = f.at, !.fit = g]
  BY DEF Appended
<1>3. g \in {"blank", "whole", "mixed", "twice", "gap"}
  BY DEF Shown
<1>4. model.fit = "whole" /\ f.run = model.run /\ f.at = model.at + 1 => g = "whole"
  BY <1>1
<1> HIDE DEF g
<1>5. \A a \in Nat : LET h == [model EXCEPT !.at = a, !.fit = g]
                     IN  h \in Shown /\ h.run = model.run /\ h.at = a /\ h.fit = g
  BY <1>3 DEF Shown
<1>6. LET h == Appended(f) IN h \in Shown /\ h.run = model.run /\ h.at = f.at /\ h.fit = g
  BY <1>1, <1>2, <1>5
<1>. QED BY <1>4, <1>6

\* The types, from what a step leaves of them
LEMMA SeedTyped ==
  ASSUME SeedTypeOK, run' \in 1..MaxRuns, printed' \in 0..MaxPrinted, torn' \in 0..printed', live' \subseteq Grants,
         host' \in 1..run' \cup {Absent}, frames' \in Seq(Sent), requests' \subseteq DOMAIN seed',
         model' \in Shown \cup {Absent}, seed' \in Seq(Seed), seeding' \in DOMAIN seed' \cup {Absent},
         resolves' \in DOMAIN seed' \cup {Absent}, pending' \subseteq DOMAIN seed',
         crypto' \in Seq(Asked(Len(seed'))), outOfTurn' \in BOOLEAN, seeding' # Absent => seed'[seeding'].own
  PROVE  SeedTypeOK'
<1>1. DOMAIN seed' = 1..Len(seed')
  BY SeqIs
<1>2. crypto' \in Seq([kind : {"open"}, about : Sent] \cup [kind : {"unwrap"}, about : DOMAIN seed'])
  BY <1>1 DEF Asked
<1>. QED BY <1>2 DEF SeedTypeOK, Seed

Frees ==
  /\ FreeModel
  /\ run' \in {run, run + 1} /\ run' \in 1..MaxRuns /\ (IF run' = run THEN printed' = printed ELSE printed' = 0)
  /\ live' \subseteq Grants /\ host' \in {host, Absent}
  /\ frames' \in {frames, <<>>} /\ requests' \in {requests, {}} /\ (host' # host => frames' = <<>> /\ requests' = {})
  /\ (crypto' = crypto /\ outOfTurn' = outOfTurn) \/ \E i \in DOMAIN crypto : Answered(i)

\* They keep the types.
LEMMA FreesTyped == ASSUME SeedAssumption, SeedTypeOK, Frees PROVE SeedTypeOK'
<1>1. /\ model' = Absent /\ seeding' = Absent /\ pending' = {} /\ resolves' = Absent /\ torn' = 0
      /\ seed' \in Seq(Seed) /\ Len(seed') = Len(seed) /\ DOMAIN seed' = DOMAIN seed
  BY FreedIs DEF Frees
<1>2. crypto' \in Seq(Asked(Len(seed'))) /\ outOfTurn' \in BOOLEAN
  <2>1. CASE crypto' = crypto /\ outOfTurn' = outOfTurn
    BY <1>1, <2>1, TypesAre DEF SeedTypeOK
  <2>2. CASE \E i \in DOMAIN crypto : Answered(i)
    BY <1>1, <2>2, AnsweredIs
  <2>. QED BY <2>1, <2>2 DEF Frees
<1>3. printed' \in 0..MaxPrinted /\ 0 \in 0..printed'
  BY DEF Frees, SeedTypeOK, SeedAssumption
<1>5. host' \in 1..run' \cup {Absent}
  <2>1. run \in Nat /\ host \in 1..run \cup {Absent} /\ run' \in {run, run + 1} /\ host' \in {host, Absent}
    BY DEF Frees, SeedTypeOK, SeedAssumption
  <2>. QED BY <2>1
<1>4. frames' \in Seq(Sent) /\ requests' \subseteq DOMAIN seed'
  <2>1. frames' \in {frames, <<>>} /\ requests' \in {requests, {}} /\ requests \subseteq DOMAIN seed
    BY DEF Frees, SeedTypeOK
  <2>. QED BY <1>1, <2>1, TypesAre, EmptySeq
<1>. QED BY <1>1, <1>2, <1>3, <1>4, <1>5, SeedTyped DEF Frees

\* The steps that end the model: it retires,
LEMMA RetireMove == ASSUME SeedTypeOK, Retire PROVE Frees
BY DEF Retire, Frees, SeedTypeOK, sourceVars

\* the last grant is revoked,
LEMMA RevokeMove ==
  ASSUME SeedTypeOK, NEW g \in Grants, Revoke(g)
  PROVE  Frees \/ (live' \subseteq Grants /\ UNCHANGED <<run, sourceVars, relayVars, torn, crypto, outOfTurn>>)
BY DEF Revoke, MaybeFreeModel, Frees, SeedTypeOK, sourceVars

\* all of them are,
LEMMA RevokeAllMove == ASSUME SeedTypeOK, RevokeAll PROVE Frees
BY DEF RevokeAll, Frees, SeedTypeOK, sourceVars

\* another run begins,
LEMMA ResumeMove == ASSUME SeedAssumption, SeedTypeOK, Resume PROVE Frees /\ run' = run + 1
BY DEF Resume, Frees, SeedTypeOK, SeedAssumption

\* the host goes,
LEMMA HostGoesMove == ASSUME SeedTypeOK, HostGoes PROVE Frees
BY DEF HostGoes, Frees, SeedTypeOK

\* or the seed times out.
LEMMA SeedTimesOutMove == ASSUME SeedTypeOK, NEW s \in DOMAIN seed, SeedTimesOut(s) PROVE Frees
BY DEF SeedTimesOut, Frees, SeedTypeOK, sourceVars

\* What an answered key does
KeyDenied(s) ==
  /\ seed' = Ended(s) /\ Settled(s) /\ (live = {} \/ ~seed[s].own)
  /\ UNCHANGED <<run, live, host, printed, frames, model, pending, resolves, requests, torn>>
Allocates(s) ==
  /\ seed[s].own /\ host # Absent
  /\ model' = BlankModel /\ pending' = pending \cup {s} /\ requests' = requests \cup {s} /\ resolves' = s
  /\ seed' = [seed EXCEPT ![s].awaits = "snapshot"]
  /\ UNCHANGED <<run, live, host, printed, frames, seeding, torn>>

\* A key that is there ends the model, ends the seed, or allocates a model.
LEMMA KeyReadyMove ==
  ASSUME SeedTypeOK, NEW i \in DOMAIN crypto, NEW s \in DOMAIN seed, KeyReady(i, s)
  PROVE  /\ Answered(i) /\ crypto[i].kind = "unwrap" /\ crypto[i].about = s
         /\ Frees \/ KeyDenied(s) \/ Allocates(s)
<1>1. Answered(i) /\ crypto[i].kind = "unwrap" /\ crypto[i].about = s
  BY DEF KeyReady
<1>2. UNCHANGED <<run, live, host, printed, frames>>
  BY DEF KeyReady
<1>3. CASE live = {} \/ ~seed[s].own
  BY <1>1, <1>2, <1>3 DEF KeyReady, KeyDenied
<1>4. CASE ~(live = {} \/ ~seed[s].own) /\ host = Absent
  BY <1>1, <1>2, <1>4 DEF KeyReady, Frees, SeedTypeOK
<1>5. CASE ~(live = {} \/ ~seed[s].own) /\ host # Absent
  BY <1>1, <1>2, <1>5 DEF KeyReady, Allocates
<1>. QED BY <1>1, <1>3, <1>4, <1>5

\* and an opened snapshot
SeedShown(f, opens) ==
  /\ resolves = Absent \/ opens
  /\ model' = IF model = Absent \/ ~opens THEN model ELSE Screened(f)
  /\ torn' = IF opens /\ f.at >= torn THEN 0 ELSE torn
  /\ resolves' = Absent
  /\ IF resolves = Absent THEN UNCHANGED <<seed, seeding>> ELSE seed' = Ended(resolves) /\ Settled(resolves)
  /\ UNCHANGED <<run, live, sourceVars, pending>>

\* An opened snapshot ends the model or is shown.
LEMMA SnapshotOpenedMove ==
  ASSUME SeedTypeOK, NEW i \in DOMAIN crypto, NEW opens \in BOOLEAN, SnapshotOpened(i, opens)
  PROVE  /\ Answered(i) /\ crypto[i].kind = "open" /\ crypto[i].about.kind = "snapshot"
         /\ Frees \/ SeedShown(crypto[i].about, opens)
<1>1. Answered(i) /\ crypto[i].kind = "open" /\ crypto[i].about.kind = "snapshot" /\ UNCHANGED <<run, live, sourceVars>>
  BY DEF SnapshotOpened
<1>2. CASE resolves # Absent /\ (~opens \/ live = {})
  BY <1>1, <1>2 DEF SnapshotOpened, Frees, SeedTypeOK, sourceVars
<1>3. CASE ~(resolves # Absent /\ (~opens \/ live = {}))
  BY <1>1, <1>3 DEF SnapshotOpened, SeedShown
<1>. QED BY <1>1, <1>2, <1>3

\* The questions left are those asked before, but for the first d.
Fewer(d) ==
  Len(crypto') = Len(crypto) - d /\ \A i \in 1..Len(crypto') : i + d \in 1..Len(crypto) /\ crypto'[i] = crypto[i + d]

\* Answered in turn, the questions move up by one.
LEMMA FewerIs ==
  ASSUME SeedTypeOK
  PROVE  /\ crypto' = crypto => Fewer(0)
         /\ crypto # <<>> /\ crypto' = Tail(crypto) => Fewer(1)
<1>1. crypto \in Seq(Asked(Len(seed))) /\ Len(crypto) \in Nat
  BY TypesAre
<1>2. crypto' = crypto => Fewer(0)
  BY <1>1 DEF Fewer
<1>3. ASSUME crypto # <<>>, crypto' = Tail(crypto) PROVE Fewer(1)
  BY <1>1, <1>3, HeadTailProperties DEF Fewer
<1>. QED BY <1>2, <1>3

\* Questions for keys stay those of seeds which await them.
LEMMA KeysKept ==
  ASSUME SeedTypeOK, Keys, NEW d \in {0, 1}, Fewer(d), DOMAIN seed' = DOMAIN seed,
         \A i \in 1..Len(crypto') : crypto'[i].kind = "unwrap" => seed'[crypto'[i].about].awaits = "key",
         \A s \in DOMAIN seed : seed'[s].awaits = "key" => seed[s].awaits = "key",
         \A s \in requests' \cup pending' : s \in requests \cup pending \/ seed'[s].awaits # "key",
         \A i \in 1..Len(frames') : frames'[i].kind = "snapshot" =>
           (\E j \in 1..Len(frames) : frames[j] = frames'[i]) \/ frames'[i].for \in requests
  PROVE  Keys'
<1>1. Len(crypto) \in Nat /\ \A i \in 1..Len(crypto') : i \in Nat /\ i + d \in 1..Len(crypto) /\ crypto'[i] = crypto[i + d]
  BY TypesAre DEF Fewer
<1>2. \A i, j \in 1..Len(crypto') :
        crypto'[i].kind = "unwrap" /\ crypto'[j].kind = "unwrap" /\ crypto'[i].about = crypto'[j].about => i = j
  <2> SUFFICES ASSUME NEW i \in 1..Len(crypto'), NEW j \in 1..Len(crypto'),
                      crypto'[i].kind = "unwrap", crypto'[j].kind = "unwrap", crypto'[i].about = crypto'[j].about
               PROVE  i = j
    OBVIOUS
  <2>1. i + d \in 1..Len(crypto) /\ j + d \in 1..Len(crypto)
    BY <1>1
  <2>2. crypto[i + d].kind = "unwrap" /\ crypto[j + d].kind = "unwrap" /\ crypto[i + d].about = crypto[j + d].about
    BY <1>1
  <2>3. i + d = j + d
    BY <2>1, <2>2 DEF Keys
  <2>. QED BY <1>1, <2>3
<1>3. requests \subseteq DOMAIN seed /\ pending \subseteq DOMAIN seed
  BY DEF SeedTypeOK
<1>4. \A s \in requests' \cup pending' : seed'[s].awaits # "key"
  BY <1>3 DEF Keys
<1>5. \A i \in 1..Len(frames') :
        frames'[i].kind = "snapshot" => frames'[i].for \in DOMAIN seed' /\ seed'[frames'[i].for].awaits # "key"
  BY <1>3 DEF Keys
<1>. QED BY <1>2, <1>4, <1>5 DEF Keys

\* So it is when the model ends,
LEMMA FreesKeys == ASSUME SeedTypeOK, Keys, Frees, ~outOfTurn' PROVE Keys'
<1>1. /\ pending' = {} /\ DOMAIN seed' = DOMAIN seed
      /\ \A s \in DOMAIN seed : seed'[s].awaits = "key" <=> seed[s].awaits = "key"
  BY FreedIs DEF Frees
<1>2. PICK d \in {0, 1} : Fewer(d)
  BY FewerIs, AnsweredIs DEF Frees
<1>3. \A i \in 1..Len(crypto') : crypto'[i].kind = "unwrap" => seed'[crypto'[i].about].awaits = "key"
  <2> SUFFICES ASSUME NEW i \in 1..Len(crypto'), crypto'[i].kind = "unwrap" PROVE seed'[crypto'[i].about].awaits = "key"
    OBVIOUS
  <2>1. i + d \in 1..Len(crypto) /\ crypto'[i] = crypto[i + d]
    BY <1>2 DEF Fewer
  <2>2. crypto[i + d].about \in DOMAIN seed /\ seed[crypto[i + d].about].awaits = "key"
    BY <2>1, TypesAre DEF Keys, Asked
  <2>. QED BY <1>1, <2>1, <2>2
<1>4. \A i \in 1..Len(frames') : \E j \in 1..Len(frames) : frames[j] = frames'[i]
  <2>1. Len(<<>>) = 0
    BY EmptySeq
  <2>. QED BY <2>1 DEF Frees
<1>5. requests' \subseteq requests
  BY DEF Frees
<1>. QED BY <1>1, <1>2, <1>3, <1>4, <1>5, KeysKept

\* and there is nothing left that could show another run.
LEMMA FreesRest ==
  ASSUME SeedAssumption, SeedTypeOK, Linked, Frees
  PROVE  Linked' /\ Shared' /\ Drawn'
<1>1. /\ model' = Absent /\ seeding' = Absent /\ pending' = {} /\ resolves' = Absent /\ torn' = 0
      /\ DOMAIN seed' = DOMAIN seed /\ \A s \in DOMAIN seed : ~seed'[s].own
  BY FreedIs DEF Frees
<1>2. Drawn' /\ Shared'
  BY <1>1 DEF Drawn, Shared
<1>3. /\ run \in Nat /\ host \in 1..run \cup {Absent} /\ Absent \notin Nat /\ run' \in {run, run + 1}
      /\ frames' \in {frames, <<>>} /\ requests' \in {requests, {}} /\ host' \in {host, Absent}
      /\ host' # host => frames' = <<>> /\ requests' = {}
      /\ IF run' = run THEN printed' = printed ELSE printed' = 0
  BY DEF Frees, SeedTypeOK, SeedAssumption
<1>4. host' = Absent => frames' = <<>> /\ requests' = {}
  BY <1>3 DEF Linked
<1>5. Len(<<>>) = 0
  BY EmptySeq
<1>6. \A i \in 1..Len(frames') : frames'[i].run = host'
  <2>1. CASE frames' = <<>>
    BY <1>5, <2>1
  <2>2. CASE frames' # <<>>
    BY <1>3, <2>2 DEF Linked
  <2>. QED BY <2>1, <2>2
<1>7. host' = run' => Rises(frames') /\ Complete(frames', printed')
  <2>1. CASE frames' = <<>>
    BY <1>5, <2>1 DEF Rises, Complete
  <2>2. CASE frames' # <<>> /\ host' = run'
    <3>1. frames' = frames /\ host' = host
      BY <1>3, <2>2
    <3>2. host = run /\ run' = run
      BY <1>3, <2>2, <3>1
    <3>. QED BY <1>3, <3>1, <3>2 DEF Linked
  <2>. QED BY <2>1, <2>2
<1>. QED BY <1>1, <1>2, <1>4, <1>6, <1>7 DEF Linked

\* Nothing of it moves.
Still == UNCHANGED <<run, sourceVars, relayVars, torn, crypto, outOfTurn>>

\* Grants come and go without it.
LEMMA StillKeeps ==
  ASSUME SeedTypeOK, SeedInvariant, Still, live' \subseteq Grants
  PROVE  SeedInvariant'
<1>1. UNCHANGED <<run, host, printed, frames, requests, model, seeding, seed, pending, resolves, torn, crypto, outOfTurn>>
  BY DEF Still, sourceVars, relayVars
<1>2. SeedTypeOK'
  BY <1>1 DEF SeedTypeOK
<1>3. Linked'
  BY <1>1 DEF SeedInvariant, Linked
<1>4. ~outOfTurn' => Keys'
  BY <1>1 DEF SeedInvariant, Keys
<1>5. ~outOfTurn' => Shared'
  BY <1>1 DEF SeedInvariant, Shared
<1>6. ~outOfTurn' => Drawn'
  BY <1>1 DEF SeedInvariant, Drawn, Doomed, Followed, Opening, Ready
<1>. QED BY <1>2, <1>3, <1>4, <1>5, <1>6 DEF SeedInvariant

\* What ends the model keeps the invariant.
LEMMA FreesKeeps == ASSUME SeedAssumption, SeedInvariant, Frees PROVE SeedInvariant'
<1>1. ~outOfTurn' => ~outOfTurn
  BY AnsweredIs DEF Frees, SeedInvariant
<1>. QED BY <1>1, FreesTyped, FreesKeys, FreesRest DEF SeedInvariant

\* The host sends a frame.
Sends(f) ==
  /\ host = run /\ frames' = Append(frames, f) /\ f.run = run /\ printed' \in 0..MaxPrinted
  /\ IF f.kind = "output" THEN f.at = printed + 1 /\ printed' = printed + 1 ELSE f.at = printed /\ printed' = printed
  /\ requests' \subseteq requests /\ (f.kind = "snapshot" => f.for \in requests)
  /\ UNCHANGED <<run, live, host, relayVars, crypto, outOfTurn, torn>>

\* The host sends the next output,
LEMMA PrintFrameMove == ASSUME SeedAssumption, SeedTypeOK, PrintFrame PROVE \E f \in Sent : Sends(f)
<1> DEFINE f == [FrameOf("output", Absent) EXCEPT !.at = printed + 1]
<1>1. printed \in Nat /\ printed + 1 \in Nat /\ run \in Nat /\ host = run /\ printed < MaxPrinted /\ MaxPrinted \in Nat
  BY DEF PrintFrame, SeedTypeOK, SeedAssumption
<1>2. f = [kind |-> "output", at |-> printed + 1, for |-> Absent, run |-> host]
  BY DEF FrameOf
<1>3. f \in Sent /\ f.kind = "output" /\ f.at = printed + 1 /\ f.run = run
  BY <1>1, <1>2 DEF Sent
<1>4. Sends(f)
  BY <1>1, <1>3 DEF PrintFrame, Send, Sends
<1>. QED BY <1>3, <1>4

\* the screen it is asked for,
LEMMA AnswerRequestMove == ASSUME SeedAssumption, SeedTypeOK, NEW s \in requests, AnswerRequest(s) PROVE \E f \in Sent : Sends(f)
<1>1. printed \in 0..MaxPrinted /\ printed \in Nat /\ run \in Nat /\ host = run /\ s \in Nat
  BY TypesAre DEF AnswerRequest, SeedTypeOK, SeedAssumption
<1>2. FrameOf("snapshot", s) = [kind |-> "snapshot", at |-> printed, for |-> s, run |-> host]
  BY DEF FrameOf
<1>3. FrameOf("snapshot", s) \in Sent
  BY <1>1, <1>2 DEF Sent
<1>4. Sends(FrameOf("snapshot", s))
  BY <1>1, <1>2 DEF AnswerRequest, Send, Sends
<1>. QED BY <1>3, <1>4

\* or the screen for everybody.
LEMMA BroadcastScreenMove == ASSUME SeedAssumption, SeedTypeOK, BroadcastScreen PROVE \E f \in Sent : Sends(f)
<1>1. printed \in 0..MaxPrinted /\ printed \in Nat /\ run \in Nat /\ host = run
  BY DEF BroadcastScreen, SeedTypeOK, SeedAssumption
<1>2. FrameOf("broadcast", Absent) = [kind |-> "broadcast", at |-> printed, for |-> Absent, run |-> host]
  BY DEF FrameOf
<1>3. FrameOf("broadcast", Absent) \in Sent
  BY <1>1, <1>2 DEF Sent
<1>4. Sends(FrameOf("broadcast", Absent))
  BY <1>1, <1>2 DEF BroadcastScreen, Send, Sends
<1>. QED BY <1>3, <1>4

\* What the host sends goes on from what is under way.
LEMMA SendsKeeps == ASSUME SeedAssumption, SeedInvariant, NEW f \in Sent, Sends(f) PROVE SeedInvariant'
<1>1. /\ host = run /\ frames' = Append(frames, f) /\ f.run = run /\ requests' \subseteq requests
      /\ UNCHANGED <<run, live, host, model, seeding, seed, pending, resolves, crypto, outOfTurn, torn>>
  BY DEF Sends, relayVars
<1>2. /\ frames \in Seq(Sent) /\ frames' \in Seq(Sent) /\ Len(frames) \in Nat /\ Len(frames') = Len(frames) + 1
      /\ \A i \in 1..Len(frames) : frames'[i] = frames[i]
      /\ frames'[Len(frames) + 1] = f
  BY <1>1, TypesAre, AppendProperties DEF SeedInvariant
<1>3. printed \in Nat /\ printed' \in Nat /\ printed' \in 0..MaxPrinted /\ printed <= printed' /\ torn \in 0..printed /\ run \in Nat /\ torn \in Nat
  BY DEF Sends, SeedInvariant, SeedTypeOK, SeedAssumption
<1>4. SeedTypeOK'
  <2>1. torn' \in 0..printed'
    BY <1>1, <1>3
  <2>2. crypto' \in Seq(Asked(Len(seed'))) /\ seed' \in Seq(Seed)
    BY <1>1, TypesAre DEF SeedInvariant
  <2>. QED BY <1>1, <1>2, <1>3, <2>1, <2>2, SeedTyped DEF SeedInvariant, SeedTypeOK
<1>5. Rises(frames') /\ Complete(frames', printed')
  <2>1. Rises(frames) /\ Complete(frames, printed)
    BY <1>1 DEF SeedInvariant, Linked
  <2>. QED BY <1>1, <1>2, <1>3, <2>1, OneMore DEF Sends
<1>6. Linked'
  <2>1. host' # Absent
    BY <1>1, <1>3 DEF SeedAssumption
  <2>2. \A i \in 1..Len(frames') : i \in 1..Len(frames) \/ i = Len(frames) + 1
    BY <1>2
  <2>3. \A i \in 1..Len(frames') : frames'[i].run = host'
    BY <1>1, <1>2, <2>2 DEF SeedInvariant, Linked
  <2>. QED BY <1>1, <1>5, <2>1, <2>3 DEF SeedInvariant, Linked
<1>7. ~outOfTurn' => Keys'
  <2> SUFFICES ASSUME ~outOfTurn' PROVE Keys'
    OBVIOUS
  <2>1. Keys /\ SeedTypeOK
    BY <1>1 DEF SeedInvariant
  <2>2. Fewer(0)
    BY <1>1, <2>1, FewerIs
  <2>3. \A i \in 1..Len(crypto') : crypto'[i].kind = "unwrap" => seed'[crypto'[i].about].awaits = "key"
    BY <1>1, <2>1 DEF Keys
  <2>4. \A i \in 1..Len(frames') : frames'[i].kind = "snapshot" =>
          (\E j \in 1..Len(frames) : frames[j] = frames'[i]) \/ frames'[i].for \in requests
    <3>1. f.kind = "snapshot" => f.for \in requests
      BY DEF Sends
    <3>2. \A i \in 1..Len(frames') : i \in 1..Len(frames) \/ i = Len(frames) + 1
      BY <1>2
    <3>. QED BY <1>2, <3>1, <3>2
  <2>. QED BY <1>1, <2>1, <2>2, <2>3, <2>4, KeysKept
<1>8. ~outOfTurn' => Shared'
  BY <1>1 DEF SeedInvariant, Shared
<1>9. ~outOfTurn' => Drawn'
  <2> SUFFICES ASSUME ~outOfTurn', model' # Absent
               PROVE  (\A i \in 1..Len(crypto') : crypto'[i].kind = "open") /\ (Doomed' \/ Followed')
    BY DEF Drawn
  <2>1. (\A i \in 1..Len(crypto) : crypto[i].kind = "open") /\ (Doomed \/ Followed)
    BY <1>1 DEF SeedInvariant, Drawn
  <2>2. Opening' = Opening
    BY <1>1 DEF Opening
  <2>3. ASSUME Doomed PROVE Doomed'
    <3>1. \A i \in 1..Len(frames') : frames'[i].kind = "snapshot" => frames'[i].for \notin pending
      <4>1. pending \cap requests = {} /\ \A i \in 1..Len(frames) : frames[i].kind = "snapshot" => frames[i].for \notin pending
        BY <1>1, <2>3 DEF Doomed
      <4>2. f.kind = "snapshot" => f.for \notin pending
        BY <4>1 DEF Sends
      <4>3. \A i \in 1..Len(frames') : i \in 1..Len(frames) \/ i = Len(frames) + 1
        BY <1>2
      <4>. QED BY <1>2, <4>1, <4>2, <4>3
    <3>. QED BY <1>1, <2>2, <2>3, <3>1 DEF Doomed
  <2>4. ASSUME Followed PROVE Followed'
    <3>1. PrintedAfter(frames', 0) = PrintedAfter(frames, 0) \cup (IF f.kind = "output" THEN {f.at} ELSE {})
      BY <1>1, <1>2, PrintedAppend
    <3>2. \A i \in 1..Len(crypto) : Opening[i].at <= printed /\ Opening[i].at \in Nat
      BY <2>1, <2>4, TypesAre DEF Followed, Opening, SeedInvariant, Asked, Sent
    <3>3. \A i \in 1..Len(crypto') : \A j \in 1..Len(frames') : Before(Opening'[i], frames'[j])
      <4> SUFFICES ASSUME NEW i \in 1..Len(crypto), NEW j \in 1..Len(frames') PROVE Before(Opening[i], frames'[j])
        BY <1>1, <2>2
      <4>1. CASE j \in 1..Len(frames)
        BY <1>2, <2>4, <4>1 DEF Followed
      <4>2. CASE j \notin 1..Len(frames)
        <5>1. frames'[j] = f
          BY <1>2, <4>2
        <5>2. f.at \in Nat /\ printed <= f.at /\ (f.kind = "output" => printed < f.at)
          BY <1>3 DEF Sends, Sent
        <5>3. Opening[i].at \in Nat /\ Opening[i].at <= printed
          BY <3>2
        <5>. QED BY <1>3, <5>1, <5>2, <5>3 DEF Before
      <4>. QED BY <4>1, <4>2
    <3>4. \A i \in 1..Len(crypto') : Opening'[i].run = run' /\ Opening'[i].at <= printed'
      BY <1>1, <1>3, <2>2, <2>4, <3>2 DEF Followed
    <3>5. ASSUME NEW b \in Nat, b <= printed, NEW P, P \cup PrintedAfter(frames, 0) = b + 1..printed
          PROVE  P \cup PrintedAfter(frames', 0) = b + 1..printed'
      <4>1. CASE f.kind = "output"
        <5>1. PrintedAfter(frames', 0) = PrintedAfter(frames, 0) \cup {printed + 1} /\ printed' = printed + 1
          BY <3>1, <4>1 DEF Sends
        <5>2. P \cup PrintedAfter(frames', 0) = (b + 1..printed) \cup {printed + 1}
          BY <3>5, <5>1
        <5>3. (b + 1..printed) \cup {printed + 1} = b + 1..printed + 1
          BY <1>3, <3>5
        <5>. QED BY <5>1, <5>2, <5>3
      <4>2. CASE f.kind # "output"
        BY <3>1, <3>5, <4>2 DEF Sends
      <4>. QED BY <4>1, <4>2
    <3>6. \A k \in 1..Len(crypto') : Opening'[k].at >= torn' =>
            PrintedAfter(Opening', k) \cup PrintedAfter(frames', 0) = Opening'[k].at + 1..printed'
      BY <1>1, <2>2, <2>4, <3>2, <3>5 DEF Followed
    <3>7. Ready' /\ torn' = 0 =>
            /\ model'.run = run' /\ model'.fit = "whole" /\ model'.at <= printed'
            /\ PrintedAfter(Opening', 0) \cup PrintedAfter(frames', 0) = model'.at + 1..printed'
      <4> SUFFICES ASSUME Ready', torn' = 0
                   PROVE  /\ model'.run = run' /\ model'.fit = "whole" /\ model'.at <= printed'
                          /\ PrintedAfter(Opening', 0) \cup PrintedAfter(frames', 0) = model'.at + 1..printed'
        OBVIOUS
      <4>1. Ready /\ torn = 0
        BY <1>1 DEF Ready
      <4>2. model.at \in Nat
        BY <4>1 DEF Ready, SeedInvariant, SeedTypeOK, Shown
      <4>. QED BY <1>1, <1>3, <2>2, <2>4, <3>5, <4>1, <4>2 DEF Followed
    <3>. QED BY <1>1, <2>2, <2>4, <3>3, <3>4, <3>6, <3>7 DEF Followed
  <2>. QED BY <1>1, <2>1, <2>3, <2>4
<1>. QED BY <1>4, <1>6, <1>7, <1>8, <1>9 DEF SeedInvariant

\* When all questions are frames to open
LEMMA OpeningIs ==
  ASSUME SeedTypeOK, \A i \in 1..Len(crypto) : crypto[i].kind = "open"
  PROVE  /\ Opening \in Seq(Sent) /\ Len(Opening) = Len(crypto)
         /\ \A i \in 1..Len(crypto) : Opening[i] = crypto[i].about /\ Opening[i] \in Sent /\ Opening[i].at \in Nat
<1>1. Len(crypto) \in Nat /\ \A i \in 1..Len(crypto) : crypto[i].about \in Sent
  BY TypesAre DEF Asked
<1>2. Opening \in Seq(Sent) /\ Len(Opening) = Len(crypto) /\ \A i \in 1..Len(crypto) : Opening[i] = crypto[i].about
  BY <1>1 DEF Opening
<1>. QED BY <1>1, <1>2 DEF Sent

\* A host that returns finds no model.
LEMMA HostComesKeeps == ASSUME SeedAssumption, SeedInvariant, HostComes PROVE SeedInvariant'
<1>1. /\ host = Absent /\ host' = run /\ frames = <<>> /\ model = Absent /\ requests = {}
      /\ UNCHANGED <<run, live, printed, frames, requests, model, seeding, seed, pending, resolves, crypto, outOfTurn, torn>>
  BY DEF HostComes, relayVars, SeedInvariant, Linked
<1>2. run \in 1..MaxRuns /\ run \in Nat /\ run # Absent
  BY DEF SeedInvariant, SeedTypeOK, SeedAssumption
<1>3. SeedTypeOK'
  BY <1>1, <1>2 DEF SeedInvariant, SeedTypeOK
<1>4. Len(<<>>) = 0
  BY EmptySeq
<1>5. Linked'
  BY <1>1, <1>2, <1>4 DEF SeedInvariant, Linked, Rises, Complete
<1>6. ~outOfTurn' => Keys' /\ Shared' /\ Drawn'
  BY <1>1 DEF SeedInvariant, Keys, Shared, Drawn
<1>. QED BY <1>3, <1>5, <1>6 DEF SeedInvariant

\* A socket that replaces another takes its frames along: the screen has a tear at all the host printed.
LEMMA ReplacedKeeps == ASSUME SeedAssumption, SeedInvariant, Replaced PROVE SeedInvariant'
<1>1. /\ host # Absent /\ host' = run /\ frames' = <<>> /\ requests' = {}
      /\ torn' = IF model # Absent /\ frames # <<>> THEN printed ELSE torn
      /\ UNCHANGED <<run, live, printed, model, seeding, seed, pending, resolves, crypto, outOfTurn>>
  BY DEF Replaced, relayVars
<1>2. run \in 1..MaxRuns /\ run \in Nat /\ run # Absent /\ printed \in Nat /\ torn \in 0..printed
  BY DEF SeedInvariant, SeedTypeOK, SeedAssumption
<1>3. <<>> \in Seq(Sent) /\ Len(<<>>) = 0
  BY EmptySeq
<1>4. SeedTypeOK'
  <2>1. torn' \in 0..printed'
    BY <1>1, <1>2
  <2>. QED BY <1>1, <1>2, <1>3, <2>1 DEF SeedInvariant, SeedTypeOK
<1>5. Linked'
  BY <1>1, <1>2, <1>3 DEF SeedInvariant, Linked, Rises, Complete
<1>6. ~outOfTurn' => Keys' /\ Shared'
  BY <1>1, <1>3 DEF SeedInvariant, Keys, Shared
<1>7. ~outOfTurn' => Drawn'
  <2> SUFFICES ASSUME ~outOfTurn', model' # Absent
               PROVE  (\A i \in 1..Len(crypto') : crypto'[i].kind = "open") /\ (Doomed' \/ Followed')
    BY DEF Drawn
  <2>1. (\A i \in 1..Len(crypto) : crypto[i].kind = "open") /\ (Doomed \/ Followed)
    BY <1>1 DEF SeedInvariant, Drawn
  <2>2. Opening' = Opening
    BY <1>1 DEF Opening
  <2>3. ASSUME Doomed PROVE Doomed'
    BY <1>1, <1>3, <2>2, <2>3 DEF Doomed
  <2>4. ASSUME Followed PROVE Followed'
    <3>1. PrintedAfter(frames', 0) = {}
      <4>1. 0 + 1..Len(frames') = {}
        BY <1>1, <1>3
      <4>. QED BY <4>1 DEF PrintedAfter
    <3>2. \A i \in 1..Len(crypto) : Opening[i].at \in Nat /\ Opening[i].at <= printed /\ Opening[i].run = run
      BY <2>1, <2>4, OpeningIs DEF Followed, SeedInvariant
    <3>3. ASSUME NEW k \in 1..Len(crypto), Opening[k].at >= torn'
          PROVE  PrintedAfter(Opening, k) = Opening[k].at + 1..printed
      <4>1. CASE frames = <<>>
        <5>1. torn' = torn /\ PrintedAfter(frames, 0) = {}
          BY <1>1, <3>1, <4>1
        <5>. QED BY <2>4, <3>3, <5>1 DEF Followed
      <4>2. CASE frames # <<>>
        <5>1. Opening[k].at = printed
          BY <1>1, <1>2, <3>2, <3>3, <4>2
        <5>2. ASSUME NEW j \in k + 1..Len(Opening), Opening[j].kind = "output" PROVE FALSE
          <6>1. j \in 1..Len(crypto) /\ k < j
            BY <2>1, OpeningIs, TypesAre DEF SeedInvariant
          <6>2. Before(Opening[k], Opening[j])
            <7>1. Rises(Opening) /\ Len(Opening) = Len(crypto)
              BY <2>1, <2>4, OpeningIs DEF Followed, SeedInvariant
            <7>. QED BY <6>1, <7>1 DEF Rises
          <6>3. Opening[k].at < Opening[j].at
            BY <5>2, <6>2 DEF Before
          <6>. QED BY <1>2, <3>2, <5>1, <6>1, <6>3
        <5>3. PrintedAfter(Opening, k) = {}
          BY <5>2 DEF PrintedAfter
        <5>. QED BY <1>2, <5>1, <5>3
      <4>. QED BY <4>1, <4>2
    <3>4. ASSUME Ready, torn' = 0
          PROVE  /\ model.run = run /\ model.fit = "whole" /\ model.at <= printed
                 /\ PrintedAfter(Opening, 0) = model.at + 1..printed
      <4>1. torn = 0
        BY <1>1, <1>2, <3>4
      <4>2. /\ model.run = run /\ model.fit = "whole" /\ model.at <= printed /\ model.at \in Nat
            /\ PrintedAfter(Opening, 0) \cup PrintedAfter(frames, 0) = model.at + 1..printed
        BY <2>4, <3>4, <4>1 DEF Followed, Ready, SeedInvariant, SeedTypeOK, Shown
      <4>3. CASE frames = <<>>
        BY <1>1, <3>1, <4>2, <4>3
      <4>4. CASE frames # <<>>
        <5>1. model.at + 1..printed = {}
          BY <1>1, <1>2, <3>4, <4>2, <4>4 DEF Ready
        <5>. QED BY <4>2, <5>1
      <4>. QED BY <4>2, <4>3, <4>4
    <3>5. \A k \in 1..Len(crypto) : Opening[k].at >= torn' =>
            PrintedAfter(Opening, k) \cup PrintedAfter(frames', 0) = Opening[k].at + 1..printed
      BY <3>1, <3>3
    <3>6. Ready' /\ torn' = 0 =>
            /\ model'.run = run' /\ model'.fit = "whole" /\ model'.at <= printed'
            /\ PrintedAfter(Opening', 0) \cup PrintedAfter(frames', 0) = model'.at + 1..printed'
      BY <1>1, <2>2, <3>1, <3>4 DEF Ready
    <3>7. \A i \in 1..Len(crypto') : \A j \in 1..Len(frames') : Before(Opening'[i], frames'[j])
      BY <1>1, <1>3
    <3>8. Rises(Opening)
      BY <2>4 DEF Followed
    <3>. QED BY <1>1, <2>2, <3>2, <3>5, <3>6, <3>7, <3>8 DEF Followed
  <2>. QED BY <1>1, <2>1, <2>3, <2>4
<1>. QED BY <1>4, <1>5, <1>6, <1>7 DEF SeedInvariant

\* A call starts a seed: it asks for its key after everything else.
LEMMA EnsureKeeps == ASSUME SeedAssumption, SeedInvariant, EnsureModelSeeded PROVE SeedInvariant'
<1> DEFINE s == Len(seed) + 1
           q == Question("unwrap", s)
           n == [awaits |-> "key", own |-> TRUE]
<1>1. /\ seeding = Absent /\ model = Absent /\ seeding' = s /\ seed' = Append(seed, n) /\ crypto' = Append(crypto, q)
      /\ UNCHANGED <<run, live, host, printed, frames, requests, model, pending, resolves, outOfTurn, torn>>
  BY DEF EnsureModelSeeded, sourceVars
<1>2. q = [kind |-> "unwrap", about |-> s] /\ q.kind = "unwrap" /\ q.about = s
  BY DEF Question
<1>3. /\ SeedTypeOK /\ seed \in Seq(Seed) /\ crypto \in Seq(Asked(Len(seed))) /\ Len(seed) \in Nat /\ Len(crypto) \in Nat
      /\ DOMAIN seed = 1..Len(seed)
  BY TypesAre DEF SeedInvariant
<1>4. n \in Seed /\ n.awaits = "key" /\ n.own
  BY DEF Seed
<1>5. /\ seed' \in Seq(Seed) /\ Len(seed') = Len(seed) + 1 /\ seed'[s] = n /\ \A r \in 1..Len(seed) : seed'[r] = seed[r]
  BY <1>1, <1>3, <1>4, AppendProperties
<1>6. DOMAIN seed' = 1..Len(seed') /\ DOMAIN seed' = DOMAIN seed \cup {s}
  BY <1>3, <1>5, SeqIs
<1>7. q \in Asked(Len(seed')) /\ crypto \in Seq(Asked(Len(seed')))
  <2>1. Asked(Len(seed)) \subseteq Asked(Len(seed')) /\ q \in Asked(Len(seed'))
    BY <1>2, <1>3, <1>5 DEF Asked
  <2>. QED BY <1>3, <2>1, SeqMonotonic
<1> HIDE DEF q, n
<1>8. /\ crypto' \in Seq(Asked(Len(seed'))) /\ Len(crypto') = Len(crypto) + 1 /\ crypto'[Len(crypto) + 1] = q
      /\ \A i \in 1..Len(crypto) : crypto'[i] = crypto[i] /\ crypto[i] \in Asked(Len(seed))
  BY <1>1, <1>3, <1>7, AppendProperties, TypesAre
<1>9. SeedTypeOK'
  BY <1>1, <1>4, <1>5, <1>6, <1>8, SeedTyped DEF SeedInvariant, SeedTypeOK
<1>10. Linked'
  BY <1>1 DEF SeedInvariant, Linked
<1>11. \A i \in 1..Len(crypto') : i \in 1..Len(crypto) \/ i = Len(crypto) + 1
  BY <1>3, <1>8
<1>12. \A i \in 1..Len(crypto) : crypto[i].kind = "unwrap" => crypto[i].about \in 1..Len(seed) /\ crypto[i].about # s
  BY <1>3, <1>8 DEF Asked
<1>13. ~outOfTurn' => Keys'
  <2> SUFFICES ASSUME ~outOfTurn' PROVE Keys'
    OBVIOUS
  <2>1. Keys
    BY <1>1 DEF SeedInvariant
  <2>2. \A i \in 1..Len(crypto') : crypto'[i].kind = "unwrap" => seed'[crypto'[i].about].awaits = "key"
    BY <1>2, <1>4, <1>5, <1>8, <1>11, <1>12, <2>1 DEF Keys
  <2>3. \A i, j \in 1..Len(crypto') :
          crypto'[i].kind = "unwrap" /\ crypto'[j].kind = "unwrap" /\ crypto'[i].about = crypto'[j].about => i = j
    BY <1>2, <1>8, <1>11, <1>12, <2>1, SMTT(30) DEF Keys
  <2>4. requests \subseteq 1..Len(seed) /\ pending \subseteq 1..Len(seed)
    BY <1>3 DEF SeedTypeOK
  <2>5. \A r \in requests' \cup pending' : seed'[r].awaits # "key"
    BY <1>1, <1>5, <2>1, <2>4 DEF Keys
  <2>6. \A i \in 1..Len(frames') :
          frames'[i].kind = "snapshot" => frames'[i].for \in DOMAIN seed' /\ seed'[frames'[i].for].awaits # "key"
    BY <1>1, <1>3, <1>5, <1>6, <2>1 DEF Keys
  <2>. QED BY <2>2, <2>3, <2>5, <2>6 DEF Keys
<1>14. ~outOfTurn' => Shared'
  <2> SUFFICES ASSUME ~outOfTurn' PROVE Shared'
    OBVIOUS
  <2>1. Shared
    BY <1>1 DEF SeedInvariant
  <2>2. seeding' # Absent => seed'[seeding'].awaits # "nothing"
    BY <1>1, <1>4, <1>5
  <2>3. \A r \in DOMAIN seed' : seed'[r].own /\ seed'[r].awaits # "nothing" => seeding' = r
    <3> SUFFICES ASSUME NEW r \in DOMAIN seed', seed'[r].own, seed'[r].awaits # "nothing", r # s PROVE FALSE
      BY <1>1
    <3>1. r \in 1..Len(seed)
      BY <1>3, <1>6
    <3>2. seeding = r
      BY <1>3, <1>5, <2>1, <3>1 DEF Shared
    <3>. QED BY <1>1, <3>1, <3>2 DEF SeedAssumption
  <2>4. resolves' = Absent
    BY <1>1 DEF SeedInvariant, Linked
  <2>5. \A i \in 1..Len(crypto') : crypto'[i].kind = "unwrap" /\ crypto'[i].about = seeding' => i = Len(crypto')
    BY <1>1, <1>8, <1>11, <1>12
  <2>. QED BY <1>1, <2>2, <2>3, <2>4, <2>5 DEF Shared
<1>15. Drawn'
  BY <1>1 DEF Drawn
<1>. QED BY <1>9, <1>10, <1>13, <1>14, <1>15 DEF SeedInvariant

\* A frame that arrives is opened behind the others, or concerns no model.
LEMMA HandleFrameKeeps == ASSUME SeedAssumption, SeedInvariant, HandleFrame PROVE SeedInvariant'
<1> DEFINE f == Head(frames)
           opened == IF f.kind = "snapshot" THEN f.for \in pending ELSE model # Absent
<1>1. /\ frames # <<>> /\ frames' = Tail(frames) /\ pending' = pending \ {f.for}
      /\ crypto' = IF opened THEN Append(crypto, Question("open", f)) ELSE crypto
      /\ UNCHANGED <<run, live, host, printed, requests, model, seeding, seed, resolves, outOfTurn, torn>>
  BY DEF HandleFrame
<1>2. /\ SeedTypeOK /\ seed \in Seq(Seed) /\ crypto \in Seq(Asked(Len(seed))) /\ Len(crypto) \in Nat
      /\ frames \in Seq(Sent) /\ Len(frames) \in Nat /\ \A i \in 1..Len(crypto) : crypto[i] \in Asked(Len(seed))
  BY TypesAre DEF SeedInvariant
<1>3. /\ Len(frames) # 0 /\ f = frames[1] /\ f \in Sent /\ frames' \in Seq(Sent) /\ Len(frames') = Len(frames) - 1
      /\ \A i \in 1..Len(frames') : i + 1 \in 1..Len(frames) /\ frames'[i] = frames[i + 1]
  BY <1>1, <1>2, HeadTailProperties, EmptySeq, SeqIs
<1>4. Question("open", f) \in Asked(Len(seed)) /\ Question("open", f).kind = "open" /\ Question("open", f).about = f
  BY <1>3 DEF Question, Asked
<1> HIDE DEF f
<1>5. crypto' \in Seq(Asked(Len(seed))) /\ Len(crypto') \in Nat
  BY <1>1, <1>2, <1>4, AppendProperties
<1>6. \A i \in 1..Len(crypto') :
        (i \in 1..Len(crypto) /\ crypto'[i] = crypto[i]) \/ (i = Len(crypto) + 1 /\ opened /\ crypto'[i] = Question("open", f))
  <2>1. CASE opened
    BY <1>1, <1>2, <1>4, <2>1, AppendProperties
  <2>2. CASE ~opened
    BY <1>1, <2>2
  <2>. QED BY <2>1, <2>2
<1>7. SeedTypeOK'
  BY <1>1, <1>2, <1>3, <1>5, SeedTyped DEF SeedTypeOK
<1>8. Linked'
  <2>1. Linked /\ printed \in Nat
    BY <1>2 DEF SeedInvariant, SeedTypeOK, SeedAssumption
  <2>2. \A i \in 1..Len(frames') : frames'[i].run = host'
    BY <1>1, <1>3, <2>1 DEF Linked
  <2>3. host' = run' => Rises(frames') /\ Complete(frames', printed')
    BY <1>1, <1>2, <2>1, OneLess DEF Linked
  <2>. QED BY <1>1, <2>1, <2>2, <2>3 DEF Linked
<1>9. ~outOfTurn' => Keys'
  <2> SUFFICES ASSUME ~outOfTurn' PROVE Keys'
    OBVIOUS
  <2>1. Keys
    BY <1>1 DEF SeedInvariant
  <2>2. \A i \in 1..Len(crypto') : crypto'[i].kind = "unwrap" => i \in 1..Len(crypto) /\ crypto'[i] = crypto[i]
    BY <1>4, <1>6
  <2>3. \A i \in 1..Len(crypto') : crypto'[i].kind = "unwrap" => seed'[crypto'[i].about].awaits = "key"
    BY <1>1, <2>1, <2>2 DEF Keys
  <2>4. \A i, j \in 1..Len(crypto') :
          crypto'[i].kind = "unwrap" /\ crypto'[j].kind = "unwrap" /\ crypto'[i].about = crypto'[j].about => i = j
    BY <2>1, <2>2 DEF Keys
  <2>5. \A s \in requests' \cup pending' : seed'[s].awaits # "key"
    BY <1>1, <2>1 DEF Keys
  <2>6. \A i \in 1..Len(frames') :
          frames'[i].kind = "snapshot" => frames'[i].for \in DOMAIN seed' /\ seed'[frames'[i].for].awaits # "key"
    BY <1>1, <1>3, <2>1 DEF Keys
  <2>. QED BY <2>3, <2>4, <2>5, <2>6 DEF Keys
<1>10. ~outOfTurn' => Shared'
  <2> SUFFICES ASSUME ~outOfTurn' PROVE Shared'
    OBVIOUS
  <2>1. Shared /\ Linked
    BY <1>1 DEF SeedInvariant
  <2>2. ASSUME seeding # Absent, seed[seeding].awaits = "key"
        PROVE  model = Absent /\ \A i \in 1..Len(crypto') : crypto'[i].kind = "unwrap" /\ crypto'[i].about = seeding => i = Len(crypto')
    <3>1. model = Absent /\ \A i \in 1..Len(crypto) : crypto[i].kind = "unwrap" /\ crypto[i].about = seeding => i = Len(crypto)
      BY <2>1, <2>2 DEF Shared
    <3>2. ~opened
      BY <2>1, <3>1 DEF Linked
    <3>. QED BY <1>1, <3>1, <3>2
  <2>. QED BY <1>1, <2>1, <2>2 DEF Shared
<1>11. ~outOfTurn' => Drawn'
  <2> SUFFICES ASSUME ~outOfTurn', model' # Absent
               PROVE  (\A i \in 1..Len(crypto') : crypto'[i].kind = "open") /\ (Doomed' \/ Followed')
    BY DEF Drawn
  <2>1. (\A i \in 1..Len(crypto) : crypto[i].kind = "open") /\ (Doomed \/ Followed) /\ Linked
    BY <1>1 DEF SeedInvariant, Drawn
  <2>2. \A i \in 1..Len(crypto') : crypto'[i].kind = "open"
    BY <1>4, <1>6, <2>1
  <2>3. /\ Opening \in Seq(Sent) /\ Len(Opening) = Len(crypto)
        /\ \A i \in 1..Len(crypto) : Opening[i] = crypto[i].about /\ Opening[i] \in Sent /\ Opening[i].at \in Nat
    BY <1>2, <2>1, OpeningIs
  <2>4. Len(Opening') = Len(crypto') /\ \A i \in 1..Len(crypto') : Opening'[i] = crypto'[i].about
    BY <1>5 DEF Opening
  <2>5. Opening' = IF opened THEN Append(Opening, f) ELSE Opening
    <3>1. CASE opened
      <4>1. Len(crypto') = Len(crypto) + 1
        BY <1>1, <1>2, <1>4, <3>1, AppendProperties
      <4>2. Append(Opening, f) = [i \in 1..Len(crypto) + 1 |-> IF i = Len(crypto) + 1 THEN f ELSE Opening[i]]
        BY <1>2, <1>3, <2>3
      <4>3. \A i \in 1..Len(crypto) + 1 : crypto'[i].about = IF i = Len(crypto) + 1 THEN f ELSE Opening[i]
        BY <1>2, <1>4, <1>6, <2>3, <4>1
      <4>. QED BY <3>1, <4>1, <4>2, <4>3 DEF Opening
    <3>2. CASE ~opened
      BY <1>1, <3>2 DEF Opening
    <3>. QED BY <3>1, <3>2
  <2>6. ASSUME Doomed PROVE Doomed'
    <3>1. f.kind = "snapshot" => ~opened
      BY <1>3, <2>6 DEF Doomed
    <3>2. \A i \in 1..Len(crypto') : Opening'[i].kind # "snapshot"
      <4> SUFFICES ASSUME NEW i \in 1..Len(crypto') PROVE Opening'[i].kind # "snapshot"
        OBVIOUS
      <4>1. CASE i \in 1..Len(crypto) /\ crypto'[i] = crypto[i]
        BY <2>3, <2>4, <2>6, <4>1 DEF Doomed
      <4>2. CASE opened /\ crypto'[i] = Question("open", f)
        BY <1>4, <2>4, <3>1, <4>2
      <4>. QED BY <1>6, <4>1, <4>2
    <3>3. pending' \subseteq pending
      BY <1>1
    <3>4. \A i \in 1..Len(frames') : frames'[i].kind = "snapshot" => frames'[i].for \notin pending'
      BY <1>3, <2>6, <3>3 DEF Doomed
    <3>5. seeding' # Absent /\ (host' # run' \/ pending' \cap requests' = {})
      BY <1>1, <2>6, <3>3 DEF Doomed
    <3>. QED BY <3>2, <3>4, <3>5 DEF Doomed
  <2>7. ASSUME Followed PROVE Followed'
    <3>1. host = run /\ Rises(frames) /\ Complete(frames, printed) /\ Rises(Opening)
      BY <2>1, <2>7 DEF Followed, Linked
    <3>2. /\ f.run = run /\ f.at <= printed /\ f.at \in Nat /\ printed \in Nat
          /\ PrintedAfter(frames, 1) = f.at + 1..printed
      BY <1>2, <1>3, <2>1, <3>1 DEF Linked, Complete, Sent, SeedTypeOK, SeedAssumption
    <3>3. PrintedAfter(frames', 0) = PrintedAfter(frames, 1)
      BY <1>1, <1>2, <1>3, PrintedTail
    <3>4. PrintedAfter(frames, 0) = PrintedAfter(frames, 1) \cup (IF f.kind = "output" THEN {f.at} ELSE {})
      BY <1>1, <1>2, <1>3, PrintedFirst
    <3>5. \A k \in 0..Len(crypto) :
            PrintedAfter(Opening', k) \cup PrintedAfter(frames', 0) = PrintedAfter(Opening, k) \cup PrintedAfter(frames, 0)
      <4>1. CASE opened
        <5>1. \A k \in 0..Len(crypto) :
                PrintedAfter(Append(Opening, f), k) = PrintedAfter(Opening, k) \cup (IF f.kind = "output" THEN {f.at} ELSE {})
          BY <1>3, <2>3, PrintedAppend
        <5>2. Opening' = Append(Opening, f)
          BY <2>5, <4>1
        <5> HIDE DEF opened
        <5>3. \A k \in 0..Len(crypto) :
                PrintedAfter(Opening', k) = PrintedAfter(Opening, k) \cup (IF f.kind = "output" THEN {f.at} ELSE {})
          BY <5>1, <5>2
        <5>. QED BY <3>3, <3>4, <5>3
      <4>2. CASE ~opened
        <5>1. f.kind # "output"
          BY <1>1, <4>2
        <5>. QED BY <2>5, <3>3, <3>4, <4>2, <5>1
      <4>. QED BY <4>1, <4>2
    <3>6. \A i \in 1..Len(crypto') :
            (i \in 1..Len(crypto) /\ Opening'[i] = Opening[i]) \/ (i = Len(crypto) + 1 /\ i = Len(crypto') /\ opened /\ Opening'[i] = f)
      <4>1. opened => Len(crypto') = Len(crypto) + 1
        BY <1>1, <1>2, <1>4, AppendProperties
      <4>. QED BY <1>4, <1>6, <2>3, <2>4, <4>1
    <3>7. \A i \in 1..Len(crypto') : Opening'[i].run = run' /\ Opening'[i].at <= printed'
      BY <1>1, <2>7, <3>2, <3>6 DEF Followed
    <3>8. Rises(Opening')
      <4> SUFFICES ASSUME NEW i \in 1..Len(crypto'), NEW j \in 1..Len(crypto'), i < j PROVE Before(Opening'[i], Opening'[j])
        BY <2>4 DEF Rises
      <4>1. i \in 1..Len(crypto) /\ Opening'[i] = Opening[i]
        BY <1>2, <3>6
      <4>2. CASE j \in 1..Len(crypto) /\ Opening'[j] = Opening[j]
        BY <2>3, <3>1, <4>1, <4>2 DEF Rises
      <4>3. CASE Opening'[j] = f
        <5>1. \A k \in 1..Len(frames) : Before(Opening[i], frames[k])
          BY <2>7, <4>1 DEF Followed
        <5>2. 1 \in 1..Len(frames)
          BY <1>2, <1>3
        <5>. QED BY <1>3, <4>1, <4>3, <5>1, <5>2
      <4>. QED BY <3>6, <4>2, <4>3
    <3>9. \A i \in 1..Len(crypto') : \A j \in 1..Len(frames') : Before(Opening'[i], frames'[j])
      <4> SUFFICES ASSUME NEW i \in 1..Len(crypto'), NEW j \in 1..Len(frames') PROVE Before(Opening'[i], frames'[j])
        OBVIOUS
      <4>1. j + 1 \in 1..Len(frames) /\ frames'[j] = frames[j + 1] /\ 1 \in 1..Len(frames) /\ 1 < j + 1
        BY <1>2, <1>3
      <4>2. CASE i \in 1..Len(crypto) /\ Opening'[i] = Opening[i]
        BY <2>7, <4>1, <4>2 DEF Followed
      <4>3. CASE Opening'[i] = f
        BY <1>3, <3>1, <4>1, <4>3 DEF Rises
      <4>. QED BY <3>6, <4>2, <4>3
    <3>10. \A k \in 1..Len(crypto') : Opening'[k].at >= torn' =>
             PrintedAfter(Opening', k) \cup PrintedAfter(frames', 0) = Opening'[k].at + 1..printed'
      <4> SUFFICES ASSUME NEW k \in 1..Len(crypto'), Opening'[k].at >= torn'
                   PROVE  PrintedAfter(Opening', k) \cup PrintedAfter(frames', 0) = Opening'[k].at + 1..printed'
        OBVIOUS
      <4>1. CASE k \in 1..Len(crypto) /\ Opening'[k] = Opening[k]
        <5>1. k \in 0..Len(crypto)
          BY <1>2, <4>1
        <5>. QED BY <1>1, <2>7, <3>5, <4>1, <5>1 DEF Followed
      <4>2. CASE k = Len(crypto') /\ Opening'[k] = f
        <5>1. Opening' \in Seq(Sent)
          BY <1>3, <2>3, <2>5, AppendProperties
        <5>2. PrintedAfter(Opening', k) = {}
          BY <2>4, <4>2, <5>1, PrintedLast
        <5>. QED BY <1>1, <3>2, <3>3, <4>2, <5>2
      <4>. QED BY <3>6, <4>1, <4>2
    <3>11. Ready' /\ torn' = 0 =>
             /\ model'.run = run' /\ model'.fit = "whole" /\ model'.at <= printed'
             /\ PrintedAfter(Opening', 0) \cup PrintedAfter(frames', 0) = model'.at + 1..printed'
      <4>1. 0 \in 0..Len(crypto)
        BY <1>2
      <4>. QED BY <1>1, <2>7, <3>5, <4>1 DEF Followed, Ready
    <3>. QED BY <1>1, <3>1, <3>7, <3>8, <3>9, <3>10, <3>11 DEF Followed
  <2>. QED BY <2>1, <2>2, <2>6, <2>7
<1>. QED BY <1>7, <1>8, <1>9, <1>10, <1>11 DEF SeedInvariant

\* A key that comes when its seed is void or no grant is left: the seed ends.
LEMMA KeyDeniedKeeps ==
  ASSUME SeedAssumption, SeedInvariant, NEW i \in DOMAIN crypto, NEW s \in DOMAIN seed,
         Answered(i), crypto[i].kind = "unwrap", crypto[i].about = s, KeyDenied(s)
  PROVE  SeedInvariant'
<1>1. /\ seed' = [seed EXCEPT ![s].awaits = "nothing"] /\ seeding' = IF seed[s].own THEN Absent ELSE seeding
      /\ UNCHANGED <<run, live, host, printed, frames, model, pending, resolves, requests, torn>>
  BY DEF KeyDenied, Ended, Settled
<1>2. SeedTypeOK /\ Linked /\ DOMAIN seed = 1..Len(seed) /\ Len(seed) \in Nat /\ Len(crypto) \in Nat
  BY TypesAre DEF SeedInvariant
<1>3. /\ seed' \in Seq(Seed) /\ Len(seed') = Len(seed) /\ DOMAIN seed' = DOMAIN seed
      /\ \A r \in DOMAIN seed : (seed'[r].own <=> seed[r].own) /\ seed'[r].awaits = IF r = s THEN "nothing" ELSE seed[r].awaits
  BY <1>1, <1>2, EndedIs
<1>4. /\ crypto' \in Seq(Asked(Len(seed))) /\ outOfTurn' \in BOOLEAN
      /\ ~outOfTurn' => ~outOfTurn /\ i = 1 /\ crypto # <<>> /\ crypto' = Tail(crypto)
  BY <1>2, AnsweredIs
<1>5. seeding' # Absent => seeding' = seeding /\ seeding # s /\ seeding \in DOMAIN seed /\ seed[seeding].own
  BY <1>1, <1>2 DEF SeedTypeOK
<1>6. SeedTypeOK'
  <2>1. seeding' # Absent => seed'[seeding'].own
    BY <1>3, <1>5
  <2>2. seeding' \in DOMAIN seed' \cup {Absent}
    BY <1>3, <1>5
  <2>3. crypto' \in Seq(Asked(Len(seed')))
    BY <1>3, <1>4
  <2>4. frames \in Seq(Sent)
    BY <1>2, TypesAre
  <2>. QED BY <1>1, <1>2, <1>3, <1>4, <2>1, <2>2, <2>3, <2>4, SeedTyped DEF SeedTypeOK
<1>7. Linked'
  BY <1>1, <1>2 DEF Linked
<1>8. ASSUME ~outOfTurn' PROVE Keys' /\ Shared' /\ Drawn'
  <2>1. Keys /\ Shared /\ Drawn /\ i = 1 /\ Fewer(1)
    BY <1>2, <1>4, <1>8, FewerIs DEF SeedInvariant
  <2>2. seed[s].awaits = "key"
    BY <1>2, <2>1 DEF Keys
  <2>3. /\ Len(crypto') = Len(crypto) - 1 /\ 1 \in 1..Len(crypto)
        /\ \A j \in 1..Len(crypto') : j \in Nat /\ j + 1 \in 1..Len(crypto) /\ j + 1 # 1 /\ crypto'[j] = crypto[j + 1]
    BY <1>2, <2>1 DEF Fewer
  <2>4. Keys'
    <3>1. \A j \in 1..Len(crypto') : crypto'[j].kind = "unwrap" => seed'[crypto'[j].about].awaits = "key"
      <4> SUFFICES ASSUME NEW j \in 1..Len(crypto'), crypto'[j].kind = "unwrap" PROVE seed'[crypto'[j].about].awaits = "key"
        OBVIOUS
      <4>1. crypto'[j].about # s
        BY <2>1, <2>3 DEF Keys
      <4>2. crypto'[j].about \in DOMAIN seed
        BY <1>2, <2>3, TypesAre DEF Asked
      <4>3. seed[crypto'[j].about].awaits = "key"
        BY <2>1, <2>3 DEF Keys
      <4>. QED BY <1>3, <4>1, <4>2, <4>3
    <3>2. \A r \in DOMAIN seed : seed'[r].awaits = "key" => seed[r].awaits = "key"
      BY <1>3
    <3>. QED BY <1>1, <1>2, <1>3, <2>1, <3>1, <3>2, KeysKept
  <2>5. Shared'
    <3>1. seeding' # Absent => seed'[seeding'].awaits # "nothing"
      BY <1>3, <1>5, <2>1 DEF Shared
    <3>2. \A r \in DOMAIN seed' : seed'[r].own /\ seed'[r].awaits # "nothing" => seeding' = r
      <4> SUFFICES ASSUME NEW r \in DOMAIN seed, seed'[r].own, seed'[r].awaits # "nothing" PROVE seeding' = r
        BY <1>3
      <4>1. r # s /\ seeding = r
        BY <1>3, <2>1 DEF Shared
      <4>2. ~seed[s].own
        BY <2>1, <2>2, <4>1 DEF Shared
      <4>. QED BY <1>1, <4>1, <4>2
    <3>3. resolves' # Absent => seed'[resolves'].awaits = "snapshot" /\ seed'[resolves'].own
      <4> SUFFICES ASSUME resolves # Absent PROVE seed'[resolves].awaits = "snapshot" /\ seed'[resolves].own
        BY <1>1
      <4>1. resolves \in DOMAIN seed /\ seed[resolves].awaits = "snapshot" /\ seed[resolves].own
        BY <1>2, <2>1 DEF SeedTypeOK, Shared
      <4>. QED BY <1>3, <2>2, <4>1
    <3>4. ASSUME seeding' # Absent, seed'[seeding'].awaits = "key"
          PROVE  model' = Absent
                 /\ \A j \in 1..Len(crypto') : crypto'[j].kind = "unwrap" /\ crypto'[j].about = seeding' => j = Len(crypto')
      <4>1. seeding # Absent /\ seeding' = seeding /\ seed[seeding].awaits = "key"
        BY <1>3, <1>5, <3>4
      <4>2. \A j \in 1..Len(crypto') : crypto'[j].kind = "unwrap" /\ crypto'[j].about = seeding' => j + 1 = Len(crypto)
        BY <2>1, <2>3, <4>1 DEF Shared
      <4>3. model = Absent
        BY <2>1, <4>1 DEF Shared
      <4>. QED BY <1>1, <1>2, <2>3, <4>2, <4>3
    <3>. QED BY <3>1, <3>2, <3>3, <3>4 DEF Shared
  <2>6. Drawn'
    <3>1. model = Absent
      BY <2>1, <2>3 DEF Drawn
    <3>. QED BY <1>1, <3>1 DEF Drawn
  <2>. QED BY <2>4, <2>5, <2>6
<1>. QED BY <1>6, <1>7, <1>8 DEF SeedInvariant

\* A key that comes in time: by then all older frames are opened, so the new model gets only later ones.
LEMMA AllocatesKeeps ==
  ASSUME SeedAssumption, SeedInvariant, NEW i \in DOMAIN crypto, NEW s \in DOMAIN seed,
         Answered(i), crypto[i].kind = "unwrap", crypto[i].about = s, Allocates(s)
  PROVE  SeedInvariant'
<1>1. /\ seed[s].own /\ host # Absent
      /\ model' = BlankModel /\ pending' = pending \cup {s} /\ requests' = requests \cup {s} /\ resolves' = s
      /\ seed' = [seed EXCEPT ![s].awaits = "snapshot"]
      /\ UNCHANGED <<run, live, host, printed, frames, seeding, torn>>
  BY DEF Allocates
<1>2. /\ SeedTypeOK /\ Linked /\ DOMAIN seed = 1..Len(seed) /\ Len(seed) \in Nat /\ Len(crypto) \in Nat
      /\ s # Absent /\ frames \in Seq(Sent)
  BY TypesAre DEF SeedInvariant, SeedAssumption
<1>3. /\ seed' \in Seq(Seed) /\ Len(seed') = Len(seed) /\ DOMAIN seed' = DOMAIN seed
      /\ \A r \in DOMAIN seed : (seed'[r].own <=> seed[r].own) /\ seed'[r].awaits = IF r = s THEN "snapshot" ELSE seed[r].awaits
  BY <1>1, <1>2, EndedIs
<1>4. /\ crypto' \in Seq(Asked(Len(seed))) /\ outOfTurn' \in BOOLEAN
      /\ ~outOfTurn' => ~outOfTurn /\ i = 1 /\ crypto # <<>> /\ crypto' = Tail(crypto)
  BY <1>2, AnsweredIs
<1>5. model' \in Shown /\ model' # Absent
  <2>1. run \in Nat
    BY <1>2 DEF SeedTypeOK, SeedAssumption
  <2>2. BlankModel \in Shown
    BY <2>1 DEF BlankModel, Shown
  <2>. QED BY <1>1, <2>2 DEF SeedAssumption
<1>6. SeedTypeOK'
  <2>1. seeding' # Absent => seed'[seeding'].own
    <3>1. seeding # Absent => seeding \in DOMAIN seed /\ seed[seeding].own
      BY <1>2 DEF SeedTypeOK
    <3>. QED BY <1>1, <1>3, <3>1
  <2>2. crypto' \in Seq(Asked(Len(seed')))
    BY <1>3, <1>4
  <2>. QED BY <1>1, <1>2, <1>3, <1>4, <1>5, <2>1, <2>2, SeedTyped DEF SeedTypeOK
<1>7. Linked'
  BY <1>1, <1>2, <1>5 DEF Linked
<1>8. ASSUME ~outOfTurn' PROVE Keys' /\ Shared' /\ Drawn'
  <2>1. Keys /\ Shared /\ i = 1 /\ Fewer(1)
    BY <1>2, <1>4, <1>8, FewerIs DEF SeedInvariant
  <2>2. /\ Len(crypto') = Len(crypto) - 1 /\ 1 \in 1..Len(crypto)
        /\ \A j \in 1..Len(crypto') : j \in Nat /\ j + 1 \in 1..Len(crypto) /\ j + 1 # 1 /\ crypto'[j] = crypto[j + 1]
    BY <1>2, <2>1 DEF Fewer
  <2>3. seed[s].awaits = "key" /\ seeding = s
    BY <1>1, <1>2, <2>1, <2>2 DEF Keys, Shared
  <2>4. model = Absent /\ pending = {} /\ Len(crypto) = 1 /\ Len(crypto') = 0
    BY <1>2, <2>1, <2>2, <2>3 DEF Shared, Linked
  <2>5. Keys'
    <3>1. \A j \in 1..Len(crypto') : crypto'[j].kind = "unwrap" => seed'[crypto'[j].about].awaits = "key"
      BY <2>4
    <3>2. \A r \in DOMAIN seed : seed'[r].awaits = "key" => seed[r].awaits = "key"
      BY <1>3
    <3>3. \A r \in requests' \cup pending' : r \in requests \cup pending \/ seed'[r].awaits # "key"
      BY <1>1, <1>3
    <3>. QED BY <1>1, <1>2, <1>3, <2>1, <3>1, <3>2, <3>3, KeysKept
  <2>6. Shared'
    <3>1. \A r \in DOMAIN seed' : seed'[r].own /\ seed'[r].awaits # "nothing" => seeding' = r
      BY <1>1, <1>3, <2>1, <2>3 DEF Shared
    <3>2. seed'[s].awaits = "snapshot" /\ seed'[s].own
      BY <1>1, <1>3
    <3>3. seeding' = s /\ resolves' = s
      BY <1>1, <2>3
    <3>. QED BY <3>1, <3>2, <3>3 DEF Shared
  <2>7. Doomed' \/ Followed'
    <3>1. CASE host = run
      <4>1. Len(Opening') = 0
        BY <2>4 DEF Opening
      <4>2. Rises(Opening')
        BY <4>1 DEF Rises
      <4>3. ~Ready'
        BY <1>1, <1>2, <2>3 DEF Ready
      <4>. QED BY <1>1, <2>4, <3>1, <4>2, <4>3 DEF Followed
    <3>2. CASE host # run
      <4>1. \A j \in 1..Len(frames) : frames[j].kind = "snapshot" => frames[j].for # s
        BY <2>1, <2>3 DEF Keys
      <4>. QED BY <1>1, <1>2, <2>3, <2>4, <3>2, <4>1 DEF Doomed
    <3>. QED BY <3>1, <3>2
  <2>8. Drawn'
    BY <2>4, <2>7 DEF Drawn
  <2>. QED BY <2>5, <2>6, <2>8
<1>. QED BY <1>6, <1>7, <1>8 DEF SeedInvariant

\* A key is there.
LEMMA KeyReadyKeeps ==
  ASSUME SeedAssumption, SeedInvariant, NEW i \in DOMAIN crypto, NEW s \in DOMAIN seed, KeyReady(i, s)
  PROVE  SeedInvariant'
<1>1. SeedTypeOK
  BY DEF SeedInvariant
<1>. QED BY <1>1, KeyReadyMove, FreesKeeps, KeyDeniedKeeps, AllocatesKeeps

\* The oldest frame is opened.
LEMMA OpeningTail ==
  ASSUME SeedTypeOK, \A i \in 1..Len(crypto) : crypto[i].kind = "open", crypto # <<>>, crypto' = Tail(crypto)
  PROVE  /\ Opening # <<>> /\ Opening' = Tail(Opening) /\ Len(crypto) # 0 /\ Len(crypto') = Len(crypto) - 1
         /\ \A i \in 1..Len(crypto') : i + 1 \in 1..Len(crypto) /\ crypto'[i] = crypto[i + 1] /\ Opening'[i] = Opening[i + 1]
<1>1. Opening \in Seq(Sent) /\ Len(Opening) = Len(crypto) /\ \A i \in 1..Len(crypto) : Opening[i] = crypto[i].about
  BY OpeningIs
<1>2. crypto \in Seq(Asked(Len(seed))) /\ Len(crypto) \in Nat
  BY TypesAre
<1>3. Len(crypto) # 0 /\ Len(crypto') = Len(crypto) - 1 /\ \A i \in 1..Len(crypto') : i + 1 \in 1..Len(crypto) /\ crypto'[i] = crypto[i + 1]
  BY <1>2, EmptySeq, HeadTailProperties
<1>4. Opening' = [i \in 1..Len(crypto') |-> crypto'[i].about]
  BY DEF Opening
<1>5. Opening # <<>>
  BY <1>1, <1>3, EmptySeq
<1>6. Tail(Opening) \in Seq(Sent) /\ Len(Tail(Opening)) = Len(crypto) - 1 /\ \A i \in 1..Len(crypto) - 1 : Tail(Opening)[i] = Opening[i + 1]
  BY <1>1, <1>5, HeadTailProperties
<1>7. \A i \in 1..Len(crypto') : Opening'[i] = Opening[i + 1] /\ Opening[i + 1] \in Sent
  BY <1>1, <1>3, <1>4, SeqIs
<1>8. Opening' \in Seq(Sent) /\ Len(Opening') = Len(crypto')
  <2>1. Len(crypto') \in Nat
    BY <1>2, <1>3
  <2>. QED BY <1>3, <1>4, <1>7, <2>1
<1>9. Opening' = Tail(Opening)
  <2>1. Len(Opening') = Len(Tail(Opening)) /\ Len(Opening') = Len(crypto')
    BY <1>3, <1>6, <1>8
  <2>2. \A i \in 1..Len(Opening') : Opening'[i] = Tail(Opening)[i]
    BY <1>3, <1>6, <1>7, <2>1
  <2>. QED BY <1>6, <1>8, <2>1, <2>2, SeqEqual
<1>. QED BY <1>3, <1>5, <1>7, <1>9

\* The terminal takes up the oldest frame: output goes on from it, a screen begins anew.
LEMMA FollowedOn ==
  ASSUME SeedAssumption, SeedTypeOK, Followed, \A i \in 1..Len(crypto) : crypto[i].kind = "open",
         crypto # <<>>, crypto' = Tail(crypto), UNCHANGED <<run, host, printed, frames>>,
         NEW f \in Sent, f = crypto[1].about, torn' = torn \/ (torn' = 0 /\ f.at >= torn),
         Ready' /\ torn' = 0 =>
           \/ model' = Screened(f) /\ f.at >= torn
           \/ Ready /\ torn = 0 /\ f.kind # "output" /\ model' = model
           \/ Ready /\ torn = 0 /\ f.kind = "output" /\ model' = Appended(f)
  PROVE  Followed'
<1>1. /\ Opening \in Seq(Sent) /\ Len(Opening) = Len(crypto) /\ Len(crypto) \in Nat
      /\ \A i \in 1..Len(crypto) : Opening[i] = crypto[i].about /\ Opening[i].at \in Nat
  BY OpeningIs, TypesAre
<1>2. /\ Opening # <<>> /\ Opening' = Tail(Opening) /\ Len(crypto) # 0 /\ Len(crypto') = Len(crypto) - 1
      /\ \A i \in 1..Len(crypto') : i + 1 \in 1..Len(crypto) /\ Opening'[i] = Opening[i + 1]
  BY OpeningTail
<1>3. 1 \in 1..Len(crypto) /\ Opening[1] = f
  BY <1>1, <1>2
<1>4. f.at \in Nat /\ f.run = run /\ f.at <= printed /\ printed \in Nat /\ torn \in Nat
  BY <1>1, <1>3 DEF Followed, SeedTypeOK, SeedAssumption
<1>5. Rises(Opening) /\ Rises(Opening')
  <2>1. Rises(Opening)
    BY DEF Followed
  <2>. QED BY <1>1, <1>2, <1>4, <2>1, OneLess
<1>6. \A i \in 1..Len(crypto') : Opening'[i].run = run' /\ Opening'[i].at <= printed'
  BY <1>2 DEF Followed
<1>7. \A i \in 1..Len(crypto') : \A j \in 1..Len(frames') : Before(Opening'[i], frames'[j])
  BY <1>2 DEF Followed
<1>8. \A k \in 1..Len(crypto') : PrintedAfter(Opening', k) = PrintedAfter(Opening, k + 1)
  <2> SUFFICES ASSUME NEW k \in 1..Len(crypto') PROVE PrintedAfter(Opening', k) = PrintedAfter(Opening, k + 1)
    OBVIOUS
  <2>1. k \in 0..Len(Opening) - 1
    BY <1>1, <1>2
  <2>. QED BY <1>1, <1>2, <2>1, PrintedTail
<1>9. \A k \in 1..Len(crypto') : Opening'[k].at >= torn' =>
        PrintedAfter(Opening', k) \cup PrintedAfter(frames', 0) = Opening'[k].at + 1..printed'
  <2> SUFFICES ASSUME NEW k \in 1..Len(crypto'), Opening'[k].at >= torn'
               PROVE  PrintedAfter(Opening', k) \cup PrintedAfter(frames', 0) = Opening'[k].at + 1..printed'
    OBVIOUS
  <2>1. k + 1 \in 1..Len(crypto) /\ Opening'[k] = Opening[k + 1] /\ 1 < k + 1 /\ Opening[k + 1].at \in Nat
    BY <1>1, <1>2
  <2>2. Before(Opening[1], Opening[k + 1])
    BY <1>1, <1>3, <1>5, <2>1 DEF Rises
  <2>3. Opening[k + 1].at >= torn
    BY <1>3, <1>4, <2>1, <2>2 DEF Before
  <2>4. PrintedAfter(Opening, k + 1) \cup PrintedAfter(frames, 0) = Opening[k + 1].at + 1..printed
    BY <2>1, <2>3 DEF Followed
  <2>. QED BY <1>8, <2>1, <2>4
<1>10. PrintedAfter(Opening', 0) = PrintedAfter(Opening, 1)
  <2>1. 0 \in 0..Len(Opening) - 1
    BY <1>1, <1>2
  <2>. QED BY <1>1, <1>2, <2>1, PrintedTail
<1>11. f.at >= torn => PrintedAfter(Opening', 0) \cup PrintedAfter(frames, 0) = f.at + 1..printed
  BY <1>3, <1>10 DEF Followed
<1>12. PrintedAfter(Opening, 0) = PrintedAfter(Opening, 1) \cup (IF f.kind = "output" THEN {f.at} ELSE {})
  BY <1>1, <1>2, <1>3, PrintedFirst
<1>13. ASSUME Ready', torn' = 0
       PROVE  /\ model'.run = run' /\ model'.fit = "whole" /\ model'.at <= printed'
              /\ PrintedAfter(Opening', 0) \cup PrintedAfter(frames', 0) = model'.at + 1..printed'
  <2>1. CASE model' = Screened(f) /\ f.at >= torn
    BY <1>4, <1>11, <2>1 DEF Screened
  <2>2. ASSUME Ready, torn = 0
        PROVE  /\ model \in Shown /\ model.run = run /\ model.fit = "whole" /\ model.at <= printed /\ model.at \in Nat
               /\ PrintedAfter(Opening, 0) \cup PrintedAfter(frames, 0) = model.at + 1..printed
    <3>1. model \in Shown /\ model.at \in Nat
      BY <2>2 DEF Ready, SeedTypeOK, Shown
    <3>. QED BY <2>2, <3>1 DEF Followed
  <2>3. CASE Ready /\ torn = 0 /\ f.kind # "output" /\ model' = model
    BY <1>10, <1>12, <2>2, <2>3
  <2>4. CASE Ready /\ torn = 0 /\ f.kind = "output" /\ model' = Appended(f)
    <3>1. PrintedAfter(Opening', 0) \cup PrintedAfter(frames, 0) = f.at + 1..printed
      BY <1>4, <1>11, <2>4
    <3>2. PrintedAfter(Opening, 0) \cup PrintedAfter(frames, 0) = (f.at + 1..printed) \cup {f.at}
      BY <1>10, <1>12, <2>4, <3>1
    <3>3. (f.at + 1..printed) \cup {f.at} = model.at + 1..printed
      BY <2>2, <2>4, <3>2
    <3>4. f.at = model.at + 1
      <4>1. f.at \in model.at + 1..printed
        BY <3>3
      <4>2. model.at + 1 \in (f.at + 1..printed) \cup {f.at}
        BY <1>4, <2>2, <2>4, <3>3, <4>1
      <4>. QED BY <1>4, <2>2, <2>4, <4>1, <4>2
    <3>5. model'.run = run /\ model'.at = f.at /\ model'.fit = "whole"
      BY <1>4, <2>2, <2>4, <3>4, AppendedIs
    <3>. QED BY <1>4, <3>1, <3>5
  <2>. QED BY <1>13, <2>1, <2>3, <2>4
<1>. QED BY <1>5, <1>6, <1>7, <1>9, <1>13 DEF Followed

\* What a question answered in its turn leaves of the rest
LEMMA RestKept ==
  ASSUME SeedTypeOK, Keys, Shared, crypto # <<>>, crypto' = Tail(crypto), UNCHANGED <<frames, requests, pending, seed, seeding>>,
         model' = Absent <=> model = Absent, resolves' \in {resolves, Absent}
  PROVE  Keys' /\ Shared'
<1>1. Fewer(1) /\ Len(crypto) \in Nat /\ DOMAIN seed' = DOMAIN seed
  BY FewerIs, TypesAre
<1>2. \A i \in 1..Len(crypto') : i \in Nat /\ i + 1 \in 1..Len(crypto) /\ crypto'[i] = crypto[i + 1]
  BY <1>1 DEF Fewer
<1>3. \A i \in 1..Len(crypto') : crypto'[i].kind = "unwrap" => seed'[crypto'[i].about].awaits = "key"
  BY <1>2 DEF Keys
<1>4. Keys'
  BY <1>1, <1>3, KeysKept
<1>5. seeding' # Absent /\ seed'[seeding'].awaits = "key" =>
        /\ model' = Absent
        /\ \A i \in 1..Len(crypto') : crypto'[i].kind = "unwrap" /\ crypto'[i].about = seeding' => i = Len(crypto')
  <2> SUFFICES ASSUME seeding # Absent, seed[seeding].awaits = "key"
               PROVE  model = Absent /\ \A i \in 1..Len(crypto') : crypto'[i].kind = "unwrap" /\ crypto'[i].about = seeding => i = Len(crypto')
    OBVIOUS
  <2>1. model = Absent /\ \A i \in 1..Len(crypto) : crypto[i].kind = "unwrap" /\ crypto[i].about = seeding => i = Len(crypto)
    BY DEF Shared
  <2>2. Len(crypto') = Len(crypto) - 1
    BY <1>1 DEF Fewer
  <2>3. \A i \in 1..Len(crypto') : crypto'[i].kind = "unwrap" /\ crypto'[i].about = seeding => i + 1 = Len(crypto)
    BY <1>2, <2>1
  <2>4. Len(crypto) \in Nat
    BY <1>1
  <2>5. \A i \in 1..Len(crypto') : i + 1 = Len(crypto) => i = Len(crypto')
    <3> SUFFICES ASSUME NEW i \in 1..Len(crypto'), i + 1 = Len(crypto) PROVE i = Len(crypto')
      OBVIOUS
    <3>1. i \in Nat
      BY <1>2
    <3>. QED BY <2>2, <2>4, <3>1
  <2>. QED BY <2>1, <2>3, <2>5
<1>6. Shared'
  BY <1>5 DEF Shared
<1>. QED BY <1>4, <1>6

\* Output, or a screen for everybody, is opened.
LEMMA OpenedKeeps ==
  ASSUME SeedAssumption, SeedInvariant, NEW i \in DOMAIN crypto, Opened(i) PROVE SeedInvariant'
<1> DEFINE f == crypto[i].about
<1>1. /\ crypto[i].kind = "open" /\ f.kind # "snapshot" /\ Answered(i)
      /\ model' = IF model = Absent THEN Absent ELSE IF f.kind = "output" THEN Appended(f) ELSE Screened(f)
      /\ torn' = IF f.kind = "broadcast" /\ f.at >= torn THEN 0 ELSE torn
      /\ UNCHANGED <<run, live, host, printed, frames, requests, seeding, seed, pending, resolves>>
  BY DEF Opened, sourceVars
<1>2. /\ SeedTypeOK /\ Linked /\ Len(crypto) \in Nat /\ i \in 1..Len(crypto) /\ frames \in Seq(Sent) /\ seed \in Seq(Seed)
      /\ printed \in Nat /\ torn \in 0..printed
  BY TypesAre DEF SeedInvariant, SeedTypeOK, SeedAssumption
<1>3. f \in Sent /\ f.at \in Nat
  <2>1. crypto[i] \in Asked(Len(seed)) /\ crypto[i].kind = "open"
    BY <1>1, <1>2, TypesAre
  <2>2. crypto[i].about \in Sent
    BY <2>1 DEF Asked
  <2>. QED BY <2>2 DEF Sent
<1>4. /\ crypto' \in Seq(Asked(Len(seed))) /\ outOfTurn' \in BOOLEAN
      /\ ~outOfTurn' => ~outOfTurn /\ i = 1 /\ crypto # <<>> /\ crypto' = Tail(crypto)
  BY <1>1, <1>2, AnsweredIs
<1> HIDE DEF f
<1>5. model' \in Shown \cup {Absent} /\ (model' = Absent <=> model = Absent)
  <2>1. Screened(f) \in Shown
    BY <1>3 DEF Screened, Shown, Sent
  <2>2. model # Absent => Appended(f) \in Shown
    BY <1>2, <1>3, AppendedIs DEF SeedTypeOK
  <2>. QED BY <1>1, <2>1, <2>2 DEF SeedAssumption
<1>6. SeedTypeOK'
  <2>1. torn' \in 0..printed'
    BY <1>1, <1>2
  <2>. QED BY <1>1, <1>2, <1>4, <1>5, <2>1, SeedTyped DEF SeedTypeOK
<1>7. Linked'
  BY <1>1, <1>2, <1>5 DEF Linked
<1>8. ASSUME ~outOfTurn' PROVE Keys' /\ Shared' /\ Drawn'
  <2>1. Keys /\ Shared /\ Drawn /\ f = crypto[1].about /\ crypto # <<>> /\ crypto' = Tail(crypto)
    BY <1>4, <1>8 DEF SeedInvariant, f
  <2>2. Keys' /\ Shared'
    BY <1>1, <1>2, <1>5, <2>1, RestKept
  <2>3. ASSUME model # Absent PROVE (\A j \in 1..Len(crypto') : crypto'[j].kind = "open") /\ (Doomed' \/ Followed')
    <3>1. (\A j \in 1..Len(crypto) : crypto[j].kind = "open") /\ (Doomed \/ Followed)
      BY <2>1, <2>3 DEF Drawn
    <3>2. \A j \in 1..Len(crypto') : j + 1 \in 1..Len(crypto) /\ crypto'[j] = crypto[j + 1] /\ Opening'[j] = Opening[j + 1]
      BY <1>2, <2>1, <3>1, OpeningTail
    <3>3. ASSUME Doomed PROVE Doomed'
      BY <1>1, <3>2, <3>3 DEF Doomed
    <3>4. ASSUME Followed PROVE Followed'
      <4>1. torn' = torn \/ (torn' = 0 /\ f.at >= torn)
        BY <1>1
      <4>2. Ready' /\ torn' = 0 =>
              \/ model' = Screened(f) /\ f.at >= torn
              \/ Ready /\ torn = 0 /\ f.kind = "output" /\ model' = Appended(f)
        <5> SUFFICES ASSUME Ready', torn' = 0
                     PROVE  \/ model' = Screened(f) /\ f.at >= torn
                            \/ Ready /\ torn = 0 /\ f.kind = "output" /\ model' = Appended(f)
          OBVIOUS
        <5>1. CASE f.kind = "output"
          BY <1>1, <2>3, <5>1 DEF Ready
        <5>2. CASE f.kind # "output"
          <6>1. model' = Screened(f)
            BY <1>1, <2>3, <5>2
          <6>2. f.at >= torn
            BY <1>1, <1>2, <1>3
          <6>. QED BY <6>1, <6>2
        <5>. QED BY <5>1, <5>2
      <4>. QED BY <1>1, <1>2, <1>3, <2>1, <3>1, <3>4, <4>1, <4>2, FollowedOn
    <3>. QED BY <3>1, <3>2, <3>3, <3>4
  <2>4. Drawn'
    BY <1>5, <2>3 DEF Drawn
  <2>. QED BY <2>2, <2>4
<1>. QED BY <1>6, <1>7, <1>8 DEF SeedInvariant

\* A snapshot is shown, and settles the seed that waits now.
LEMMA SeedShownKeeps ==
  ASSUME SeedAssumption, SeedInvariant, NEW i \in DOMAIN crypto, Answered(i), crypto[i].kind = "open",
         NEW f, f = crypto[i].about, f.kind = "snapshot", NEW opens \in BOOLEAN, SeedShown(f, opens)
  PROVE  SeedInvariant'
<1>1. /\ resolves = Absent \/ opens
      /\ model' = IF model = Absent \/ ~opens THEN model ELSE Screened(f)
      /\ torn' = IF opens /\ f.at >= torn THEN 0 ELSE torn
      /\ resolves' = Absent
      /\ resolves = Absent => seed' = seed /\ seeding' = seeding
      /\ resolves # Absent => /\ seed' = [seed EXCEPT ![resolves].awaits = "nothing"]
                              /\ seeding' = IF seed[resolves].own THEN Absent ELSE seeding
      /\ UNCHANGED <<run, live, host, printed, frames, requests, pending>>
  BY DEF SeedShown, Ended, Settled, sourceVars
<1>2. /\ SeedTypeOK /\ Linked /\ Len(crypto) \in Nat /\ i \in 1..Len(crypto) /\ frames \in Seq(Sent) /\ seed \in Seq(Seed)
      /\ printed \in Nat /\ torn \in 0..printed /\ DOMAIN seed = 1..Len(seed)
  BY TypesAre DEF SeedInvariant, SeedTypeOK, SeedAssumption
<1>3. f \in Sent /\ f.at \in Nat
  BY <1>2, TypesAre DEF Asked, Sent
<1>4. /\ crypto' \in Seq(Asked(Len(seed))) /\ outOfTurn' \in BOOLEAN
      /\ ~outOfTurn' => ~outOfTurn /\ i = 1 /\ crypto # <<>> /\ crypto' = Tail(crypto)
  BY <1>2, AnsweredIs
<1>5. model' \in Shown \cup {Absent} /\ (model' = Absent <=> model = Absent)
  <2>1. Screened(f) \in Shown
    BY <1>3 DEF Screened, Shown, Sent
  <2>. QED BY <1>1, <1>2, <2>1 DEF SeedAssumption, SeedTypeOK
<1>6. /\ seed' \in Seq(Seed) /\ Len(seed') = Len(seed) /\ DOMAIN seed' = DOMAIN seed
      /\ \A r \in DOMAIN seed : (seed'[r].own <=> seed[r].own)
                                /\ seed'[r].awaits = IF resolves # Absent /\ r = resolves THEN "nothing" ELSE seed[r].awaits
  <2>1. CASE resolves = Absent
    BY <1>1, <1>2, <2>1
  <2>2. CASE resolves # Absent
    BY <1>1, <1>2, <2>2, EndedIs DEF SeedTypeOK
  <2>. QED BY <2>1, <2>2
<1>7. seeding' # Absent => seeding' = seeding /\ seeding \in DOMAIN seed /\ seed[seeding].own
  BY <1>1, <1>2 DEF SeedTypeOK
<1>8. SeedTypeOK'
  <2>1. torn' \in 0..printed'
    BY <1>1, <1>2
  <2>2. seeding' # Absent => seed'[seeding'].own
    BY <1>6, <1>7
  <2>3. seeding' \in DOMAIN seed' \cup {Absent} /\ resolves' \in DOMAIN seed' \cup {Absent}
    BY <1>1, <1>6, <1>7
  <2>4. crypto' \in Seq(Asked(Len(seed')))
    BY <1>4, <1>6
  <2>. QED BY <1>1, <1>2, <1>4, <1>5, <1>6, <2>1, <2>2, <2>3, <2>4, SeedTyped DEF SeedTypeOK
<1>9. Linked'
  BY <1>1, <1>2, <1>5 DEF Linked
<1>10. ASSUME ~outOfTurn' PROVE Keys' /\ Shared' /\ Drawn'
  <2>1. Keys /\ Shared /\ Drawn /\ f = crypto[1].about /\ crypto # <<>> /\ crypto' = Tail(crypto)
    BY <1>4, <1>10 DEF SeedInvariant
  <2>2. Keys' /\ Shared'
    <3>1. CASE resolves = Absent
      BY <1>1, <1>2, <1>5, <2>1, <3>1, RestKept
    <3>2. CASE resolves # Absent
      <4>1. resolves \in DOMAIN seed /\ seed[resolves].awaits = "snapshot" /\ seed[resolves].own /\ seeding = resolves
        BY <1>2, <2>1, <3>2 DEF Shared, SeedTypeOK
      <4>2. seeding' = Absent
        BY <1>1, <3>2, <4>1
      <4>3. Fewer(1)
        BY <1>2, <2>1, FewerIs
      <4>4. \A r \in DOMAIN seed : seed'[r].awaits = "key" <=> seed[r].awaits = "key"
        BY <1>6, <4>1
      <4>5. \A j \in 1..Len(crypto') : crypto'[j].kind = "unwrap" => seed'[crypto'[j].about].awaits = "key"
        <5> SUFFICES ASSUME NEW j \in 1..Len(crypto'), crypto'[j].kind = "unwrap" PROVE seed'[crypto'[j].about].awaits = "key"
          OBVIOUS
        <5>1. j + 1 \in 1..Len(crypto) /\ crypto'[j] = crypto[j + 1]
          BY <4>3 DEF Fewer
        <5>2. crypto[j + 1].about \in DOMAIN seed /\ seed[crypto[j + 1].about].awaits = "key"
          BY <1>2, <2>1, <5>1, TypesAre DEF Keys, Asked
        <5>. QED BY <4>4, <5>1, <5>2
      <4>6. Keys'
        BY <1>1, <1>2, <1>6, <2>1, <4>3, <4>4, <4>5, KeysKept
      <4>7. \A r \in DOMAIN seed' : ~(seed'[r].own /\ seed'[r].awaits # "nothing")
        BY <1>6, <2>1, <3>2, <4>1 DEF Shared
      <4>8. Shared'
        BY <1>1, <4>2, <4>7 DEF Shared
      <4>. QED BY <4>6, <4>8
    <3>. QED BY <3>1, <3>2
  <2>3. ASSUME model # Absent PROVE (\A j \in 1..Len(crypto') : crypto'[j].kind = "open") /\ Followed'
    <3>1. (\A j \in 1..Len(crypto) : crypto[j].kind = "open") /\ (Doomed \/ Followed)
      BY <2>1, <2>3 DEF Drawn
    <3>2. \A j \in 1..Len(crypto') : j + 1 \in 1..Len(crypto) /\ crypto'[j] = crypto[j + 1]
      BY <1>2, <2>1, <3>1, OpeningTail
    <3>3. Followed
      <4>1. 1 \in 1..Len(crypto) /\ Opening[1] = f
        BY <1>2, <1>4, <1>10, <2>1, <3>1, OpeningIs
      <4>. QED BY <3>1, <4>1 DEF Doomed
    <3>4. Ready' /\ torn' = 0 =>
            \/ model' = Screened(f) /\ f.at >= torn
            \/ Ready /\ torn = 0 /\ f.kind # "output" /\ model' = model
      <4> SUFFICES ASSUME Ready', torn' = 0
                   PROVE  \/ model' = Screened(f) /\ f.at >= torn
                          \/ Ready /\ torn = 0 /\ f.kind # "output" /\ model' = model
        OBVIOUS
      <4>1. CASE opens
        <5>1. f.at >= torn
          BY <1>1, <1>2, <1>3, <4>1
        <5>. QED BY <1>1, <2>3, <4>1, <5>1
      <4>2. CASE ~opens
        BY <1>1, <2>3, <4>2 DEF Ready
      <4>. QED BY <4>1, <4>2
    <3>5. torn' = torn \/ (torn' = 0 /\ f.at >= torn)
      BY <1>1
    <3>6. Followed'
      BY <1>1, <1>2, <1>3, <2>1, <3>1, <3>3, <3>4, <3>5, FollowedOn
    <3>. QED BY <3>1, <3>2, <3>6
  <2>4. Drawn'
    BY <1>5, <2>3 DEF Drawn
  <2>. QED BY <2>2, <2>4
<1>. QED BY <1>8, <1>9, <1>10 DEF SeedInvariant

\* A snapshot is opened, or does not open.
LEMMA SnapshotOpenedKeeps ==
  ASSUME SeedAssumption, SeedInvariant, NEW i \in DOMAIN crypto, NEW opens \in BOOLEAN, SnapshotOpened(i, opens)
  PROVE  SeedInvariant'
<1>1. SeedTypeOK
  BY DEF SeedInvariant
<1>. QED BY <1>1, SnapshotOpenedMove, FreesKeeps, SeedShownKeeps

\* At the start there is nothing.
LEMMA SeedStart == ASSUME SeedAssumption, SeedInit PROVE SeedInvariant
<1>1. /\ run = 1 /\ live = {} /\ host = 1 /\ printed = 0 /\ frames = <<>> /\ requests = {} /\ model = Absent
      /\ seeding = Absent /\ seed = <<>> /\ pending = {} /\ resolves = Absent /\ crypto = <<>> /\ outOfTurn = FALSE /\ torn = 0
  BY DEF SeedInit
<1>2. Len(<<>>) = 0 /\ DOMAIN <<>> = {} /\ \A S : <<>> \in Seq(S)
  BY EmptySeq
<1>3. 1 \in 1..MaxRuns /\ 0 \in 0..MaxPrinted /\ 1 # Absent
  BY DEF SeedAssumption
<1>4. SeedTypeOK
  <2>1. run \in 1..MaxRuns /\ printed \in 0..MaxPrinted /\ torn \in 0..printed /\ live \subseteq Grants /\ host \in 1..run \cup {Absent}
    BY <1>1, <1>3
  <2>2. /\ frames \in Seq(Sent) /\ seed \in Seq([awaits : {"key", "snapshot", "nothing"}, own : BOOLEAN])
        /\ crypto \in Seq([kind : {"open"}, about : Sent] \cup [kind : {"unwrap"}, about : DOMAIN seed])
    BY <1>1, <1>2
  <2>. QED BY <1>1, <2>1, <2>2 DEF SeedTypeOK
<1>5. Linked
  BY <1>1, <1>2, <1>3 DEF Linked, Rises, Complete
<1>6. Keys /\ Shared /\ Drawn
  BY <1>1, <1>2 DEF Keys, Shared, Drawn
<1>. QED BY <1>4, <1>5, <1>6 DEF SeedInvariant

\* A grant is minted, or expires.
LEMMA StillMoves ==
  ASSUME SeedTypeOK, NEW g \in Grants, Mint(g) \/ Expire(g) PROVE Still /\ live' \subseteq Grants
BY DEF Mint, Expire, Still, SeedTypeOK

\* Every step keeps the invariant.
LEMMA SeedInductive == ASSUME SeedAssumption, SeedInvariant, [SeedNext]_seedVars PROVE SeedInvariant'
<1>1. SeedTypeOK
  BY DEF SeedInvariant
<1>2. CASE UNCHANGED seedVars
  <2>1. Still /\ live' \subseteq Grants
    BY <1>1, <1>2 DEF seedVars, Still, SeedTypeOK
  <2>. QED BY <1>1, <2>1, StillKeeps
<1>3. ASSUME NEW g \in Grants, Mint(g) \/ Expire(g) \/ Revoke(g) PROVE SeedInvariant'
  <2>1. CASE Mint(g) \/ Expire(g)
    BY <1>1, <2>1, StillMoves, StillKeeps
  <2>2. CASE Revoke(g)
    <3>1. CASE Frees
      BY <3>1, FreesKeeps
    <3>2. CASE live' \subseteq Grants /\ UNCHANGED <<run, sourceVars, relayVars, torn, crypto, outOfTurn>>
      BY <1>1, <3>2, StillKeeps DEF Still
    <3>. QED BY <1>1, <2>2, <3>1, <3>2, RevokeMove
  <2>. QED BY <1>3, <2>1, <2>2
<1>4. CASE Retire \/ RevokeAll \/ Resume \/ HostGoes
  BY <1>1, <1>4, RetireMove, RevokeAllMove, ResumeMove, HostGoesMove, FreesKeeps
<1>5. CASE PrintFrame \/ BroadcastScreen
  BY <1>1, <1>5, PrintFrameMove, BroadcastScreenMove, SendsKeeps
<1>6. ASSUME NEW s \in requests, AnswerRequest(s) PROVE SeedInvariant'
  BY <1>1, <1>6, AnswerRequestMove, SendsKeeps
<1>7. CASE HostComes \/ Replaced \/ HandleFrame \/ EnsureModelSeeded
  BY <1>7, HostComesKeeps, ReplacedKeeps, HandleFrameKeeps, EnsureKeeps
<1>8. ASSUME NEW i \in DOMAIN crypto,
             Opened(i) \/ (\E opens \in BOOLEAN : SnapshotOpened(i, opens)) \/ (\E s \in DOMAIN seed : KeyReady(i, s))
      PROVE  SeedInvariant'
  BY <1>8, OpenedKeeps, SnapshotOpenedKeeps, KeyReadyKeeps
<1>9. ASSUME NEW s \in DOMAIN seed, SeedTimesOut(s) PROVE SeedInvariant'
  BY <1>1, <1>9, SeedTimesOutMove, FreesKeeps
<1>. QED BY <1>2, <1>3, <1>4, <1>5, <1>6, <1>7, <1>8, <1>9 DEF SeedNext

\* The inductive invariant
THEOREM SeedInvariantHolds == ASSUME SeedAssumption PROVE SeedSpec => []SeedInvariant
<1>1. SeedInit => SeedInvariant
  BY SeedStart
<1>2. SeedInvariant /\ [SeedNext]_seedVars => SeedInvariant'
  BY SeedInductive
<1>. QED BY <1>1, <1>2, PTL DEF SeedSpec

\* The model, the seeds, the frames and the questions keep their types; a shared
\* promise is always that of a seed that is still its own (mcpEnsureModelSeeded).
THEOREM SeedTypeCorrect == ASSUME SeedAssumption PROVE SeedSpec => []SeedTypeOK
<1>1. SeedInvariant => SeedTypeOK
  BY DEF SeedInvariant
<1>. QED BY <1>1, SeedInvariantHolds, PTL

\* Whatever ended, failed or came late while a seed was under way, a model that a
\* call is given shows a screen of this run with all that followed it, once each
\* (statusPayload's freshModelAvailable, mcpEnsureModelSeeded).
THEOREM ModelIsCurrent == ASSUME SeedAssumption PROVE SeedSpec => []ReadyIsCurrent
<1>1. SeedInvariant => ReadyIsCurrent
  BY DEF SeedInvariant, ReadyIsCurrent, Ready, Drawn, Doomed, Followed
<1>. QED BY <1>1, SeedInvariantHolds, PTL

=============================================================================
