-------------------------- MODULE GpsTrackingProofs --------------------------
(***************************************************************************)
(* Machine-checked facts about the GPS updates and the batch writers, for  *)
(* any number of instances, trips, updates and faults: positions stay      *)
(* between reported ones, and rows follow the events published.            *)
(***************************************************************************)
EXTENDS GpsTracking, SequenceTheorems, WellFoundedInduction, TLAPS

Event == [type : {"location", "deviation"}, state : LocationState]

-----------------------------------------------------------------------------
(* Selections of a sequence. *)

\* What is cut out of a selection leaves a selection.
LEMMA CutSelection ==
    ASSUME NEW E, NEW a \in Seq(E), NEW b \in Seq(E), NEW c \in Seq(E), NEW t \in Seq(E),
           IsSelection((a \o b) \o c, t)
    PROVE  IsSelection(a \o c, t)
<1> DEFINE whole == (a \o b) \o c
           left == a \o c
<1>1. PICK la \in Nat, lb \in Nat, lc \in Nat : la = Len(a) /\ lb = Len(b) /\ lc = Len(c)
  OBVIOUS
<1>2. whole \in Seq(E) /\ Len(whole) = la + lb + lc /\ Len(left) = la + lc
  BY <1>1
<1>3. /\ \A j \in 1 .. la : whole[j] = a[j] /\ left[j] = a[j]
      /\ \A j \in la + 1 .. la + lc : left[j] = c[j - la] /\ whole[j + lb] = c[j - la]
  <2>1. a \o b \in Seq(E) /\ Len(a \o b) = la + lb /\ \A j \in 1 .. la : (a \o b)[j] = a[j]
    BY <1>1
  <2>. QED
    BY <1>1, <2>1, ConcatProperties, SMTT(30)
<1>4. PICK k \in [1 .. Len(whole) -> 1 .. Len(t)] :
         /\ \A j \in 1 .. Len(whole) : whole[j] = t[k[j]]
         /\ \A j, l \in 1 .. Len(whole) : j < l => k[j] < k[l]
  BY DEF IsSelection
<1> HIDE DEF whole, left
<1> DEFINE from(j) == IF j <= la THEN j ELSE j + lb
           k2 == [j \in 1 .. la + lc |-> k[from(j)]]
<1>5. \A j \in 1 .. la + lc : from(j) \in 1 .. Len(whole) /\ left[j] = whole[from(j)]
  <2>1. ASSUME NEW j \in 1 .. la + lc PROVE from(j) \in 1 .. Len(whole) /\ left[j] = whole[from(j)]
    <3>1. CASE j <= la
      BY <1>2, <1>3, <3>1
    <3>2. CASE ~(j <= la)
      <4>1. j \in la + 1 .. la + lc /\ j + lb \in 1 .. la + lb + lc
        BY <3>2
      <4>. QED
        BY <1>2, <1>3, <3>2, <4>1
    <3>. QED
      BY <3>1, <3>2
  <2>. QED
    BY <2>1
<1>6. \A j, l \in 1 .. la + lc : j < l => from(j) < from(l)
  OBVIOUS
<1> HIDE DEF from
<1>7. k2 \in [1 .. la + lc -> 1 .. Len(t)]
  BY <1>4, <1>5
<1>8. \A j \in 1 .. la + lc : left[j] = t[k2[j]]
  BY <1>4, <1>5
<1>9. \A j, l \in 1 .. la + lc : j < l => k2[j] < k2[l]
  BY <1>4, <1>5, <1>6
<1> HIDE DEF k2
<1>10. IsSelection(left, t)
  BY <1>2, <1>7, <1>8, <1>9 DEF IsSelection
<1>. QED
  BY <1>10 DEF left

\* A selection stays one when the sequence grows, and may grow with it.
LEMMA GrowSelection ==
    ASSUME NEW E, NEW s \in Seq(E), NEW t \in Seq(E), NEW e \in E, IsSelection(s, t)
    PROVE  IsSelection(s, Append(t, e)) /\ IsSelection(Append(s, e), Append(t, e))
<1>1. PICK k \in [1 .. Len(s) -> 1 .. Len(t)] :
         /\ \A j \in 1 .. Len(s) : s[j] = t[k[j]]
         /\ \A j, l \in 1 .. Len(s) : j < l => k[j] < k[l]
  BY DEF IsSelection
<1>2. PICK m \in Nat, n \in Nat : m = Len(s) /\ n = Len(t)
  OBVIOUS
<1> DEFINE s2 == Append(s, e)
           t2 == Append(t, e)
<1>3. /\ Len(s2) = m + 1 /\ Len(t2) = n + 1 /\ s2[m + 1] = e /\ t2[n + 1] = e
      /\ \A j \in 1 .. m : s2[j] = s[j]
      /\ \A j \in 1 .. n : t2[j] = t[j]
  BY <1>2
<1> HIDE DEF s2, t2
<1>4. \A j \in 1 .. m : k[j] \in 1 .. n /\ k[j] \in 1 .. n + 1 /\ s[j] = t2[k[j]]
  BY <1>1, <1>2, <1>3
<1>5. IsSelection(s, t2)
  <2>1. k \in [1 .. m -> 1 .. n + 1]
    BY <1>1, <1>2, <1>4
  <2>. QED
    BY <1>1, <1>2, <1>3, <1>4, <2>1 DEF IsSelection
<1> DEFINE k2 == [j \in 1 .. m + 1 |-> IF j = m + 1 THEN n + 1 ELSE k[j]]
<1>6. k2[m + 1] = n + 1 /\ \A j \in 1 .. m : k2[j] = k[j] /\ j \in 1 .. m + 1
  OBVIOUS
<1>7. \A j \in 1 .. m + 1 : j = m + 1 \/ j \in 1 .. m
  OBVIOUS
<1>8. k2 \in [1 .. m + 1 -> 1 .. n + 1]
  <2>1. \A j \in 1 .. m + 1 : k2[j] \in 1 .. n + 1
    <3> HIDE DEF k2
    <3>. QED
      BY <1>4, <1>6, <1>7
  <2>. QED
    BY <2>1
<1> HIDE DEF k2
<1>9. \A j \in 1 .. m + 1 : s2[j] = t2[k2[j]]
  BY <1>3, <1>4, <1>6, <1>7
<1>10. ASSUME NEW j \in 1 .. m + 1, NEW l \in 1 .. m + 1, j < l PROVE k2[j] < k2[l]
  <2>1. j \in 1 .. m
    BY <1>10
  <2>2. CASE l \in 1 .. m
    BY <1>1, <1>2, <1>6, <1>10, <2>1, <2>2
  <2>3. CASE l = m + 1
    BY <1>4, <1>6, <2>1, <2>3
  <2>. QED
    BY <1>7, <2>2, <2>3
<1>11. IsSelection(s2, t2)
  BY <1>3, <1>8, <1>9, <1>10 DEF IsSelection
<1>. QED
  BY <1>5, <1>11 DEF s2, t2

-----------------------------------------------------------------------------
(* What an instance holds. *)

\* Taking the first of b to the end of a.
LEMMA MoveHead ==
    ASSUME NEW E, NEW a \in Seq(E), NEW b \in Seq(E), b # <<>>
    PROVE  Append(a, Head(b)) \o Tail(b) = a \o b /\ Append(a, Head(b)) = a \o <<Head(b)>>
<1>1. Head(b) \in E /\ Tail(b) \in Seq(E) /\ Append(a, Head(b)) \in Seq(E)
  OBVIOUS
<1>2. Append(a, Head(b)) = a \o <<Head(b)>>
  BY <1>1, AppendIsConcat
<1> DEFINE l == Append(a, Head(b)) \o Tail(b)
           r == a \o b
<1>3. l \in Seq(E) /\ r \in Seq(E) /\ Len(l) = Len(r) /\ Len(r) = Len(a) + Len(b)
  BY <1>1
<1>4. ASSUME NEW j \in 1 .. Len(r) PROVE l[j] = r[j]
  BY <1>1, <1>3
<1>5. l = r
  <2> HIDE DEF l, r
  <2>. QED
    BY <1>3, <1>4, SeqEqual
<1>. QED
  BY <1>2, <1>5

\* Rows as events.
LEMMA TakenRows ==
    ASSUME NEW r \in Seq(LocationState), NEW s \in Seq(LocationState)
    PROVE  /\ Taken(r) \in Seq(Event)
           /\ Taken(r \o s) = Taken(r) \o Taken(s)
           /\ \A x \in LocationState : Taken(<<x>>) = <<[type |-> "location", state |-> x]>>
<1>1. ASSUME NEW q \in Seq(LocationState)
      PROVE  /\ Taken(q) \in Seq(Event) /\ Len(Taken(q)) = Len(q)
             /\ \A j \in 1 .. Len(q) : Taken(q)[j] = [type |-> "location", state |-> q[j]]
  <2>1. PICK n \in Nat : n = Len(q) /\ DOMAIN q = 1 .. n
    OBVIOUS
  <2>2. \A j \in 1 .. n : [type |-> "location", state |-> q[j]] \in Event
    BY <2>1 DEF Event
  <2>3. Taken(q) = [j \in 1 .. n |-> [type |-> "location", state |-> q[j]]]
    BY <2>1 DEF Taken
  <2>. QED
    BY <2>1, <2>2, <2>3
<1>2. r \o s \in Seq(LocationState) /\ Len(r \o s) = Len(r) + Len(s)
  OBVIOUS
<1> DEFINE l == Taken(r \o s)
           m == Taken(r) \o Taken(s)
<1>3. l \in Seq(Event) /\ m \in Seq(Event) /\ Len(l) = Len(r) + Len(s) /\ Len(m) = Len(r) + Len(s)
  <2>1. l \in Seq(Event) /\ Len(l) = Len(r) + Len(s)
    BY <1>1, <1>2
  <2>2. Taken(r) \in Seq(Event) /\ Len(Taken(r)) = Len(r) /\ Taken(s) \in Seq(Event) /\ Len(Taken(s)) = Len(s)
    BY <1>1
  <2>3. m \in Seq(Event) /\ Len(m) = Len(r) + Len(s)
    BY <2>2, SMTT(30)
  <2>. QED
    BY <2>1, <2>3
<1>4. ASSUME NEW j \in 1 .. Len(r) + Len(s) PROVE l[j] = m[j]
  <2>1. l[j] = [type |-> "location", state |-> (r \o s)[j]]
    BY <1>1, <1>2
  <2>2. CASE j <= Len(r)
    <3>1. j \in 1 .. Len(r) /\ (r \o s)[j] = r[j]
      BY <2>2
    <3>2. m[j] = Taken(r)[j]
      BY <1>1, <3>1, ConcatProperties
    <3>. QED
      BY <1>1, <2>1, <3>1, <3>2
  <2>3. CASE ~(j <= Len(r))
    <3>1. j - Len(r) \in 1 .. Len(s) /\ (r \o s)[j] = s[j - Len(r)]
      BY <2>3
    <3>2. m[j] = Taken(s)[j - Len(r)]
      BY <1>1, <2>3, ConcatProperties
    <3>. QED
      BY <1>1, <2>1, <3>1, <3>2
  <2>. QED
    BY <2>2, <2>3
<1>5. l = m
  <2> HIDE DEF l, m
  <2>. QED
    BY <1>3, <1>4, SeqEqual
<1>6. ASSUME NEW x \in LocationState PROVE Taken(<<x>>) = <<[type |-> "location", state |-> x]>>
  BY DEF Taken
<1>. QED
  BY <1>1, <1>5, <1>6

\* What an instance holds, said of its queues.
Hold(tb, ba, ch, in) == Taken(tb \o ba) \o ch \o in

\* However events move along the queues or are dropped from them, what is
\* left is a selection of what was there.
LEMMA QueuesMove ==
    ASSUME NEW tb \in Seq(LocationState), NEW ba \in Seq(LocationState), NEW ch \in Seq(Event),
           NEW in \in Seq(Event), NEW pub \in Seq(Event), IsSelection(Hold(tb, ba, ch, in), pub)
    PROVE  /\ in # <<>> => /\ IsSelection(Hold(tb, ba, Append(ch, Head(in)), Tail(in)), pub)
                           /\ IsSelection(Hold(tb, ba, ch, Tail(in)), pub)
           /\ IsSelection(Hold(tb, ba, ch, <<>>), pub)
           /\ ch # <<>> => /\ IsSelection(Hold(tb, ba, Tail(ch), in), pub)
                           /\ Head(ch).type = "location" =>
                                IsSelection(Hold(tb, Append(ba, Head(ch).state), Tail(ch), in), pub)
           /\ IsSelection(Hold(tb \o ba, <<>>, ch, in), pub)
           /\ IsSelection(Hold(tb, <<>>, ch, in), pub)
           /\ IsSelection(Hold(tb, <<>>, <<>>, <<>>), pub)
<1>1. PICK T : T = Taken(tb \o ba)
  OBVIOUS
<1>a. \A a, b \in Seq(Event) : a \o b \in Seq(Event) /\ a \o <<>> = a
  OBVIOUS
<1>b. \A a, b, c \in Seq(Event) : (a \o b) \o c = a \o (b \o c)
  <2>1. ASSUME NEW a \in Seq(Event), NEW b \in Seq(Event), NEW c \in Seq(Event)
        PROVE  (a \o b) \o c = a \o (b \o c)
    BY SMTT(30)
  <2>. QED
    BY <2>1, Zenon
<1>c. \A a, b, c \in Seq(Event) : IsSelection((a \o b) \o c, pub) => IsSelection(a \o c, pub)
  BY CutSelection
<1>e. <<>> \in Seq(Event)
  OBVIOUS
<1>2. T \in Seq(Event) /\ Hold(tb, ba, ch, in) = (T \o ch) \o in /\ T \o ch \in Seq(Event)
  <2>1. tb \o ba \in Seq(LocationState)
    OBVIOUS
  <2>2. T \in Seq(Event)
    BY <1>1, <2>1, TakenRows
  <2>. QED
    BY <1>1, <2>2 DEF Hold
<1>3. IsSelection((T \o ch) \o in, pub)
  BY <1>2
<1>4. \A c2, i2 : Hold(tb, ba, c2, i2) = (T \o c2) \o i2
  BY <1>1 DEF Hold
<1>5. ASSUME in # <<>>
      PROVE  /\ IsSelection(Hold(tb, ba, Append(ch, Head(in)), Tail(in)), pub)
             /\ IsSelection(Hold(tb, ba, ch, Tail(in)), pub)
  <2>1. Head(in) \in Event /\ Tail(in) \in Seq(Event) /\ <<Head(in)>> \in Seq(Event)
    BY <1>5
  <2>2. T \o Append(ch, Head(in)) = (T \o ch) \o <<Head(in)>>
    <3>1. Append(ch, Head(in)) = ch \o <<Head(in)>>
      BY <2>1, AppendIsConcat
    <3>. QED
      BY <1>2, <2>1, <3>1, <1>b
  <2>3. ((T \o ch) \o <<Head(in)>>) \o Tail(in) = (T \o ch) \o in
    BY <1>2, <1>5, MoveHead
  <2>4. IsSelection((T \o ch) \o Tail(in), pub)
    BY <1>2, <1>3, <2>1, <2>3, <1>c
  <2>. QED
    BY <1>3, <1>4, <2>2, <2>3, <2>4
<1>6. IsSelection(Hold(tb, ba, ch, <<>>), pub)
  <2>1. ((T \o ch) \o in) \o <<>> = (T \o ch) \o in
    BY <1>2, <1>a
  <2>2. IsSelection((T \o ch) \o <<>>, pub)
    BY <1>2, <1>3, <1>e, <2>1, <1>c
  <2>. QED
    BY <1>4, <2>2
<1>7. ASSUME ch # <<>>
      PROVE  /\ IsSelection(Hold(tb, ba, Tail(ch), in), pub)
             /\ Head(ch).type = "location" => IsSelection(Hold(tb, Append(ba, Head(ch).state), Tail(ch), in), pub)
  <2>1. Head(ch) \in Event /\ Tail(ch) \in Seq(Event) /\ <<Head(ch)>> \in Seq(Event)
    BY <1>7
  <2>2. Tail(ch) \o in \in Seq(Event) /\ T \o <<Head(ch)>> \in Seq(Event)
    BY <1>2, <2>1, <1>a
  <2>3. (T \o <<Head(ch)>>) \o Tail(ch) = T \o ch
    BY <1>2, <1>7, MoveHead
  <2>4. (T \o <<Head(ch)>>) \o (Tail(ch) \o in) = (T \o ch) \o in
    <3>1. ((T \o <<Head(ch)>>) \o Tail(ch)) \o in = (T \o <<Head(ch)>>) \o (Tail(ch) \o in)
      <4>1. PICK a \in Seq(Event) : a = T \o <<Head(ch)>>
        BY <2>2
      <4>. QED
        BY <2>1, <4>1, <1>b
    <3>. QED
      BY <2>3, <3>1, Zenon
  <2>5. IsSelection(T \o (Tail(ch) \o in), pub)
    BY <1>2, <1>3, <2>1, <2>2, <2>4, <1>c
  <2>6. T \o (Tail(ch) \o in) = (T \o Tail(ch)) \o in
    BY <1>2, <2>1, <1>b, ZenonT(60)
  <2>7. ASSUME Head(ch).type = "location"
        PROVE  IsSelection(Hold(tb, Append(ba, Head(ch).state), Tail(ch), in), pub)
    <3>1. PICK x \in LocationState : x = Head(ch).state /\ Head(ch) = [type |-> "location", state |-> x]
      BY <2>1, <2>7 DEF Event
    <3>2. tb \o Append(ba, x) = (tb \o ba) \o <<x>> /\ tb \o ba \in Seq(LocationState) /\ <<x>> \in Seq(LocationState)
      BY AppendIsConcat, ConcatAssociative
    <3>3. Taken(tb \o Append(ba, x)) = T \o <<Head(ch)>>
      BY <1>1, <3>1, <3>2, TakenRows
    <3>4. Hold(tb, Append(ba, x), Tail(ch), in) = (T \o ch) \o in
      BY <2>3, <3>3 DEF Hold
    <3>. QED
      BY <1>3, <3>1, <3>4
  <2>. QED
    BY <1>4, <2>5, <2>6, <2>7
<1>8. tb \o ba \in Seq(LocationState) /\ (tb \o ba) \o <<>> = tb \o ba /\ tb \o <<>> = tb
  BY ConcatProperties, ConcatEmptySeq
<1>9. IsSelection(Hold(tb \o ba, <<>>, ch, in), pub)
  BY <1>1, <1>3, <1>8 DEF Hold
<1>10. PICK A, B : A = Taken(tb) /\ B = Taken(ba)
  OBVIOUS
<1>11. A \in Seq(Event) /\ B \in Seq(Event) /\ T = A \o B
  BY <1>1, <1>10, TakenRows
<1>12. IsSelection((A \o ch) \o in, pub)
  <2>1. ch \o in \in Seq(Event)
    BY <1>a
  <2>2. (A \o B) \o (ch \o in) = (T \o ch) \o in
    <3>1. ((A \o B) \o ch) \o in = (A \o B) \o (ch \o in)
      <4>1. PICK a \in Seq(Event) : a = A \o B
        BY <1>11, <1>a
      <4>. QED
        BY <4>1, <1>b
    <3>. QED
      BY <1>11, <3>1, Zenon
  <2>3. IsSelection(A \o (ch \o in), pub)
    BY <1>3, <1>11, <2>1, <2>2, <1>c
  <2>. QED
    BY <1>11, <2>3, <1>b, ZenonT(60)
<1>13. \A c2, i2 : Hold(tb, <<>>, c2, i2) = (A \o c2) \o i2
  BY <1>8, <1>10 DEF Hold
<1>14. IsSelection((A \o <<>>) \o <<>>, pub)
  <2>1. ch \o in \in Seq(Event)
    BY <1>a
  <2>2. (A \o (ch \o in)) \o <<>> = (A \o ch) \o in
    <3>1. (A \o (ch \o in)) \o <<>> = A \o (ch \o in)
      BY <1>11, <2>1, <1>a, Zenon
    <3>2. A \o (ch \o in) = (A \o ch) \o in
      BY <1>11, <1>b, ZenonT(60)
    <3>. QED
      BY <3>1, <3>2, Zenon
  <2>3. IsSelection(A \o <<>>, pub)
    BY <1>11, <1>12, <1>e, <2>1, <2>2, <1>c
  <2>. QED
    BY <1>11, <2>3, <1>a
<1>. QED
  BY <1>5, <1>6, <1>7, <1>9, <1>12, <1>13, <1>14

-----------------------------------------------------------------------------
(* The inductive invariant. *)

Steps == {"new", "limited", "admitted", "loaded", "store", "publish", "deviation", "done", "failed", "killed"}
MaybeState == LocationState \cup {None}
UpdSet == [step : Steps, at : Instances \cup {None}, trip : Trips \cup {None}, raw : Nat,
           prev : MaybeState, state : MaybeState]

TrackTypeOK ==
    /\ upd \in [Updates -> UpdSet]
    /\ location \in [Trips -> MaybeState]
    /\ route \in [Trips -> SUBSET Nat]
    /\ published \in Seq(Event)

QueueTypeOK ==
    /\ inbox \in [Instances -> Seq(Event)] /\ chan \in [Instances -> Seq(Event)]
    /\ batch \in [Instances -> Seq(LocationState)] /\ table \in [Instances -> Seq(LocationState)]

\* What an update knows at each step of its processing.
UpdateKnows ==
    \A u \in Updates :
       /\ upd[u].step = "new" => upd[u].state = None
       /\ upd[u].step \in {"admitted", "loaded"} => upd[u].trip \in Trips
       /\ upd[u].step \in {"store", "publish", "deviation"} => upd[u].state # None

\* The positions reported for each trip.
Reported == [t \in Trips |-> {upd[u].raw : u \in {v \in Updates : upd[v].state # None /\ upd[v].trip = t}}]

Within(s, raws) == \E a, b \in raws : a <= s.pos /\ s.pos <= b
Good(s, t, R) == s # None => s.trip = t /\ Within(s, R[t])

\* Every position that is stored, published or on its way is of its trip, and
\* lies between positions reported for it.
AllWithin ==
    /\ \A t \in Trips : Good(location[t], t, Reported)
    /\ \A u \in Updates : Good(upd[u].prev, upd[u].trip, Reported) /\ Good(upd[u].state, upd[u].trip, Reported)
    /\ \A k \in DOMAIN published : Good(published[k].state, published[k].state.trip, Reported)

TrackOK == TrackTypeOK /\ UpdateKnows /\ AllWithin
GpsInv == TrackOK /\ QueueTypeOK /\ RowsFollowEvents

-----------------------------------------------------------------------------
(* Smoothing. *)

\* smoothingAlpha weighs the two positions: the result is between them.
LEMMA SmoothIsBetween ==
    ASSUME NEW raw \in Nat, NEW prev \in Nat
    PROVE  /\ SmoothGPS(raw, prev) \in Nat
           /\ prev # 0 /\ raw <= prev => raw <= SmoothGPS(raw, prev) /\ SmoothGPS(raw, prev) <= prev
           /\ prev # 0 /\ prev <= raw => prev <= SmoothGPS(raw, prev) /\ SmoothGPS(raw, prev) <= raw
           /\ prev = 0 => SmoothGPS(raw, prev) = raw
<1>1. CASE prev = 0
  BY <1>1 DEF SmoothGPS
<1>2. CASE prev # 0
  <2>1. SmoothGPS(raw, prev) = (3 * raw + prev) \div 4
    BY <1>2 DEF SmoothGPS
  <2>. QED
    BY <1>2, <2>1
<1>. QED
  BY <1>1, <1>2

\* A set of natural numbers has a least element.
LEMMA Smallest ==
    ASSUME NEW T \in SUBSET Nat, T # {}
    PROVE  \E x \in T : \A y \in T : x <= y
<1> DEFINE R == OpToRel(<, Nat)
<1>1. IsWellFoundedOn(R, Nat)
  BY NatLessThanWellFounded
<1>2. R = {ss \in Nat \X Nat : ss[1] < ss[2]}
  BY DEF OpToRel
<1> HIDE DEF R
<1>3. PICK x \in T : \A y \in T : ~ (<<y, x>> \in R)
  BY <1>1, WFMin
<1>4. \A a, b \in Nat : a < b => <<a, b>> \in R
  BY <1>2
<1>5. ASSUME NEW y \in T PROVE x <= y
  <2>1. y < x => <<y, x>> \in R
    BY <1>4
  <2>2. ~(y < x)
    BY <1>3, <2>1
  <2>. QED
    BY <2>2
<1>. QED
  BY <1>5

\* A route has a nearest point.
LEMMA DeviationIsADistance ==
    ASSUME NEW points \in SUBSET Nat, NEW pos \in Nat
    PROVE  Deviation(points, pos) \in Nat
<1> DEFINE d == {Abs(pos - q) : q \in points}
<1>1. d \in SUBSET Nat
  BY DEF Abs
<1>2. CASE points = {}
  BY <1>2 DEF Deviation
<1>3. CASE points # {}
  <2>1. d # {}
    BY <1>3
  <2>2. Deviation(points, pos) = CHOOSE m \in d : \A n \in d : m <= n
    BY <1>3 DEF Deviation, MinDistanceToPolyline
  <2> HIDE DEF d
  <2>3. \E m \in d : \A n \in d : m <= n
    BY <1>1, <2>1, Smallest
  <2>4. (CHOOSE m \in d : \A n \in d : m <= n) \in d
    BY <2>3
  <2>. QED
    BY <1>1, <2>2, <2>4
<1>. QED
  BY <1>2, <1>3

\* More reports take nothing away.
LEMMA GoodGrows ==
    ASSUME NEW s \in MaybeState, NEW t, NEW R, NEW R2, \A x \in Trips : R[x] \subseteq R2[x], Good(s, t, R)
    PROVE  Good(s, t, R2)
<1>1. s # None => s.trip \in Trips
  BY DEF MaybeState, LocationState
<1>. QED
  BY <1>1 DEF Good, Within

\* No step forgets what was reported.
Remembered ==
    \A v \in Updates : upd[v].state # None => /\ upd'[v].state # None
                                              /\ upd'[v].raw = upd[v].raw /\ upd'[v].trip = upd[v].trip

LEMMA ReportedGrows ==
    ASSUME Remembered
    PROVE  \A t \in Trips : Reported[t] \subseteq Reported'[t]
<1>1. ASSUME NEW t \in Trips, NEW x \in Reported[t] PROVE x \in Reported'[t]
  <2>1. PICK v \in Updates : upd[v].state # None /\ upd[v].trip = t /\ x = upd[v].raw
    BY <1>1 DEF Reported
  <2>2. upd'[v].state # None /\ upd'[v].trip = t /\ x = upd'[v].raw
    BY <2>1 DEF Remembered
  <2>3. Reported'[t] = {upd'[u].raw : u \in {w \in Updates : upd'[w].state # None /\ upd'[w].trip = t}}
    BY DEF Reported
  <2>. QED
    BY <2>2, <2>3
<1>. QED
  BY <1>1

\* Updates a step does not touch, and what is stored and published, stay good.
LEMMA StayGood ==
    ASSUME TrackOK, Remembered
    PROVE  /\ \A t \in Trips : Good(location[t], t, Reported')
           /\ \A u \in Updates : Good(upd[u].prev, upd[u].trip, Reported') /\ Good(upd[u].state, upd[u].trip, Reported')
           /\ \A k \in DOMAIN published : Good(published[k].state, published[k].state.trip, Reported')
<1>1. PICK R, R2 : R = Reported /\ R2 = Reported'
  OBVIOUS
<1>2. \A t \in Trips : R[t] \subseteq R2[t]
  BY <1>1, ReportedGrows
<1>3. \A t \in Trips : location[t] \in MaybeState
  BY DEF TrackOK, TrackTypeOK
<1>4. \A u \in Updates : upd[u].prev \in MaybeState /\ upd[u].state \in MaybeState
  BY DEF TrackOK, TrackTypeOK, UpdSet
<1>5. \A k \in DOMAIN published : published[k].state \in MaybeState
  <2>1. \A k \in DOMAIN published : published[k] \in Event
    BY DEF TrackOK, TrackTypeOK
  <2>. QED
    BY <2>1 DEF Event, MaybeState
<1>6. \A s \in MaybeState : \A t : Good(s, t, R) => Good(s, t, R2)
  BY <1>2, GoodGrows
<1>. QED
  BY <1>1, <1>3, <1>4, <1>5, <1>6 DEF TrackOK, AllWithin

-----------------------------------------------------------------------------
(* The steps of an update. *)

\* A step that only moves updates on: everything they know stays.
LEMMA MovesOn ==
    ASSUME TrackOK, upd' \in [Updates -> UpdSet], UNCHANGED <<location, route, published>>, UpdateKnows',
           \A u \in Updates : /\ upd'[u].prev = upd[u].prev /\ upd'[u].state = upd[u].state
                               /\ upd'[u].trip = upd[u].trip /\ upd'[u].raw = upd[u].raw
    PROVE  TrackOK'
<1>1. Remembered
  BY DEF Remembered
<1>2. TrackTypeOK'
  BY DEF TrackOK, TrackTypeOK
<1>3. AllWithin'
  BY <1>1, StayGood DEF AllWithin
<1>. QED
  BY <1>2, <1>3 DEF TrackOK

\* Next1: the update goes to its next step.
LEMMA NextStep ==
    ASSUME TrackOK, NEW u \in Updates, NEW step \in Steps, upd' = Next1(u, step),
           step \in {"limited", "done", "failed"} \/ (step \in {"publish", "deviation"} /\ upd[u].state # None)
    PROVE  /\ upd' \in [Updates -> UpdSet] /\ UpdateKnows'
           /\ \A v \in Updates : /\ upd'[v].prev = upd[v].prev /\ upd'[v].state = upd[v].state
                                  /\ upd'[v].trip = upd[v].trip /\ upd'[v].raw = upd[v].raw
<1>1. upd \in [Updates -> UpdSet] /\ upd' = [upd EXCEPT ![u].step = step]
  BY DEF TrackOK, TrackTypeOK, Next1
<1>2. upd' \in [Updates -> UpdSet]
  BY <1>1 DEF UpdSet
<1>3. \A v \in Updates : /\ upd'[v].prev = upd[v].prev /\ upd'[v].state = upd[v].state
                         /\ upd'[v].trip = upd[v].trip /\ upd'[v].raw = upd[v].raw
                         /\ v # u => upd'[v].step = upd[v].step
                         /\ v = u => upd'[v].step = step
  BY <1>1 DEF UpdSet
<1>4. UpdateKnows'
  BY <1>3 DEF TrackOK, UpdateKnows
<1>. QED
  BY <1>2, <1>3, <1>4

\* A new update knows nothing yet.
LEMMA UpdateStep ==
    ASSUME TrackOK, NEW u \in Updates, NEW i \in Instances, NEW t \in Trips, NEW raw \in Positions, Update(u, i, t, raw)
    PROVE  TrackOK'
<1> DEFINE w == [step |-> IF t \in window THEN "limited" ELSE "admitted",
                 at |-> i, trip |-> t, raw |-> raw, prev |-> None, state |-> None]
<1>1. /\ upd \in [Updates -> UpdSet] /\ upd' = [upd EXCEPT ![u] = w] /\ upd[u].step = "new"
      /\ UNCHANGED <<location, route, published>>
  BY DEF TrackOK, TrackTypeOK, Update
<1>2. w \in UpdSet
  BY GpsConstants DEF UpdSet, Steps, MaybeState
<1>3. /\ w.step \in {"limited", "admitted"} /\ w.trip = t /\ w.prev = None /\ w.state = None
  OBVIOUS
<1> HIDE DEF w
<1>4. /\ upd'[u] = w /\ \A v \in Updates : v # u => upd'[v] = upd[v]
      /\ upd' \in [Updates -> UpdSet]
  BY <1>1, <1>2
<1>5. Remembered
  BY <1>1, <1>4 DEF TrackOK, UpdateKnows, Remembered
<1>6. UpdateKnows'
  BY <1>3, <1>4 DEF TrackOK, UpdateKnows
<1>7. TrackTypeOK'
  BY <1>1, <1>4 DEF TrackOK, TrackTypeOK
<1>8. Good(w.prev, w.trip, Reported') /\ Good(w.state, w.trip, Reported')
  BY <1>3 DEF Good
<1>9. AllWithin'
  BY <1>1, <1>4, <1>5, <1>8, StayGood DEF AllWithin
<1>. QED
  BY <1>6, <1>7, <1>9 DEF TrackOK

\* The previous position is the stored one of the trip, or none.
LEMMA LoadPreviousStep ==
    ASSUME TrackOK, NEW u \in Updates, NEW ok \in BOOLEAN, LoadPrevious(u, ok)
    PROVE  TrackOK'
<1> DEFINE prev == IF ok THEN location[upd[u].trip] ELSE None
<1>1. /\ upd \in [Updates -> UpdSet] /\ upd' = [upd EXCEPT ![u].step = "loaded", ![u].prev = prev]
      /\ upd[u].step = "admitted" /\ UNCHANGED <<location, route, published>>
  BY DEF TrackOK, TrackTypeOK, LoadPrevious
<1>2. upd[u].trip \in Trips
  BY <1>1 DEF TrackOK, UpdateKnows
<1>3. prev \in MaybeState
  BY <1>2 DEF TrackOK, TrackTypeOK, MaybeState
<1>4. prev # None => prev = location[upd[u].trip]
  OBVIOUS
<1> HIDE DEF prev
<1>5. /\ upd' \in [Updates -> UpdSet]
      /\ upd'[u].step = "loaded" /\ upd'[u].prev = prev /\ upd'[u].state = upd[u].state
      /\ upd'[u].trip = upd[u].trip /\ upd'[u].raw = upd[u].raw
      /\ \A v \in Updates : v # u => upd'[v] = upd[v]
  BY <1>1, <1>3 DEF UpdSet, Steps
<1>6. Remembered
  BY <1>5 DEF Remembered
<1>7. UpdateKnows'
  BY <1>2, <1>5 DEF TrackOK, UpdateKnows
<1>8. TrackTypeOK'
  BY <1>1, <1>5 DEF TrackOK, TrackTypeOK
<1>9. Good(prev, upd[u].trip, Reported')
  BY <1>2, <1>4, <1>6, StayGood DEF Good
<1>10. AllWithin'
  BY <1>1, <1>5, <1>6, <1>9, StayGood DEF AllWithin
<1>. QED
  BY <1>7, <1>8, <1>10 DEF TrackOK

\* The new position is the reported one or lies between it and the previous.
LEMMA ComputeStep ==
    ASSUME TrackOK, NEW u \in Updates, Compute(u)
    PROVE  TrackOK'
<1> DEFINE w == upd[u]
           pos == IF w.prev = None THEN w.raw ELSE SmoothGPS(w.raw, w.prev.pos)
           st == [update |-> u, trip |-> w.trip, pos |-> pos, deviation |-> Deviation(route[w.trip], pos)]
<1>1. /\ upd \in [Updates -> UpdSet] /\ w.step = "loaded" /\ UNCHANGED <<location, route, published>>
      /\ upd' = [upd EXCEPT ![u].step = "store", ![u].prev = None, ![u].state = st]
  BY DEF TrackOK, TrackTypeOK, Compute
<1>2. w.trip \in Trips /\ w.raw \in Nat /\ w.prev \in MaybeState
  BY <1>1 DEF TrackOK, UpdateKnows, UpdSet
<1>3. w.prev # None => w.prev.pos \in Nat
  BY <1>2 DEF MaybeState, LocationState
<1>4. pos \in Nat
  BY <1>2, <1>3, SmoothIsBetween
<1>5. st \in LocationState
  <2>1. route[w.trip] \in SUBSET Nat
    BY <1>2 DEF TrackOK, TrackTypeOK
  <2> HIDE DEF pos, w
  <2>2. Deviation(route[w.trip], pos) \in Nat
    BY <1>4, <2>1, DeviationIsADistance
  <2>. QED
    BY <1>2, <1>4, <2>2 DEF LocationState
<1>6. st # None /\ st.trip = w.trip /\ st.pos = pos
  BY <1>5, GpsConstants
<1> HIDE DEF st
<1>7. /\ upd' \in [Updates -> UpdSet]
      /\ upd'[u].step = "store" /\ upd'[u].prev = None /\ upd'[u].state = st
      /\ upd'[u].trip = w.trip /\ upd'[u].raw = w.raw
      /\ \A v \in Updates : v # u => upd'[v] = upd[v]
  <2>1. /\ upd[u] \in UpdSet /\ upd'[u] = [upd[u] EXCEPT !.step = "store", !.prev = None, !.state = st]
        /\ \A v \in Updates : v # u => upd'[v] = upd[v]
        /\ DOMAIN upd' = Updates /\ upd' = [v \in Updates |-> upd'[v]]
    BY <1>1
  <2>2. st \in MaybeState /\ None \in MaybeState /\ "store" \in Steps
    BY <1>5 DEF MaybeState, Steps
  <2>3. upd'[u] \in UpdSet
    BY <2>1, <2>2 DEF UpdSet
  <2>4. \A v \in Updates : upd'[v] \in UpdSet
    BY <1>1, <2>1, <2>3
  <2>5. upd' \in [Updates -> UpdSet]
    BY <2>1, <2>4
  <2>6. /\ upd'[u].step = "store" /\ upd'[u].prev = None /\ upd'[u].state = st
        /\ upd'[u].trip = w.trip /\ upd'[u].raw = w.raw
    BY <2>1 DEF UpdSet
  <2>. QED
    BY <2>1, <2>5, <2>6
<1>8. Remembered
  BY <1>6, <1>7 DEF Remembered
<1>9. UpdateKnows'
  BY <1>6, <1>7 DEF TrackOK, UpdateKnows
<1>10. TrackTypeOK'
  BY <1>1, <1>7 DEF TrackOK, TrackTypeOK
<1>11. w.raw \in Reported'[w.trip]
  <2>1. Reported'[w.trip] = {upd'[x].raw : x \in {y \in Updates : upd'[y].state # None /\ upd'[y].trip = w.trip}}
    BY <1>2 DEF Reported
  <2>. QED
    BY <1>6, <1>7, <2>1
<1>12. Good(st, w.trip, Reported')
  <2>1. CASE w.prev = None
    BY <1>2, <1>6, <1>11, <2>1 DEF Good, Within
  <2>2. CASE w.prev # None
    <3>1. Within(w.prev, Reported'[w.trip])
      BY <1>8, <2>2, StayGood DEF Good
    <3>2. PICK a, b \in Reported'[w.trip] : a <= w.prev.pos /\ w.prev.pos <= b
      BY <3>1 DEF Within
    <3>3. a \in Nat /\ b \in Nat
      <4>1. \A x \in Updates : upd'[x].raw \in Nat
        BY <1>7 DEF UpdSet
      <4>. QED
        BY <1>2, <4>1 DEF Reported
    <3>4. PICK r \in Nat, q \in Nat : r = w.raw /\ q = w.prev.pos
      BY <1>2, <1>3, <2>2
    <3>5. pos = SmoothGPS(r, q)
      BY <2>2, <3>4
    <3> HIDE DEF w, pos
    <3>6. \E x, y \in {a, b, r} : x <= pos /\ pos <= y
      <4>1. CASE q = 0
        BY <3>5, <4>1, SmoothIsBetween, SMTT(30)
      <4>2. CASE q # 0 /\ r <= q
        <5>1. r <= pos /\ pos <= q /\ q <= b /\ pos \in Nat
          BY <3>2, <3>4, <3>5, <4>2, SmoothIsBetween
        <5>. QED
          BY <3>3, <5>1
      <4>3. CASE q # 0 /\ ~(r <= q)
        <5>1. q <= r
          BY <4>3
        <5>2. q <= pos /\ pos <= r /\ a <= q /\ pos \in Nat
          BY <3>2, <3>4, <3>5, <4>3, <5>1, SmoothIsBetween
        <5>. QED
          BY <3>3, <5>2
      <4>. QED
        BY <4>1, <4>2, <4>3
    <3>7. {a, b, r} \subseteq Reported'[w.trip]
      BY <1>11, <3>2, <3>4
    <3>. QED
      BY <1>6, <3>6, <3>7 DEF Good, Within
  <2>. QED
    BY <2>1, <2>2
<1>13. Good(None, w.trip, Reported')
  BY DEF Good
<1>14. AllWithin'
  BY <1>1, <1>7, <1>8, <1>12, <1>13, StayGood DEF AllWithin
<1>. QED
  BY <1>9, <1>10, <1>14 DEF TrackOK

\* persistAndPublish stores the position under its trip.
LEMMA StoreLocationStep ==
    ASSUME TrackOK, NEW u \in Updates, NEW ok \in BOOLEAN, StoreLocation(u, ok)
    PROVE  TrackOK'
<1>1. /\ upd[u].step = "store" /\ upd' = Next1(u, "publish") /\ UNCHANGED <<route, published>>
      /\ location' = IF ok THEN [location EXCEPT ![upd[u].trip] = upd[u].state] ELSE location
  BY DEF StoreLocation
<1>2. upd[u].state # None /\ upd[u].state \in MaybeState
  BY <1>1 DEF TrackOK, UpdateKnows, TrackTypeOK, UpdSet
<1>3. /\ upd' \in [Updates -> UpdSet] /\ UpdateKnows'
      /\ \A v \in Updates : /\ upd'[v].prev = upd[v].prev /\ upd'[v].state = upd[v].state
                             /\ upd'[v].trip = upd[v].trip /\ upd'[v].raw = upd[v].raw
  BY <1>1, <1>2, NextStep DEF Steps
<1>4. Remembered
  BY <1>3 DEF Remembered
<1>5. Good(upd[u].state, upd[u].trip, Reported')
  BY <1>4, StayGood
<1>6. location' \in [Trips -> MaybeState] /\ \A t \in Trips : location'[t] = location[t]
                                                             \/ (t = upd[u].trip /\ location'[t] = upd[u].state)
  BY <1>1, <1>2 DEF TrackOK, TrackTypeOK
<1>7. TrackTypeOK'
  BY <1>1, <1>3, <1>6 DEF TrackOK, TrackTypeOK
<1>8. AllWithin'
  BY <1>1, <1>3, <1>4, <1>5, <1>6, StayGood DEF AllWithin
<1>. QED
  BY <1>3, <1>7, <1>8 DEF TrackOK

\* Publishing a state publishes a position between reported ones.
LEMMA PublishStep ==
    ASSUME TrackOK, NEW u \in Updates, upd[u].step \in {"publish", "deviation"}, NEW ok \in BOOLEAN,
           NEW type \in {"location", "deviation"}, NEW step \in {"deviation", "done"}, upd' = Next1(u, step),
           IF ok THEN Publish(type, u) ELSE UNCHANGED <<published, inbox>>, UNCHANGED <<location, route>>
    PROVE  TrackOK'
<1>1. upd[u].state # None /\ upd[u].state \in LocationState
  BY DEF TrackOK, UpdateKnows, TrackTypeOK, UpdSet, MaybeState
<1>2. /\ upd' \in [Updates -> UpdSet] /\ UpdateKnows'
      /\ \A v \in Updates : /\ upd'[v].prev = upd[v].prev /\ upd'[v].state = upd[v].state
                             /\ upd'[v].trip = upd[v].trip /\ upd'[v].raw = upd[v].raw
  BY <1>1, NextStep DEF Steps
<1>3. CASE ~ok
  BY <1>2, <1>3, MovesOn
<1>4. CASE ok
  <2> DEFINE ev == [type |-> type, state |-> upd[u].state]
  <2>1. published' = Append(published, ev) /\ published \in Seq(Event)
    BY <1>4 DEF Publish, TrackOK, TrackTypeOK
  <2>2. ev \in Event /\ ev.state = upd[u].state
    BY <1>1 DEF Event
  <2> HIDE DEF ev
  <2>3. published' \in Seq(Event) /\ \A k \in DOMAIN published' : published'[k] = ev
                                       \/ (k \in DOMAIN published /\ published'[k] = published[k])
    BY <2>1, <2>2
  <2>4. Remembered
    BY <1>2 DEF Remembered
  <2>5. Good(ev.state, ev.state.trip, Reported')
    <3>1. Good(upd[u].state, upd[u].trip, Reported')
      BY <2>4, StayGood
    <3>. QED
      BY <1>1, <2>2, <3>1 DEF Good
  <2>6. TrackTypeOK'
    BY <1>2, <2>3 DEF TrackOK, TrackTypeOK
  <2>7. AllWithin'
    BY <1>2, <2>3, <2>4, <2>5, StayGood DEF AllWithin
  <2>. QED
    BY <1>2, <2>6, <2>7 DEF TrackOK
<1>. QED
  BY <1>3, <1>4

\* Every step keeps what is known of the updates.
LEMMA TrackStep ==
    ASSUME TrackOK, Next
    PROVE  TrackOK'
<1>1. ASSUME UNCHANGED <<upd, location, published>>, route' \in [Trips -> SUBSET Nat] PROVE TrackOK'
  BY <1>1 DEF TrackOK, TrackTypeOK, UpdateKnows, AllWithin, Reported
<1>2. ASSUME UNCHANGED <<upd, location, route, published>> PROVE TrackOK'
  BY <1>1, <1>2 DEF TrackOK, TrackTypeOK
<1>3. ASSUME NEW u \in Updates, NEW i \in Instances, UpdateFails(u, i) PROVE TrackOK'
  <2>1. upd' = Next1(u, "failed") /\ UNCHANGED <<location, route, published>>
    BY <1>3 DEF UpdateFails
  <2>. QED
    BY <2>1, NextStep, MovesOn DEF Steps
<1>4. ASSUME NEW u \in Updates, NEW ok \in BOOLEAN, PublishLocation(u, ok) PROVE TrackOK'
  <2>1. PICK step \in {"deviation", "done"} : upd' = Next1(u, step)
    BY <1>4 DEF PublishLocation
  <2>. QED
    BY <1>4, <2>1, PublishStep DEF PublishLocation
<1>5. ASSUME NEW u \in Updates, NEW ok \in BOOLEAN, PublishDeviation(u, ok) PROVE TrackOK'
  BY <1>5, PublishStep DEF PublishDeviation
<1>6. ASSUME NEW t \in Trips, WindowEnds(t) \/ CacheRoute(t) PROVE TrackOK'
  <2>1. CASE WindowEnds(t)
    BY <1>2, <2>1 DEF WindowEnds
  <2>2. CASE CacheRoute(t)
    <3>1. route \in [Trips -> SUBSET Nat] /\ route' = [route EXCEPT ![t] = Route] /\ UNCHANGED <<upd, location, published>>
      BY <2>2 DEF CacheRoute, TrackOK, TrackTypeOK
    <3>. QED
      BY <1>1, <3>1, GpsConstants
  <2>. QED
    BY <1>6, <2>1, <2>2
<1>7. ASSUME NEW i \in Instances, Forward(i) \/ CloseChannel(i) \/ Write(i) \/ CancelWorkers(i) PROVE TrackOK'
  <2>1. UNCHANGED <<gpsVars, published>>
    BY <1>7 DEF Forward, CloseChannel, Write, CancelWorkers, Receive, Tick, WorkerDone, ChannelEnds
  <2>. QED
    BY <1>2, <2>1 DEF gpsVars
<1>8. ASSUME NEW i \in Instances, Exit(i) PROVE TrackOK'
  <2>1. /\ upd \in [Updates -> UpdSet] /\ UNCHANGED <<location, route, published>>
        /\ upd' = [u \in Updates |-> IF upd[u].at = i /\ upd[u].step \notin {"limited", "done"}
                                     THEN [upd[u] EXCEPT !.step = "killed"] ELSE upd[u]]
    BY <1>8 DEF Exit, TrackOK, TrackTypeOK
  <2>2. ASSUME NEW u \in Updates
        PROVE  /\ upd'[u] \in UpdSet
               /\ upd'[u].prev = upd[u].prev /\ upd'[u].state = upd[u].state
               /\ upd'[u].trip = upd[u].trip /\ upd'[u].raw = upd[u].raw
               /\ upd'[u].step = upd[u].step \/ upd'[u].step = "killed"
    BY <2>1 DEF UpdSet, Steps
  <2>3. upd' \in [Updates -> UpdSet]
    BY <2>1, <2>2
  <2>4. UpdateKnows'
    BY <2>2 DEF UpdateKnows, TrackOK
  <2>. QED
    BY <2>1, <2>2, <2>3, <2>4, MovesOn
<1>. QED
  BY <1>3, <1>4, <1>5, <1>6, <1>7, <1>8, UpdateStep, LoadPreviousStep, ComputeStep, StoreLocationStep DEF Next, Process

-----------------------------------------------------------------------------
(* The steps of a writer. *)

LEMMA HandledIsHeld ==
    ASSUME NEW i \in Instances
    PROVE  Handled(i) = Hold(table[i], batch[i], chan[i], inbox[i])
  BY DEF Handled, Hold

\* A step of one writer is no concern of the others.
LEMMA OneInstance ==
    ASSUME QueueTypeOK, RowsFollowEvents, QueueTypeOK', UNCHANGED published, NEW i \in Instances,
           \A j \in Instances : j # i => /\ table'[j] = table[j] /\ batch'[j] = batch[j]
                                         /\ chan'[j] = chan[j] /\ inbox'[j] = inbox[j],
           IsSelection(Hold(table'[i], batch'[i], chan'[i], inbox'[i]), published)
    PROVE  RowsFollowEvents'
<1>1. ASSUME NEW j \in Instances PROVE IsSelection(Hold(table'[j], batch'[j], chan'[j], inbox'[j]), published)
  <2>1. CASE j = i
    BY <2>1
  <2>2. CASE j # i
    <3>1. IsSelection(Hold(table[j], batch[j], chan[j], inbox[j]), published)
      BY HandledIsHeld DEF RowsFollowEvents
    <3>. QED
      BY <2>2, <3>1
  <2>. QED
    BY <2>1, <2>2
<1>2. \A j \in Instances : Handled(j)' = Hold(table'[j], batch'[j], chan'[j], inbox'[j])
  BY DEF Handled, Hold, Taken
<1>3. \A j \in Instances : IsSelection(Hold(table'[j], batch'[j], chan'[j], inbox'[j]), published')
  BY <1>1
<1>4. ASSUME NEW j \in Instances PROVE IsSelection(Handled(j)', published')
  BY <1>2, <1>3
<1>. QED
  BY <1>4 DEF RowsFollowEvents

\* Before a step, instance i holds a selection.
LEMMA Held ==
    ASSUME QueueTypeOK, RowsFollowEvents, NEW i \in Instances
    PROVE  /\ table[i] \in Seq(LocationState) /\ batch[i] \in Seq(LocationState)
           /\ chan[i] \in Seq(Event) /\ inbox[i] \in Seq(Event)
           /\ IsSelection(Hold(table[i], batch[i], chan[i], inbox[i]), published)
  BY HandledIsHeld DEF QueueTypeOK, RowsFollowEvents

\* SubscribeAll's goroutine: the event goes to the channel or is dropped.
LEMMA ForwardStep ==
    ASSUME QueueTypeOK, RowsFollowEvents, published \in Seq(Event), NEW i \in Instances, Forward(i)
    PROVE  QueueTypeOK' /\ RowsFollowEvents'
<1>1. /\ inbox[i] # <<>> /\ UNCHANGED <<published, batch, table>>
      /\ chan' = IF Len(chan[i]) < ChanCap THEN [chan EXCEPT ![i] = Append(@, Head(inbox[i]))] ELSE chan
      /\ inbox' = [inbox EXCEPT ![i] = Tail(@)]
  BY DEF Forward
<1>2. Head(inbox[i]) \in Event /\ Tail(inbox[i]) \in Seq(Event) /\ Append(chan[i], Head(inbox[i])) \in Seq(Event)
  BY <1>1, Held
<1>3. QueueTypeOK'
  BY <1>1, <1>2 DEF QueueTypeOK
<1>4. /\ inbox'[i] = Tail(inbox[i]) /\ chan'[i] \in {chan[i], Append(chan[i], Head(inbox[i]))}
      /\ \A j \in Instances : j # i => chan'[j] = chan[j] /\ inbox'[j] = inbox[j]
  BY <1>1 DEF QueueTypeOK
<1>5. IsSelection(Hold(table[i], batch[i], chan'[i], inbox'[i]), published)
  BY <1>1, <1>4, Held, QueuesMove
<1>. QED
  BY <1>1, <1>3, <1>4, <1>5, OneInstance

\* Closing the channel leaves what was received unread.
LEMMA CloseChannelStep ==
    ASSUME QueueTypeOK, RowsFollowEvents, published \in Seq(Event), NEW i \in Instances, CloseChannel(i)
    PROVE  QueueTypeOK' /\ RowsFollowEvents'
<1>1. inbox' = [inbox EXCEPT ![i] = <<>>] /\ UNCHANGED <<published, chan, batch, table>>
  BY DEF CloseChannel
<1>2. QueueTypeOK'
  BY <1>1 DEF QueueTypeOK
<1>3. inbox'[i] = <<>> /\ \A j \in Instances : j # i => inbox'[j] = inbox[j]
  BY <1>1 DEF QueueTypeOK
<1>4. IsSelection(Hold(table[i], batch[i], chan[i], <<>>), published)
  BY Held, QueuesMove
<1>. QED
  BY <1>1, <1>2, <1>3, <1>4, OneInstance

\* An insert takes all rows of a batch over, or none; the batch is empty after it.
LEMMA InsertStep ==
    ASSUME QueueTypeOK, NEW i \in Instances, NEW rows \in Seq(LocationState), NEW live \in BOOLEAN,
           NEW ok \in BOOLEAN, InsertBatch(i, rows, live, ok), batch' = [batch EXCEPT ![i] = <<>>]
    PROVE  /\ table' \in [Instances -> Seq(LocationState)] /\ batch' \in [Instances -> Seq(LocationState)]
           /\ table'[i] \in {table[i], table[i] \o rows} /\ batch'[i] = <<>>
           /\ \A j \in Instances : j # i => table'[j] = table[j] /\ batch'[j] = batch[j]
<1>1. table' = IF ok /\ live THEN [table EXCEPT ![i] = @ \o rows] ELSE table
  BY DEF InsertBatch
<1>2. table \in [Instances -> Seq(LocationState)] /\ batch \in [Instances -> Seq(LocationState)]
  BY DEF QueueTypeOK
<1>3. table[i] \o rows \in Seq(LocationState)
  BY <1>2
<1>. QED
  BY <1>1, <1>2, <1>3

\* One iteration of the writer with an event: it joins the batch, and a full
\* batch is inserted.
LEMMA ReceiveStep ==
    ASSUME QueueTypeOK, RowsFollowEvents, published \in Seq(Event), NEW i \in Instances, NEW ok \in BOOLEAN,
           Receive(i, ok)
    PROVE  QueueTypeOK' /\ RowsFollowEvents'
<1> DEFINE ev == Head(chan[i])
           rows == IF ev.type = "location" THEN Append(batch[i], ev.state) ELSE batch[i]
<1>1. /\ chan[i] # <<>> /\ chan' = [chan EXCEPT ![i] = Tail(@)] /\ UNCHANGED <<published, inbox>>
      /\ IF ev.type = "location" /\ Len(rows) >= BatchSize THEN Flush(i, rows, ok)
         ELSE batch' = [batch EXCEPT ![i] = rows] /\ UNCHANGED table
  BY DEF Receive
<1>2. /\ table[i] \in Seq(LocationState) /\ batch[i] \in Seq(LocationState)
      /\ chan[i] \in Seq(Event) /\ inbox[i] \in Seq(Event)
      /\ IsSelection(Hold(table[i], batch[i], chan[i], inbox[i]), published)
  BY Held
<1>3. ev \in Event /\ Tail(chan[i]) \in Seq(Event)
  BY <1>1, <1>2
<1>4. rows \in Seq(LocationState)
  BY <1>2, <1>3 DEF Event
<1>5. IsSelection(Hold(table[i], rows, Tail(chan[i]), inbox[i]), published)
  BY <1>1, <1>2, QueuesMove
<1>6. /\ chan' \in [Instances -> Seq(Event)] /\ chan'[i] = Tail(chan[i])
      /\ \A j \in Instances : j # i => chan'[j] = chan[j]
  BY <1>1, <1>3 DEF QueueTypeOK
<1>7. CASE ev.type = "location" /\ Len(rows) >= BatchSize
  <2>1. InsertBatch(i, rows, worker[i] = "running", ok) /\ batch' = [batch EXCEPT ![i] = <<>>]
    BY <1>1, <1>7 DEF Flush
  <2> HIDE DEF rows, ev
  <2>2. /\ table' \in [Instances -> Seq(LocationState)] /\ batch' \in [Instances -> Seq(LocationState)]
        /\ table'[i] \in {table[i], table[i] \o rows} /\ batch'[i] = <<>>
        /\ \A j \in Instances : j # i => table'[j] = table[j] /\ batch'[j] = batch[j]
    BY <1>4, <2>1, InsertStep
  <2>3. QueueTypeOK'
    BY <1>1, <1>6, <2>2 DEF QueueTypeOK
  <2>4. IsSelection(Hold(table'[i], <<>>, Tail(chan[i]), inbox[i]), published)
    BY <1>2, <1>3, <1>4, <1>5, <2>2, QueuesMove
  <2>. QED
    BY <1>1, <1>6, <2>2, <2>3, <2>4, OneInstance
<1>8. CASE ~(ev.type = "location" /\ Len(rows) >= BatchSize)
  <2>1. batch' = [batch EXCEPT ![i] = rows] /\ UNCHANGED table
    BY <1>1, <1>8
  <2> HIDE DEF rows, ev
  <2>2. /\ batch' \in [Instances -> Seq(LocationState)] /\ batch'[i] = rows
        /\ \A j \in Instances : j # i => batch'[j] = batch[j]
    BY <1>4, <2>1 DEF QueueTypeOK
  <2>3. QueueTypeOK'
    BY <1>1, <1>6, <2>1, <2>2 DEF QueueTypeOK
  <2>. QED
    BY <1>1, <1>5, <1>6, <2>1, <2>2, <2>3, OneInstance
<1>. QED
  BY <1>7, <1>8

\* The ticker, the end of the channel and the end of the worker insert the batch.
LEMMA InsertTheBatch ==
    ASSUME QueueTypeOK, RowsFollowEvents, published \in Seq(Event), NEW i \in Instances, NEW ok \in BOOLEAN,
           NEW live \in BOOLEAN, InsertBatch(i, batch[i], live, ok), batch' = [batch EXCEPT ![i] = <<>>],
           UNCHANGED <<published, inbox, chan>>
    PROVE  QueueTypeOK' /\ RowsFollowEvents'
<1>1. /\ table[i] \in Seq(LocationState) /\ batch[i] \in Seq(LocationState)
      /\ chan[i] \in Seq(Event) /\ inbox[i] \in Seq(Event)
      /\ IsSelection(Hold(table[i], batch[i], chan[i], inbox[i]), published)
  BY Held
<1>2. /\ table' \in [Instances -> Seq(LocationState)] /\ batch' \in [Instances -> Seq(LocationState)]
      /\ table'[i] \in {table[i], table[i] \o batch[i]} /\ batch'[i] = <<>>
      /\ \A j \in Instances : j # i => table'[j] = table[j] /\ batch'[j] = batch[j]
  BY <1>1, InsertStep
<1>3. QueueTypeOK'
  BY <1>2 DEF QueueTypeOK
<1>4. IsSelection(Hold(table'[i], <<>>, chan[i], inbox[i]), published)
  BY <1>1, <1>2, QueuesMove
<1>. QED
  BY <1>2, <1>3, <1>4, OneInstance

\* An instance that ends keeps its rows only.
LEMMA ExitStep ==
    ASSUME QueueTypeOK, RowsFollowEvents, published \in Seq(Event), NEW i \in Instances, Exit(i)
    PROVE  QueueTypeOK' /\ RowsFollowEvents'
<1>1. /\ inbox' = [inbox EXCEPT ![i] = <<>>] /\ chan' = [chan EXCEPT ![i] = <<>>]
      /\ batch' = [batch EXCEPT ![i] = <<>>] /\ UNCHANGED <<published, table>>
  BY DEF Exit
<1>2. QueueTypeOK'
  BY <1>1 DEF QueueTypeOK
<1>3. /\ inbox'[i] = <<>> /\ chan'[i] = <<>> /\ batch'[i] = <<>>
      /\ \A j \in Instances : j # i => inbox'[j] = inbox[j] /\ chan'[j] = chan[j] /\ batch'[j] = batch[j]
  BY <1>1 DEF QueueTypeOK
<1>4. IsSelection(Hold(table[i], <<>>, <<>>, <<>>), published)
  BY Held, QueuesMove
<1>. QED
  BY <1>1, <1>2, <1>3, <1>4, OneInstance

\* An event is published last, and received last or not at all.
LEMMA ReceivedInOrder ==
    ASSUME QueueTypeOK, RowsFollowEvents, published \in Seq(Event), NEW u, upd[u].state \in LocationState,
           NEW type \in {"location", "deviation"}, Publish(type, u), UNCHANGED <<chan, batch, table>>
    PROVE  QueueTypeOK' /\ RowsFollowEvents'
<1> DEFINE ev == [type |-> type, state |-> upd[u].state]
<1>1. ev \in Event
  BY DEF Event
<1>2. PICK up : /\ published' = Append(published, ev)
                /\ inbox' = [j \in Instances |-> IF j \in up THEN Append(inbox[j], ev) ELSE inbox[j]]
  BY DEF Publish
<1> HIDE DEF ev
<1>3. ASSUME NEW j \in Instances
      PROVE  /\ inbox'[j] \in Seq(Event)
             /\ IsSelection(Hold(table[j], batch[j], chan[j], inbox'[j]), published')
  <2>1. /\ table[j] \in Seq(LocationState) /\ batch[j] \in Seq(LocationState)
        /\ chan[j] \in Seq(Event) /\ inbox[j] \in Seq(Event)
        /\ IsSelection(Hold(table[j], batch[j], chan[j], inbox[j]), published)
    BY Held
  <2>2. PICK T \in Seq(Event) : T = Taken(table[j] \o batch[j]) \o chan[j]
    <3>1. table[j] \o batch[j] \in Seq(LocationState)
      BY <2>1
    <3>2. Taken(table[j] \o batch[j]) \in Seq(Event)
      BY <3>1, TakenRows
    <3>3. \A a, b \in Seq(Event) : a \o b \in Seq(Event)
      OBVIOUS
    <3>. QED
      BY <2>1, <3>2, <3>3
  <2>3. \A q : Hold(table[j], batch[j], chan[j], q) = T \o q
    BY <2>2 DEF Hold
  <2>4. T \o inbox[j] \in Seq(Event) /\ IsSelection(T \o inbox[j], published)
    <3>1. \A a, b \in Seq(Event) : a \o b \in Seq(Event)
      OBVIOUS
    <3>. QED
      BY <2>1, <2>3, <3>1
  <2>5. T \o Append(inbox[j], ev) = Append(T \o inbox[j], ev)
    <3>1. ASSUME NEW a \in Seq(Event), NEW b \in Seq(Event), NEW e \in Event PROVE a \o Append(b, e) = Append(a \o b, e)
      OBVIOUS
    <3>. QED
      BY <1>1, <2>1, <3>1
  <2>6. /\ IsSelection(T \o inbox[j], Append(published, ev))
        /\ IsSelection(Append(T \o inbox[j], ev), Append(published, ev))
    BY <1>1, <2>4, GrowSelection
  <2>7. inbox'[j] = inbox[j] \/ inbox'[j] = Append(inbox[j], ev)
    BY <1>2
  <2>. QED
    <3>1. published' = Append(published, ev) /\ Hold(table[j], batch[j], chan[j], inbox'[j]) = T \o inbox'[j]
      BY <1>2, <2>3, Zenon
    <3>2. CASE inbox'[j] = inbox[j]
      BY <2>1, <2>6, <3>2, <3>1, Zenon
    <3>3. CASE inbox'[j] = Append(inbox[j], ev)
      <4>1. inbox'[j] \in Seq(Event)
        BY <1>1, <2>1, <3>3
      <4>. QED
        BY <2>5, <2>6, <3>3, <3>1, <4>1, Zenon
    <3>. QED
      BY <2>7, <3>2, <3>3
<1>4. QueueTypeOK'
  <2>1. inbox' \in [Instances -> Seq(Event)]
    BY <1>2, <1>3
  <2>. QED
    BY <2>1 DEF QueueTypeOK
<1>5. \A j \in Instances : Handled(j)' = Hold(table[j], batch[j], chan[j], inbox'[j])
  BY DEF Handled, Hold, Taken
<1>. QED
  BY <1>3, <1>4, <1>5 DEF RowsFollowEvents, IsSelection

\* Who touches no queue disturbs none.
LEMMA QueuesStay ==
    ASSUME QueueTypeOK, RowsFollowEvents, UNCHANGED <<published, inbox, chan, batch, table>>
    PROVE  QueueTypeOK' /\ RowsFollowEvents'
<1>1. QueueTypeOK'
  BY DEF QueueTypeOK
<1>2. ASSUME NEW i \in Instances PROVE Handled(i)' = Handled(i)
  BY DEF Handled, Taken
<1>3. \A i \in Instances : IsSelection(Handled(i), published')
  BY DEF RowsFollowEvents
<1>4. RowsFollowEvents'
  BY <1>2, <1>3 DEF RowsFollowEvents, IsSelection
<1>. QED
  BY <1>1, <1>4

\* Every step keeps the queues in order.
LEMMA QueueStep ==
    ASSUME TrackOK, QueueTypeOK, RowsFollowEvents, Next
    PROVE  QueueTypeOK' /\ RowsFollowEvents'
<1>1. published \in Seq(Event)
  BY DEF TrackOK, TrackTypeOK
<1>2. ASSUME UNCHANGED <<published, inbox, chan, batch, table>> PROVE QueueTypeOK' /\ RowsFollowEvents'
  BY <1>2, QueuesStay
<1>3. ASSUME NEW u \in Updates,
             \/ Process(u) /\ ~(\E ok \in BOOLEAN : PublishLocation(u, ok) \/ PublishDeviation(u, ok))
             \/ \E i \in Instances : UpdateFails(u, i) \/ \E t \in Trips, raw \in Positions : Update(u, i, t, raw)
      PROVE  QueueTypeOK' /\ RowsFollowEvents'
  <2>1. UNCHANGED <<published, writerVars>>
    BY <1>3 DEF Process, LoadPrevious, StoreLocation, Compute, UpdateFails, Update
  <2>. QED
    BY <1>2, <2>1 DEF writerVars
<1>4. ASSUME NEW u \in Updates, NEW ok \in BOOLEAN, PublishLocation(u, ok) \/ PublishDeviation(u, ok)
      PROVE  QueueTypeOK' /\ RowsFollowEvents'
  <2>1. /\ upd[u].step \in {"publish", "deviation"} /\ UNCHANGED <<chan, batch, table>>
        /\ \/ Publish("location", u) \/ Publish("deviation", u)
           \/ UNCHANGED <<published, inbox>>
    BY <1>4 DEF PublishLocation, PublishDeviation
  <2>2. upd[u].state \in LocationState
    BY <2>1 DEF TrackOK, UpdateKnows, TrackTypeOK, UpdSet, MaybeState
  <2>. QED
    BY <1>1, <1>2, <2>1, <2>2, ReceivedInOrder
<1>5. ASSUME NEW t \in Trips, WindowEnds(t) \/ CacheRoute(t) PROVE QueueTypeOK' /\ RowsFollowEvents'
  BY <1>2, <1>5 DEF WindowEnds, CacheRoute, writerVars
<1>6. ASSUME NEW i \in Instances, CancelWorkers(i) PROVE QueueTypeOK' /\ RowsFollowEvents'
  BY <1>2, <1>6 DEF CancelWorkers, writerVars
<1>7. ASSUME NEW i \in Instances, Write(i) PROVE QueueTypeOK' /\ RowsFollowEvents'
  <2>1. ASSUME NEW ok \in BOOLEAN, Tick(i, ok) PROVE QueueTypeOK' /\ RowsFollowEvents'
    <3>1. PICK live \in BOOLEAN : InsertBatch(i, batch[i], live, ok)
      BY <2>1 DEF Tick, Flush
    <3>. QED
      BY <1>1, <2>1, <3>1, InsertTheBatch DEF Tick, Flush
  <2>2. ASSUME NEW ok \in BOOLEAN, WorkerDone(i, ok) PROVE QueueTypeOK' /\ RowsFollowEvents'
    <3>1. InsertBatch(i, batch[i], TRUE, ok) /\ batch' = [batch EXCEPT ![i] = <<>>] /\ UNCHANGED <<published, inbox, chan>>
      BY <2>2 DEF WorkerDone
    <3>. QED
      BY <1>1, <3>1, InsertTheBatch
  <2>3. ASSUME ChannelEnds(i) PROVE QueueTypeOK' /\ RowsFollowEvents'
    <3>1. PICK live \in BOOLEAN : InsertBatch(i, batch[i], live, TRUE)
      BY <2>3 DEF ChannelEnds, Flush
    <3>. QED
      BY <1>1, <2>3, <3>1, InsertTheBatch DEF ChannelEnds, Flush
  <2>. QED
    BY <1>1, <1>7, <2>1, <2>2, <2>3, ReceiveStep DEF Write
<1>. QED
  BY <1>1, <1>3, <1>4, <1>5, <1>6, <1>7, ForwardStep, CloseChannelStep, ExitStep DEF Next, Process

-----------------------------------------------------------------------------
(* Theorems. *)

\* The invariant is inductive, whatever the interleaving of updates, writers
\* and shutdowns, and whichever calls fail.
THEOREM GpsInvariant == Spec => []GpsInv
<1>1. Init => GpsInv
  <2>1. SUFFICES ASSUME Init PROVE GpsInv
    OBVIOUS
  <2>2. \A u \in Updates : /\ upd[u].step = "new" /\ upd[u].prev = None /\ upd[u].state = None
                           /\ upd[u] \in UpdSet
    BY <2>1 DEF Init, UpdSet, Steps, MaybeState
  <2>3. upd \in [Updates -> UpdSet]
    BY <2>1, <2>2 DEF Init
  <2>4. published = <<>> /\ \A t \in Trips : location[t] = None
    BY <2>1 DEF Init
  <2>5. TrackTypeOK
    BY <2>1, <2>3 DEF Init, TrackTypeOK, MaybeState
  <2>6. UpdateKnows /\ AllWithin
    BY <2>2, <2>4 DEF UpdateKnows, AllWithin, Good
  <2>7. QueueTypeOK
    BY <2>1 DEF Init, QueueTypeOK
  <2>8. RowsFollowEvents
    <3>1. ASSUME NEW i \in Instances PROVE IsSelection(Handled(i), published)
      <4>1. table[i] = <<>> /\ batch[i] = <<>> /\ chan[i] = <<>> /\ inbox[i] = <<>>
        BY <2>1 DEF Init
      <4>2. Handled(i) = <<>>
        <5>1. table[i] \o batch[i] = <<>>
          BY <4>1
        <5>2. Taken(<<>>) = <<>>
          BY DEF Taken
        <5>. QED
          BY <4>1, <5>1, <5>2 DEF Handled
      <4>3. IsSelection(<<>>, <<>>)
        <5>1. 1 .. Len(<<>>) = {}
          OBVIOUS
        <5>2. [j \in {} |-> 0] \in [1 .. Len(<<>>) -> 1 .. Len(<<>>)]
          BY <5>1
        <5>. QED
          BY <5>1, <5>2, Zenon DEF IsSelection
      <4>. QED
        BY <2>4, <4>2, <4>3, Zenon
    <3>. QED
      BY <3>1 DEF RowsFollowEvents
  <2>. QED
    BY <2>5, <2>6, <2>7, <2>8 DEF GpsInv, TrackOK
<1>2. GpsInv /\ [Next]_vars => GpsInv'
  <2>1. ASSUME GpsInv, Next PROVE GpsInv'
    BY <2>1, TrackStep, QueueStep DEF GpsInv
  <2>2. ASSUME GpsInv, UNCHANGED vars PROVE GpsInv'
    <3>1. UNCHANGED <<upd, location, route, published, inbox, chan, batch, table>>
      BY <2>2 DEF vars, gpsVars, writerVars
    <3>2. TrackOK'
      BY <2>2, <3>1 DEF GpsInv, TrackOK, TrackTypeOK, UpdateKnows, AllWithin, Reported
    <3>3. QueueTypeOK' /\ RowsFollowEvents'
      BY <2>2, <3>1, QueuesStay DEF GpsInv
    <3>. QED
      BY <3>2, <3>3 DEF GpsInv
  <2>. QED
    BY <2>1, <2>2
<1>. QED
  BY <1>1, <1>2, PTL DEF Spec

\* LocationBatchWriter: rows, batch and queues follow the events published,
\* in their order and each at most once.
THEOREM WritersFollowEvents == Spec => []RowsFollowEvents
<1>1. GpsInv => RowsFollowEvents
  BY DEF GpsInv
<1>. QED
  BY <1>1, GpsInvariant, PTL

\* Update: smoothing never carries a trip outside of where its driver has been.
THEOREM SmoothingStaysWithin == Spec => []SmoothedWithinReported
<1>1. ASSUME GpsInv PROVE SmoothedWithinReported
  <2>1. \A t \in Trips : Reported[t] = {upd[u].raw : u \in {v \in Updates : upd[v].state # None /\ upd[v].trip = t}}
    BY DEF Reported
  <2>2. ASSUME NEW s \in LocationState, Within(s, Reported[s.trip])
        PROVE  LET raws == {upd[u].raw : u \in {v \in Updates : upd[v].state # None /\ upd[v].trip = s.trip}}
               IN  \E a, b \in raws : a <= s.pos /\ s.pos <= b
    <3>1. s.trip \in Trips
      BY DEF LocationState
    <3>. QED
      BY <2>1, <2>2, <3>1 DEF Within
  <2>3. ASSUME NEW t \in Trips, location[t] # None
        PROVE  location[t] \in LocationState /\ Within(location[t], Reported[location[t].trip])
    BY <1>1, <2>3 DEF GpsInv, TrackOK, TrackTypeOK, MaybeState, AllWithin, Good
  <2>4. ASSUME NEW k \in DOMAIN published
        PROVE  published[k].state \in LocationState /\ Within(published[k].state, Reported[published[k].state.trip])
    <3>1. published[k] \in Event
      BY <1>1 DEF GpsInv, TrackOK, TrackTypeOK
    <3>2. published[k].state \in LocationState /\ published[k].state # None
      BY <3>1, GpsConstants DEF Event
    <3>. QED
      BY <1>1, <3>2 DEF GpsInv, TrackOK, AllWithin, Good
  <2>. QED
    BY <2>2, <2>3, <2>4 DEF SmoothedWithinReported
<1>. QED
  BY <1>1, GpsInvariant, PTL
=============================================================================
