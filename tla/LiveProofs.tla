----------------------------- MODULE LiveProofs -----------------------------
(* Theorems about the live side: one collector with its feed, log and      *)
(* clients (LiveCollector), for every number of clients and sessions, all  *)
(* buffer sizes, payloads and bounds; and the slot that collectors are     *)
(* started in (LiveService), for any number of starts and of overlapping   *)
(* stop requests.                                                          *)
(*                                                                         *)
(* What a sequence of frames does to a view (AppliedAll) and to a file     *)
(* (PutAll) are recursive functions.  The first part proves by induction   *)
(* on the number of frames what the invariants need of them: how one more  *)
(* frame at either end is applied, and that a file which got longer by all *)
(* frames it was given leads where they lead.                              *)
EXTENDS LiveCollector, LiveService, TLAPS, FiniteSetTheorems, SequenceTheorems,
        WellFoundedInduction

(* Induction, over sets of numbers. *)
LEMMA Induct ==
    ASSUME NEW S, 0 \in S, \A n \in Nat : n \in S => n + 1 \in S
    PROVE  Nat \subseteq S
<1> DEFINE T == Nat \ S
           R == {p \in Nat \X Nat : p[1] < p[2]}
<1>1. IsWellFoundedOn(R, Nat)
  BY NatLessThanWellFounded DEF OpToRel
<1>2. SUFFICES ASSUME T # {} PROVE FALSE
  OBVIOUS
<1>3. PICK m \in T : \A y \in T : ~(<<y, m>> \in R)
  <2>1. T \subseteq Nat
    OBVIOUS
  <2>. HIDE DEF T, R
  <2>. QED BY <1>1, <1>2, <2>1, WFMin
<1>4. \A y \in T : ~(y < m)
  BY <1>3
<1>5. m \in Nat /\ m # 0 /\ m - 1 \in Nat /\ m - 1 < m
  OBVIOUS
<1> QED BY <1>4, <1>5

(* The views on the way through a sequence of frames. *)
Way(g, v, frames) ==
    /\ g[0] = v
    /\ \A i \in 1..Len(frames) : g[i] = Applied(g[i - 1], frames[i])

(* One round of the recursion that AppliedAll is defined by. *)
WayRound(g, v, frames) ==
    [i \in 0..Len(frames) |-> IF i = 0 THEN v ELSE Applied(g[i - 1], frames[i])]

LEMMA WayExists ==
    ASSUME NEW v, NEW S, NEW frames \in Seq(S)
    PROVE  \E g : g = WayRound(g, v, frames)
<1> DEFINE Upto(n) == \E g : g = [i \in 0..n |->
                        IF i = 0 THEN v ELSE Applied(g[i - 1], frames[i])]
           T == {n \in Nat : Upto(n)}
<1>1. 0 \in T
  <2>1. [i \in 0..0 |-> v] = [i \in 0..0 |-> IF i = 0 THEN v ELSE
                                Applied([j \in 0..0 |-> v][i - 1], frames[i])]
    OBVIOUS
  <2> QED BY <2>1
<1>2. ASSUME NEW n \in Nat, n \in T PROVE n + 1 \in T
  <2>1. PICK g : g = [i \in 0..n |->
                        IF i = 0 THEN v ELSE Applied(g[i - 1], frames[i])]
    BY <1>2
  <2> DEFINE h == [i \in 0..(n + 1) |->
                    IF i = n + 1 THEN Applied(g[n], frames[n + 1]) ELSE g[i]]
  <2>2. ASSUME NEW i \in 0..(n + 1)
        PROVE  h[i] = IF i = 0 THEN v ELSE Applied(h[i - 1], frames[i])
    <3>1. CASE i = n + 1
      <4>1. h[n] = g[n] /\ h[n + 1] = Applied(g[n], frames[n + 1]) /\ n + 1 # 0
        OBVIOUS
      <4> HIDE DEF h
      <4>2. i - 1 = n
        BY <3>1
      <4> QED BY <3>1, <4>1, <4>2
    <3>2. CASE i # n + 1
      <4>1. i \in 0..n /\ h[i] = g[i] /\ (i # 0 => i - 1 \in 0..n)
        BY <3>2
      <4>2. i # 0 => h[i - 1] = g[i - 1]
        BY <4>1
      <4> HIDE DEF h
      <4>3. g[i] = IF i = 0 THEN v ELSE Applied(g[i - 1], frames[i])
        BY <2>1, <4>1
      <4> QED BY <4>1, <4>2, <4>3
    <3> QED BY <3>1, <3>2
  <2>3. h = [i \in 0..(n + 1) |-> h[i]]
    OBVIOUS
  <2> HIDE DEF h
  <2>4. h = [i \in 0..(n + 1) |->
               IF i = 0 THEN v ELSE Applied(h[i - 1], frames[i])]
    BY <2>2, <2>3
  <2>5. Upto(n + 1)
    BY <2>4
  <2> HIDE DEF Upto
  <2> QED BY <2>5
<1>3. Nat \subseteq T
  <2> HIDE DEF T
  <2> QED BY <1>1, <1>2, Induct
<1>4. Len(frames) \in T
  BY <1>3
<1>5. Upto(Len(frames))
  BY <1>4
<1> QED BY <1>5 DEF WayRound

LEMMA WayTaken ==
    ASSUME NEW v, NEW S, NEW frames \in Seq(S)
    PROVE  \E g : Way(g, v, frames) /\ AppliedAll(v, frames) = g[Len(frames)]
<1> DEFINE g == CHOOSE k : k = WayRound(k, v, frames)
<1>1. g = WayRound(g, v, frames)
  BY WayExists
<1>2. AppliedAll(v, frames) = g[Len(frames)]
  BY DEF AppliedAll, WayRound
<1> HIDE DEF g
<1>3. Len(frames) \in Nat
  OBVIOUS
<1>4. g[0] = v
  BY <1>1, <1>3 DEF WayRound
<1>5. ASSUME NEW i \in 1..Len(frames)
      PROVE  g[i] = Applied(g[i - 1], frames[i])
  BY <1>1, <1>3 DEF WayRound
<1> QED BY <1>2, <1>4, <1>5 DEF Way

LEMMA WayUnique ==
    ASSUME NEW v, NEW S, NEW frames \in Seq(S), NEW g, NEW h,
           Way(g, v, frames), Way(h, v, frames)
    PROVE  g[Len(frames)] = h[Len(frames)]
<1> DEFINE T == {n \in Nat : n <= Len(frames) => g[n] = h[n]}
<1>1. 0 \in T
  BY DEF Way
<1>2. ASSUME NEW n \in Nat, n \in T PROVE n + 1 \in T
  <2>1. SUFFICES ASSUME n + 1 <= Len(frames) PROVE g[n + 1] = h[n + 1]
    OBVIOUS
  <2>2. n + 1 \in 1..Len(frames) /\ (n + 1) - 1 = n /\ n <= Len(frames)
    BY <2>1
  <2>3. g[n] = h[n]
    BY <1>2, <2>2
  <2> QED BY <2>2, <2>3 DEF Way
<1>3. Nat \subseteq T
  <2> HIDE DEF T
  <2> QED BY <1>1, <1>2, Induct
<1> QED BY <1>3

(* So it is enough to name the views on the way. *)
LEMMA WayLeads ==
    ASSUME NEW v, NEW S, NEW frames \in Seq(S), NEW g, Way(g, v, frames)
    PROVE  AppliedAll(v, frames) = g[Len(frames)]
BY WayTaken, WayUnique

LEMMA AppliedNone == \A v : AppliedAll(v, <<>>) = v
<1> TAKE v
<1> DEFINE g == [i \in {0} |-> v]
<1>1. <<>> \in Seq({}) /\ Len(<<>>) = 0 /\ g[0] = v
  OBVIOUS
<1>2. Way(g, v, <<>>)
  BY <1>1 DEF Way
<1> QED BY <1>1, <1>2, WayLeads

LEMMA AppliedAppend ==
    ASSUME NEW v, NEW S, NEW frames \in Seq(S), NEW f \in S
    PROVE  AppliedAll(v, Append(frames, f)) = Applied(AppliedAll(v, frames), f)
<1> DEFINE longer == Append(frames, f)
           n == Len(frames)
<1>1. PICK g : Way(g, v, frames) /\ AppliedAll(v, frames) = g[n]
  BY WayTaken
<1>2. /\ longer \in Seq(S) /\ Len(longer) = n + 1 /\ n \in Nat
      /\ longer[n + 1] = f /\ \A i \in 1..n : longer[i] = frames[i]
  OBVIOUS
<1> HIDE DEF longer, n
<1> DEFINE h == [i \in 0..(n + 1) |-> IF i = n + 1 THEN Applied(g[n], f) ELSE g[i]]
<1>3. h[0] = v /\ h[n + 1] = Applied(g[n], f) /\ h[n] = g[n]
  BY <1>1, <1>2 DEF Way
<1>4. ASSUME NEW i \in 1..(n + 1)
      PROVE  h[i] = Applied(h[i - 1], longer[i])
  <2>1. CASE i = n + 1
    <3>1. i - 1 = n
      BY <1>2, <2>1
    <3> HIDE DEF h
    <3> QED BY <1>2, <1>3, <2>1, <3>1
  <2>2. CASE i # n + 1
    <3>1. /\ i \in 1..n /\ h[i] = g[i] /\ h[i - 1] = g[i - 1]
          /\ longer[i] = frames[i]
      BY <1>2, <2>2
    <3> HIDE DEF h
    <3> QED BY <1>1, <3>1 DEF Way, n
  <2> QED BY <2>1, <2>2
<1> HIDE DEF h
<1>5. Way(h, v, longer)
  BY <1>2, <1>3, <1>4 DEF Way
<1>6. AppliedAll(v, longer) = h[n + 1]
  BY <1>2, <1>5, WayLeads
<1> QED BY <1>1, <1>3, <1>6 DEF longer, n

LEMMA AppliedTail ==
    ASSUME NEW v, NEW S, NEW frames \in Seq(S), frames # <<>>
    PROVE  AppliedAll(v, frames) = AppliedAll(Applied(v, Head(frames)), Tail(frames))
<1> DEFINE rest == Tail(frames)
           n == Len(frames)
           w == Applied(v, Head(frames))
<1>1. /\ rest \in Seq(S) /\ Len(rest) = n - 1 /\ n \in Nat \ {0}
      /\ \A i \in 1..(n - 1) : rest[i] = frames[i + 1]
      /\ w = Applied(v, frames[1])
  OBVIOUS
<1>2. PICK g : Way(g, w, rest) /\ AppliedAll(w, rest) = g[n - 1]
  BY <1>1, WayTaken
<1> HIDE DEF rest, w
<1> DEFINE h == [i \in 0..n |-> IF i = 0 THEN v ELSE g[i - 1]]
<1>3. h[0] = v /\ h[n] = g[n - 1]
  BY <1>1
<1>4. ASSUME NEW i \in 1..n
      PROVE  h[i] = Applied(h[i - 1], frames[i])
  <2>1. CASE i = 1
    <3>1. h[1] = g[0] /\ g[0] = w /\ i - 1 = 0
      BY <1>1, <1>2, <2>1 DEF Way
    <3> HIDE DEF h
    <3> QED BY <1>1, <1>3, <2>1, <3>1
  <2>2. CASE i # 1
    <3>1. /\ i - 1 \in 1..(n - 1) /\ h[i] = g[i - 1] /\ h[i - 1] = g[(i - 1) - 1]
          /\ rest[i - 1] = frames[i]
      BY <1>1, <2>2
    <3>2. g[i - 1] = Applied(g[(i - 1) - 1], rest[i - 1])
      BY <1>1, <1>2, <3>1 DEF Way
    <3> HIDE DEF h
    <3> QED BY <3>1, <3>2
  <2> QED BY <2>1, <2>2
<1> HIDE DEF h
<1>5. Way(h, v, frames)
  BY <1>3, <1>4 DEF Way
<1>6. AppliedAll(v, frames) = h[n]
  BY <1>5, WayLeads
<1> QED BY <1>2, <1>3, <1>6 DEF rest, w

(* The files on the way through a sequence of frames. *)
Fill(h, lines, frames) ==
    /\ h[0] = lines
    /\ \A i \in 1..Len(frames) : h[i] = Put(h[i - 1], frames[i])

(* One round of the recursion that PutAll is defined by. *)
FillRound(h, lines, frames) ==
    [i \in 0..Len(frames) |-> IF i = 0 THEN lines ELSE Put(h[i - 1], frames[i])]

LEMMA FillExists ==
    ASSUME NEW lines, NEW S, NEW frames \in Seq(S)
    PROVE  \E h : h = FillRound(h, lines, frames)
<1> DEFINE Upto(n) == \E h : h = [i \in 0..n |->
                        IF i = 0 THEN lines ELSE Put(h[i - 1], frames[i])]
           T == {n \in Nat : Upto(n)}
<1>1. 0 \in T
  <2>1. [i \in 0..0 |-> lines] = [i \in 0..0 |-> IF i = 0 THEN lines ELSE
                                Put([j \in 0..0 |-> lines][i - 1], frames[i])]
    OBVIOUS
  <2> QED BY <2>1
<1>2. ASSUME NEW n \in Nat, n \in T PROVE n + 1 \in T
  <2>1. PICK g : g = [i \in 0..n |->
                        IF i = 0 THEN lines ELSE Put(g[i - 1], frames[i])]
    BY <1>2
  <2> DEFINE h == [i \in 0..(n + 1) |->
                    IF i = n + 1 THEN Put(g[n], frames[n + 1]) ELSE g[i]]
  <2>2. ASSUME NEW i \in 0..(n + 1)
        PROVE  h[i] = IF i = 0 THEN lines ELSE Put(h[i - 1], frames[i])
    <3>1. CASE i = n + 1
      <4>1. h[n] = g[n] /\ h[n + 1] = Put(g[n], frames[n + 1]) /\ n + 1 # 0
        OBVIOUS
      <4> HIDE DEF h
      <4>2. i - 1 = n
        BY <3>1
      <4> QED BY <3>1, <4>1, <4>2
    <3>2. CASE i # n + 1
      <4>1. i \in 0..n /\ h[i] = g[i] /\ (i # 0 => i - 1 \in 0..n)
        BY <3>2
      <4>2. i # 0 => h[i - 1] = g[i - 1]
        BY <4>1
      <4> HIDE DEF h
      <4>3. g[i] = IF i = 0 THEN lines ELSE Put(g[i - 1], frames[i])
        BY <2>1, <4>1
      <4> QED BY <4>1, <4>2, <4>3
    <3> QED BY <3>1, <3>2
  <2>3. h = [i \in 0..(n + 1) |-> h[i]]
    OBVIOUS
  <2> HIDE DEF h
  <2>4. h = [i \in 0..(n + 1) |->
               IF i = 0 THEN lines ELSE Put(h[i - 1], frames[i])]
    BY <2>2, <2>3
  <2>5. Upto(n + 1)
    BY <2>4
  <2> HIDE DEF Upto
  <2> QED BY <2>5
<1>3. Nat \subseteq T
  <2> HIDE DEF T
  <2> QED BY <1>1, <1>2, Induct
<1>4. Len(frames) \in T
  BY <1>3
<1>5. Upto(Len(frames))
  BY <1>4
<1> QED BY <1>5 DEF FillRound

LEMMA FillTaken ==
    ASSUME NEW lines, NEW S, NEW frames \in Seq(S)
    PROVE  \E h : Fill(h, lines, frames) /\ PutAll(lines, frames) = h[Len(frames)]
<1> DEFINE h == CHOOSE k : k = FillRound(k, lines, frames)
<1>1. h = FillRound(h, lines, frames)
  BY FillExists
<1>2. PutAll(lines, frames) = h[Len(frames)]
  BY DEF PutAll, FillRound
<1> HIDE DEF h
<1>3. Len(frames) \in Nat
  OBVIOUS
<1>4. h[0] = lines
  BY <1>1, <1>3 DEF FillRound
<1>5. ASSUME NEW i \in 1..Len(frames)
      PROVE  h[i] = Put(h[i - 1], frames[i])
  BY <1>1, <1>3 DEF FillRound
<1> QED BY <1>2, <1>4, <1>5 DEF Fill

(* A file only grows, by at most the lines it is given; when it has them   *)
(* all, it leads where they lead.                                          *)
Grown(file, lines, n) ==
    /\ Len(file) \in Len(lines)..(Len(lines) + n)
    /\ \A i \in 1..Len(lines) : file[i] = lines[i]

LEMMA PutGrows ==
    ASSUME NEW S, NEW lines \in Seq(S), NEW frame \in S
    PROVE  /\ Put(lines, frame) \in Seq(S)
           /\ Put(lines, frame) = lines \/ Put(lines, frame) = Append(lines, frame)
           /\ Grown(Put(lines, frame), lines, 1)
<1>1. Put(lines, frame) = lines \/ Put(lines, frame) = Append(lines, frame)
  BY DEF Put
<1>2. CASE Put(lines, frame) = lines
  BY <1>2 DEF Grown
<1>3. CASE Put(lines, frame) = Append(lines, frame)
  <2>1. /\ Append(lines, frame) \in Seq(S)
        /\ Len(Append(lines, frame)) = Len(lines) + 1
        /\ \A i \in 1..Len(lines) : Append(lines, frame)[i] = lines[i]
    OBVIOUS
  <2> QED BY <1>3, <2>1 DEF Grown
<1> QED BY <1>1, <1>2, <1>3

LEMMA PutAllGrows ==
    ASSUME NEW S, NEW lines \in Seq(S), NEW frames \in Seq(S)
    PROVE  /\ PutAll(lines, frames) \in Seq(S)
           /\ Grown(PutAll(lines, frames), lines, Len(frames))
           /\ Len(PutAll(lines, frames)) = Len(lines) + Len(frames)
              => \A v : AppliedAll(v, PutAll(lines, frames))
                            = AppliedAll(AppliedAll(v, lines), frames)
<1> DEFINE m == Len(frames)
<1>1. PICK h : Fill(h, lines, frames) /\ PutAll(lines, frames) = h[m]
  BY FillTaken
<1>2. m \in Nat /\ \A i \in 1..m : frames[i] \in S
  OBVIOUS
<1> DEFINE Whole(n) == \A v, g : Way(g, AppliedAll(v, lines), frames)
                                 => AppliedAll(v, h[n]) = g[n]
           Good(n) == /\ h[n] \in Seq(S)
                      /\ Grown(h[n], lines, n)
                      /\ Len(h[n]) = Len(lines) + n => Whole(n)
           T == {n \in Nat : n <= m => Good(n)}
<1>3. 0 \in T
  <2>1. h[0] = lines
    BY <1>1 DEF Fill
  <2>2. Grown(lines, lines, 0)
    BY DEF Grown
  <2>3. Whole(0)
    BY <2>1 DEF Way
  <2> HIDE DEF Whole
  <2> QED BY <2>1, <2>2, <2>3
<1>4. ASSUME NEW n \in Nat, n \in T PROVE n + 1 \in T
  <2>1. SUFFICES ASSUME n + 1 <= m PROVE Good(n + 1)
    OBVIOUS
  <2>2. n <= m /\ n + 1 \in 1..m /\ (n + 1) - 1 = n
    BY <1>2, <2>1
  <2>3. Good(n)
    BY <1>4, <2>2
  <2>4. h[n + 1] = Put(h[n], frames[n + 1])
    BY <1>1, <2>2 DEF Fill
  <2>5. frames[n + 1] \in S
    BY <1>2, <2>2
  <2> DEFINE f == frames[n + 1]
             a == h[n]
             b == h[n + 1]
  <2>6. /\ b \in Seq(S) /\ Grown(b, a, 1)
        /\ b = a \/ b = Append(a, f)
    BY <2>3, <2>4, <2>5, PutGrows
  <2>7. Grown(b, lines, n + 1)
    <3>1. Len(lines) \in Nat /\ Len(a) \in Nat
      BY <2>3
    <3>2. Grown(a, lines, n)
      BY <2>3
    <3> HIDE DEF a, b, f
    <3>3. Len(a) \in Len(lines)..(Len(lines) + n) /\ Len(b) \in Len(a)..(Len(a) + 1)
      BY <3>2, <2>6 DEF Grown
    <3>4. Len(b) \in Len(lines)..(Len(lines) + (n + 1))
      BY <3>1, <3>3
    <3>5. \A i \in 1..Len(lines) : i \in 1..Len(a) /\ a[i] = lines[i] /\ b[i] = a[i]
      BY <3>1, <3>2, <3>3, <2>6 DEF Grown
    <3> QED BY <3>4, <3>5 DEF Grown
  <2>8. ASSUME Len(b) = Len(lines) + (n + 1),
               NEW v, NEW g, Way(g, AppliedAll(v, lines), frames)
        PROVE  AppliedAll(v, b) = g[n + 1]
    <3>1. Len(lines) \in Nat /\ a \in Seq(S) /\ Grown(a, lines, n)
      BY <2>3
    <3>2. b = Append(a, f) /\ Len(a) = Len(lines) + n
      <4> HIDE DEF a, b, f
      <4>1. Len(a) \in Nat /\ Len(a) <= Len(lines) + n
        BY <3>1 DEF Grown
      <4>2. b # a
        BY <4>1, <3>1, <2>8
      <4>3. b = Append(a, f)
        BY <4>2, <2>6
      <4>4. Len(b) = Len(a) + 1
        BY <4>3, <3>1
      <4> QED BY <4>3, <4>4, <4>1, <3>1, <2>8
    <3>3. AppliedAll(v, a) = g[n]
      BY <2>3, <2>8, <3>2
    <3>4. AppliedAll(v, b) = Applied(AppliedAll(v, a), f)
      <4>1. f \in S
        BY <2>5
      <4> HIDE DEF a, b, f
      <4> QED BY <3>1, <3>2, <4>1, AppliedAppend
    <3>5. g[n + 1] = Applied(g[n], f)
      BY <2>2, <2>8 DEF Way
    <3> QED BY <3>3, <3>4, <3>5
  <2> QED BY <2>6, <2>7, <2>8
<1>5. Nat \subseteq T
  <2> HIDE DEF T
  <2> QED BY <1>3, <1>4, Induct
<1>6. Good(m)
  BY <1>2, <1>5
<1>7. ASSUME Len(h[m]) = Len(lines) + m, NEW v
      PROVE  AppliedAll(v, h[m]) = AppliedAll(AppliedAll(v, lines), frames)
  <2>1. PICK g : /\ Way(g, AppliedAll(v, lines), frames)
                 /\ AppliedAll(AppliedAll(v, lines), frames) = g[m]
    BY WayTaken
  <2> QED BY <1>6, <1>7, <2>1
<1> QED BY <1>1, <1>6, <1>7

-----------------------------------------------------------------------------
(* A payload of SessionInfo names the session. *)
Titled(p) == "Name" \in DOMAIN p /\ p["Name"] \in Session

(* A topic in full is not empty. *)
Delivered ==
    {f \in Frame : /\ f.topic = "SessionInfo" => Titled(f.payload)
                   /\ f.initial => f.payload # Empty}

UpstreamTypes ==
    /\ feed \in [Topic -> Payload]
    /\ Titled(feed["SessionInfo"])
    /\ \A t \in Topic : feed[t] # Empty
    /\ connection \in {"none", "open", "closed"}
    /\ queue \in Seq(Delivered \cup {Closed})
    /\ lost \in BOOLEAN

CollectorTypes ==
    /\ pc \in {"stopped", "connecting", "streaming", "closing", "waiting"}
    /\ stopping \in BOOLEAN
    /\ view \in [Topic -> Payload]
    /\ identity \in Session \cup {Nil}

LogTypes ==
    /\ pending \in Seq(Frame)
    /\ logging \in BOOLEAN /\ opened \in BOOLEAN /\ dropped \in BOOLEAN
    /\ opened => identity # Nil
    /\ files \in [Session -> Seq(Frame \cup {Torn})]

BoardTypes ==
    /\ at \in [Client -> {"away", "waiting", "sending"}]
    /\ backlog \in [Client -> 0..MaxBacklog]
    /\ shown \in [Client -> [Topic -> Payload]]

Counts ==
    /\ changes \in Nat /\ closes \in Nat /\ starts \in Nat
    /\ crashes \in Nat /\ logErrors \in Nat

Types == UpstreamTypes /\ CollectorTypes /\ LogTypes /\ BoardTypes /\ Counts

LEMMA SeqGrows ==
    ASSUME NEW A, NEW B, A \subseteq B, NEW q \in Seq(A)
    PROVE  q \in Seq(B)
<1>1. Len(q) \in Nat /\ q \in [1..Len(q) -> A]
  OBVIOUS
<1>2. q \in [1..Len(q) -> B]
  BY <1>1
<1>3. q \in UNION {[1..n -> B] : n \in Nat}
  BY <1>1, <1>2
<1> QED BY <1>3, SeqDef

LEMMA TypesImply == Types => TypeOK
<1> SUFFICES ASSUME Types PROVE TypeOK
  OBVIOUS
<1>1. Delivered \cup {Closed} \subseteq Frame \cup {Closed}
  BY DEF Delivered
<1>2. queue \in Seq(Frame \cup {Closed})
  <2> DEFINE A == Delivered \cup {Closed}
             B == Frame \cup {Closed}
  <2>1. queue \in Seq(A) /\ A \subseteq B
    BY <1>1 DEF Types, UpstreamTypes
  <2> HIDE DEF A, B
  <2>2. queue \in Seq(B)
    BY <2>1, SeqGrows
  <2> QED BY <2>2 DEF B
<1>3. BoardTypes /\ Counts /\ LogTypes /\ UpstreamTypes /\ CollectorTypes
  BY DEF Types
<1>4. {changes, closes, starts, crashes, logErrors} \subseteq Nat
  BY <1>3 DEF Counts
<1>5. {logging, opened, dropped} \subseteq BOOLEAN
  BY <1>3 DEF LogTypes
<1>6. feed \in [Topic -> Payload] /\ connection \in {"none", "open", "closed"} /\ lost \in BOOLEAN
  BY <1>3 DEF UpstreamTypes
<1>7. /\ pc \in {"stopped", "connecting", "streaming", "closing", "waiting"}
      /\ stopping \in BOOLEAN
      /\ view \in [Topic -> Payload]
      /\ identity \in Session \cup {Nil}
  BY <1>3 DEF CollectorTypes
<1>8. pending \in Seq(Frame) /\ files \in [Session -> Seq(Frame \cup {Torn})]
  BY <1>3 DEF LogTypes
<1>9. /\ at \in [Client -> {"away", "waiting", "sending"}]
      /\ backlog \in [Client -> 0..MaxBacklog]
      /\ shown \in [Client -> [Topic -> Payload]]
  BY <1>3 DEF BoardTypes
<1> QED BY <1>2, <1>4, <1>5, <1>6, <1>7, <1>8, <1>9, Zenon DEF TypeOK

-----------------------------------------------------------------------------
(* Payloads. *)
LEMMA PayloadIs ==
    ASSUME NEW p
    PROVE  p \in Payload <=> /\ p = [k \in DOMAIN p |-> p[k]]
                             /\ DOMAIN p \subseteq Field \cup {"Name"}
                             /\ \A k \in DOMAIN p : p[k] \in Session \cup Value
  BY DEF Payload

LEMMA EmptyFits == Empty \in Payload /\ NoView \in [Topic -> Payload]
<1>1. Empty \in Payload
  BY PayloadIs DEF Empty
<1> QED BY <1>1 DEF NoView

LEMMA MergeFits ==
    ASSUME NEW p \in Payload, NEW q \in Payload PROVE Merge(p, q) \in Payload
<1> DEFINE m == Merge(p, q)
<1>1. /\ m = [k \in DOMAIN m |-> m[k]]
      /\ DOMAIN m = DOMAIN p \cup DOMAIN q
      /\ \A k \in DOMAIN m : m[k] = IF k \in DOMAIN q THEN q[k] ELSE p[k]
  BY DEF Merge
<1> HIDE DEF m
<1>2. m \in Payload
  BY <1>1, PayloadIs
<1> QED BY <1>2 DEF m

LEMMA MergeGrows ==
    ASSUME NEW p \in Payload, NEW q \in Payload, p # Empty \/ q # Empty
    PROVE  Merge(p, q) # Empty
<1>1. DOMAIN Empty = {} /\ Empty = [k \in {} |-> Empty[k]]
  BY DEF Empty
<1>2. \A r \in Payload : r = [k \in DOMAIN r |-> r[k]]
  BY PayloadIs
<1>3. DOMAIN p # {} \/ DOMAIN q # {}
  BY <1>1, <1>2
<1>4. DOMAIN Merge(p, q) = DOMAIN p \cup DOMAIN q
  BY DEF Merge
<1> QED BY <1>1, <1>3, <1>4

LEMMA AppliedFits ==
    ASSUME NEW v \in [Topic -> Payload], NEW f \in Frame
    PROVE  /\ Applied(v, f) \in [Topic -> Payload]
           /\ \A t \in Topic : Applied(v, f)[t] =
                IF t # f.topic THEN v[t]
                ELSE IF f.initial THEN f.payload ELSE Merge(v[t], f.payload)
<1>1. f.topic \in Topic /\ f.payload \in Payload
  BY DEF Frame
<1>2. Merge(v[f.topic], f.payload) \in Payload
  BY <1>1, MergeFits
<1> QED BY <1>1, <1>2, Zenon DEF Applied

LEMMA DeltaFits ==
    ASSUME NEW f \in Field, NEW v \in Value
    PROVE  [topic |-> "TimingData", initial |-> FALSE,
            payload |-> [k \in {f} |-> v]] \in Delivered
<1> DEFINE p == [k \in {f} |-> v]
<1>1. p \in Payload
  <2>1. p = [k \in DOMAIN p |-> p[k]] /\ DOMAIN p = {f} /\ p[f] = v
    OBVIOUS
  <2> HIDE DEF p
  <2> QED BY <2>1, PayloadIs
<1> HIDE DEF p
<1>2. [topic |-> "TimingData", initial |-> FALSE, payload |-> p] \in Delivered
  BY <1>1 DEF Delivered, Frame, Topic
<1> QED BY <1>2 DEF p

LEMMA BeginningFits ==
    ASSUME NEW n \in Session, NEW f \in Field, NEW v \in Value
    PROVE  /\ Beginning(n, f, v) \in [Topic -> Payload]
           /\ Titled(Beginning(n, f, v)["SessionInfo"])
           /\ \A t \in Topic : Beginning(n, f, v)[t] # Empty
<1> DEFINE p == [k \in {"Name"} |-> n]
           q == [k \in {f} |-> v]
<1>1. p = [k \in DOMAIN p |-> p[k]] /\ DOMAIN p = {"Name"} /\ p["Name"] = n
  OBVIOUS
<1>2. q = [k \in DOMAIN q |-> q[k]] /\ DOMAIN q = {f} /\ q[f] = v
  OBVIOUS
<1>3. DOMAIN Empty = {}
  BY DEF Empty
<1>4. Beginning(n, f, v) = [t \in Topic |-> IF t = "SessionInfo" THEN p ELSE q]
  BY DEF Beginning
<1> HIDE DEF p, q
<1>5. p \in Payload /\ Titled(p) /\ p # Empty
  BY <1>1, <1>3, PayloadIs DEF Titled
<1>6. q \in Payload /\ q # Empty
  BY <1>2, <1>3, PayloadIs
<1>7. "SessionInfo" \in Topic
  BY DEF Topic
<1> QED BY <1>4, <1>5, <1>6, <1>7

(* The two orders in which a subscription brings the topics. *)
LEMMA Orders ==
    ASSUME NEW order \in SetToSeqs(Topic)
    PROVE  /\ order \in [1..2 -> Topic] /\ Len(order) = 2
           /\ order[1] # order[2] /\ Topic = {order[1], order[2]}
<1>1. IsFiniteSet({"SessionInfo"}) /\ Cardinality({"SessionInfo"}) = 1
  BY FS_Singleton
<1>2. Cardinality({"SessionInfo"} \cup {"TimingData"}) = 2
  BY <1>1, FS_AddElement
<1>3. Cardinality(Topic) = 2
  <2>1. Topic = {"SessionInfo"} \cup {"TimingData"}
    BY DEF Topic
  <2> QED BY <1>2, <2>1
<1>4. order \in [1..2 -> Topic] /\ order[1] # order[2]
  BY <1>3 DEF SetToSeqs
<1>5. order[1] \in Topic /\ order[2] \in Topic
  BY <1>4
<1>6. Topic = {order[1], order[2]}
  BY <1>4, <1>5 DEF Topic
<1>7. Len(order) = 2
  BY <1>4
<1> QED BY <1>4, <1>6, <1>7

-----------------------------------------------------------------------------
LEMMA NoLines ==
    /\ <<>> \in Seq(Delivered \cup {Closed})
    /\ <<>> \in Seq(Frame)
    /\ <<>> \in Seq(Frame \cup {Torn})
<1>1. \A S : <<>> \in Seq(S)
  OBVIOUS
<1> QED BY <1>1, Zenon

LEMMA TypesAtFirst == Init => Types
<1> SUFFICES ASSUME Init PROVE Types
  OBVIOUS
<1>1. UpstreamTypes
  <2>1. /\ feed \in [Topic -> Payload] /\ Titled(feed["SessionInfo"])
        /\ \A t \in Topic : feed[t] # Empty
    BY BeginningFits DEF Init
  <2> QED BY <2>1, NoLines DEF Init, UpstreamTypes
<1>2. CollectorTypes
  BY EmptyFits DEF Init, CollectorTypes
<1>3. LogTypes
  BY NoLines DEF Init, LogTypes
<1>4. BoardTypes
  <2>1. MaxBacklog \in Nat
    BY CollectorAssumption
  <2>2. 0 \in 0..MaxBacklog
    BY <2>1
  <2> QED BY <2>2, EmptyFits DEF Init, BoardTypes
<1>5. Counts
  BY DEF Init, Counts
<1> QED BY <1>1, <1>2, <1>3, <1>4, <1>5 DEF Types

-----------------------------------------------------------------------------
(* What the queue takes. *)
LEMMA OfferFits ==
    ASSUME Types, NEW item \in Delivered \cup {Closed}, Offer(item)
    PROVE  queue' \in Seq(Delivered \cup {Closed}) /\ lost' \in BOOLEAN
<1> DEFINE A == Delivered \cup {Closed}
<1>1. queue \in Seq(A) /\ lost \in BOOLEAN /\ item \in A
  BY DEF Types, UpstreamTypes
<1> HIDE DEF A
<1>2. queue' \in Seq(A)
  <2>1. Append(queue, item) \in Seq(A)
    BY <1>1
  <2> QED BY <1>1, <2>1 DEF Offer
<1>3. lost' \in BOOLEAN
  BY <1>1 DEF Offer
<1> QED BY <1>2, <1>3 DEF A

LEMMA UpstreamTyped == ASSUME Types, Upstream PROVE Types'
<1>1. UpstreamTypes /\ CollectorTypes /\ LogTypes /\ BoardTypes /\ Counts
  BY DEF Types
<1>2. ASSUME NEW f \in Field, NEW v \in Value, Change(f, v) PROVE Types'
  <2> DEFINE d == [topic |-> "TimingData", initial |-> FALSE,
                   payload |-> [k \in {f} |-> v]]
  <2>1. /\ d \in Delivered /\ d \in Frame /\ d.topic = "TimingData"
        /\ ~d.initial /\ d.payload # Empty /\ d.payload \in Payload
    <3>1. DOMAIN d.payload = {f} /\ DOMAIN Empty = {}
      BY DEF Empty
    <3>2. d \in Delivered /\ d \in Frame /\ ~d.initial
      BY DeltaFits DEF Delivered
    <3> QED BY <3>1, <3>2 DEF Frame
  <2>2. feed' = Applied(feed, d) /\ IF connection = "open" THEN Offer(d)
                                    ELSE UNCHANGED <<queue, lost>>
    BY <1>2 DEF Change
  <2> HIDE DEF d
  <2>3. feed' \in [Topic -> Payload] /\ feed'["SessionInfo"] = feed["SessionInfo"]
    BY <1>1, <2>1, <2>2, AppliedFits DEF Topic, UpstreamTypes
  <2>4. queue' \in Seq(Delivered \cup {Closed}) /\ lost' \in BOOLEAN
    BY <1>1, <2>1, <2>2, OfferFits DEF UpstreamTypes
  <2>7. ASSUME NEW t \in Topic PROVE feed'[t] # Empty
    <3>1. feed[t] # Empty /\ feed[t] \in Payload /\ feed \in [Topic -> Payload]
      BY <1>1 DEF UpstreamTypes
    <3>2. feed'[t] = IF t # d.topic THEN feed[t] ELSE Merge(feed[t], d.payload)
      BY <2>1, <2>2, <3>1, AppliedFits
    <3> QED BY <2>1, <3>1, <3>2, MergeGrows
  <2>5. UpstreamTypes'
    BY <1>1, <1>2, <2>3, <2>4, <2>7 DEF UpstreamTypes, Change
  <2>6. CollectorTypes' /\ LogTypes' /\ BoardTypes' /\ Counts'
    BY <1>1, <1>2 DEF Change, CollectorTypes, LogTypes, BoardTypes, Counts,
                      recording, clients
  <2> QED BY <2>5, <2>6 DEF Types
<1>3. ASSUME NEW n \in Session, NEW f \in Field, NEW v \in Value, NewSession(n, f, v)
      PROVE  Types'
  <2>1. UpstreamTypes'
    BY <1>1, <1>3, BeginningFits DEF UpstreamTypes, NewSession
  <2>2. CollectorTypes' /\ LogTypes' /\ BoardTypes' /\ Counts'
    BY <1>1, <1>3 DEF NewSession, CollectorTypes, LogTypes, BoardTypes, Counts,
                      recording, clients
  <2> QED BY <2>1, <2>2 DEF Types
<1>4. CASE ConnectionCloses
  <2>1. UpstreamTypes'
    BY <1>1, <1>4, OfferFits DEF UpstreamTypes, ConnectionCloses
  <2>2. CollectorTypes' /\ LogTypes' /\ BoardTypes' /\ Counts'
    BY <1>1, <1>4 DEF ConnectionCloses, CollectorTypes, LogTypes, BoardTypes, Counts,
                      recording, clients
  <2> QED BY <2>1, <2>2 DEF Types
<1>5. CASE ConnectFails
  <2>1. UpstreamTypes' /\ CollectorTypes' /\ LogTypes' /\ BoardTypes' /\ Counts'
    BY <1>1, <1>5 DEF ConnectFails, CollectorTypes, LogTypes, BoardTypes, Counts,
                      recording, clients, UpstreamTypes, upstream
  <2> QED BY <2>1 DEF Types
<1> QED BY <1>2, <1>3, <1>4, <1>5 DEF Upstream

(* A subscription brings every topic in full. *)
Subscribed(order) ==
    [i \in 1..Len(order) |->
        [topic |-> order[i], initial |-> TRUE, payload |-> feed[order[i]]]]

LEMMA SubscribedFits ==
    ASSUME Types, NEW order \in SetToSeqs(Topic)
    PROVE  /\ Subscribed(order) \in Seq(Delivered \cup {Closed})
           /\ Len(Subscribed(order)) = 2
           /\ \A i \in 1..2 : Subscribed(order)[i] =
                [topic |-> order[i], initial |-> TRUE, payload |-> feed[order[i]]]
           /\ \A i \in 1..2 : order[i] \in Topic
<1> DEFINE s == Subscribed(order)
           A == Delivered \cup {Closed}
<1>1. Len(order) = 2 /\ \A i \in 1..2 : order[i] \in Topic
  BY Orders
<1>2. s = [i \in 1..2 |-> [topic |-> order[i], initial |-> TRUE,
                           payload |-> feed[order[i]]]]
  BY <1>1 DEF Subscribed
<1>3. ASSUME NEW t \in Topic
      PROVE  [topic |-> t, initial |-> TRUE, payload |-> feed[t]] \in A
  <2>1. /\ feed[t] \in Payload /\ (t = "SessionInfo" => Titled(feed[t]))
        /\ feed[t] # Empty
    BY DEF Types, UpstreamTypes
  <2> QED BY <2>1 DEF Delivered, Frame
<1>4. s \in [1..2 -> A]
  BY <1>1, <1>2, <1>3
<1>5. s \in Seq(A) /\ Len(s) = 2
  <2> HIDE DEF A, s
  <2>1. s \in UNION {[1..n -> A] : n \in Nat}
    BY <1>4
  <2>2. s \in Seq(A)
    BY <2>1, SeqDef
  <2> QED BY <1>4, <2>2
<1> QED BY <1>1, <1>2, <1>5

LEMMA ConnectTyped == ASSUME Types, Connect PROVE Types'
<1>1. UpstreamTypes /\ CollectorTypes /\ LogTypes /\ BoardTypes /\ Counts
  BY DEF Types
<1>2. PICK order \in SetToSeqs(Topic) : Connected(order)
  BY DEF Connect
<1>3. queue' = Subscribed(order)
  BY <1>2 DEF Connected, Subscribed
<1>4. UpstreamTypes'
  BY <1>1, <1>2, <1>3, SubscribedFits DEF UpstreamTypes, Connected
<1>5. CollectorTypes' /\ LogTypes' /\ BoardTypes' /\ Counts'
  BY <1>1, <1>2 DEF Connected, CollectorTypes, LogTypes, BoardTypes, Counts,
                    recording, clients, counters
<1> QED BY <1>4, <1>5 DEF Types

-----------------------------------------------------------------------------
(* The frame that is handled. *)
LEMMA HeadFits ==
    ASSUME Types, queue # <<>>
    PROVE  /\ Tail(queue) \in Seq(Delivered \cup {Closed})
           /\ Head(queue) # Closed => Head(queue) \in Delivered /\ Head(queue) \in Frame
<1> DEFINE A == Delivered \cup {Closed}
<1>1. queue \in Seq(A)
  BY DEF Types, UpstreamTypes
<1>2. Head(queue) \in A /\ Tail(queue) \in Seq(A)
  <2> HIDE DEF A
  <2> QED BY <1>1
<1> QED BY <1>2 DEF Delivered

LEMMA NameFits ==
    ASSUME Types, NEW frame \in Delivered
    PROVE  /\ Name(frame) \in Session \cup {Nil}
           /\ identity # Nil => Name(frame) = identity
  BY DEF Types, CollectorTypes, Name, Delivered, Titled

LEMMA PutAllFits ==
    ASSUME NEW lines \in Seq(Frame \cup {Torn}), NEW frames \in Seq(Frame)
    PROVE  PutAll(lines, frames) \in Seq(Frame \cup {Torn})
<1> DEFINE A == Frame \cup {Torn}
<1>1. Frame \subseteq A /\ lines \in Seq(A)
  OBVIOUS
<1>2. frames \in Seq(A)
  BY <1>1, SeqGrows
<1>3. PutAll(lines, frames) \in Seq(A)
  <2> HIDE DEF A
  <2> QED BY <1>1, <1>2, PutAllGrows
<1> QED BY <1>3

LEMMA RecordTyped ==
    ASSUME Types, NEW frame \in Delivered, Record(frame, Name(frame)),
           identity' = Name(frame)
    PROVE  LogTypes'
<1>1. LogTypes /\ frame \in Frame
  BY DEF Types, Delivered
<1>2. Append(pending, frame) \in Seq(Frame)
  BY <1>1 DEF LogTypes
<1>3. /\ Name(frame) \in Session \cup {Nil}
      /\ identity # Nil => Name(frame) = identity
  BY NameFits
<1>4. CASE RecordNowhere
  BY <1>1, <1>3, <1>4 DEF RecordNowhere, LogTypes
<1>5. CASE RecordPending(frame, Name(frame))
  BY <1>1, <1>2, <1>3, <1>5 DEF RecordPending, LogTypes
<1>6. CASE RecordLine(frame, Name(frame))
  <2> DEFINE n == Name(frame)
             file == PutAll(files[n], Append(pending, frame))
  <2>1. n \in Session /\ n # Nil /\ files[n] \in Seq(Frame \cup {Torn})
    BY <1>1, <1>3, <1>6 DEF RecordLine, LogTypes
  <2>2. file \in Seq(Frame \cup {Torn})
    BY <1>2, <2>1, PutAllFits
  <2>3. /\ files' = [files EXCEPT ![n] = file]
        /\ dropped' \in BOOLEAN /\ opened' = TRUE /\ pending' = <<>>
        /\ logging' = logging
    BY <1>1, <1>6 DEF RecordLine, LogTypes
  <2> HIDE DEF file
  <2>4. files' \in [Session -> Seq(Frame \cup {Torn})]
    BY <1>1, <2>1, <2>2, <2>3 DEF LogTypes
  <2> QED BY <1>1, <2>1, <2>3, <2>4 DEF LogTypes
<1> QED BY <1>4, <1>5, <1>6 DEF Record

LEMMA RecordFailsTyped ==
    ASSUME Types, NEW frame \in Delivered, RecordFails(frame, Name(frame)),
           identity' = Name(frame)
    PROVE  LogTypes' /\ logErrors' \in Nat /\ logErrors' > 0
<1>1. LogTypes /\ frame \in Frame /\ logErrors \in Nat
  BY DEF Types, Delivered, Counts
<1>2. logErrors' \in Nat /\ logErrors' > 0
  BY <1>1 DEF RecordFails
<1>3. Append(pending, frame) \in Seq(Frame)
  BY <1>1 DEF LogTypes
<1> DEFINE n == Name(frame)
           lines == Append(pending, frame)
<1>4. n \in Session /\ n # Nil /\ files[n] \in Seq(Frame \cup {Torn})
  BY <1>1, NameFits DEF RecordFails, LogTypes
<1>5. CASE UNCHANGED <<pending, opened, files>>
  BY <1>1, <1>4, <1>5 DEF RecordFails, LogTypes
<1>6. CASE /\ opened' = TRUE
           /\ pending' = <<>>
           /\ \E i \in 0..Len(lines) :
                 files' = [files EXCEPT ![n] = PutAll(@, SubSeq(lines, 1, i))]
  <2>1. PICK i \in 0..Len(lines) :
                 files' = [files EXCEPT ![n] = PutAll(@, SubSeq(lines, 1, i))]
    BY <1>6
  <2> DEFINE file == PutAll(files[n], SubSeq(lines, 1, i))
  <2>2. SubSeq(lines, 1, i) \in Seq(Frame)
    <3>1. lines \in Seq(Frame)
      BY <1>3
    <3> HIDE DEF lines
    <3>2. Len(lines) \in Nat /\ \A j \in 1..Len(lines) : lines[j] \in Frame
      BY <3>1
    <3>3. \A j \in 1..i : lines[j] \in Frame
      BY <3>2
    <3> QED BY <3>1, <3>2, <3>3, SubSeqProperties
  <2>3. file \in Seq(Frame \cup {Torn})
    BY <1>4, <2>2, PutAllFits
  <2>4. files' = [files EXCEPT ![n] = file]
    BY <2>1
  <2> HIDE DEF file
  <2>5. files' \in [Session -> Seq(Frame \cup {Torn})]
    BY <1>1, <1>4, <2>3, <2>4 DEF LogTypes
  <2>6. logging' \in BOOLEAN /\ dropped' \in BOOLEAN
    BY <1>1 DEF RecordFails, LogTypes
  <2>7. pending' \in Seq(Frame) /\ opened' \in BOOLEAN /\ identity' # Nil
    BY <1>4, <1>6, NoLines
  <2> HIDE DEF lines, n
  <2>8. LogTypes'
    BY <2>5, <2>6, <2>7 DEF LogTypes
  <2> QED BY <1>2, <2>8
<1>7. LogTypes'
  BY <1>5, <1>6 DEF RecordFails
<1> QED BY <1>2, <1>7

LEMMA HandleTyped == ASSUME Types, Handle PROVE Types'
<1>1. UpstreamTypes /\ CollectorTypes /\ LogTypes /\ BoardTypes /\ Counts
  BY DEF Types
<1> DEFINE frame == Head(queue)
<1>2. queue # <<>> /\ queue' = Tail(queue)
  BY DEF Handle, HandleFrame, HandleDuplicate, HandleFails, StreamEnds, Streaming
<1>3. queue' \in Seq(Delivered \cup {Closed})
  BY <1>2, HeadFits
<1>4. UpstreamTypes'
  BY <1>1, <1>3 DEF Handle, HandleFrame, HandleDuplicate, HandleFails, StreamEnds,
                    UpstreamTypes
<1>5. ASSUME frame # Closed, view' = Applied(view, frame), identity' = Name(frame),
             pc' \in {pc, "closing"}, stopping' = stopping
      PROVE  CollectorTypes' /\ frame \in Delivered
  <2>1. frame \in Delivered /\ frame \in Frame
    BY <1>2, <1>5, HeadFits
  <2>2. view' \in [Topic -> Payload]
    BY <1>1, <1>5, <2>1, AppliedFits DEF CollectorTypes
  <2>3. identity' \in Session \cup {Nil}
    BY <1>5, <2>1, NameFits
  <2> QED BY <1>1, <1>5, <2>1, <2>2, <2>3 DEF CollectorTypes
<1>6. CASE HandleFrame
  <2>1. CollectorTypes' /\ frame \in Delivered
    BY <1>5, <1>6 DEF HandleFrame
  <2>2. LogTypes'
    BY <1>6, <2>1, RecordTyped DEF HandleFrame
  <2>3. BoardTypes'
    <3>1. MaxBacklog \in Nat
      BY CollectorAssumption
    <3>2. ASSUME NEW c \in Client
          PROVE  (IF at[c] # "away" /\ backlog[c] < MaxBacklog
                  THEN backlog[c] + 1 ELSE backlog[c]) \in 0..MaxBacklog
      <4>1. backlog[c] \in 0..MaxBacklog
        BY <1>1 DEF BoardTypes
      <4> QED BY <3>1, <4>1
    <3>3. backlog' \in [Client -> 0..MaxBacklog]
      BY <1>6, <3>2 DEF HandleFrame, Publish
    <3> QED BY <1>1, <1>6, <3>3 DEF HandleFrame, BoardTypes
  <2>4. Counts'
    BY <1>1, <1>6 DEF HandleFrame, counters, Counts
  <2> QED BY <1>4, <2>1, <2>2, <2>3, <2>4 DEF Types
<1>7. CASE HandleDuplicate \/ StreamEnds
  <2>1. CollectorTypes' /\ LogTypes' /\ BoardTypes' /\ Counts'
    BY <1>1, <1>7 DEF HandleDuplicate, StreamEnds, CollectorTypes, LogTypes,
                      BoardTypes, Counts, recording, clients, counters
  <2> QED BY <1>4, <2>1 DEF Types
<1>8. CASE HandleFails
  <2>1. CollectorTypes' /\ frame \in Delivered
    BY <1>5, <1>8 DEF HandleFails
  <2>2. LogTypes' /\ logErrors' \in Nat
    BY <1>8, <2>1, RecordFailsTyped DEF HandleFails
  <2>3. BoardTypes' /\ Counts'
    BY <1>1, <1>8, <2>2 DEF HandleFails, BoardTypes, Counts, clients
  <2> QED BY <1>4, <2>1, <2>2, <2>3 DEF Types
<1> QED BY <1>6, <1>7, <1>8 DEF Handle

-----------------------------------------------------------------------------
LEMMA FreshTyped ==
    ASSUME Types, Fresh, UNCHANGED <<files, feed>>, logging' \in BOOLEAN
    PROVE  LogTypes' /\ BoardTypes'
<1>1. LogTypes /\ MaxBacklog \in Nat
  BY CollectorAssumption DEF Types
<1>2. 0 \in 0..MaxBacklog
  BY <1>1
<1>3. LogTypes'
  BY <1>1, NoLines DEF Fresh, LogTypes
<1>4. BoardTypes'
  BY <1>2, EmptyFits DEF Fresh, BoardTypes
<1> QED BY <1>3, <1>4

LEMMA FreshCollector ==
    ASSUME Fresh, pc' \in {"stopped", "connecting"}
    PROVE  CollectorTypes'
<1>1. view' \in [Topic -> Payload]
  BY EmptyFits DEF Fresh
<1>2. identity' \in Session \cup {Nil} /\ stopping' \in BOOLEAN
  BY DEF Fresh
<1>3. pc' \in {"stopped", "connecting", "streaming", "closing", "waiting"}
  OBVIOUS
<1> QED BY <1>1, <1>2, <1>3, Zenon DEF CollectorTypes

LEMMA ServiceTyped == ASSUME Types, Service PROVE Types'
<1>1. UpstreamTypes /\ CollectorTypes /\ LogTypes /\ BoardTypes /\ Counts
  BY DEF Types
<1>2. ASSUME NEW room \in BOOLEAN, Start(room) PROVE Types'
  <2>1. LogTypes' /\ BoardTypes'
    BY <1>2, FreshTyped DEF Start, upstream
  <2>2. UpstreamTypes'
    BY <1>1, <1>2 DEF Start, upstream, UpstreamTypes
  <2>3. CollectorTypes'
    BY <1>2, FreshCollector DEF Start
  <2>4. Counts'
    BY <1>1, <1>2 DEF Start, Counts
  <2> QED BY <2>1, <2>2, <2>3, <2>4 DEF Types
<1>3. CASE StopRequested
  <2>1. UpstreamTypes' /\ CollectorTypes' /\ LogTypes' /\ BoardTypes' /\ Counts'
    BY <1>1, <1>3 DEF StopRequested, upstream, UpstreamTypes, CollectorTypes, Counts,
       LogTypes, BoardTypes, recording, clients, counters
  <2> QED BY <2>1 DEF Types
<1>4. CASE Cancelled
  <2>1. UpstreamTypes' /\ CollectorTypes' /\ LogTypes' /\ BoardTypes' /\ Counts'
    BY <1>1, <1>4, NoLines DEF Cancelled, UpstreamTypes, CollectorTypes, Counts,
       LogTypes, BoardTypes, recording, clients, counters
  <2> QED BY <2>1 DEF Types
<1>5. CASE Crash
  <2>1. Fresh /\ logging' = logging /\ feed' = feed
    BY <1>5 DEF Crash
  <2>2. files' \in [Session -> Seq(Frame \cup {Torn})]
    <3>1. CASE UNCHANGED files
      BY <1>1, <3>1 DEF LogTypes
    <3>2. CASE /\ opened /\ files[identity] # <<>>
               /\ files' = [files EXCEPT ![identity] = Append(Front(@), Torn)]
      <4> DEFINE A == Frame \cup {Torn}
                 q == files[identity]
      <4>1. identity \in Session /\ files \in [Session -> Seq(A)]
        BY <1>1, <3>2 DEF LogTypes, CollectorTypes
      <4>2. q \in Seq(A) /\ q # <<>> /\ Torn \in A
        BY <4>1, <3>2
      <4>3. Append(Front(q), Torn) \in Seq(A)
        <5> HIDE DEF A, q
        <5>1. Len(q) - 1 \in Nat /\ \A i \in 1..(Len(q) - 1) : q[i] \in A
          BY <4>2
        <5>2. Front(q) \in Seq(A)
          BY <4>2, <5>1, SubSeqProperties DEF Front
        <5> QED BY <4>2, <5>2
      <4> HIDE DEF A
      <4>4. files' \in [Session -> Seq(A)]
        BY <3>2, <4>1, <4>3
      <4> QED BY <4>4 DEF A
    <3> QED BY <1>5, <3>1, <3>2 DEF Crash
  <2>3. LogTypes' /\ BoardTypes'
    <3>1. MaxBacklog \in Nat /\ logging \in BOOLEAN
      BY <1>1, CollectorAssumption DEF LogTypes
    <3>2. 0 \in 0..MaxBacklog
      BY <3>1
    <3>3. LogTypes'
      BY <2>1, <2>2, <3>1, NoLines DEF Fresh, LogTypes
    <3>4. BoardTypes'
      BY <2>1, <3>2, EmptyFits DEF Fresh, BoardTypes
    <3> QED BY <3>3, <3>4
  <2>4. UpstreamTypes'
    BY <1>1, <1>5, NoLines DEF Crash, UpstreamTypes
  <2>5. CollectorTypes'
    BY <1>5, <2>1, FreshCollector DEF Crash
  <2>6. Counts'
    BY <1>1, <1>5 DEF Crash, Counts
  <2> QED BY <2>3, <2>4, <2>5, <2>6 DEF Types
<1> QED BY <1>2, <1>3, <1>4, <1>5 DEF Service

LEMMA ClientTyped ==
    ASSUME Types, NEW c \in Client, Join(c) \/ Sent(c) \/ Redraw(c) \/ Leave(c)
    PROVE  Types'
<1>1. UpstreamTypes /\ CollectorTypes /\ LogTypes /\ BoardTypes /\ Counts
  BY DEF Types
<1>2. UpstreamTypes' /\ CollectorTypes' /\ LogTypes' /\ Counts'
  <2>1. /\ UNCHANGED <<feed, connection, queue, lost>>
        /\ UNCHANGED <<pc, stopping, view, identity>>
        /\ UNCHANGED <<pending, logging, opened, dropped, files>>
        /\ UNCHANGED <<changes, closes, starts, crashes, logErrors>>
    BY DEF Join, Sent, Redraw, Leave, upstream, recording, counters
  <2>2. UpstreamTypes' /\ CollectorTypes'
    BY <1>1, <2>1 DEF UpstreamTypes, CollectorTypes
  <2>3. LogTypes' /\ Counts'
    BY <1>1, <2>1 DEF LogTypes, Counts
  <2> QED BY <2>2, <2>3
<1>3. BoardTypes'
  <2>1. MaxBacklog \in Nat
    BY CollectorAssumption
  <2>2. 0 \in 0..MaxBacklog /\ view \in [Topic -> Payload]
    BY <1>1, <2>1 DEF CollectorTypes
  <2>3. BoardTypes /\ NoView \in [Topic -> Payload]
    BY <1>1, EmptyFits
  <2>4. CASE Join(c)
    BY <2>2, <2>3, <2>4 DEF Join, BoardTypes
  <2>5. CASE Sent(c)
    BY <2>3, <2>5 DEF Sent, BoardTypes
  <2>6. CASE Redraw(c)
    BY <2>2, <2>3, <2>6 DEF Redraw, BoardTypes
  <2>7. CASE Leave(c)
    BY <2>2, <2>3, <2>7 DEF Leave, BoardTypes
  <2> QED BY <2>4, <2>5, <2>6, <2>7
<1> QED BY <1>2, <1>3 DEF Types

LEMMA StepTyped == Types /\ [Next]_vars => Types'
<1> SUFFICES ASSUME Types, [Next]_vars PROVE Types'
  OBVIOUS
<1>1. UpstreamTypes /\ CollectorTypes /\ LogTypes /\ BoardTypes /\ Counts
  BY DEF Types
<1>2. CASE FeedClosed \/ Reconnect
  <2>1. UpstreamTypes'
    BY <1>1, <1>2, NoLines DEF FeedClosed, Reconnect, upstream, UpstreamTypes
  <2>2. pc' \in {"stopped", "connecting", "waiting"}
    BY <1>2 DEF FeedClosed, Reconnect
  <2>3. CollectorTypes' /\ LogTypes' /\ BoardTypes' /\ Counts'
    BY <1>1, <1>2, <2>2 DEF FeedClosed, Reconnect, CollectorTypes,
       Counts, LogTypes, BoardTypes, recording, clients, counters
  <2> QED BY <2>1, <2>3 DEF Types
<1>3. CASE UNCHANGED vars
  <2>1. UpstreamTypes' /\ CollectorTypes' /\ LogTypes' /\ BoardTypes' /\ Counts'
    BY <1>1, <1>3 DEF vars, UpstreamTypes, CollectorTypes,
       Counts, LogTypes, BoardTypes
  <2> QED BY <2>1 DEF Types
<1> QED BY <1>2, <1>3, UpstreamTyped, ConnectTyped, HandleTyped, ServiceTyped,
           ClientTyped DEF Next

(* The type invariant, for every upstream, number of clients and bound:    *)
(* what is merged, queued, buffered and recorded are payloads of the feed, *)
(* and an open log has a name.                                             *)
THEOREM CollectorTyped == Spec => []TypeOK
  BY TypesAtFirst, StepTyped, TypesImply, PTL DEF Spec

-----------------------------------------------------------------------------
(* NothingMissed speaks of handlers that wait.  It is kept because a       *)
(* handler that still sends has been told of every change, too.            *)
Told(c) == at[c] # "away" /\ backlog[c] = 0 => shown[c] = view

AllTold == logErrors = 0 => \A c \in Client : Told(c)

(* What the steps do to the handlers: nothing, ... *)
LEMMA ElsewhereKeeps ==
    ASSUME AllTold, UNCHANGED <<view, at, backlog, shown, logErrors>>
    PROVE  AllTold'
  BY DEF AllTold, Told

(* ... end them, ... *)
LEMMA FreshKeeps == ASSUME Fresh PROVE AllTold'
  BY DEF Fresh, AllTold, Told

(* ... announce a new view to all that are connected, ... *)
LEMMA PublishReaches ==
    ASSUME Types, Publish, UNCHANGED at
    PROVE  AllTold'
<1>1. MaxBacklog \in Nat \ {0}
  BY CollectorAssumption
<1>2. ASSUME NEW c \in Client
      PROVE  backlog'[c] = IF at[c] # "away" /\ backlog[c] < MaxBacklog
                           THEN backlog[c] + 1 ELSE backlog[c]
  BY DEF Publish
<1>3. ASSUME NEW c \in Client, at[c] # "away"
      PROVE  backlog'[c] # 0
  <2>1. backlog[c] \in 0..MaxBacklog
    BY DEF Types, BoardTypes
  <2> QED BY <1>1, <1>2, <1>3, <2>1
<1> QED BY <1>3 DEF AllTold, Told

(* ... or move one of them. *)
LEMMA ClientKeeps ==
    ASSUME Types, AllTold, NEW c \in Client,
           Join(c) \/ Sent(c) \/ Redraw(c) \/ Leave(c)
    PROVE  AllTold'
<1>1. UNCHANGED <<view, logErrors>>
  BY DEF Join, Sent, Redraw, Leave, counters
<1>2. ASSUME NEW d \in Client, logErrors = 0 PROVE Told(d)'
  <2>1. Told(d)
    BY <1>2 DEF AllTold
  <2>2. CASE d # c
    BY <1>1, <2>1, <2>2 DEF Types, BoardTypes, Told, Join, Sent, Redraw, Leave
  <2>3. CASE d = c
    BY <1>1, <2>1, <2>3 DEF Types, BoardTypes, Told, Join, Sent, Redraw, Leave
  <2> QED BY <2>2, <2>3
<1> QED BY <1>1, <1>2 DEF AllTold

LEMMA AllToldStays == Types /\ AllTold /\ [Next]_vars => AllTold'
<1> SUFFICES ASSUME Types, AllTold, [Next]_vars PROVE AllTold'
  OBVIOUS
<1>1. CASE Upstream \/ Connect \/ FeedClosed \/ Reconnect
  <2>1. UNCHANGED <<view, at, backlog, shown, logErrors>>
    BY <1>1 DEF Upstream, Change, NewSession, ConnectionCloses, ConnectFails,
       Connect, Connected, FeedClosed, Reconnect, clients, counters
  <2> QED BY <2>1, ElsewhereKeeps
<1>2. CASE HandleFrame
  BY <1>2, PublishReaches DEF HandleFrame
<1>3. CASE HandleDuplicate \/ StreamEnds
  BY <1>3, ElsewhereKeeps DEF HandleDuplicate, StreamEnds, clients, counters
<1>4. CASE HandleFails
  (* The frame is not announced; the property only speaks of runs in which *)
  (* the log has not failed.                                               *)
  <2>1. logErrors' = logErrors + 1 /\ logErrors \in Nat
    BY <1>4 DEF HandleFails, RecordFails, Types, Counts
  <2> QED BY <2>1 DEF AllTold
<1>5. CASE Service
  <2>1. ASSUME NEW room \in BOOLEAN, Start(room) PROVE AllTold'
    BY <2>1, FreshKeeps DEF Start
  <2>2. CASE StopRequested \/ Cancelled
    BY <2>2, ElsewhereKeeps DEF StopRequested, Cancelled, clients, counters
  <2>3. CASE Crash
    BY <2>3, FreshKeeps DEF Crash
  <2> QED BY <1>5, <2>1, <2>2, <2>3 DEF Service
<1>6. CASE UNCHANGED vars
  BY <1>6, ElsewhereKeeps DEF vars
<1> QED BY <1>1, <1>2, <1>3, <1>4, <1>5, <1>6, ClientKeeps DEF Next, Handle

(* No change of the view, however it interleaves with the joining, sending *)
(* and waiting of the websocket handlers and with dropped updates, leaves  *)
(* a handler waiting with an older board.                                  *)
THEOREM NothingIsMissed == Spec => []NothingMissed
<1>1. Init => AllTold
  BY DEF Init, AllTold, Told
<1>2. AllTold => NothingMissed
  BY DEF AllTold, Told, NothingMissed, NothingMissedBy
<1> QED BY <1>1, <1>2, TypesAtFirst, StepTyped, AllToldStays, PTL DEF Spec

-----------------------------------------------------------------------------
LEMMA SubscribedLeads ==
    ASSUME Types, NEW order \in SetToSeqs(Topic)
    PROVE  AppliedAll(view, Subscribed(order)) = feed
<1> DEFINE s == Subscribed(order)
           a == order[1]
           b == order[2]
           g == [i \in 0..2 |-> IF i = 0 THEN view ELSE IF i = 1
                    THEN [view EXCEPT ![a] = feed[a]] ELSE feed]
<1>1. view \in [Topic -> Payload] /\ feed \in [Topic -> Payload]
  BY DEF Types, UpstreamTypes, CollectorTypes
<1>2. a # b /\ Topic = {a, b}
  BY Orders
<1>3. /\ s \in Seq(Delivered \cup {Closed}) /\ Len(s) = 2
      /\ s[1].topic = a /\ s[1].initial /\ s[1].payload = feed[a]
      /\ s[2].topic = b /\ s[2].initial /\ s[2].payload = feed[b]
  <2>1. /\ s \in Seq(Delivered \cup {Closed}) /\ Len(s) = 2
        /\ \A i \in 1..2 : s[i] =
            [topic |-> order[i], initial |-> TRUE, payload |-> feed[order[i]]]
    BY SubscribedFits
  <2> HIDE DEF s
  <2>2. 1 \in 1..2 /\ 2 \in 1..2
    OBVIOUS
  <2>3. /\ s[1] = [topic |-> a, initial |-> TRUE, payload |-> feed[a]]
        /\ s[2] = [topic |-> b, initial |-> TRUE, payload |-> feed[b]]
    BY <2>1, <2>2
  <2> HIDE DEF a, b
  <2>4. /\ s[1].topic = a /\ s[1].initial /\ s[1].payload = feed[a]
        /\ s[2].topic = b /\ s[2].initial /\ s[2].payload = feed[b]
    BY <2>3
  <2> QED BY <2>1, <2>4
<1> HIDE DEF s
<1>4. Applied(view, s[1]) = [view EXCEPT ![a] = feed[a]]
  BY <1>3, Zenon DEF Applied
<1>5. Applied([view EXCEPT ![a] = feed[a]], s[2])
        = [[view EXCEPT ![a] = feed[a]] EXCEPT ![b] = feed[b]]
  BY <1>3, Zenon DEF Applied
<1> HIDE DEF a, b
<1>6. [[view EXCEPT ![a] = feed[a]] EXCEPT ![b] = feed[b]] = feed
  BY <1>1, <1>2
<1>7. g[0] = view /\ g[1] = [view EXCEPT ![a] = feed[a]] /\ g[2] = feed
  OBVIOUS
<1> HIDE DEF g
<1>8. ASSUME NEW i \in 1..2 PROVE g[i] = Applied(g[i - 1], s[i])
  <2>1. CASE i = 1
    BY <1>4, <1>7, <2>1
  <2>2. CASE i = 2
    <3>1. i - 1 = 1
      BY <2>2
    <3> QED BY <1>5, <1>6, <1>7, <2>2, <3>1
  <2> QED BY <2>1, <2>2
<1>9. Way(g, view, s)
  BY <1>3, <1>7, <1>8 DEF Way
<1>10. AppliedAll(view, s) = g[Len(s)]
  BY <1>3, <1>9, WayLeads
<1> QED BY <1>3, <1>7, <1>10 DEF s

LEMMA CaughtUpStays == Types /\ CaughtUp /\ [Next]_vars => CaughtUp'
<1> SUFFICES ASSUME Types, CaughtUp, [Next]_vars,
                    pc' = "streaming", connection' = "open", ~lost'
             PROVE  AppliedAll(view', queue') = feed'
  BY DEF CaughtUp
<1> DEFINE A == Delivered \cup {Closed}
<1>1. queue \in Seq(A)
  BY DEF Types, UpstreamTypes
<1>2. ASSUME pc = "streaming", connection = "open", ~lost
      PROVE  AppliedAll(view, queue) = feed
  BY <1>2 DEF CaughtUp
<1>3. CASE UNCHANGED <<feed, connection, queue, lost, pc, view>>
  BY <1>2, <1>3
<1>4. ASSUME NEW f \in Field, NEW v \in Value, Change(f, v)
      PROVE  AppliedAll(view', queue') = feed'
  <2> DEFINE d == [topic |-> "TimingData", initial |-> FALSE,
                   payload |-> [k \in {f} |-> v]]
  <2>1. d \in A
    BY DeltaFits
  <2>2. /\ feed' = Applied(feed, d)
        /\ IF connection = "open" THEN Offer(d) ELSE UNCHANGED <<queue, lost>>
        /\ UNCHANGED <<connection, pc, view>>
    BY <1>4 DEF Change
  <2> HIDE DEF d, A
  <2>3. ~lost /\ queue' = Append(queue, d)
    BY <2>2 DEF Offer
  <2>4. AppliedAll(view, queue) = feed
    BY <1>2, <2>2, <2>3
  <2> QED BY <1>1, <2>1, <2>2, <2>3, <2>4, AppliedAppend
<1>5. CASE \E n \in Session, f \in Field, v \in Value : NewSession(n, f, v)
  BY <1>5 DEF NewSession
<1>6. CASE ConnectionCloses
  BY <1>6 DEF ConnectionCloses
<1>7. CASE ConnectFails
  BY <1>7 DEF ConnectFails
<1>8. CASE Connect
  <2>1. PICK order \in SetToSeqs(Topic) : Connected(order)
    BY <1>8 DEF Connect
  <2>2. queue' = Subscribed(order) /\ view' = view /\ feed' = feed
    BY <2>1 DEF Connected, Subscribed
  <2> QED BY <2>2, SubscribedLeads
<1>9. CASE HandleFrame \/ HandleDuplicate
  <2>1. /\ queue # <<>> /\ queue' = Tail(queue)
        /\ view' = Applied(view, Head(queue))
        /\ UNCHANGED <<feed, connection, lost, pc>>
    BY <1>9 DEF HandleFrame, HandleDuplicate, Streaming
  <2>2. AppliedAll(view, queue) = AppliedAll(view', queue')
    <3> HIDE DEF A
    <3> QED BY <1>1, <2>1, AppliedTail
  <2> QED BY <1>2, <2>1, <2>2
<1>10. CASE HandleFails \/ StreamEnds
  BY <1>10 DEF HandleFails, StreamEnds
<1>11. CASE FeedClosed \/ Reconnect
  BY <1>11 DEF FeedClosed, Reconnect
<1>12. CASE Service
  <2>1. ASSUME NEW room \in BOOLEAN, Start(room) PROVE FALSE
    BY <2>1 DEF Start
  <2>2. CASE StopRequested
    BY <1>3, <2>2 DEF StopRequested, upstream
  <2> QED BY <1>12, <2>1, <2>2 DEF Service, Cancelled, Crash
<1>13. ASSUME NEW c \in Client, Join(c) \/ Sent(c) \/ Redraw(c) \/ Leave(c)
       PROVE  AppliedAll(view', queue') = feed'
  BY <1>3, <1>13 DEF Join, Sent, Redraw, Leave, upstream
<1>14. CASE UNCHANGED vars
  BY <1>3, <1>14 DEF vars
<1> QED BY <1>4, <1>5, <1>6, <1>7, <1>8, <1>9, <1>10, <1>11, <1>12, <1>13, <1>14
        DEF Next, Upstream, Handle

(* As long as no frame of this connection was dropped, the view and the    *)
(* frames that are still queued add up to what the upstream has, whatever  *)
(* reconnects came before and however many frames are on their way.        *)
THEOREM ViewCatchesUp == Spec => []CaughtUp
<1>1. Init => CaughtUp
  BY DEF Init, CaughtUp
<1> QED BY <1>1, TypesAtFirst, StepTyped, CaughtUpStays, PTL DEF Spec

-----------------------------------------------------------------------------
(* A topic that the view does not have comes in full before anything else  *)
(* of it.                                                                  *)
Complete(frame, t) == frame.topic = t /\ frame.initial

FullFirst ==
    pc = "streaming" => \A t \in Topic : view[t] = Empty =>
        \E i \in 1..Len(queue) :
            /\ Complete(queue[i], t)
            /\ \A j \in 1..(i - 1) : queue[j].topic # t

Agrees(w, v) == \A t \in Topic : v[t] # Empty => w[t] = v[t]

Clean == \A n \in Session : \A i \in 1..Len(files[n]) : files[n][i] # Torn

Reliable == logging /\ ~dropped /\ logErrors = 0 /\ Clean

(* Frames that wait for the name lead to the view from any other view:     *)
(* that is why they can follow whatever the file already has.              *)
LogInv ==
    Reliable =>
        IF opened
        THEN pending = <<>> /\ Agrees(AppliedAll(NoView, files[identity]), view)
        ELSE \A v \in [Topic -> Payload] : Agrees(AppliedAll(v, pending), view)

-----------------------------------------------------------------------------
(* A queue that only grows at its end keeps them first. *)
LEMMA LongerKeepsFull ==
    ASSUME Types, FullFirst, NEW d \in Delivered \cup {Closed},
           Offer(d) \/ UNCHANGED queue, UNCHANGED <<pc, view>>
    PROVE  FullFirst'
<1> DEFINE A == Delivered \cup {Closed}
<1>1. SUFFICES ASSUME pc' = "streaming", NEW t \in Topic, view'[t] = Empty
      PROVE  \E i \in 1..Len(queue') :
                /\ Complete(queue'[i], t)
                /\ \A j \in 1..(i - 1) : queue'[j].topic # t
  BY DEF FullFirst
<1>2. PICK i \in 1..Len(queue) :
                /\ Complete(queue[i], t)
                /\ \A j \in 1..(i - 1) : queue[j].topic # t
  BY <1>1 DEF FullFirst
<1>3. queue \in Seq(A) /\ d \in A
  BY DEF Types, UpstreamTypes
<1>4. queue' = queue \/ queue' = Append(queue, d)
  BY DEF Offer
<1> HIDE DEF A
<1>5. /\ Len(queue') >= Len(queue) /\ \A j \in 1..Len(queue) : queue'[j] = queue[j]
      /\ Len(queue) \in Nat /\ Len(queue') \in Nat
  BY <1>3, <1>4
<1>6. /\ i \in 1..Len(queue') /\ queue'[i] = queue[i]
      /\ \A j \in 1..(i - 1) : queue'[j] = queue[j]
  BY <1>5
<1> QED BY <1>2, <1>6

LEMMA ConnectKeepsFull ==
    ASSUME Types, FullFirst, Connect
    PROVE  FullFirst'
<1>1. PICK order \in SetToSeqs(Topic) : Connected(order)
  BY DEF Connect
<1>2. queue' = Subscribed(order) /\ feed' = feed
  BY <1>1 DEF Connected, Subscribed
<1>3. ASSUME NEW t \in Topic
      PROVE  \E i \in 1..Len(queue') :
                /\ Complete(queue'[i], t)
                /\ \A j \in 1..(i - 1) : queue'[j].topic # t
  <2>1. PICK i \in 1..2 : order[i] = t /\ \A j \in 1..2 : order[j] = t => j = i
    <3>1. order[1] # order[2] /\ Topic = {order[1], order[2]}
      BY Orders
    <3>2. CASE t = order[1]
      <4>1. \A j \in 1..2 : j = 1 \/ j = 2
        OBVIOUS
      <4> QED BY <3>1, <3>2, <4>1
    <3>3. CASE t = order[2]
      <4>1. \A j \in 1..2 : j = 1 \/ j = 2
        OBVIOUS
      <4> QED BY <3>1, <3>3, <4>1
    <3> QED BY <3>1, <3>2, <3>3
  <2>2. Len(queue') = 2 /\ \A j \in 1..2 : queue'[j] =
            [topic |-> order[j], initial |-> TRUE, payload |-> feed[order[j]]]
    BY <1>2, SubscribedFits
  <2>4. Complete(queue'[i], t)
    BY <2>1, <2>2 DEF Complete
  <2>5. ASSUME NEW j \in 1..(i - 1) PROVE queue'[j].topic # t
    <3>1. j \in 1..2 /\ j # i
      OBVIOUS
    <3>2. queue'[j].topic = order[j] /\ order[j] # t
      BY <2>1, <2>2, <3>1
    <3> QED BY <3>2
  <2> QED BY <2>2, <2>4, <2>5
<1> QED BY <1>3 DEF FullFirst

(* The first frame of a topic that the view lacks is a full one. *)
LEMMA FirstIsFull ==
    ASSUME Types, FullFirst, pc = "streaming", queue # <<>>, Head(queue) # Closed
    PROVE  /\ Head(queue) \in Delivered /\ Head(queue) \in Frame
           /\ view[Head(queue).topic] = Empty => Head(queue).initial
<1> DEFINE f == Head(queue)
<1>1. f \in Delivered /\ f \in Frame
  BY HeadFits
<1>2. f.topic \in Topic
  BY <1>1 DEF Frame
<1>3. queue \in Seq(Delivered \cup {Closed})
  BY DEF Types, UpstreamTypes
<1>4. f = queue[1] /\ Len(queue) \in Nat
  BY <1>3
<1>5. ASSUME view[f.topic] = Empty PROVE f.initial
  <2>1. PICK i \in 1..Len(queue) :
                /\ Complete(queue[i], f.topic)
                /\ \A j \in 1..(i - 1) : queue[j].topic # f.topic
    BY <1>2, <1>5 DEF FullFirst
  <2>2. i = 1
    <3> HIDE DEF f
    <3> SUFFICES ASSUME i # 1 PROVE FALSE
      OBVIOUS
    <3>1. 1 \in 1..(i - 1)
      BY <1>4
    <3> QED BY <1>4, <2>1, <3>1
  <2> QED BY <1>4, <2>1, <2>2 DEF Complete
<1> QED BY <1>1, <1>5

LEMMA HandledKeepsFull ==
    ASSUME Types, FullFirst, pc = "streaming", queue # <<>>, queue' = Tail(queue),
           Head(queue) # Closed, view' = Applied(view, Head(queue))
    PROVE  FullFirst'
<1> DEFINE f == Head(queue)
<1>1. /\ f \in Frame /\ f.topic \in Topic /\ f.payload \in Payload
      /\ f.initial => f.payload # Empty
  BY FirstIsFull DEF Frame, Delivered
<1>2. view[f.topic] = Empty => f.initial
  BY FirstIsFull
<1>3. view \in [Topic -> Payload] /\ queue \in Seq(Delivered \cup {Closed})
  BY DEF Types, UpstreamTypes, CollectorTypes
<1>4. f = queue[1] /\ Len(queue) \in Nat \ {0} /\ Len(queue') = Len(queue) - 1
      /\ \A i \in 1..(Len(queue) - 1) : queue'[i] = queue[i + 1]
  BY <1>3
<1> HIDE DEF f
<1>5. ASSUME NEW t \in Topic
      PROVE  view'[t] = IF t # f.topic THEN view[t]
                        ELSE IF f.initial THEN f.payload ELSE Merge(view[t], f.payload)
  BY <1>1, <1>3, AppliedFits DEF f
<1>6. ASSUME NEW t \in Topic, view'[t] = Empty
      PROVE  \E i \in 1..Len(queue') :
                /\ Complete(queue'[i], t)
                /\ \A j \in 1..(i - 1) : queue'[j].topic # t
  <2>1. t # f.topic
    <3>1. SUFFICES ASSUME t = f.topic PROVE FALSE
      OBVIOUS
    <3>2. CASE f.initial
      BY <1>1, <1>5, <1>6, <3>1, <3>2
    <3>3. CASE ~f.initial
      <4>1. view[t] # Empty /\ view'[t] = Merge(view[t], f.payload)
        BY <1>2, <1>5, <3>1, <3>3
      <4>2. view[t] \in Payload
        BY <1>3
      <4> QED BY <1>1, <1>6, <4>1, <4>2, MergeGrows
    <3> QED BY <3>2, <3>3
  <2>2. view[t] = Empty
    BY <1>5, <1>6, <2>1
  <2>3. PICK i \in 1..Len(queue) :
                /\ Complete(queue[i], t)
                /\ \A j \in 1..(i - 1) : queue[j].topic # t
    BY <2>2 DEF FullFirst
  <2>4. i # 1 /\ i - 1 \in 1..Len(queue')
    <3>1. i # 1
      BY <1>4, <2>1, <2>3 DEF Complete
    <3> QED BY <1>4, <3>1
  <2>5. queue'[i - 1] = queue[i]
    BY <1>4, <2>4
  <2>6. ASSUME NEW j \in 1..((i - 1) - 1) PROVE queue'[j].topic # t
    <3>1. j + 1 \in 1..(i - 1) /\ j \in 1..(Len(queue) - 1)
      BY <1>4, <2>4
    <3> QED BY <1>4, <2>3, <3>1
  <2> QED BY <2>3, <2>4, <2>5, <2>6
<1> QED BY <1>6 DEF FullFirst

-----------------------------------------------------------------------------
LEMMA FullFirstStays == Types /\ FullFirst /\ [Next]_vars => FullFirst'
<1> SUFFICES ASSUME Types, FullFirst, [Next]_vars PROVE FullFirst'
  OBVIOUS
<1>1. CASE pc' # "streaming"
  BY <1>1 DEF FullFirst
<1>2. CASE UNCHANGED <<queue, pc, view>>
  BY <1>2 DEF FullFirst
<1>3. ASSUME NEW f \in Field, NEW v \in Value, Change(f, v) PROVE FullFirst'
  <2> DEFINE d == [topic |-> "TimingData", initial |-> FALSE,
                   payload |-> [k \in {f} |-> v]]
  <2>1. d \in Delivered
    BY DeltaFits
  <2>2. Offer(d) \/ UNCHANGED queue
    BY <1>3 DEF Change
  <2>3. UNCHANGED <<pc, view>>
    BY <1>3 DEF Change
  <2> HIDE DEF d
  <2> QED BY <2>1, <2>2, <2>3, LongerKeepsFull
<1>4. CASE \E n \in Session, f \in Field, v \in Value : NewSession(n, f, v)
  BY <1>2, <1>4 DEF NewSession
<1>5. CASE ConnectionCloses
  BY <1>5, LongerKeepsFull DEF ConnectionCloses
<1>6. CASE ConnectFails
  BY <1>1, <1>6 DEF ConnectFails
<1>7. CASE HandleFrame \/ HandleDuplicate
  BY <1>1, <1>7, HandledKeepsFull DEF HandleFrame, HandleDuplicate, Streaming
<1>8. CASE HandleFails \/ StreamEnds
  BY <1>1, <1>8 DEF HandleFails, StreamEnds
<1>9. CASE FeedClosed \/ Reconnect
  BY <1>1, <1>9 DEF FeedClosed, Reconnect
<1>10. CASE Service
  <2>1. ASSUME NEW room \in BOOLEAN, Start(room) PROVE FullFirst'
    BY <1>1, <2>1 DEF Start
  <2>2. CASE StopRequested
    BY <1>2, <2>2 DEF StopRequested, upstream
  <2>3. CASE Cancelled \/ Crash
    BY <1>1, <2>3 DEF Cancelled, Crash
  <2> QED BY <1>10, <2>1, <2>2, <2>3 DEF Service
<1>11. ASSUME NEW c \in Client, Join(c) \/ Sent(c) \/ Redraw(c) \/ Leave(c)
       PROVE  FullFirst'
  BY <1>2, <1>11 DEF Join, Sent, Redraw, Leave, upstream
<1>12. CASE UNCHANGED vars
  BY <1>2, <1>12 DEF vars
<1> QED BY <1>3, <1>4, <1>5, <1>6, <1>7, <1>8, <1>9, <1>10, <1>11, <1>12,
           ConnectKeepsFull DEF Next, Upstream, Handle

-----------------------------------------------------------------------------
(* A replay and the view take a frame alike, unless it is a delta that     *)
(* seeds a topic.                                                          *)
LEMMA AgreesStep ==
    ASSUME NEW w \in [Topic -> Payload], NEW v \in [Topic -> Payload],
           NEW f \in Frame, Agrees(w, v), v[f.topic] = Empty => f.initial
    PROVE  Agrees(Applied(w, f), Applied(v, f))
<1> SUFFICES ASSUME NEW t \in Topic, Applied(v, f)[t] # Empty
             PROVE  Applied(w, f)[t] = Applied(v, f)[t]
  BY DEF Agrees
<1>1. v[t] # Empty => w[t] = v[t]
  BY DEF Agrees
<1> QED BY <1>1, AppliedFits

LEMMA AppliedAllFits ==
    ASSUME NEW v \in [Topic -> Payload], NEW frames \in Seq(Frame)
    PROVE  AppliedAll(v, frames) \in [Topic -> Payload]
<1> DEFINE n == Len(frames)
<1>1. PICK g : Way(g, v, frames) /\ AppliedAll(v, frames) = g[n]
  BY WayTaken
<1>2. n \in Nat /\ \A i \in 1..n : frames[i] \in Frame
  OBVIOUS
<1> HIDE DEF n
<1> DEFINE T == {i \in Nat : i <= n => g[i] \in [Topic -> Payload]}
<1>3. 0 \in T
  BY <1>1 DEF Way
<1>4. ASSUME NEW i \in Nat, i \in T PROVE i + 1 \in T
  <2>1. SUFFICES ASSUME i + 1 <= n PROVE g[i + 1] \in [Topic -> Payload]
    OBVIOUS
  <2>2. i + 1 \in 1..n /\ (i + 1) - 1 = i /\ i <= n
    BY <1>2, <2>1
  <2>3. g[i] \in [Topic -> Payload] /\ frames[i + 1] \in Frame
    BY <1>2, <1>4, <2>2
  <2>4. g[i + 1] = Applied(g[i], frames[i + 1])
    BY <1>1, <2>2 DEF Way, n
  <2> QED BY <2>3, <2>4, AppliedFits
<1>5. Nat \subseteq T
  <2> HIDE DEF T
  <2> QED BY <1>3, <1>4, Induct
<1> QED BY <1>1, <1>2, <1>5

LEMMA TornIsNoFrame == Torn \notin Frame
  BY DEF Torn, Frame, Topic

LEMMA WholeLines ==
    ASSUME NEW lines \in Seq(Frame \cup {Torn}), \A i \in 1..Len(lines) : lines[i] # Torn
    PROVE  lines \in Seq(Frame)
<1> DEFINE A == Frame \cup {Torn}
<1>1. Len(lines) \in Nat /\ lines \in [1..Len(lines) -> A]
  OBVIOUS
<1>2. lines \in [1..Len(lines) -> Frame]
  BY <1>1
<1>3. lines \in UNION {[1..n -> Frame] : n \in Nat}
  BY <1>1, <1>2
<1> QED BY <1>3, SeqDef

LEMMA ReadWhole ==
    ASSUME NEW lines \in Seq(Frame)
    PROVE  Readable(lines) = lines
<1>1. \A i \in DOMAIN lines : lines[i] # Torn
  BY TornIsNoFrame
<1>2. \A i \in DOMAIN lines : i > 1 => i - 1 \in DOMAIN lines
  OBVIOUS
<1>3. lines = [i \in DOMAIN lines |-> lines[i]]
  OBVIOUS
<1> QED BY <1>1, <1>2, <1>3 DEF Readable

-----------------------------------------------------------------------------
(* The frame changes the view, and is recorded. *)
LEMMA LineRecorded ==
    ASSUME Types, LogInv, NEW frame \in Delivered,
           view[frame.topic] = Empty => frame.initial,
           RecordLine(frame, Name(frame)), identity' = Name(frame),
           view' = Applied(view, frame), UNCHANGED logErrors, Reliable'
    PROVE  LogInv'
<1> DEFINE n == Name(frame)
           old == files[n]
           lines == Append(pending, frame)
           file == PutAll(old, lines)
<1>1. /\ n \in Session /\ pending \in Seq(Frame) /\ frame \in Frame
      /\ view \in [Topic -> Payload] /\ files \in [Session -> Seq(Frame \cup {Torn})]
      /\ identity # Nil => n = identity
      /\ opened => identity # Nil
  BY NameFits DEF Types, LogTypes, CollectorTypes, RecordLine, Delivered
<1>2. /\ files' = [files EXCEPT ![n] = file]
      /\ dropped' = (dropped \/ Len(file) < Len(old) + Len(lines))
      /\ pending' = <<>> /\ opened' = TRUE /\ logging' = logging
  BY DEF RecordLine
<1>3. old \in Seq(Frame \cup {Torn}) /\ lines \in Seq(Frame)
  BY <1>1
<1> HIDE DEF file, old, lines, n
<1>4. Grown(file, old, Len(lines)) /\ file \in Seq(Frame \cup {Torn})
  <2> DEFINE A == Frame \cup {Torn}
  <2>1. old \in Seq(A) /\ lines \in Seq(A)
    BY <1>3, SeqGrows
  <2> HIDE DEF A
  <2>2. Grown(file, old, Len(lines)) /\ file \in Seq(A)
    BY <2>1, PutAllGrows DEF file
  <2> QED BY <2>2 DEF A
<1>5. files'[n] = file /\ \A m \in Session : m # n => files'[m] = files[m]
  BY <1>1, <1>2
<1>6. Clean
  <2> SUFFICES ASSUME NEW m \in Session, NEW i \in 1..Len(files[m])
               PROVE  files[m][i] # Torn
    BY DEF Clean
  <2>1. \A j \in 1..Len(files'[m]) : files'[m][j] # Torn
    BY DEF Reliable, Clean
  <2>2. CASE m # n
    BY <1>5, <2>1, <2>2
  <2>3. CASE m = n
    <3>1. files[m] = old /\ Len(old) \in Nat /\ Len(file) \in Nat /\ Len(lines) \in Nat
      BY <1>3, <1>4, <2>3 DEF old
    <3>2. i \in 1..Len(file) /\ file[i] = old[i]
      BY <1>4, <3>1 DEF Grown
    <3> QED BY <1>5, <2>1, <2>3, <3>1, <3>2
  <2> QED BY <2>2, <2>3
<1>7. Len(file) = Len(old) + Len(lines) /\ Reliable
  <2>1. Len(old) \in Nat /\ Len(file) \in Nat /\ Len(lines) \in Nat
    BY <1>3, <1>4
  <2>2. ~dropped /\ ~(Len(file) < Len(old) + Len(lines))
    BY <1>2 DEF Reliable
  <2>3. Len(file) <= Len(old) + Len(lines)
    BY <1>4, <2>1 DEF Grown
  <2> QED BY <1>2, <1>6, <2>1, <2>2, <2>3 DEF Reliable
<1>8. old \in Seq(Frame) /\ AppliedAll(NoView, old) \in [Topic -> Payload]
  <2>1. \A i \in 1..Len(old) : old[i] # Torn
    BY <1>1, <1>6 DEF Clean, old
  <2> QED BY <1>3, <2>1, WholeLines, AppliedAllFits, EmptyFits
<1> DEFINE w == AppliedAll(AppliedAll(NoView, old), pending)
<1>9. AppliedAll(NoView, file) = Applied(w, frame)
  <2>1. AppliedAll(NoView, file) = AppliedAll(AppliedAll(NoView, old), lines)
    BY <1>3, <1>7, <1>8, PutAllGrows DEF file
  <2>2. AppliedAll(AppliedAll(NoView, old), lines) = Applied(w, frame)
    BY <1>1, AppliedAppend DEF lines
  <2> QED BY <2>1, <2>2
<1>10. w \in [Topic -> Payload]
  BY <1>1, <1>8, AppliedAllFits
<1>11. Agrees(w, view)
  <2>1. CASE opened
    <3>1. pending = <<>> /\ Agrees(AppliedAll(NoView, files[identity]), view)
      BY <1>7, <2>1 DEF LogInv
    <3>2. old = files[identity]
      BY <1>1, <2>1 DEF old
    <3>3. w = AppliedAll(NoView, old)
      BY <3>1, AppliedNone
    <3> QED BY <3>1, <3>2, <3>3
  <2>2. CASE ~opened
    BY <1>7, <1>8, <2>2 DEF LogInv
  <2> QED BY <2>1, <2>2
<1> HIDE DEF w
<1>12. Agrees(Applied(w, frame), Applied(view, frame))
  BY <1>1, <1>10, <1>11, AgreesStep
<1>13. files'[identity'] = file
  BY <1>5 DEF n
<1>14. Agrees(AppliedAll(NoView, files'[identity']), view')
  BY <1>9, <1>12, <1>13
<1> QED BY <1>2, <1>14 DEF LogInv

LEMMA FrameBuffered ==
    ASSUME Types, LogInv, NEW frame \in Delivered,
           view[frame.topic] = Empty => frame.initial,
           RecordPending(frame, Name(frame)), identity' = Name(frame),
           view' = Applied(view, frame), UNCHANGED logErrors, Reliable'
    PROVE  LogInv'
<1>1. /\ pending \in Seq(Frame) /\ frame \in Frame
      /\ view \in [Topic -> Payload]
      /\ identity # Nil => Name(frame) = identity
      /\ opened => identity # Nil
      /\ Name(frame) = Nil
  BY NameFits DEF Types, LogTypes, CollectorTypes, RecordPending, Delivered
<1>2. ~opened /\ ~opened'
  BY <1>1 DEF RecordPending
<1>3. ~dropped' /\ pending' = Append(pending, frame) /\ ~dropped
  BY DEF RecordPending, Reliable
<1>4. Reliable
  BY <1>3 DEF RecordPending, Reliable, Clean
<1>5. ASSUME NEW v \in [Topic -> Payload]
      PROVE  Agrees(AppliedAll(v, pending'), view')
  <2>1. AppliedAll(v, pending') = Applied(AppliedAll(v, pending), frame)
    BY <1>1, <1>3, AppliedAppend
  <2>2. AppliedAll(v, pending) \in [Topic -> Payload]
    BY <1>1, AppliedAllFits
  <2>3. Agrees(AppliedAll(v, pending), view)
    BY <1>2, <1>4 DEF LogInv
  <2> QED BY <1>1, <2>1, <2>2, <2>3, AgreesStep
<1> QED BY <1>2, <1>5 DEF LogInv

LEMMA NothingAgrees ==
    ASSUME view' = NoView, pending' = <<>>, ~opened'
    PROVE  LogInv'
<1>1. \A w : Agrees(w, NoView)
  BY DEF Agrees, NoView
<1> QED BY <1>1 DEF LogInv

LEMMA LogInvStays == Types /\ FullFirst /\ LogInv /\ [Next]_vars => LogInv'
<1> SUFFICES ASSUME Types, FullFirst, LogInv, [Next]_vars PROVE LogInv'
  OBVIOUS
<1>1. CASE UNCHANGED <<recording, view, identity, logErrors>>
  BY <1>1 DEF recording, LogInv, Reliable, Clean
<1>2. CASE Upstream
  BY <1>1, <1>2 DEF Upstream, Change, NewSession, ConnectionCloses, ConnectFails
<1>3. CASE Connect \/ FeedClosed \/ Reconnect
  BY <1>1, <1>3 DEF Connect, Connected, FeedClosed, Reconnect, counters
<1>4. CASE HandleFrame
  <2> DEFINE frame == Head(queue)
  <2>1. /\ pc = "streaming" /\ queue # <<>> /\ frame # Closed
        /\ view' = Applied(view, frame) /\ identity' = Name(frame)
        /\ Record(frame, Name(frame)) /\ UNCHANGED logErrors
    BY <1>4 DEF HandleFrame, Streaming, counters
  <2>2. frame \in Delivered /\ (view[frame.topic] = Empty => frame.initial)
    BY <2>1, FirstIsFull
  <2> HIDE DEF frame
  <2> SUFFICES ASSUME Reliable' PROVE LogInv'
    BY DEF LogInv
  <2>3. ~RecordNowhere
    BY DEF RecordNowhere, Reliable
  <2> QED BY <2>1, <2>2, <2>3, LineRecorded, FrameBuffered DEF Record
<1>5. CASE HandleDuplicate \/ StreamEnds
  BY <1>1, <1>5 DEF HandleDuplicate, StreamEnds, counters
<1>6. CASE HandleFails
  (* The property only speaks of logs that have not failed. *)
  <2>1. logErrors' = logErrors + 1 /\ logErrors \in Nat
    BY <1>6 DEF HandleFails, RecordFails, Types, Counts
  <2> QED BY <2>1 DEF LogInv, Reliable
<1>7. CASE Service
  <2>1. ASSUME NEW room \in BOOLEAN, Start(room) PROVE LogInv'
    BY <2>1, NothingAgrees DEF Start, Fresh
  <2>2. CASE StopRequested \/ Cancelled
    BY <1>1, <2>2 DEF StopRequested, Cancelled, counters
  <2>3. CASE Crash
    BY <2>3, NothingAgrees DEF Crash, Fresh
  <2> QED BY <1>7, <2>1, <2>2, <2>3 DEF Service
<1>8. ASSUME NEW c \in Client, Join(c) \/ Sent(c) \/ Redraw(c) \/ Leave(c)
      PROVE  LogInv'
  BY <1>1, <1>8 DEF Join, Sent, Redraw, Leave, counters
<1>9. CASE UNCHANGED vars
  BY <1>1, <1>9 DEF vars, recording
<1> QED BY <1>2, <1>3, <1>4, <1>5, <1>6, <1>7, <1>8, <1>9 DEF Next, Handle

LEMMA LogInvRebuilds == Types /\ LogInv => LogRebuilds
<1> SUFFICES ASSUME Types, LogInv, Reliable, NEW t \in Topic, view[t] # Empty
             PROVE  Rebuilt(Recorded)[t] = view[t]
  BY DEF LogRebuilds, Reliable, Clean
<1>1. /\ pending \in Seq(Frame) /\ files \in [Session -> Seq(Frame \cup {Torn})]
      /\ identity \in Session \cup {Nil}
      /\ opened => identity # Nil
  BY DEF Types, LogTypes, CollectorTypes
<1>2. CASE opened
  <2> DEFINE file == files[identity]
  <2>1. pending = <<>> /\ Agrees(AppliedAll(NoView, file), view)
    BY <1>2 DEF LogInv
  <2>2. identity \in Session /\ file \in Seq(Frame \cup {Torn})
    <3>1. identity \in Session
      BY <1>1, <1>2
    <3> QED BY <1>1, <3>1
  <2>3. file \in Seq(Frame)
    <3>1. \A i \in 1..Len(file) : file[i] # Torn
      BY <2>2 DEF Reliable, Clean
    <3> HIDE DEF file
    <3> QED BY <2>2, <3>1, WholeLines
  <2>4. Recorded = file
    <3>1. Recorded = file \o <<>>
      BY <1>2, <2>1 DEF Recorded
    <3> HIDE DEF file
    <3> QED BY <2>3, <3>1
  <2> HIDE DEF file
  <2> QED BY <2>1, <2>3, <2>4, ReadWhole DEF Rebuilt, Agrees
<1>3. CASE ~opened
  <2>1. Recorded = pending
    <3>1. Recorded = <<>> \o pending
      BY <1>3 DEF Recorded
    <3> QED BY <1>1, <3>1
  <2>2. Agrees(AppliedAll(NoView, pending), view)
    BY <1>3, EmptyFits DEF LogInv
  <2> QED BY <1>1, <2>1, <2>2, ReadWhole DEF Rebuilt, Agrees
<1> QED BY <1>2, <1>3

(* A log that reports no dropped frame leads a replay to the view, for     *)
(* every number of runs, reconnects and restarts that share a file, every  *)
(* size of the buffer and every limit of the file: it has all frames that  *)
(* changed the view, in their order, and they begin with each topic in     *)
(* full.                                                                   *)
THEOREM LogLeadsToView == Spec => []LogRebuilds
<1>1. Init => FullFirst /\ LogInv
  <2> SUFFICES ASSUME Init PROVE FullFirst /\ LogInv
    OBVIOUS
  <2>1. FullFirst
    BY DEF Init, FullFirst
  <2>2. ~Reliable
    BY DEF Init, Reliable
  <2> QED BY <2>1, <2>2 DEF LogInv
<1> QED BY <1>1, TypesAtFirst, StepTyped, FullFirstStays, LogInvStays,
           LogInvRebuilds, PTL DEF Spec

-----------------------------------------------------------------------------
(* The slot: it never loses sight of a collector that may still take       *)
(* frames.                                                                 *)

(* The initial state has the types, and nothing runs.                      *)
LEMMA ServiceInitOK == ServiceInit => ServiceTypeOK /\ NoneUnseen
<1> SUFFICES ASSUME ServiceInit PROVE ServiceTypeOK /\ NoneUnseen
  OBVIOUS
<1>1. made \in 0..MaxMade /\ \A i \in Collector : i > made
  BY ServiceAssumption DEF ServiceInit, Collector
<1>2. \A i \in Collector : task[i] = "unmade"
  BY DEF ServiceInit
<1>3. \A q \in Stopper : stop[q] = "idle" /\ target[q] = NoCollector
  BY DEF ServiceInit
<1>4. ServiceTypeOK
  BY <1>1, <1>2, <1>3 DEF ServiceInit, ServiceTypeOK
<1>5. NoneUnseen
  BY <1>2 DEF NoneUnseen, Alive
<1> QED
  BY <1>4, <1>5

-----------------------------------------------------------------------------
(* Making a collector (start_session, start_replay): the slot is free or   *)
(* holds a task that has ended, and nothing else may take frames.          *)
LEMMA MakeOK ==
    ASSUME ServiceTypeOK, NoneUnseen, ~Occupied, NEW isReplay \in BOOLEAN,
           Make(isReplay), has' \in BOOLEAN,
           socket' \in Collector \cup {NoCollector, Refused},
           busy' \in {"no", "start", "replay", "stop"},
           answer' \in {"none", "session", "nothing"}
    PROVE  ServiceTypeOK' /\ NoneUnseen'
<1> USE ServiceAssumption
<1>1. made + 1 \in Collector
  BY DEF Make, ServiceTypeOK, Collector
<1>2. ServiceTypeOK'
  <2>1. slot' \in Collector \cup {NoCollector} /\ made' \in 0..MaxMade
    BY <1>1 DEF Make, ServiceTypeOK, Collector
  <2>2. /\ task' \in [Collector -> {"unmade", "created", "running",
                                    "closing", "done"}]
        /\ replay' \in [Collector -> BOOLEAN]
    BY <1>1 DEF Make, ServiceTypeOK
  <2>3. \A i \in Collector : i > made' <=> task'[i] = "unmade"
    BY <1>1 DEF Make, ServiceTypeOK, Collector
  <2> QED
    BY <2>1, <2>2, <2>3 DEF Make, ServiceTypeOK, requests
<1>3. NoneUnseen'
  <2> SUFFICES ASSUME NEW i \in Collector, Alive(i)', ~asked'[i]
               PROVE  slot' = i
    BY DEF NoneUnseen
  <2>1. CASE i = made + 1
    BY <2>1 DEF Make
  <2>2. CASE i # made + 1
    <3>1. Alive(i) /\ ~asked[i]
      BY <1>1, <2>2 DEF Make, Alive, ServiceTypeOK
    <3>2. slot = i
      BY <3>1 DEF NoneUnseen
    <3>3. Occupied
      BY <3>1, <3>2 DEF Occupied, Alive, Collector
    <3> QED
      BY <3>3
  <2> QED
    BY <2>1, <2>2
<1> QED
  BY <1>2, <1>3

(* Stopping: the collector that leaves the slot has been asked to stop.    *)
LEMMA StopOK ==
    ASSUME ServiceTypeOK, NoneUnseen, NEW r \in Stopper, Stop(r),
           has' \in BOOLEAN, socket' \in Collector \cup {NoCollector, Refused},
           busy' \in {"no", "start", "replay", "stop"},
           answer' \in {"none", "session", "nothing"}
    PROVE  ServiceTypeOK' /\ NoneUnseen'
<1> USE ServiceAssumption
<1>1. slot \in Collector /\ slot # NoCollector
  BY DEF Stop, ServiceTypeOK
<1>2. ServiceTypeOK'
  <2>1. slot' \in Collector \cup {NoCollector}
    BY DEF Stop
  <2>2. /\ asked' \in [Collector -> BOOLEAN]
        /\ stop' \in [Stopper -> {"idle", "grace", "cancelling"}]
        /\ target' \in [Stopper -> Collector \cup {NoCollector}]
    BY <1>1 DEF Stop, ServiceTypeOK
  <2>3. \A q \in Stopper : stop'[q] = "idle" <=> target'[q] = NoCollector
    BY <1>1 DEF Stop, ServiceTypeOK
  <2> QED
    BY <2>1, <2>2, <2>3 DEF Stop, ServiceTypeOK
<1>3. NoneUnseen'
  <2> SUFFICES ASSUME NEW i \in Collector, Alive(i)', ~asked'[i]
               PROVE  slot' = i
    BY DEF NoneUnseen
  <2>1. Alive(i) /\ ~asked[i] /\ i # slot
    BY <1>1 DEF Stop, Alive, ServiceTypeOK
  <2> QED
    BY <2>1 DEF NoneUnseen
<1> QED
  BY <1>2, <1>3

(* A stop request that returns forgets its collector.                      *)
LEMMA ReturnOK ==
    ASSUME ServiceTypeOK, NoneUnseen, NEW r \in Stopper, StopReturns(r),
           has' \in BOOLEAN, socket' \in Collector \cup {NoCollector, Refused},
           busy' \in {"no", "start", "replay", "stop"},
           answer' \in {"none", "session", "nothing"}
    PROVE  ServiceTypeOK' /\ NoneUnseen'
<1> USE ServiceAssumption
<1>1. /\ stop' \in [Stopper -> {"idle", "grace", "cancelling"}]
      /\ target' \in [Stopper -> Collector \cup {NoCollector}]
  BY DEF StopReturns, ServiceTypeOK
<1>2. \A q \in Stopper : stop'[q] = "idle" <=> target'[q] = NoCollector
  BY DEF StopReturns, ServiceTypeOK
<1> QED
  BY <1>1, <1>2 DEF StopReturns, ServiceTypeOK, NoneUnseen, Alive, tasks

(* Steps of a task, and the end of a grace period, start nothing and leave *)
(* the slot alone.                                                         *)
LEMMA TaskOK ==
    ASSUME ServiceTypeOK, NoneUnseen, NEW i \in Collector, Task(i) \/ Leaves(i)
    PROVE  ServiceTypeOK' /\ NoneUnseen'
<1>1. /\ UNCHANGED <<slot, made, replay, asked, cancelled, requests, tab>>
      /\ Alive(i)
      /\ \E s \in {"running", "closing", "done"} :
            task' = [task EXCEPT ![i] = s]
  BY DEF Task, Leaves, Begin, CancelArrives, Ends, Alive
<1>2. task' \in [Collector -> {"unmade", "created", "running", "closing",
                               "done"}]
  BY <1>1 DEF ServiceTypeOK
<1>3. \A j \in Collector : i # j => task'[j] = task[j]
  BY <1>1 DEF ServiceTypeOK
<1>4. \A j \in Collector : j > made <=> task'[j] = "unmade"
  BY <1>1, <1>3 DEF ServiceTypeOK, Alive
<1>5. ServiceTypeOK'
  BY <1>1, <1>2, <1>4 DEF ServiceTypeOK, requests, tab
<1>6. NoneUnseen'
  BY <1>1, <1>3 DEF NoneUnseen, Alive, requests, tab
<1> QED
  BY <1>5, <1>6

LEMMA GraceOK ==
    ASSUME ServiceTypeOK, NoneUnseen, NEW r \in Stopper, GraceEnds(r)
    PROVE  ServiceTypeOK' /\ NoneUnseen'
<1>1. stop' \in [Stopper -> {"idle", "grace", "cancelling"}]
  BY DEF GraceEnds, ServiceTypeOK
<1>2. cancelled' \in [Collector -> BOOLEAN]
  BY DEF GraceEnds, ServiceTypeOK
<1>3. \A q \in Stopper : stop'[q] = "idle" <=> target'[q] = NoCollector
  BY DEF GraceEnds, ServiceTypeOK
<1> QED
  BY <1>1, <1>2, <1>3 DEF GraceEnds, ServiceTypeOK, NoneUnseen, Alive, tab

-----------------------------------------------------------------------------
(* Every step keeps the types and NoneUnseen.                              *)
LEMMA ServiceStepOK ==
    ServiceTypeOK /\ NoneUnseen /\ [ServiceNext]_serviceVars
        => ServiceTypeOK' /\ NoneUnseen'
<1> SUFFICES ASSUME ServiceTypeOK, NoneUnseen, [ServiceNext]_serviceVars
             PROVE  ServiceTypeOK' /\ NoneUnseen'
  OBVIOUS
<1> USE ServiceAssumption
<1>1. CASE UNCHANGED serviceVars
  BY <1>1 DEF serviceVars, ServiceTypeOK, NoneUnseen, Alive
<1>2. CASE \E i \in Collector : Task(i) \/ Leaves(i)
  BY <1>2, TaskOK
<1>3. CASE \E r \in Stopper : GraceEnds(r)
  BY <1>3, GraceOK
<1>4. ASSUME NEW r \in Request, OtherStops(r) PROVE ServiceTypeOK' /\ NoneUnseen'
  BY <1>4, StopOK DEF OtherStops, Stopper, tab, ServiceTypeOK
<1>5. ASSUME NEW r \in Request, OtherStopped(r) PROVE ServiceTypeOK' /\ NoneUnseen'
  BY <1>5, ReturnOK DEF OtherStopped, Stopper, tab, ServiceTypeOK
<1>6. ASSUME NEW isReplay \in BOOLEAN, OtherStarts(isReplay)
      PROVE  ServiceTypeOK' /\ NoneUnseen'
  BY <1>6, MakeOK DEF OtherStarts, tab, ServiceTypeOK
<1>7. CASE TabStarts
  <2>1. /\ has' \in BOOLEAN /\ socket' \in Collector \cup {NoCollector, Refused}
        /\ busy' \in {"no", "start", "replay", "stop"}
        /\ answer' \in {"none", "session", "nothing"}
    BY <1>7 DEF TabStarts, Sees, ServiceTypeOK
  <2>2. CASE Occupied
    BY <1>7, <2>1, <2>2
       DEF TabStarts, ServiceTypeOK, NoneUnseen, Alive, tasks, requests
  <2>3. CASE ~Occupied
    <3>1. Make(busy = "replay")
      BY <1>7, <2>3 DEF TabStarts
    <3> QED
      BY <2>1, <2>3, <3>1, MakeOK
  <2> QED
    BY <2>2, <2>3
<1>8. CASE TabStops
  BY <1>8, StopOK DEF TabStops, Stopper, ServiceTypeOK
<1>9. CASE TabStopped
  <2>1. /\ has' \in BOOLEAN /\ socket' \in Collector \cup {NoCollector, Refused}
        /\ busy' \in {"no", "start", "replay", "stop"}
        /\ answer' \in {"none", "session", "nothing"}
    BY <1>9 DEF TabStopped, Sees, ServiceTypeOK
  <2> QED
    BY <1>9, <2>1, ReturnOK DEF TabStopped, Stopper
<1>10. ASSUME NEW command \in {"start", "replay"}, TabClicks(command)
       PROVE  ServiceTypeOK' /\ NoneUnseen'
  BY <1>10 DEF TabClicks, ServiceTypeOK, NoneUnseen, Alive, tasks, requests
<1>11. CASE Poll
  BY <1>11 DEF Poll, Sees, ServiceTypeOK, NoneUnseen, Alive, tasks, requests
<1>12. CASE PollAnswered
  BY <1>12 DEF PollAnswered, ServiceTypeOK, NoneUnseen, Alive, tasks, requests
<1>13. CASE PollArrives
  BY <1>13 DEF PollArrives, Sees, ServiceTypeOK, NoneUnseen, Alive, tasks, requests
<1>14. CASE StreamOpens
  BY <1>14 DEF StreamOpens, ServiceTypeOK, NoneUnseen, Alive, tasks, requests
<1> QED
  BY <1>1, <1>2, <1>3, <1>4, <1>5, <1>6, <1>7, <1>8, <1>9, <1>10, <1>11,
     <1>12, <1>13, <1>14 DEF ServiceNext

-----------------------------------------------------------------------------
(* The service, its tasks and the tab keep their types: the collectors     *)
(* made are those counted, and a stop request has a collector exactly      *)
(* while it waits.                                                         *)
THEOREM SlotTyped == ServiceSpec => []ServiceTypeOK
<1>1. ServiceInit => ServiceTypeOK /\ NoneUnseen
  BY ServiceInitOK
<1>2. ServiceTypeOK /\ NoneUnseen /\ [ServiceNext]_serviceVars
        => (ServiceTypeOK /\ NoneUnseen)'
  BY ServiceStepOK
<1> QED
  BY <1>1, <1>2, PTL DEF ServiceSpec

(* Starts, replays and overlapping stops (LiveService.start_session,       *)
(* start_replay, stop_session) leave no collector running out of reach of  *)
(* the next stop, although stop gives the slot away before the task ends.  *)
THEOREM NothingRunsUnseen == ServiceSpec => []NoneUnseen
<1>1. ServiceInit => ServiceTypeOK /\ NoneUnseen
  BY ServiceInitOK
<1>2. ServiceTypeOK /\ NoneUnseen /\ [ServiceNext]_serviceVars
        => (ServiceTypeOK /\ NoneUnseen)'
  BY ServiceStepOK
<1> QED
  BY <1>1, <1>2, PTL DEF ServiceSpec

=============================================================================
