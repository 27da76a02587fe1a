------------------------- MODULE RateLimiter_proofs -------------------------
(***************************************************************************)
(* The sliding window of the rate limiter for any number of sessions, any  *)
(* request limit, any window and a clock that is not bounded.              *)
(*                                                                         *)
(* The code keeps only recent admissions and counts them.  That this       *)
(* bounds every window, past ones too, rests on three facts about the list *)
(* a of all admissions of a session, whose tail h is what the code keeps.  *)
(***************************************************************************)
EXTENDS RateLimiter, FiniteSetTheorems, SequenceTheorems,
        WellFoundedInduction, TLAPS

\* What the code keeps is the end of the list; what it dropped is too old.
Kept(a, h, time) ==
  /\ Len(h) <= Len(a)
  /\ \A i \in 1 .. Len(h) : h[i] = a[Len(a) - Len(h) + i]
  /\ \A i \in 1 .. Len(a) - Len(h) : a[i] <= time - Window

\* Admissions are listed in the order of the clock.
Sorted(a, time) ==
  /\ \A i, j \in 1 .. Len(a) : i <= j => a[i] <= a[j]
  /\ \A i \in 1 .. Len(a) : a[i] <= time

\* An admission is a whole window later than the one MaxRequests before it.
Spaced(a) ==
  \A i \in 1 .. Len(a) :
    i + MaxRequests <= Len(a) => a[i] + Window <= a[i + MaxRequests]

\* MaxRequests admissions in a row lie in the window that ends at t.
Full(a, t) ==
  \/ MaxRequests = 0
  \/ \E i \in 1 .. Len(a) :
       /\ i + MaxRequests - 1 <= Len(a)
       /\ t - Window < a[i]
       /\ a[i + MaxRequests - 1] <= t

SessionOK(a, h, r, time) ==
  /\ Kept(a, h, time)
  /\ Sorted(a, time)
  /\ Spaced(a)
  /\ \A t \in r : Full(a, t)

Inv == \A s \in Sessions : SessionOK(admitted[s], history[s], refused[s], now)

-----------------------------------------------------------------------------
\* A non-empty set of positions has a first member.
LEMMA FirstPosition ==
  ASSUME NEW positions \in SUBSET Nat, positions # {}
  PROVE  \E i \in positions : \A j \in positions : i <= j
<1>1. PICK i \in positions : \A j \in positions : <<j, i>> \notin OpToRel(<, Nat)
  BY NatLessThanWellFounded, WFMin
<1>2. \A j \in positions : ~(j < i)
  BY <1>1 DEF OpToRel
<1> QED
  BY <1>2

\* The first n numbers are n numbers.
LEMMA IntervalSize ==
  ASSUME NEW n \in Nat
  PROVE  IsFiniteSet(1 .. n) /\ Cardinality(1 .. n) = n
BY FS_Interval

\* Pruning a list leaves its end, from the first entry that is young enough on.
LEMMA PrunedList ==
  ASSUME NEW h \in Seq(Nat), now \in Nat
  PROVE  \E c \in 0 .. Len(h) :
           /\ Pruned(h) = SubSeq(h, c + 1, Len(h))
           /\ \A i \in 1 .. c : h[i] <= now - Window
           /\ c < Len(h) => h[c + 1] > now - Window
<1> DEFINE stale == {i \in DOMAIN h : \A j \in 1 .. i : h[j] <= now - Window}
           c == Cardinality(stale)
<1>1. Len(h) \in Nat /\ DOMAIN h = 1 .. Len(h) /\ \A i \in 1 .. Len(h) : h[i] \in Nat
  OBVIOUS
<1>2. now - Window \in Int
  BY LimiterAssumption
<1>3. IsFiniteSet(1 .. Len(h)) /\ Cardinality(1 .. Len(h)) = Len(h)
  BY <1>1, IntervalSize
<1>4. IsFiniteSet(stale) /\ c <= Len(h)
  BY <1>1, <1>3, FS_Subset
<1>5. c \in Nat
  BY <1>4, FS_CardinalityType
<1>6. ASSUME NEW i \in 1 .. c PROVE h[i] <= now - Window
  <2>1. i \in 1 .. Len(h)
    BY <1>1, <1>4, <1>5
  <2> SUFFICES ASSUME ~(h[i] <= now - Window) PROVE FALSE
    OBVIOUS
  <2>2. stale \subseteq 1 .. (i - 1)
    BY <1>1, <2>1
  <2>3. IsFiniteSet(1 .. (i - 1)) /\ Cardinality(1 .. (i - 1)) = i - 1
    BY <2>1, <1>1, IntervalSize
  <2>4. c <= i - 1
    BY <2>2, <2>3, FS_Subset
  <2> QED
    BY <2>1, <2>4, <1>5
<1>7. ASSUME c < Len(h) PROVE h[c + 1] > now - Window
  <2> SUFFICES ASSUME ~(h[c + 1] > now - Window) PROVE FALSE
    OBVIOUS
  <2>1. c + 1 \in 1 .. Len(h)
    BY <1>1, <1>5, <1>7
  <2>2. \A i \in 1 .. c + 1 : h[i] <= now - Window
    <3> TAKE i \in 1 .. c + 1
    <3> HIDE DEF c
    <3>1. CASE i = c + 1
      BY <3>1, <1>1, <1>2, <2>1
    <3>2. CASE i \in 1 .. c
      BY <3>2, <1>6
    <3> QED
      BY <3>1, <3>2, <1>5
  <2>3. 1 .. c + 1 \subseteq stale
    <3> HIDE DEF c
    <3> QED
      BY <1>1, <1>5, <2>1, <2>2
  <2>4. Cardinality(1 .. c + 1) = c + 1
    <3> HIDE DEF c
    <3> QED
      BY <1>5, IntervalSize
  <2>5. c + 1 <= c
    <3>1. Cardinality(1 .. c + 1) <= Cardinality(stale)
      <4> HIDE DEF c
      <4> QED
        BY <1>4, <2>3, FS_Subset
    <3> QED
      BY <2>4, <3>1
  <2> QED
    BY <2>5, <1>5
<1>8. c \in 0 .. Len(h) /\ Pruned(h) = SubSeq(h, c + 1, Len(h))
  BY <1>1, <1>4, <1>5 DEF Pruned
<1> HIDE DEF c
<1> QED
  BY <1>6, <1>7, <1>8

\* The same, seen from the list of all admissions: what is left is its end, the
\* rest is too old, and what is left is young.
LEMMA PrunedKept ==
  ASSUME NEW a \in Seq(Nat), NEW h \in Seq(Nat), now \in Nat,
         Kept(a, h, now), Sorted(a, now)
  PROVE  /\ Pruned(h) \in Seq(Nat)
         /\ Kept(a, Pruned(h), now)
         /\ \A i \in 1 .. Len(Pruned(h)) : Pruned(h)[i] > now - Window
<1>1. PICK c \in 0 .. Len(h) :
        /\ Pruned(h) = SubSeq(h, c + 1, Len(h))
        /\ \A i \in 1 .. c : h[i] <= now - Window
        /\ c < Len(h) => h[c + 1] > now - Window
  BY PrunedList
<1> DEFINE p == SubSeq(h, c + 1, Len(h))
<1>2. /\ Len(h) \in Nat /\ Len(a) \in Nat /\ now - Window \in Int
      /\ \A i \in 1 .. Len(h) : h[i] \in Nat
      /\ \A i \in 1 .. Len(a) : a[i] \in Nat
  BY LimiterAssumption
<1>3. /\ p \in Seq(Nat)
      /\ Len(p) = Len(h) - c
      /\ \A i \in 1 .. Len(h) - c : p[i] = h[c + i]
  <2>1. \A i \in c + 1 .. Len(h) : h[i] \in Nat
    BY <1>2
  <2>2. /\ p \in Seq(Nat)
        /\ Len(p) = IF c + 1 <= Len(h) THEN Len(h) - (c + 1) + 1 ELSE 0
        /\ \A i \in 1 .. Len(h) - (c + 1) + 1 : p[i] = h[c + 1 + i - 1]
    BY <1>2, <2>1, SubSeqProperties
  <2> HIDE DEF p
  <2> QED
    BY <1>2, <2>2
<1> HIDE DEF p
<1>4. Kept(a, p, now)
  <2>1. Len(p) <= Len(a)
    BY <1>2, <1>3 DEF Kept
  <2>2. ASSUME NEW i \in 1 .. Len(p) PROVE p[i] = a[Len(a) - Len(p) + i]
    <3>1. c + i \in 1 .. Len(h) /\ p[i] = h[c + i]
      BY <1>2, <1>3
    <3>2. h[c + i] = a[Len(a) - Len(h) + (c + i)]
      BY <3>1 DEF Kept
    <3>3. Len(a) - Len(h) + (c + i) = Len(a) - Len(p) + i
      BY <1>2, <1>3
    <3> QED
      BY <3>1, <3>2, <3>3
  <2>3. ASSUME NEW i \in 1 .. Len(a) - Len(p) PROVE a[i] <= now - Window
    <3>1. CASE i \in 1 .. Len(a) - Len(h)
      BY <3>1 DEF Kept
    <3>2. CASE i > Len(a) - Len(h)
      <4> DEFINE k == i - (Len(a) - Len(h))
      <4>0. /\ Len(h) <= Len(a)
            /\ Len(a) \in Nat /\ Len(h) \in Nat /\ c \in 0 .. Len(h)
            /\ Len(p) = Len(h) - c
        BY <1>2, <1>3 DEF Kept
      <4>1. k \in 1 .. c /\ k \in 1 .. Len(h) /\ Len(a) - Len(h) + k = i
        BY <4>0, <3>2
      <4>2. h[k] = a[i]
        BY <4>1 DEF Kept
      <4>3. h[k] <= now - Window
        BY <1>1, <4>1
      <4> QED
        BY <4>2, <4>3
    <3> QED
      BY <1>2, <1>3, <3>1, <3>2 DEF Kept
  <2> QED
    BY <2>1, <2>2, <2>3 DEF Kept
<1>5. ASSUME NEW i \in 1 .. Len(p) PROVE p[i] > now - Window
  <2>0. i \in Nat \ {0} /\ c \in Nat /\ i <= Len(h) - c
    BY <1>2, <1>3
  <2>1. c < Len(h) /\ h[c + 1] > now - Window /\ p[i] = h[c + i]
    <3>1. c < Len(h)
      BY <1>2, <2>0
    <3>2. h[c + 1] > now - Window
      BY <1>1, <3>1
    <3>3. i \in 1 .. Len(h) - c
      BY <1>2, <2>0
    <3>4. p[i] = h[c + i]
      BY <1>3, <3>3
    <3> QED
      BY <3>1, <3>2, <3>4
  <2>2. /\ h[c + 1] = a[Len(a) - Len(h) + (c + 1)]
        /\ h[c + i] = a[Len(a) - Len(h) + (c + i)]
    BY <1>2, <2>0, <2>1 DEF Kept
  <2>3. a[Len(a) - Len(h) + (c + 1)] <= a[Len(a) - Len(h) + (c + i)]
    <3> DEFINE from == Len(a) - Len(h) + (c + 1)
               to == Len(a) - Len(h) + (c + i)
    <3>0. Len(h) <= Len(a)
      BY DEF Kept
    <3>1. from \in 1 .. Len(a) /\ to \in 1 .. Len(a) /\ from <= to
      BY <1>2, <2>0, <3>0
    <3> HIDE DEF from, to
    <3>2. a[from] <= a[to]
      BY <3>1 DEF Sorted
    <3> QED
      BY <3>2 DEF from, to
  <2>4. h[c + 1] \in Nat /\ h[c + i] \in Nat
    BY <1>2, <2>0, <2>1
  <2>5. h[c + 1] <= h[c + i]
    BY <2>2, <2>3
  <2> QED
    BY <1>2, <2>1, <2>4, <2>5
<1> QED
  BY <1>1, <1>3, <1>4, <1>5 DEF p

-----------------------------------------------------------------------------
\* The clock moves on: what was true of the lists stays true.
LEMMA TickSession ==
  ASSUME NEW a \in Seq(Nat), NEW h \in Seq(Nat), NEW r, now \in Nat,
         SessionOK(a, h, r, now)
  PROVE  SessionOK(a, h, r, now + 1)
<1>1. /\ Len(a) \in Nat /\ Len(h) \in Nat
      /\ \A i \in 1 .. Len(a) : a[i] \in Nat
  OBVIOUS
<1>2. Kept(a, h, now + 1)
  <2>1. ASSUME NEW i \in 1 .. Len(a) - Len(h) PROVE a[i] <= (now + 1) - Window
    <3>1. a[i] <= now - Window /\ i \in 1 .. Len(a)
      BY <1>1 DEF SessionOK, Kept
    <3> QED
      BY <1>1, <3>1, LimiterAssumption
  <2> QED
    BY <2>1 DEF SessionOK, Kept
<1>3. Sorted(a, now + 1)
  BY <1>1 DEF SessionOK, Sorted
<1> QED
  BY <1>2, <1>3 DEF SessionOK

\* An admission: the list grows by the present time.  If there are MaxRequests
\* admissions before it, the first of them has just been found too old.
LEMMA AdmitSession ==
  ASSUME NEW a \in Seq(Nat), NEW h \in Seq(Nat), NEW r, now \in Nat,
         SessionOK(a, h, r, now), HasRoom(Pruned(h))
  PROVE  SessionOK(Append(a, now), Append(Pruned(h), now), r, now)
<1> DEFINE p == Pruned(h)
           b == Append(a, now)
           q == Append(p, now)
<1>1. p \in Seq(Nat) /\ Kept(a, p, now)
  BY PrunedKept DEF SessionOK
<1>2. Len(p) < MaxRequests
  BY DEF HasRoom
<1> HIDE DEF p
<1>3. /\ Len(a) \in Nat /\ Len(p) \in Nat /\ Len(p) <= Len(a)
      /\ Len(b) = Len(a) + 1 /\ Len(q) = Len(p) + 1
      /\ b \in Seq(Nat) /\ q \in Seq(Nat)
      /\ \A i \in 1 .. Len(a) : b[i] = a[i] /\ a[i] \in Nat
      /\ \A i \in 1 .. Len(p) : q[i] = p[i]
      /\ b[Len(a) + 1] = now /\ q[Len(p) + 1] = now
  BY <1>1 DEF Kept
<1> HIDE DEF b, q
<1>4. Kept(b, q, now)
  <2>1. Len(q) <= Len(b) /\ Len(b) - Len(q) = Len(a) - Len(p)
    BY <1>3
  <2>2. ASSUME NEW i \in 1 .. Len(q) PROVE q[i] = b[Len(b) - Len(q) + i]
    <3>1. CASE i = Len(p) + 1
      BY <1>3, <2>1, <3>1
    <3>2. CASE i \in 1 .. Len(p)
      <4>1. Len(a) - Len(p) + i \in 1 .. Len(a)
        BY <1>3, <3>2
      <4>2. p[i] = a[Len(a) - Len(p) + i]
        BY <1>1, <3>2 DEF Kept
      <4> QED
        BY <1>3, <2>1, <3>2, <4>1, <4>2
    <3> QED
      BY <1>3, <3>1, <3>2
  <2>3. ASSUME NEW i \in 1 .. Len(b) - Len(q) PROVE b[i] <= now - Window
    <3>1. i \in 1 .. Len(a) - Len(p) /\ i \in 1 .. Len(a)
      BY <1>3, <2>1
    <3>2. a[i] <= now - Window
      BY <1>1, <3>1 DEF Kept
    <3> QED
      BY <1>3, <3>1, <3>2
  <2> QED
    BY <2>1, <2>2, <2>3 DEF Kept
<1>5. Sorted(b, now)
  <2>1. ASSUME NEW i \in 1 .. Len(b) PROVE b[i] <= now
    <3>1. CASE i = Len(a) + 1
      BY <1>3, <3>1
    <3>2. CASE i \in 1 .. Len(a)
      <4>1. a[i] <= now
        BY <3>2 DEF SessionOK, Sorted
      <4> QED
        BY <1>3, <3>2, <4>1
    <3> QED
      BY <1>3, <3>1, <3>2
  <2>2. ASSUME NEW i \in 1 .. Len(b), NEW j \in 1 .. Len(b), i <= j PROVE b[i] <= b[j]
    <3>1. CASE j = Len(a) + 1
      BY <1>3, <2>1, <3>1
    <3>2. CASE j \in 1 .. Len(a)
      <4>1. i \in 1 .. Len(a)
        BY <1>3, <2>2, <3>2
      <4>2. a[i] <= a[j]
        BY <2>2, <3>2, <4>1 DEF SessionOK, Sorted
      <4> QED
        BY <1>3, <3>2, <4>1, <4>2
    <3> QED
      BY <1>3, <3>1, <3>2
  <2> QED
    BY <2>1, <2>2 DEF Sorted
<1>6. Spaced(b)
  <2> SUFFICES ASSUME NEW i \in 1 .. Len(b), i + MaxRequests <= Len(b)
               PROVE  b[i] + Window <= b[i + MaxRequests]
    BY DEF Spaced
  <2>1. MaxRequests \in Nat \ {0} /\ Window \in Nat
    BY <1>2, <1>3, LimiterAssumption
  <2>2. CASE i + MaxRequests <= Len(a)
    <3>1. i \in 1 .. Len(a) /\ i + MaxRequests \in 1 .. Len(a)
      BY <1>3, <2>1, <2>2
    <3>2. a[i] + Window <= a[i + MaxRequests]
      BY <2>2, <3>1 DEF SessionOK, Spaced
    <3>3. b[i] = a[i] /\ b[i + MaxRequests] = a[i + MaxRequests]
      BY <1>3, <3>1
    <3> QED
      BY <3>2, <3>3
  <2>3. CASE i + MaxRequests = Len(a) + 1
    \* At most MaxRequests - 1 entries were kept, so entry i was not.
    <3>1. i \in 1 .. Len(a) - Len(p) /\ i \in 1 .. Len(a)
      BY <1>2, <1>3, <2>1, <2>3
    <3>2. a[i] <= now - Window
      BY <1>1, <3>1 DEF Kept
    <3>3. b[i] = a[i] /\ a[i] \in Nat
      BY <1>3, <3>1
    <3>4. b[i + MaxRequests] = now
      BY <1>3, <2>3
    <3> QED
      BY <2>1, <3>2, <3>3, <3>4
  <2>4. i + MaxRequests <= Len(a) \/ i + MaxRequests = Len(a) + 1
    <3>1. Len(a) \in Nat /\ Len(b) = Len(a) + 1
      BY <1>3
    <3>2. i \in Nat
      BY <3>1
    <3>3. MaxRequests \in Nat
      BY <2>1
    <3>4. i + MaxRequests <= Len(a) + 1
      BY <3>1
    <3> HIDE DEF b
    <3> QED
      BY <3>1, <3>2, <3>3, <3>4
  <2> QED
    BY <2>2, <2>3, <2>4
<1>7. ASSUME NEW t \in r PROVE Full(b, t)
  <2>1. CASE MaxRequests = 0
    BY <2>1 DEF Full
  <2>2. CASE MaxRequests # 0
    <3>1. PICK i \in 1 .. Len(a) :
            /\ i + MaxRequests - 1 <= Len(a)
            /\ t - Window < a[i]
            /\ a[i + MaxRequests - 1] <= t
      BY <2>2 DEF SessionOK, Full
    <3>2. i + MaxRequests - 1 \in 1 .. Len(a)
      BY <1>3, <2>2, <3>1, LimiterAssumption
    <3>3. i \in 1 .. Len(b) /\ i + MaxRequests - 1 <= Len(b)
      BY <1>3, <3>1, <3>2
    <3>4. t - Window < b[i] /\ b[i + MaxRequests - 1] <= t
      BY <1>3, <3>1, <3>2
    <3> QED
      BY <3>3, <3>4 DEF Full
  <2> QED
    BY <2>1, <2>2
<1> QED
  BY <1>4, <1>5, <1>6, <1>7 DEF SessionOK, p, b, q

\* A refusal: MaxRequests entries are young, and they are the last of the list.
LEMMA RefuseSession ==
  ASSUME NEW a \in Seq(Nat), NEW h \in Seq(Nat), NEW r, now \in Nat,
         SessionOK(a, h, r, now), ~HasRoom(Pruned(h))
  PROVE  SessionOK(a, Pruned(h), r \cup {now}, now)
<1> DEFINE p == Pruned(h)
           i == Len(a) - Len(p) + 1
<1>1. /\ p \in Seq(Nat) /\ Kept(a, p, now)
      /\ \A k \in 1 .. Len(p) : p[k] > now - Window
  BY PrunedKept DEF SessionOK
<1>2. ~(Len(p) < MaxRequests)
  BY DEF HasRoom
<1> HIDE DEF p
<1>3. Len(a) \in Nat /\ Len(p) \in Nat /\ MaxRequests \in Nat /\ Len(p) <= Len(a)
  BY <1>1, LimiterAssumption DEF Kept
<1>4. Full(a, now)
  <2>1. CASE MaxRequests = 0
    BY <2>1 DEF Full
  <2>2. CASE MaxRequests # 0
    <3>1. i \in 1 .. Len(a) /\ i + MaxRequests - 1 \in 1 .. Len(a)
      BY <1>2, <1>3, <2>2
    <3>2. a[i] = p[1] /\ p[1] > now - Window
      BY <1>1, <1>2, <1>3, <2>2 DEF Kept
    <3>3. a[i + MaxRequests - 1] <= now
      <4> HIDE DEF i
      <4> QED
        BY <3>1 DEF SessionOK, Sorted
    <3>4. a[i] \in Nat /\ now - Window \in Int
      BY <3>1, LimiterAssumption
    <3>5. now - Window < a[i]
      BY <3>2, <3>4
    <3> HIDE DEF i
    <3> QED
      BY <3>1, <3>3, <3>5 DEF Full
  <2> QED
    BY <2>1, <2>2
<1> QED
  BY <1>1, <1>4 DEF SessionOK, p

-----------------------------------------------------------------------------
\* Every state is well typed.
THEOREM TypeCorrect == Spec => []TypeOK
<1>1. Init => TypeOK
  <2> SUFFICES ASSUME Init PROVE TypeOK
    OBVIOUS
  <2>1. <<>> \in Seq(Nat)
    OBVIOUS
  <2> QED
    BY <2>1 DEF Init, TypeOK
<1>2. TypeOK /\ [Next]_vars => TypeOK'
  <2> SUFFICES ASSUME TypeOK, [Next]_vars PROVE TypeOK'
    OBVIOUS
  <2> USE DEF TypeOK
  <2>1. CASE Tick
    BY <2>1 DEF Tick
  <2>2. ASSUME NEW s \in Sessions, IsAllowed(s) PROVE TypeOK'
    <3> DEFINE recent == Pruned(history[s])
    <3>1. recent \in Seq(Nat)
      <4>1. PICK c \in 0 .. Len(history[s]) :
              recent = SubSeq(history[s], c + 1, Len(history[s]))
        BY PrunedList
      <4> HIDE DEF recent
      <4>2. \A i \in c + 1 .. Len(history[s]) : history[s][i] \in Nat
        OBVIOUS
      <4> QED
        BY <4>1, <4>2, SubSeqProperties
    <3>2. Append(recent, now) \in Seq(Nat) /\ Append(admitted[s], now) \in Seq(Nat)
      BY <3>1
    <3> HIDE DEF recent
    <3>3. /\ history' \in [Sessions -> Seq(Nat)]
          /\ admitted' \in [Sessions -> Seq(Nat)]
          /\ refused' \in [Sessions -> SUBSET Nat]
          /\ now' = now
      BY <2>2, <3>1, <3>2 DEF IsAllowed, recent
    <3> QED
      BY <3>3
  <2>3. CASE UNCHANGED vars
    BY <2>3 DEF vars
  <2> QED
    BY <2>1, <2>2, <2>3 DEF Next
<1> QED
  BY <1>1, <1>2, PTL DEF Spec

\* The three facts about the lists hold of every session in every state.
LEMMA AlwaysInv == Spec => []Inv
<1>1. Init => Inv
  BY DEF Init, Inv, SessionOK, Kept, Sorted, Spaced
<1>2. TypeOK /\ Inv /\ [Next]_vars => Inv'
  <2> SUFFICES ASSUME TypeOK, Inv, [Next]_vars,
                      NEW s \in Sessions
               PROVE  SessionOK(admitted'[s], history'[s], refused'[s], now')
    BY DEF Inv
  <2>1. /\ admitted[s] \in Seq(Nat) /\ history[s] \in Seq(Nat) /\ now \in Nat
        /\ SessionOK(admitted[s], history[s], refused[s], now)
    BY DEF TypeOK, Inv
  <2>2. CASE Tick
    BY <2>1, <2>2, TickSession DEF Tick
  <2>3. ASSUME NEW u \in Sessions, IsAllowed(u)
        PROVE  SessionOK(admitted'[s], history'[s], refused'[s], now')
    <3>1. CASE s # u
      <4>1. /\ admitted'[s] = admitted[s] /\ history'[s] = history[s]
            /\ refused'[s] = refused[s] /\ now' = now
        BY <2>3, <3>1 DEF IsAllowed, TypeOK
      <4> QED
        BY <2>1, <4>1
    <3>2. CASE s = u /\ HasRoom(Pruned(history[s]))
      <4>1. /\ admitted'[s] = Append(admitted[s], now)
            /\ history'[s] = Append(Pruned(history[s]), now)
            /\ refused'[s] = refused[s] /\ now' = now
        BY <2>3, <3>2 DEF IsAllowed, TypeOK
      <4> QED
        BY <2>1, <3>2, <4>1, AdmitSession
    <3>3. CASE s = u /\ ~HasRoom(Pruned(history[s]))
      <4>1. /\ admitted'[s] = admitted[s]
            /\ history'[s] = Pruned(history[s])
            /\ refused'[s] = refused[s] \cup {now} /\ now' = now
        BY <2>3, <3>3 DEF IsAllowed, TypeOK
      <4> QED
        BY <2>1, <3>3, <4>1, RefuseSession
    <3> QED
      BY <3>1, <3>2, <3>3
  <2>4. CASE UNCHANGED vars
    BY <2>1, <2>4 DEF vars
  <2> QED
    BY <2>2, <2>3, <2>4 DEF Next
<1> QED
  BY <1>1, <1>2, TypeCorrect, PTL DEF Spec

\* No window of the clock holds more than MaxRequests admissions of a session:
\* two admissions of one window are fewer than MaxRequests positions apart.
THEOREM WindowBoundAlways == Spec => []WindowBound
<1>1. TypeOK /\ Inv => WindowBound
  <2> SUFFICES ASSUME TypeOK, Inv, NEW s \in Sessions, NEW t \in 0 .. now
               PROVE  Cardinality(InWindow(s, t)) <= MaxRequests
    BY DEF WindowBound
  <2> DEFINE a == admitted[s]
             w == InWindow(s, t)
  <2>1. /\ a \in Seq(Nat) /\ Spaced(a) /\ Sorted(a, now)
        /\ t \in Int /\ MaxRequests \in Nat /\ Window \in Nat
    BY LimiterAssumption DEF TypeOK, Inv, SessionOK
  <2>2. \A i \in w : i \in 1 .. Len(a) /\ t - Window < a[i] /\ a[i] <= t
    BY <2>1 DEF InWindow
  <2>3. w \subseteq Nat
    BY <2>2
  <2> HIDE DEF w
  <2>4. CASE w = {}
    BY <2>1, <2>4, FS_EmptySet DEF w
  <2>5. CASE w # {}
    <3>1. PICK first \in w : \A j \in w : first <= j
      BY <2>3, <2>5, FirstPosition
    <3>2. ASSUME NEW j \in w PROVE j <= first + MaxRequests - 1
      <4> SUFFICES ASSUME ~(j <= first + MaxRequests - 1) PROVE FALSE
        OBVIOUS
      <4>1. /\ first \in 1 .. Len(a) /\ j \in 1 .. Len(a) /\ first + MaxRequests <= j
            /\ Len(a) \in Nat
        BY <2>1, <2>2
      <4>2. first + MaxRequests \in 1 .. Len(a)
        BY <2>1, <4>1
      <4>3. a[first] + Window <= a[first + MaxRequests]
        BY <4>1, <4>2 DEF Spaced, a, Inv, SessionOK
      <4>4. a[first + MaxRequests] <= a[j]
        BY <2>1, <4>1, <4>2 DEF Sorted
      <4>5. a[first] \in Nat /\ a[first + MaxRequests] \in Nat /\ a[j] \in Nat
        BY <2>1, <4>1, <4>2
      <4>6. t - Window < a[first] /\ a[j] <= t
        BY <2>2
      <4>7. a[first] + Window <= a[j]
        <5> HIDE DEF a
        <5>1. Window \in Nat
          BY LimiterAssumption
        <5> QED
          BY <4>3, <4>4, <4>5, <5>1
      <4>8. a[j] < a[first] + Window
        <5> HIDE DEF a
        <5> QED
          BY <2>1, <4>5, <4>6
      <4> QED
        BY <2>1, <4>5, <4>7, <4>8
    <3>3. first \in Nat
      BY <2>3
    <3>4. /\ IsFiniteSet(first .. first + MaxRequests - 1)
          /\ Cardinality(first .. first + MaxRequests - 1) = MaxRequests
      <4>1. first \in Int /\ first + MaxRequests - 1 \in Int
        BY <2>1, <3>3
      <4> QED
        BY <2>1, <3>3, <4>1, FS_Interval
    <3>5. w \subseteq first .. first + MaxRequests - 1
      BY <2>1, <2>3, <3>1, <3>2
    <3> QED
      BY <3>4, <3>5, FS_Subset DEF w
  <2> QED
    BY <2>4, <2>5
<1> QED
  BY <1>1, TypeCorrect, AlwaysInv, PTL

\* A request is refused only when its own session has used up the window.
THEOREM RefusedOnlyWhenFullAlways == Spec => []RefusedOnlyWhenFull
<1>1. TypeOK /\ Inv => RefusedOnlyWhenFull
  <2> SUFFICES ASSUME TypeOK, Inv, NEW s \in Sessions, NEW t \in refused[s]
               PROVE  Cardinality(InWindow(s, t)) >= MaxRequests
    BY DEF RefusedOnlyWhenFull
  <2> DEFINE a == admitted[s]
             w == InWindow(s, t)
  <2>1. /\ a \in Seq(Nat) /\ Sorted(a, now) /\ Full(a, t)
        /\ t \in Int /\ MaxRequests \in Nat /\ Window \in Nat
        /\ Len(a) \in Nat /\ DOMAIN a = 1 .. Len(a)
    BY LimiterAssumption DEF TypeOK, Inv, SessionOK
  <2>2. IsFiniteSet(w) /\ Cardinality(w) \in Nat
    <3>1. IsFiniteSet(1 .. Len(a)) /\ w \subseteq 1 .. Len(a)
      BY <2>1, IntervalSize DEF InWindow
    <3> QED
      BY <3>1, FS_Subset, FS_CardinalityType
  <2> HIDE DEF a
  <2>3. CASE MaxRequests = 0
    BY <2>2, <2>3
  <2>4. CASE MaxRequests # 0
    <3>1. PICK i \in 1 .. Len(a) :
            /\ i + MaxRequests - 1 <= Len(a)
            /\ t - Window < a[i]
            /\ a[i + MaxRequests - 1] <= t
      BY <2>1, <2>4 DEF Full
    <3>2. ASSUME NEW j \in i .. i + MaxRequests - 1 PROVE j \in w
      <4>1. /\ j \in 1 .. Len(a) /\ i + MaxRequests - 1 \in 1 .. Len(a)
            /\ i <= j /\ j <= i + MaxRequests - 1
        BY <2>1, <3>1
      <4>2. a[i] <= a[j] /\ a[j] <= a[i + MaxRequests - 1]
        BY <2>1, <4>1 DEF Sorted
      <4>3. a[i] \in Nat /\ a[j] \in Nat /\ a[i + MaxRequests - 1] \in Nat
        BY <2>1, <4>1
      <4>4. t - Window < a[j] /\ a[j] <= t
        BY <2>1, <3>1, <4>2, <4>3
      <4> QED
        BY <2>1, <4>1, <4>4 DEF InWindow, a
    <3>3. Cardinality(i .. i + MaxRequests - 1) = MaxRequests
      <4>1. i \in Int /\ i + MaxRequests - 1 \in Int
        BY <2>1
      <4> QED
        BY <2>1, <2>4, <4>1, FS_Interval
    <3>4. Cardinality(i .. i + MaxRequests - 1) <= Cardinality(w)
      BY <2>2, <3>2, FS_Subset
    <3> QED
      BY <2>1, <2>2, <3>3, <3>4
  <2> QED
    BY <2>3, <2>4
<1> QED
  BY <1>1, TypeCorrect, AlwaysInv, PTL

=============================================================================
