----------------------------- MODULE FoldFacts -----------------------------
(***************************************************************************)
(* What FoldLeft of the community modules returns, for any operation Op.   *)
(* The modules define it by recursion on sets of positions; the induction  *)
(* on the length of the sequence is done here once, with the smallest      *)
(* counterexample (SmallestOf).                                            *)
(*                                                                         *)
(* Facts in which Op is applied to a bound variable are definitions        *)
(* (Steps, LastIsFolded, Keeps), to be unfolded where they are used.       *)
(***************************************************************************)
EXTENDS Integers, SequencesExt, TLAPS, WellFoundedInduction

CONSTANT Op(_, _)

Fold(start, seq) == FoldLeft(Op, start, seq)

Steps(p, start, seq, n) ==
  /\ p[0] = start
  /\ \A k \in 1 .. n : p[k] = Op(p[k - 1], seq[k])

\* A smallest element.
LEMMA SmallestOf ==
  ASSUME NEW S \in SUBSET Nat, S # {}
  PROVE  \E n \in S : \A m \in S : n <= m
<1>1. IsWellFoundedOn(OpToRel(<, Nat), Nat)
  BY NatLessThanWellFounded
<1>2. PICK x \in S : \A y \in S : ~(<<y, x>> \in OpToRel(<, Nat))
  BY <1>1, WFMin, Zenon
<1>3. ASSUME NEW y \in S PROVE x <= y
  <2>1. ~(y < x)
    BY <1>2 DEF OpToRel
  <2> QED
    BY <2>1
<1> QED
  BY <1>3

\* Counting up from 0 in steps of 1 that stay in S meets only members of S.
LEMMA CountTo ==
  ASSUME NEW n \in Nat, NEW S, 0 \in S, \A k \in 0 .. n - 1 : k \in S => k + 1 \in S
  PROVE  0 .. n \subseteq S
<1> SUFFICES ASSUME (0 .. n) \ S # {} PROVE FALSE
  OBVIOUS
<1>1. (0 .. n) \ S \in SUBSET Nat
  OBVIOUS
<1>2. PICK m \in (0 .. n) \ S : \A k \in (0 .. n) \ S : m <= k
  BY <1>1, SmallestOf
<1>3. m # 0 /\ m - 1 \in 0 .. n - 1
  BY <1>2
<1>4. m - 1 \in S
  BY <1>2, <1>3
<1> QED
  BY <1>2, <1>3, <1>4

\* The greatest of the first k + 1 numbers is the last.
LEMMA TopIsMax ==
  ASSUME NEW k \in Nat, NEW s \in SUBSET (1 .. k + 1), k + 1 \in s
  PROVE  Max(s) = k + 1
<1>1. \A y \in s : k + 1 >= y
  OBVIOUS
<1>2. ASSUME NEW x \in s, \A y \in s : x >= y PROVE x = k + 1
  BY <1>2
<1> QED
  BY <1>1, <1>2 DEF Max

\* A fold is the last of a series of partial results, each made from the one before.
LEMMA FoldSteps ==
  ASSUME NEW start, NEW seq, NEW n \in Nat, DOMAIN seq = 1 .. n
  PROVE  \E p : Steps(p, start, seq, n) /\ Fold(start, seq) = p[n]
<1> DEFINE Iterates(g, k) ==
             g = [s \in SUBSET (1 .. k) |->
                    IF s = {} THEN start ELSE Op(g[s \ {Max(s)}], seq[Max(s)])]
           S == {k \in 0 .. n : \E g : Iterates(g, k)}
<1>1. 0 \in S
  <2> DEFINE g == [s \in SUBSET (1 .. 0) |-> start]
  <2>1. g = [s \in SUBSET (1 .. 0) |->
                    IF s = {} THEN start ELSE Op(g[s \ {Max(s)}], seq[Max(s)])]
    OBVIOUS
  <2> HIDE DEF g
  <2> QED
    BY <2>1
<1>2. ASSUME NEW k \in 0 .. n - 1, k \in S PROVE k + 1 \in S
  <2>1. PICK g : Iterates(g, k)
    BY <1>2
  <2>2. \A s \in SUBSET (1 .. k) :
          g[s] = IF s = {} THEN start ELSE Op(g[s \ {Max(s)}], seq[Max(s)])
    BY <2>1, Zenon
  <2> DEFINE h == [s \in SUBSET (1 .. k + 1) |->
                     IF k + 1 \in s THEN Op(g[s \ {k + 1}], seq[k + 1]) ELSE g[s]]
  <2>3. ASSUME NEW s \in SUBSET (1 .. k + 1)
        PROVE  h[s] = IF s = {} THEN start ELSE Op(h[s \ {Max(s)}], seq[Max(s)])
    <3>1. CASE k + 1 \in s
      <4>1. Max(s) = k + 1
        BY <3>1, TopIsMax
      <4>2. s \ {k + 1} \in SUBSET (1 .. k + 1) /\ ~(k + 1 \in s \ {k + 1})
        OBVIOUS
      <4>3. h[s \ {k + 1}] = g[s \ {k + 1}]
        BY <4>2, Zenon
      <4> HIDE DEF h
      <4>4. h[s] = Op(g[s \ {k + 1}], seq[k + 1])
        BY <3>1, Zenon DEF h
      <4> QED
        BY <3>1, <4>1, <4>3, <4>4
    <3>2. CASE k + 1 \notin s
      <4>1. s \in SUBSET (1 .. k)
        BY <3>2
      <4>2. s \ {Max(s)} \in SUBSET (1 .. k + 1) /\ k + 1 \notin s \ {Max(s)}
        BY <3>2
      <4>3. h[s] = g[s] /\ h[s \ {Max(s)}] = g[s \ {Max(s)}]
        BY <3>2, <4>2, Zenon
      <4> HIDE DEF h
      <4> QED
        BY <2>2, <4>1, <4>3, Zenon
    <3> QED
      BY <3>1, <3>2
  <2>4. h = [s \in SUBSET (1 .. k + 1) |->
               IF s = {} THEN start ELSE Op(h[s \ {Max(s)}], seq[Max(s)])]
    <3> HIDE DEF h
    <3>1. \E f : h = [s \in SUBSET (1 .. k + 1) |-> f[s]]
      BY Zenon DEF h
    <3> QED
      BY <2>3, Zenon DEF h
  <2> HIDE DEF h
  <2>5. Iterates(h, k + 1)
    BY <2>4, Zenon
  <2> HIDE DEF Iterates
  <2> QED
    BY <2>5
<1> HIDE DEF Iterates
<1>3. n \in S
  <2> HIDE DEF S
  <2>1. 0 .. n \subseteq S
    BY <1>1, <1>2, CountTo
  <2> QED
    BY <2>1
<1> DEFINE it == CHOOSE g : Iterates(g, n)
<1>4. Iterates(it, n)
  BY <1>3, Zenon DEF S
<1>5. Fold(start, seq) = it[1 .. n]
  BY Zenon DEF Fold, FoldLeft, MapThenFoldSet, Iterates
<1>6. \A s \in SUBSET (1 .. n) :
        it[s] = IF s = {} THEN start ELSE Op(it[s \ {Max(s)}], seq[Max(s)])
  <2> HIDE DEF it
  <2> QED
    BY <1>4, Zenon DEF Iterates
<1> HIDE DEF it
<1> DEFINE p == [k \in 0 .. n |-> it[1 .. k]]
<1>7. p[0] = start
  <2>1. 1 .. 0 = {} /\ 1 .. 0 \in SUBSET (1 .. n)
    OBVIOUS
  <2>2. it[1 .. 0] = start
    BY <1>6, <2>1, Zenon
  <2> QED
    BY <2>2
<1>8. ASSUME NEW k \in 1 .. n PROVE p[k] = Op(p[k - 1], seq[k])
  <2>1. 1 .. k \in SUBSET (1 .. n) /\ 1 .. k # {} /\ (1 .. k) \ {k} = 1 .. k - 1
    OBVIOUS
  <2>2. Max(1 .. k) = k
    <3>1. k - 1 \in Nat /\ (k - 1) + 1 = k /\ 1 .. k \in SUBSET (1 .. (k - 1) + 1) /\ k \in 1 .. k
      OBVIOUS
    <3> QED
      BY <3>1, TopIsMax
  <2>3. it[1 .. k] = Op(it[1 .. k - 1], seq[k])
    BY <1>6, <2>1, <2>2, Zenon
  <2> QED
    BY <2>3
<1>9. p[n] = it[1 .. n]
  OBVIOUS
<1> HIDE DEF p
<1> QED
  BY <1>5, <1>7, <1>8, <1>9 DEF Steps

\* Nothing to fold leaves the start.
LEMMA FoldEmpty ==
  ASSUME NEW start
  PROVE  Fold(start, <<>>) = start
<1>1. DOMAIN <<>> = 1 .. 0
  OBVIOUS
<1>2. PICK p : Steps(p, start, <<>>, 0) /\ Fold(start, <<>>) = p[0]
  BY <1>1, FoldSteps
<1> QED
  BY <1>2 DEF Steps

\* The last member is folded in last.
LastIsFolded(start, seq, x) == Fold(start, Append(seq, x)) = Op(Fold(start, seq), x)

\* The last member is folded last.
LEMMA FoldAppend ==
  ASSUME NEW T, NEW start, NEW seq \in Seq(T), NEW x \in T
  PROVE  LastIsFolded(start, seq, x)
<1> DEFINE n == Len(seq)
           longer == Append(seq, x)
<1>1. n \in Nat /\ DOMAIN seq = 1 .. n /\ DOMAIN longer = 1 .. n + 1
  OBVIOUS
<1>2. longer[n + 1] = x /\ \A k \in 1 .. n : longer[k] = seq[k]
  OBVIOUS
<1> HIDE DEF longer, n
<1>3. PICK p : Steps(p, start, seq, n) /\ Fold(start, seq) = p[n]
  BY <1>1, FoldSteps
<1>4. PICK q : Steps(q, start, longer, n + 1) /\ Fold(start, longer) = q[n + 1]
  <2>1. n + 1 \in Nat
    BY <1>1
  <2> QED
    BY <1>1, <2>1, FoldSteps, Zenon
<1> DEFINE same == {k \in 0 .. n : q[k] = p[k]}
<1>5. 0 \in same
  BY <1>1, <1>3, <1>4 DEF Steps
<1>6. ASSUME NEW k \in 0 .. n - 1, k \in same PROVE k + 1 \in same
  <2>1. k + 1 \in 1 .. n /\ k + 1 \in 1 .. n + 1 /\ (k + 1) - 1 = k /\ k + 1 \in 0 .. n
    BY <1>1
  <2>2. q[k + 1] = Op(q[k], longer[k + 1]) /\ p[k + 1] = Op(p[k], seq[k + 1])
    BY <1>3, <1>4, <2>1 DEF Steps
  <2> QED
    BY <1>2, <1>6, <2>1, <2>2
<1>7. n \in same
  <2> HIDE DEF same
  <2>1. 0 .. n \subseteq same
    BY <1>1, <1>5, <1>6, CountTo
  <2> QED
    BY <1>1, <2>1
<1>8. q[n + 1] = Op(q[n], x)
  <2>1. n + 1 \in 1 .. n + 1 /\ (n + 1) - 1 = n
    BY <1>1
  <2> QED
    BY <1>2, <1>4, <2>1 DEF Steps
<1> QED
  BY <1>3, <1>4, <1>7, <1>8 DEF longer, LastIsFolded

\* Op with any member of seq stays in S.
Keeps(S, seq) == \A x \in S : \A k \in DOMAIN seq : Op(x, seq[k]) \in S

\* What every step keeps, the fold keeps.
LEMMA FoldKeeps ==
  ASSUME NEW T, NEW S, NEW start \in S, NEW seq \in Seq(T), Keeps(S, seq)
  PROVE  Fold(start, seq) \in S
<1> DEFINE n == Len(seq)
<1>1. n \in Nat /\ DOMAIN seq = 1 .. n
  OBVIOUS
<1> HIDE DEF n
<1>2. PICK p : Steps(p, start, seq, n) /\ Fold(start, seq) = p[n]
  BY <1>1, FoldSteps
<1> DEFINE good == {k \in 0 .. n : p[k] \in S}
<1>3. 0 \in good
  BY <1>1, <1>2 DEF Steps
<1>4. ASSUME NEW k \in 0 .. n - 1, k \in good PROVE k + 1 \in good
  <2>1. k + 1 \in 1 .. n /\ (k + 1) - 1 = k /\ k + 1 \in 0 .. n
    BY <1>1
  <2>2. p[k + 1] = Op(p[k], seq[k + 1])
    BY <1>2, <2>1 DEF Steps
  <2> QED
    BY <1>1, <1>4, <2>1, <2>2 DEF Keeps
<1>5. n \in good
  <2> HIDE DEF good
  <2>1. 0 .. n \subseteq good
    BY <1>1, <1>3, <1>4, CountTo
  <2> QED
    BY <1>1, <2>1
<1> QED
  BY <1>2, <1>5
=============================================================================
