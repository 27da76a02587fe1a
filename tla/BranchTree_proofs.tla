------------------------- MODULE BranchTree_proofs -------------------------
(***************************************************************************)
(* What forks, late tasks and memory updates can never do, for any number  *)
(* of branches, scenes, choices, keys and requests, with every fault: the  *)
(* rows are ones the triggers accept, the branches implement BranchTree,   *)
(* choices keep their distance, and a branch is continued with a memory of *)
(* its own scenes.                                                         *)
(*                                                                         *)
(* PathTo is recursive. That it has the values that its equation gives is  *)
(* proved by counting scenes up (RowInduction, PathEquation).              *)
(***************************************************************************)
EXTENDS StoryFlow_proofs, Schema

-----------------------------------------------------------------------------
(* What the triggers require *)

\* What ForkAtChoice establishes for its new row and every later step keeps: a
\* branch is the root or leaves its older parent at one of the parent's own
\* scenes, by a choice of that scene.
ForksFit ==
  \A b \in DOMAIN branches :
    LET row == branches[b]
    IN  \/ row.parent = None /\ row.forkSegment = None /\ row.forkChoice = None
        \/ /\ row.parent \in DOMAIN branches /\ row.parent < b
           /\ row.forkSegment \in DOMAIN segments
           /\ segments[row.forkSegment].branch = row.parent
           /\ row.forkChoice \in DOMAIN choices
           /\ choices[row.forkChoice].segment = row.forkSegment

\* The parent of a branch is on its parent path.
LEMMA ParentIsOnPath ==
  ASSUME NEW b \in DOMAIN branches, branches[b].parent \in DOMAIN branches,
         branches[b].parent # None
  PROVE  branches[b].parent \in ParentPath(b)
BY DEF ParentPath

\* When every parent is an older branch, no branch is its own ancestor.
LEMMA NoBranchIsItsAncestor ==
  ASSUME WellFormed, ForksFit, NEW b \in DOMAIN branches
  PROVE  b \notin ParentPath(b)
<1> DEFINE older == {x \in DOMAIN branches : x < b}
<1>1. DOMAIN branches = 1 .. Len(branches) /\ Len(branches) \in Nat
  BY RowNumbers
<1>2. \A x \in DOMAIN branches :
        branches[x].parent # None => branches[x].parent \in DOMAIN branches /\ branches[x].parent < x
  BY DEF ForksFit
<1>3. branches[b].parent # None => branches[b].parent \in older
  BY <1>2
<1>4. \A x \in older : branches[x].parent # None => branches[x].parent \in older
  BY <1>1, <1>2
<1>5. older \in SUBSET DOMAIN branches /\ b \notin older
  BY <1>1
<1> HIDE DEF older
<1> QED
  BY <1>3, <1>4, <1>5 DEF ParentPath

\* Rows that fit are rows the triggers accept.
LEMMA FitIsAccepted ==
  ASSUME WellFormed, PathsWellFormed, ForksFit
  PROVE  SchemaAccepts
<1> SUFFICES ASSUME NEW b \in DOMAIN branches
             PROVE  ForkChoiceMatchesSegment(b) /\ BranchPathReferences(b)
  BY DEF SchemaAccepts
<1>1. b \notin ParentPath(b)
  BY NoBranchIsItsAncestor
<1>2. branches[b].head = IF Own(b) = {} THEN branches[b].forkSegment ELSE LastRow(Own(b))
  BY DEF PathsWellFormed, Own
<1>3. Own(b) # {} => segments[branches[b].head].branch = b
  BY <1>2, OwnRows DEF Own
<1>4. CASE /\ branches[b].parent = None
           /\ branches[b].forkSegment = None /\ branches[b].forkChoice = None
  BY <1>1, <1>2, <1>3, <1>4
  DEF ForkChoiceMatchesSegment, BranchPathReferences, BranchOfScene
<1>5. CASE /\ branches[b].parent \in DOMAIN branches
           /\ branches[b].forkSegment \in DOMAIN segments
           /\ segments[branches[b].forkSegment].branch = branches[b].parent
           /\ branches[b].forkChoice \in DOMAIN choices
           /\ choices[branches[b].forkChoice].segment = branches[b].forkSegment
  <2>1. branches[b].parent \in ParentPath(b)
    BY <1>5, RowNumbers, ParentIsOnPath
  <2> QED
    BY <1>1, <1>2, <1>3, <1>5, <2>1
    DEF ForkChoiceMatchesSegment, BranchPathReferences, BranchOfScene
<1> QED
  BY <1>4, <1>5 DEF ForksFit

-----------------------------------------------------------------------------
(* The invariant *)

\* A row that fits goes on fitting when its parent, fork point and choice stay.
LEMMA FitIsKept ==
  ASSUME WellFormed, ForksFit, [Next]_vars, NEW b \in DOMAIN branches,
         DOMAIN branches \subseteq DOMAIN branches',
         branches'[b].parent = branches[b].parent,
         branches'[b].forkSegment = branches[b].forkSegment,
         branches'[b].forkChoice = branches[b].forkChoice,
         \A s \in DOMAIN segments :
           s \in DOMAIN segments' /\ segments'[s].branch = segments[s].branch
  PROVE  LET row == branches'[b]
         IN  \/ row.parent = None /\ row.forkSegment = None /\ row.forkChoice = None
             \/ /\ row.parent \in DOMAIN branches' /\ row.parent < b
                /\ row.forkSegment \in DOMAIN segments'
                /\ segments'[row.forkSegment].branch = row.parent
                /\ row.forkChoice \in DOMAIN choices'
                /\ choices'[row.forkChoice].segment = row.forkSegment
BY ChoicesKeepTheirScene DEF ForksFit

\* A fork writes a row that fits.
LEMMA ForkFits ==
  ASSUME WellFormed, NEW c \in DOMAIN choices, ForkAtChoice(c)
  PROVE  LET fork == Len(branches) + 1
             row == branches'[fork]
         IN  /\ DOMAIN branches' = 1 .. fork
             /\ row.parent \in DOMAIN branches' /\ row.parent < fork
             /\ row.forkSegment \in DOMAIN segments'
             /\ segments'[row.forkSegment].branch = row.parent
             /\ row.forkChoice \in DOMAIN choices'
             /\ choices'[row.forkChoice].segment = row.forkSegment
<1> DEFINE segment == choices[c].segment
           copy == Len(choices) + 1
           fork == Len(branches) + 1
           row == [head |-> segment, parent |-> segments[segment].branch,
                   forkSegment |-> segment, forkChoice |-> copy]
<1>1. /\ choices' = Append(choices, NewChoice(segment))
      /\ branches' = Append(branches, row)
      /\ UNCHANGED segments
  BY DEF ForkAtChoice
<1>2. /\ segment \in DOMAIN segments
      /\ segments[segment].branch \in 1 .. Len(branches)
  BY RowNumbers DEF WellFormed, RowsOK, RowReferencesExist
<1>3. row \in Branch /\ NewChoice(segment) \in Choice
  BY <1>2, RowNumbers DEF Branch, NewChoice, Choice
<1>4. NewChoice(segment).segment = segment
  BY DEF NewChoice
<1> HIDE DEF row
<1>5. /\ DOMAIN branches' = 1 .. fork /\ branches'[fork] = row
      /\ copy \in DOMAIN choices' /\ choices'[copy] = NewChoice(segment)
  BY <1>1, <1>3, RowNumbers, AppendProperties, LenProperties
  DEF WellFormed, RowsOK, RepositoryTypeOK
<1>6. row.parent < fork /\ row.parent \in 1 .. fork
  BY <1>2, RowNumbers DEF row
<1> QED
  BY <1>1, <1>2, <1>4, <1>5, <1>6 DEF row

\* Every step keeps the fork rows fitting.
LEMMA NextForksFit == WellFormed /\ ForksFit /\ [Next]_vars => ForksFit'
<1> SUFFICES ASSUME WellFormed, ForksFit, [Next]_vars PROVE ForksFit'
  OBVIOUS
<1>1. CASE UNCHANGED <<segments, branches>>
  BY <1>1, FitIsKept DEF ForksFit
<1>2. CASE UNCHANGED segments /\ \E c \in DOMAIN choices : ForkAtChoice(c)
  <2>1. PICK c \in DOMAIN choices : ForkAtChoice(c)
    BY <1>2
  <2>b. PICK fork : fork = Len(branches) + 1
    OBVIOUS
  <2>2. \A b \in DOMAIN branches : branches'[b] = branches[b]
    BY <2>1, ForkKeepsRows
  <2>3. /\ DOMAIN branches \subseteq DOMAIN branches'
        /\ \A b \in DOMAIN branches' : b = fork \/ b \in DOMAIN branches
    BY <2>1, <2>b, ForkFits, RowNumbers
  <2> QED
    BY <1>2, <2>1, <2>b, <2>2, <2>3, FitIsKept, ForkFits DEF ForksFit
<1>3. CASE ~UNCHANGED <<segments, branches>> /\ \E t \in Tasks : CommitScene(t)
  <2>1. PICK t \in Tasks : CommitScene(t)
    BY <1>3
  <2>2. /\ DOMAIN branches' = DOMAIN branches
        /\ branches' = [branches EXCEPT ![task[t].branch].head = Len(segments')]
        /\ \A s \in DOMAIN segments : segments'[s] = segments[s]
        /\ Len(segments) \in Nat /\ DOMAIN segments = 1 .. Len(segments)
        /\ DOMAIN segments' = 1 .. Len(segments) + 1
    BY <1>3, <2>1, CommittedScene
  <2>b. DOMAIN segments \subseteq DOMAIN segments'
    BY <2>2
  <2>3. \A b \in DOMAIN branches : branches[b] \in Branch
    BY Tables DEF WellFormed, RowsOK
  <2>4. \A b \in DOMAIN branches :
          /\ branches'[b].parent = branches[b].parent
          /\ branches'[b].forkSegment = branches[b].forkSegment
          /\ branches'[b].forkChoice = branches[b].forkChoice
    BY <2>2, <2>3 DEF Branch
  <2> QED
    BY <2>2, <2>b, <2>4, FitIsKept DEF ForksFit
<1> QED
  BY <1>1, <1>2, <1>3, SceneSteps

\* No trigger ever refuses a row the repository writes: every branch leaves an
\* older branch at one of that branch's own scenes by a choice of that scene,
\* and its head is its own or the fork scene, for forks of forks of any depth.
THEOREM SchemaAlwaysAccepts == Spec => []SchemaAccepts
<1>1. Init => ForksFit
  BY DEF Init, RepositoryInit, ForksFit
<1>2. Spec => []ForksFit
  BY <1>1, NextForksFit, AlwaysWellFormed, PTL DEF Spec
<1>3. WellFormed /\ PathsWellFormed /\ ForksFit => SchemaAccepts
  BY FitIsAccepted
<1> QED
  BY <1>2, <1>3, AlwaysWellFormed, PathsAlwaysWellFormed, PTL

-----------------------------------------------------------------------------
(* Counting *)

\* Counting up from 0 in steps of 1 that stay in S meets only members of S: the
\* induction of this module.
LEMMA RowInduction ==
  ASSUME NEW n \in Nat, NEW S, 0 \in S, \A k \in 0 .. n - 1 : k \in S => k + 1 \in S
  PROVE  0 .. n \subseteq S
<1> SUFFICES ASSUME (0 .. n) \ S # {} PROVE FALSE
  OBVIOUS
<1>1. (0 .. n) \ S \in SUBSET Nat
  OBVIOUS
<1>2. PICK m \in (0 .. n) \ S : \A k \in (0 .. n) \ S : m <= k
  BY <1>1, SmallestRow
<1>3. m # 0 /\ m - 1 \in 0 .. n - 1
  BY <1>2
<1>4. m - 1 \in S
  BY <1>2, <1>3
<1> QED
  BY <1>2, <1>3, <1>4

-----------------------------------------------------------------------------
(* Paths *)

\* PathTo of a table of scenes.
PathsIn(rows) ==
  LET path[s \in 0 .. Len(rows)] ==
        IF s = None THEN <<>> ELSE Append(path[rows[s].parent], s)
  IN  path

\* What the model calls PathTo, with the table as a parameter.
LEMMA PathToIsPathsIn == PathTo = PathsIn(segments)
BY DEF PathTo, PathsIn

\* ... and after a step.
LEMMA PathToIsPathsInPrime == PathTo' = PathsIn(segments')
BY DEF PathTo, PathsIn

\* A scene is newer than its parent.
ParentsOlder(rows) ==
  /\ Len(rows) \in Nat /\ DOMAIN rows = 1 .. Len(rows)
  /\ \A s \in DOMAIN rows : rows[s].parent \in Nat /\ rows[s].parent < s

\* The recursion of PathTo ends: it has the values that its definition says.
LEMMA PathEquation ==
  ASSUME NEW rows, ParentsOlder(rows)
  PROVE  PathsIn(rows) =
           [s \in 0 .. Len(rows) |->
              IF s = None THEN <<>> ELSE Append(PathsIn(rows)[rows[s].parent], s)]
<1> DEFINE Defined(n) ==
             \E g : g = [s \in 0 .. n |->
                           IF s = None THEN <<>> ELSE Append(g[rows[s].parent], s)]
           S == {n \in 0 .. Len(rows) : Defined(n)}
<1>1. 0 \in S
  <2> DEFINE g == [s \in 0 .. 0 |-> <<>>]
  <2>1. g = [s \in 0 .. 0 |-> IF s = None THEN <<>> ELSE Append(g[rows[s].parent], s)]
    BY DEF None
  <2> HIDE DEF g
  <2> QED
    BY <2>1 DEF ParentsOlder
<1>2. ASSUME NEW n \in 0 .. Len(rows) - 1, Defined(n) PROVE Defined(n + 1)
  <2>1. PICK g : g = [s \in 0 .. n |->
                        IF s = None THEN <<>> ELSE Append(g[rows[s].parent], s)]
    BY <1>2
  <2>g. \A s \in 0 .. n : g[s] = IF s = None THEN <<>> ELSE Append(g[rows[s].parent], s)
    BY <2>1, Zenon
  <2> DEFINE h == [s \in 0 .. n + 1 |->
                     IF s <= n THEN g[s] ELSE Append(g[rows[s].parent], s)]
  <2>2. ASSUME NEW s \in 0 .. n + 1
        PROVE  h[s] = IF s = None THEN <<>> ELSE Append(h[rows[s].parent], s)
    <3>1. n \in Nat /\ n + 1 \in 1 .. Len(rows)
      BY DEF ParentsOlder
    <3>2. CASE s = None
      BY <2>g, <3>1, <3>2 DEF None
    <3>3. CASE s # None
      <4>1. rows[s].parent \in 0 .. n /\ s \in 1 .. Len(rows)
        BY <3>1, <3>3 DEF ParentsOlder, None
      <4>2. h[rows[s].parent] = g[rows[s].parent]
        BY <3>1, <4>1
      <4>3. CASE s <= n
        <5>1. s \in 0 .. n
          BY <3>1, <4>1, <4>3
        <5>2. g[s] = Append(g[rows[s].parent], s)
          BY <2>g, <3>3, <5>1
        <5> QED
          BY <3>3, <4>2, <4>3, <5>2
      <4>4. CASE ~(s <= n)
        BY <3>3, <4>2, <4>4
      <4> QED
        BY <4>3, <4>4
    <3> QED
      BY <3>2, <3>3
  <2>3. h = [s \in 0 .. n + 1 |-> IF s = None THEN <<>> ELSE Append(h[rows[s].parent], s)]
    <3>1. h = [s \in 0 .. n + 1 |-> h[s]]
      OBVIOUS
    <3> HIDE DEF h
    <3> QED
      BY <2>2, <3>1
  <2> HIDE DEF h
  <2> QED
    BY <2>3
<1>3. \A n \in 0 .. Len(rows) - 1 : n \in S => n + 1 \in S
  <2> HIDE DEF Defined
  <2> QED
    BY <1>2 DEF ParentsOlder
<1>4. Len(rows) \in S
  <2> HIDE DEF S
  <2>1. Len(rows) \in Nat
    BY DEF ParentsOlder
  <2>2. 0 .. Len(rows) \subseteq S
    BY <1>1, <1>3, <2>1, RowInduction
  <2> QED
    BY <2>1, <2>2
<1>5. Defined(Len(rows))
  BY <1>4
<1> QED
  BY <1>5 DEF PathsIn

\* The paths of two tables that agree on the scenes of the first are the same.
LEMMA PathsKept ==
  ASSUME NEW rows, NEW more, ParentsOlder(rows), ParentsOlder(more),
         \A s \in DOMAIN rows : s \in DOMAIN more /\ more[s].parent = rows[s].parent
  PROVE  \A s \in 0 .. Len(rows) : PathsIn(more)[s] = PathsIn(rows)[s]
<1> DEFINE Differ == {s \in 0 .. Len(rows) : PathsIn(more)[s] # PathsIn(rows)[s]}
<1> SUFFICES ASSUME Differ # {} PROVE FALSE
  OBVIOUS
<1>1. /\ Len(rows) \in Nat /\ DOMAIN rows = 1 .. Len(rows)
      /\ Len(more) \in Nat /\ DOMAIN more = 1 .. Len(more)
      /\ \A s \in 0 .. Len(rows) : s \in 0 .. Len(more)
  BY DEF ParentsOlder
<1>2. Differ \in SUBSET Nat
  BY <1>1
<1>3. PICK s \in Differ : \A r \in Differ : s <= r
  BY <1>2, SmallestRow
<1>4. /\ s \in 0 .. Len(rows)
      /\ PathsIn(rows)[s] = IF s = None THEN <<>> ELSE Append(PathsIn(rows)[rows[s].parent], s)
  BY <1>3, PathEquation
<1>5. PathsIn(more)[s] = IF s = None THEN <<>> ELSE Append(PathsIn(more)[more[s].parent], s)
  BY <1>1, <1>4, PathEquation
<1>6. s # None
  BY <1>3, <1>4, <1>5
<1>7. /\ more[s].parent = rows[s].parent /\ rows[s].parent \in 0 .. Len(rows)
      /\ rows[s].parent < s /\ s \in Nat
  BY <1>1, <1>4, <1>6 DEF ParentsOlder, None
<1>8. rows[s].parent \notin Differ
  BY <1>2, <1>3, <1>7
<1> QED
  BY <1>3, <1>4, <1>5, <1>7, <1>8

\* A path that ends with s: rising row numbers.
EndsWith(path, s) ==
  /\ path \in Seq(Nat)
  /\ \A i \in 1 .. Len(path) : 1 <= path[i] /\ path[i] <= s
  /\ \A i, j \in 1 .. Len(path) : i < j => path[i] < path[j]
  /\ s # None => Len(path) >= 1 /\ path[Len(path)] = s

\* The path of a scene rises to the scene.
LEMMA PathsRise ==
  ASSUME NEW rows, ParentsOlder(rows)
  PROVE  \A s \in 0 .. Len(rows) : EndsWith(PathsIn(rows)[s], s)
<1> DEFINE Wrong == {s \in 0 .. Len(rows) : ~EndsWith(PathsIn(rows)[s], s)}
<1> SUFFICES ASSUME Wrong # {} PROVE FALSE
  OBVIOUS
<1>1. Len(rows) \in Nat /\ DOMAIN rows = 1 .. Len(rows)
  BY DEF ParentsOlder
<1>b. Wrong \in SUBSET Nat
  BY <1>1
<1>2. PICK s \in Wrong : \A r \in Wrong : s <= r
  <2> HIDE DEF Wrong
  <2> QED
    BY <1>b, SmallestRow
<1>3. /\ s \in 0 .. Len(rows)
      /\ PathsIn(rows)[s] = IF s = None THEN <<>> ELSE Append(PathsIn(rows)[rows[s].parent], s)
  BY <1>2, PathEquation
<1>4. CASE s = None
  <2>1. PathsIn(rows)[s] = <<>>
    BY <1>3, <1>4
  <2>2. EndsWith(<<>>, s)
    BY <1>4 DEF EndsWith, None
  <2> QED
    BY <1>2, <2>1, <2>2
<1>5. CASE s # None
  <2> DEFINE parent == rows[s].parent
             before == PathsIn(rows)[parent]
  <2>1. parent \in 0 .. Len(rows) /\ parent < s /\ s \in Nat
    BY <1>1, <1>3, <1>5 DEF ParentsOlder, None
  <2>2. EndsWith(before, parent)
    BY <1>1, <1>2, <2>1
  <2>3. PathsIn(rows)[s] = Append(before, s)
    BY <1>3, <1>5
  <2> HIDE DEF parent, before
  <2>4. EndsWith(Append(before, s), s)
    BY <2>1, <2>2, AppendProperties DEF EndsWith, None
  <2> QED
    BY <1>2, <2>3, <2>4
<1> QED
  BY <1>4, <1>5

-----------------------------------------------------------------------------
(* The paths of the branches, step by step *)

\* The tables have paths.
LEMMA TablePaths ==
  ASSUME WellFormed
  PROVE  /\ ParentsOlder(segments)
         /\ \A b \in DOMAIN branches : branches[b].head \in 0 .. Len(segments)
         /\ \A s \in 0 .. Len(segments) : EndsWith(PathTo[s], s)
         /\ \A b \in DOMAIN branches : EndsWith(BranchPath(b), branches[b].head)
<1>1. ParentsOlder(segments)
  BY Tables DEF WellFormed, RowsOK, RowReferencesExist, ParentsOlder, Segment
<1>2. \A b \in DOMAIN branches : branches[b].head \in 0 .. Len(segments)
  BY DEF WellFormed, RowsOK, RowReferencesExist
<1>3. \A s \in 0 .. Len(segments) : EndsWith(PathTo[s], s)
  BY <1>1, PathsRise, PathToIsPathsIn
<1> QED
  BY <1>1, <1>2, <1>3 DEF BranchPath

\* Where scenes and branches stay, paths stay.
LEMMA SamePaths ==
  ASSUME UNCHANGED <<segments, branches>>
  PROVE  PathTo' = PathTo /\ \A b : BranchPath(b)' = BranchPath(b)
BY DEF PathTo, BranchPath

\* A fork adds the path to its scene.
LEMMA ForkPaths ==
  ASSUME WellFormed, NEW c \in DOMAIN choices, ForkAtChoice(c)
  PROVE  /\ PathTo' = PathTo
         /\ DOMAIN branches' = 1 .. Len(branches) + 1
         /\ \A b \in DOMAIN branches : BranchPath(b)' = BranchPath(b)
         /\ \A b : b = Len(branches) + 1 => BranchPath(b)' = PathTo[choices[c].segment]
<1>1. UNCHANGED segments
  BY DEF ForkAtChoice
<1>2. PathTo' = PathTo
  BY <1>1 DEF PathTo
<1>3. \A b \in DOMAIN branches : branches'[b] = branches[b]
  BY ForkKeepsRows
<1>4. /\ DOMAIN branches' = 1 .. Len(branches) + 1
      /\ branches'[Len(branches) + 1].head = choices[c].segment
  <2> DEFINE row == [head |-> choices[c].segment, parent |-> segments[choices[c].segment].branch,
                     forkSegment |-> choices[c].segment, forkChoice |-> Len(choices) + 1]
  <2>1. branches' = Append(branches, row) /\ branches \in Seq(Branch) /\ Len(branches) \in Nat
    BY Tables DEF ForkAtChoice, WellFormed, RowsOK, RepositoryTypeOK
  <2>2. row.head = choices[c].segment
    OBVIOUS
  <2> HIDE DEF row
  <2> QED
    BY <2>1, <2>2
<1>5. \A b \in DOMAIN branches : BranchPath(b)' = BranchPath(b)
  BY <1>2, <1>3 DEF BranchPath
<1>6. \A b : b = Len(branches) + 1 => BranchPath(b)' = PathTo[choices[c].segment]
  BY <1>2, <1>4 DEF BranchPath
<1> QED
  BY <1>2, <1>4, <1>5, <1>6

\* A commit adds its scene to the path of its branch and to no other path.
LEMMA CommitPaths ==
  ASSUME WellFormed, WellFormed', NEW t \in Tasks, CommitScene(t),
         ~UNCHANGED <<segments, branches>>
  PROVE  LET b == task[t].branch
             new == Len(segments')
         IN  /\ b \in DOMAIN branches /\ DOMAIN branches' = DOMAIN branches
             /\ new = Len(segments) + 1
             /\ \A s \in 0 .. Len(segments) : PathTo'[s] = PathTo[s]
             /\ PathTo'[new] = Append(BranchPath(b), new)
             /\ \A r \in DOMAIN branches :
                  BranchPath(r)' = IF r = b THEN Append(BranchPath(b), new) ELSE BranchPath(r)
<1>b. PICK b, new : b = task[t].branch /\ new = Len(segments')
  OBVIOUS
<1>1. /\ b \in DOMAIN branches /\ DOMAIN branches' = DOMAIN branches
      /\ new = Len(segments) + 1 /\ Len(segments) \in Nat
      /\ DOMAIN segments = 1 .. Len(segments) /\ DOMAIN segments' = 1 .. new
      /\ \A s \in DOMAIN segments : segments'[s] = segments[s]
      /\ segments'[new].parent = branches[b].head
      /\ branches' = [branches EXCEPT ![b].head = new]
  BY <1>b, CommittedScene
<1>2. ParentsOlder(segments) /\ \A r \in DOMAIN branches : branches[r].head \in 0 .. Len(segments)
  BY TablePaths
<1>3. ParentsOlder(segments')
  <2>1. branches[b].head \in Nat /\ branches[b].head < new
    BY <1>1, <1>2
  <2>2. \A s \in DOMAIN segments' : s = new \/ s \in DOMAIN segments
    BY <1>1
  <2> QED
    BY <1>1, <1>2, <1>b, <2>1, <2>2 DEF ParentsOlder
<1>4. \A s \in 0 .. Len(segments) : PathTo'[s] = PathTo[s]
  BY <1>1, <1>2, <1>3, PathsKept, PathToIsPathsIn, PathToIsPathsInPrime
<1>5. PathTo'[new] = Append(BranchPath(b), new)
  <2>1. PathTo'[new] = Append(PathTo'[branches[b].head], new)
    <3> DEFINE rows == segments'
               path == PathsIn(rows)
    <3>1. ParentsOlder(rows) /\ Len(rows) = new /\ new \in 0 .. Len(rows) /\ new # None
          /\ rows[new].parent = branches[b].head
      BY <1>1, <1>3, <1>b DEF None
    <3> HIDE DEF rows
    <3>2. path = [s \in 0 .. Len(rows) |->
                    IF s = None THEN <<>> ELSE Append(path[rows[s].parent], s)]
      BY <3>1, PathEquation, Zenon
    <3>3. path[new] = Append(path[rows[new].parent], new)
      <4> HIDE DEF path
      <4> QED
        BY <3>1, <3>2, Zenon
    <3>4. PathTo' = path
      BY PathToIsPathsInPrime, Zenon DEF rows
    <3> QED
      BY <3>1, <3>3, <3>4, Zenon
  <2> QED
    BY <1>1, <1>2, <1>4, <2>1 DEF BranchPath
<1>6. \A r \in DOMAIN branches : branches'[r].head = IF r = b THEN new ELSE branches[r].head
  BY <1>1, Tables DEF WellFormed, RowsOK, Branch
<1>7. \A r \in DOMAIN branches :
        BranchPath(r)' = IF r = b THEN Append(BranchPath(b), new) ELSE BranchPath(r)
  BY <1>2, <1>4, <1>5, <1>6 DEF BranchPath
<1> QED
  BY <1>1, <1>4, <1>5, <1>7, <1>b

-----------------------------------------------------------------------------
(* The tree of branches *)

StartsWith(path, start) == \E n \in 1 .. Len(path) : start = SubSeq(path, 1, n)

\* The path to an own scene of a branch is where the path of the branch starts.
OwnScenesOnPath ==
  \A s \in DOMAIN segments : StartsWith(BranchPath(segments[s].branch), PathTo[s])

\* One more scene at the end leaves the beginnings of a path, and adds one.
LEMMA LongerPath ==
  ASSUME NEW path \in Seq(Nat), NEW s \in Nat
  PROVE  /\ \A start : StartsWith(path, start) => StartsWith(Append(path, s), start)
         /\ StartsWith(Append(path, s), Append(path, s))
         /\ Len(Append(path, s)) = Len(path) + 1
         /\ Append(path, s)[Len(path) + 1] = s
<1> DEFINE longer == Append(path, s)
<1>1. /\ longer \in Seq(Nat) /\ Len(longer) = Len(path) + 1 /\ Len(path) \in Nat
      /\ \A i \in 1 .. Len(path) : longer[i] = path[i]
      /\ longer[Len(path) + 1] = s
  BY AppendProperties, LenProperties
<1> HIDE DEF longer
<1>2. ASSUME NEW n \in 1 .. Len(path) PROVE SubSeq(longer, 1, n) = SubSeq(path, 1, n)
  BY <1>1
<1>3. SubSeq(longer, 1, Len(longer)) = longer
  BY <1>1
<1>4. \A n \in 1 .. Len(path) : n \in 1 .. Len(longer)
  BY <1>1
<1>5. Len(longer) \in 1 .. Len(longer)
  BY <1>1
<1> QED
  BY <1>1, <1>2, <1>3, <1>4, <1>5 DEF StartsWith, longer

\* Every step keeps a branch's own scenes on its path.
LEMMA NextOwnScenesOnPath ==
  WellFormed /\ WellFormed' /\ OwnScenesOnPath /\ [Next]_vars => OwnScenesOnPath'
<1> SUFFICES ASSUME WellFormed, WellFormed', OwnScenesOnPath, [Next]_vars
             PROVE  OwnScenesOnPath'
  OBVIOUS
<1>1. CASE UNCHANGED <<segments, branches>>
  BY <1>1, SamePaths DEF OwnScenesOnPath
<1>2. CASE UNCHANGED segments /\ \E c \in DOMAIN choices : ForkAtChoice(c)
  BY <1>2, ForkPaths, ForkKeepsRows DEF OwnScenesOnPath
<1>3. CASE ~UNCHANGED <<segments, branches>> /\ \E t \in Tasks : CommitScene(t)
  <2>1. PICK t \in Tasks : CommitScene(t)
    BY <1>3
  <2>b. PICK b, new : b = task[t].branch /\ new = Len(segments')
    OBVIOUS
  <2>2. /\ DOMAIN segments = 1 .. Len(segments) /\ DOMAIN segments' = 1 .. new
        /\ Len(segments) \in Nat
        /\ \A s \in DOMAIN segments : segments'[s] = segments[s]
        /\ segments'[new].branch = b
    BY <1>3, <2>1, <2>b, CommittedScene
  <2>3. /\ b \in DOMAIN branches /\ DOMAIN branches' = DOMAIN branches
        /\ new = Len(segments) + 1
        /\ \A s \in 0 .. Len(segments) : PathTo'[s] = PathTo[s]
        /\ PathTo'[new] = Append(BranchPath(b), new)
        /\ \A r \in DOMAIN branches :
             BranchPath(r)' = IF r = b THEN Append(BranchPath(b), new) ELSE BranchPath(r)
    BY <1>3, <2>1, <2>b, CommitPaths
  <2>4. BranchPath(b) \in Seq(Nat)
    BY <2>3, TablePaths DEF EndsWith
  <2>5. \A s \in DOMAIN segments : segments[s].branch \in DOMAIN branches
    BY DEF WellFormed, RowsOK, RowReferencesExist
  <2>6. ASSUME NEW s \in DOMAIN segments
        PROVE  StartsWith(BranchPath(segments[s].branch), PathTo[s])'
    <3>1. PICK r : r = segments[s].branch
      OBVIOUS
    <3>2. StartsWith(BranchPath(r), PathTo[s]) /\ r \in DOMAIN branches
      BY <2>5, <3>1 DEF OwnScenesOnPath
    <3>3. StartsWith(BranchPath(r)', PathTo'[s])
      <4>1. PathTo'[s] = PathTo[s] /\ new \in Nat
        BY <2>2, <2>3
      <4>2. CASE r = b
        <5>1. BranchPath(r)' = Append(BranchPath(b), new)
          BY <2>3, <4>2
        <5>2. StartsWith(Append(BranchPath(b), new), PathTo[s])
          BY <2>4, <3>2, <4>1, <4>2, LongerPath
        <5> QED
          BY <4>1, <5>1, <5>2
      <4>3. CASE r # b
        BY <2>3, <3>2, <4>1, <4>3
      <4> QED
        BY <4>2, <4>3
    <3> QED
      BY <2>2, <3>1, <3>3 DEF StartsWith
  <2>7. \A s : s = new => StartsWith(BranchPath(segments[s].branch), PathTo[s])'
    <3>1. StartsWith(BranchPath(b)', PathTo'[new])
      <4>1. StartsWith(Append(BranchPath(b), new), Append(BranchPath(b), new))
        BY <2>2, <2>3, <2>4, LongerPath
      <4> QED
        BY <2>3, <4>1
    <3> QED
      BY <2>2, <3>1 DEF StartsWith
  <2>8. \A s \in DOMAIN segments' : s = new \/ s \in DOMAIN segments
    BY <2>2, <2>3
  <2> QED
    BY <2>6, <2>7, <2>8 DEF OwnScenesOnPath
<1> QED
  BY <1>1, <1>2, <1>3, SceneSteps

\* ... so they are on it in every reachable state.
LEMMA AlwaysOwnScenesOnPath == Spec => []OwnScenesOnPath
<1>1. Init => OwnScenesOnPath
  BY DEF Init, RepositoryInit, OwnScenesOnPath
<1> QED
  BY <1>1, AlwaysWellFormed, NextOwnScenesOnPath, PTL DEF Spec

\* Every step makes one branch longer, adds a branch, or changes no path.
LEMMA NextIsTreeStep ==
  WellFormed /\ WellFormed' /\ OwnScenesOnPath /\ [Next]_vars => [Tree!Next]_Paths
<1> SUFFICES ASSUME WellFormed, WellFormed', OwnScenesOnPath, [Next]_vars
             PROVE  [Tree!Next]_Paths
  OBVIOUS
<1>1. CASE UNCHANGED <<segments, branches>>
  BY <1>1, SamePaths DEF Paths
<1>2. CASE UNCHANGED segments /\ \E c \in DOMAIN choices : ForkAtChoice(c)
  <2>1. PICK c \in DOMAIN choices : ForkAtChoice(c)
    BY <1>2
  <2>b. PICK fork, s, b : /\ fork = Len(branches) + 1 /\ s = choices[c].segment
                          /\ b = segments[s].branch
    OBVIOUS
  <2>2. /\ DOMAIN branches' = 1 .. fork
        /\ \A r \in DOMAIN branches : BranchPath(r)' = BranchPath(r)
        /\ BranchPath(fork)' = PathTo[s]
    BY <2>1, <2>b, ForkPaths
  <2>3. DOMAIN branches = 1 .. Len(branches) /\ Len(branches) \in Nat
    BY RowNumbers
  <2>4. s \in DOMAIN segments /\ b \in DOMAIN branches
    BY <2>b DEF WellFormed, RowsOK, RowReferencesExist
  <2>5. PICK n \in 1 .. Len(BranchPath(b)) : PathTo[s] = SubSeq(BranchPath(b), 1, n)
    BY <2>b, <2>4 DEF OwnScenesOnPath, StartsWith
  <2>6. Paths' = Append(Paths, PathTo[s])
    <3>1. Len(Paths) = Len(branches)
      BY <2>3 DEF Paths
    <3>2. Paths' = [r \in 1 .. fork |-> IF r = fork THEN PathTo[s] ELSE BranchPath(r)]
      BY <2>2, <2>3, <2>b DEF Paths
    <3> QED
      BY <2>3, <2>b, <3>1, <3>2 DEF Paths
  <2>7. Tree!Fork
    BY <2>4, <2>5, <2>6 DEF Tree!Fork, Paths
  <2> QED
    BY <2>7 DEF Tree!Next
<1>3. CASE ~UNCHANGED <<segments, branches>> /\ \E t \in Tasks : CommitScene(t)
  <2>1. PICK t \in Tasks : CommitScene(t)
    BY <1>3
  <2>b. PICK b, new : b = task[t].branch /\ new = Len(segments')
    OBVIOUS
  <2>2. /\ b \in DOMAIN branches /\ DOMAIN branches' = DOMAIN branches
        /\ new = Len(segments) + 1
        /\ \A r \in DOMAIN branches :
             BranchPath(r)' = IF r = b THEN Append(BranchPath(b), new) ELSE BranchPath(r)
    BY <1>3, <2>1, <2>b, CommitPaths
  <2>3. Paths' = [Paths EXCEPT ![b] = Append(@, new)]
    BY <2>2 DEF Paths
  <2>4. new \in Nat /\ BranchPath(b) \in Seq(Nat)
    BY <2>2, RowNumbers, TablePaths DEF EndsWith
  <2>5. /\ Len(Append(BranchPath(b), new)) = Len(BranchPath(b)) + 1
        /\ Append(BranchPath(b), new)[Len(BranchPath(b)) + 1] = new
    BY <2>4, LongerPath
  <2>6. new \notin Tree!Scenes
    <3>1. ASSUME NEW r \in DOMAIN branches, NEW i \in DOMAIN BranchPath(r)
          PROVE  BranchPath(r)[i] # new
      <4>1. /\ EndsWith(BranchPath(r), branches[r].head)
            /\ branches[r].head \in 0 .. Len(segments) /\ Len(segments) \in Nat
        BY TablePaths, RowNumbers
      <4>2. BranchPath(r)[i] <= branches[r].head /\ BranchPath(r)[i] \in Nat
        BY <3>1, <4>1 DEF EndsWith
      <4> QED
        BY <2>2, <4>1, <4>2
    <3> QED
      BY <3>1 DEF Tree!Scenes, Paths
  <2>7. Tree!Grow
    BY <2>2, <2>3, <2>5, <2>6 DEF Tree!Grow, Paths
  <2> QED
    BY <2>7 DEF Tree!Next
<1> QED
  BY <1>1, <1>2, <1>3, SceneSteps

\* The branches of a story are an append-only tree of scenes, whatever tasks,
\* forks and faults interleave: what happens on a branch changes no other.
THEOREM BranchesAlwaysFormATree == Spec => BranchesFormATree
<1>1. Init => Tree!Init
  <2> SUFFICES ASSUME Init PROVE Tree!Init
    OBVIOUS
  <2>1. segments = <<>> /\ DOMAIN branches = {1} /\ branches[1].head = None
    BY DEF Init, RepositoryInit
  <2>2. ParentsOlder(segments)
    BY <2>1 DEF ParentsOlder
  <2>3. PathTo[0] = <<>>
    BY <2>1, <2>2, PathEquation, PathToIsPathsIn DEF None
  <2>4. BranchPath(1) = <<>>
    BY <2>1, <2>3 DEF BranchPath, None
  <2> QED
    BY <2>1, <2>4 DEF Tree!Init, Paths
<1>2. Spec => [][Tree!Next]_Paths
  BY AlwaysWellFormed, AlwaysOwnScenesOnPath, NextIsTreeStep, PTL DEF Spec
<1> QED
  BY <1>1, <1>2, PTL DEF BranchesFormATree, Tree!Spec, Spec

-----------------------------------------------------------------------------
(* The distance between choices *)

\* The scenes of a path are rows of the table.
LEMMA ScenesAreRows ==
  ASSUME WellFormed, NEW b \in DOMAIN branches
  PROVE  ScenesOn(b) \subseteq DOMAIN segments
<1>1. /\ EndsWith(BranchPath(b), branches[b].head)
      /\ branches[b].head \in 0 .. Len(segments)
      /\ Len(segments) \in Nat /\ DOMAIN segments = 1 .. Len(segments)
  BY TablePaths, RowNumbers
<1>2. \A i \in DOMAIN BranchPath(b) : BranchPath(b)[i] \in 1 .. Len(segments)
  <2> DEFINE path == BranchPath(b)
  <2>1. DOMAIN path = 1 .. Len(path) /\ \A i \in DOMAIN path : path[i] \in Nat
    BY <1>1 DEF EndsWith
  <2>2. \A i \in DOMAIN path : 1 <= path[i] /\ path[i] <= branches[b].head
    BY <1>1, <2>1 DEF EndsWith
  <2> HIDE DEF path
  <2>3. \A i \in DOMAIN path : path[i] \in 1 .. Len(segments)
    BY <1>1, <2>1, <2>2
  <2> QED
    BY <2>3 DEF path
<1> QED
  BY <1>1, <1>2 DEF ScenesOn

\* Scenes with a choice.
WithChoice == {choices[c].segment : c \in DOMAIN choices}

\* What the generate endpoint counts, going back until a scene has a choice, is
\* the number of scenes after the latest choice on the path.
LEMMA DistanceCounted ==
  ASSUME WellFormed, NEW b \in DOMAIN branches
  PROVE  ScenesSinceLastChoice(b) = ScenesAfterChoices(b)
<1>1. /\ ScenesOn(b) \cap DOMAIN segments = ScenesOn(b)
      /\ \A s \in ScenesOn(b) : s \in Nat
  BY ScenesAreRows, RowNumbers
<1>2. ASSUME NEW r PROVE ChoicePointForSegment(r) = None <=> r \notin WithChoice
  <2> DEFINE rows == {c \in DOMAIN choices : choices[c].segment = r}
  <2>1. rows \in SUBSET (1 .. Len(choices)) /\ Len(choices) \in Nat
    BY RowNumbers
  <2>2. rows = {} <=> r \notin WithChoice
    BY DEF WithChoice
  <2> HIDE DEF rows
  <2>3. FirstRow(rows) = None <=> rows = {}
    BY <2>1, FirstRowFinds
  <2> QED
    BY <2>2, <2>3 DEF ChoicePointForSegment, rows
<1> DEFINE path == ScenesOn(b)
<1>3. {s \in path : \A r \in path : s <= r => r \notin WithChoice}
        = {s \in path : \A r \in WithChoice \cap path : r < s}
  BY <1>1
<1>4. {s \in path : \A r \in path : s <= r => ChoicePointForSegment(r) = None}
        = {s \in path : \A r \in path : s <= r => r \notin WithChoice}
  BY <1>2
<1> HIDE DEF path
<1>5. ScenesSinceLastChoice(b)
        = Cardinality({s \in path : \A r \in path : s <= r => ChoicePointForSegment(r) = None})
  BY <1>1 DEF ScenesSinceLastChoice, path
<1>6. ScenesAfterChoices(b)
        = Cardinality({s \in path : \A r \in WithChoice \cap path : r < s})
  BY DEF ScenesAfterChoices, WithChoice, path
<1> QED
  BY <1>3, <1>4, <1>5, <1>6

\* A scene that ends without a choice never gets one; a fork copies a choice
\* where there is one.
LEMMA ChoicesStayAtScenes ==
  ASSUME WellFormed, WellFormed', [Next]_vars
  PROVE  WithChoice' \cap DOMAIN segments = WithChoice \cap DOMAIN segments
<1>1. \A s \in WithChoice : s \in WithChoice'
  BY ChoicesKeepTheirScene DEF WithChoice
<1>0. choices \in Seq(Choice)
  BY DEF WellFormed, RowsOK, RepositoryTypeOK
<1>2. \A s \in WithChoice' : s \in WithChoice \/ s \notin DOMAIN segments
  <2>1. CASE UNCHANGED choices
    BY <2>1 DEF WithChoice
  <2>2. CASE \E c, version, selection : SubmitChoice(c, version, selection)
    <3>1. DOMAIN choices' = DOMAIN choices
      BY <1>0, <2>2 DEF SubmitChoice
    <3> QED
      BY <3>1, ChoicesKeepTheirScene DEF WithChoice
  <2>3. ASSUME NEW s, choices' = Append(choices, NewChoice(s))
        PROVE  \A r \in WithChoice' : r \in WithChoice \/ r = s
    <3>1. /\ \A c \in DOMAIN choices' : c \in DOMAIN choices \/ c = Len(choices) + 1
          /\ \A c \in DOMAIN choices : choices'[c] = choices[c]
          /\ choices'[Len(choices) + 1] = NewChoice(s)
      BY <1>0, <2>3
    <3> QED
      BY <3>1 DEF WithChoice, NewChoice
  <2>4. CASE \E c \in DOMAIN choices : ForkAtChoice(c)
    <3>1. PICK c \in DOMAIN choices : choices' = Append(choices, NewChoice(choices[c].segment))
      BY <2>4 DEF ForkAtChoice
    <3>2. \A r \in WithChoice' : r \in WithChoice \/ r = choices[c].segment
      BY <2>3, <3>1
    <3> QED
      BY <3>2 DEF WithChoice
  <2>5. CASE \E t \in Tasks : CommitScene(t)
    <3>1. UNCHANGED choices \/ choices' = Append(choices, NewChoice(Len(segments) + 1))
      BY <2>5 DEF CommitScene, CommitGenerationBundle, InsertSegmentBundle
    <3>2. Len(segments) + 1 \notin DOMAIN segments
      BY RowNumbers
    <3> QED
      BY <2>1, <2>3, <3>1, <3>2
  <2> QED
    BY <2>1, <2>2, <2>4, <2>5, ChoiceSteps
<1> QED
  BY <1>1, <1>2

\* The distance on a branch changes only with a scene that is stored on it.
LEMMA DistanceKept ==
  ASSUME WellFormed, WellFormed', [Next]_vars, NEW b \in DOMAIN branches,
         \A t \in Tasks : CommitScene(t) /\ ~UNCHANGED <<segments, branches>>
                            => task[t].branch # b
  PROVE  ScenesAfterChoices(b)' = ScenesAfterChoices(b)
<1>1. BranchPath(b)' = BranchPath(b)
  <2>1. CASE UNCHANGED <<segments, branches>>
    BY <2>1, SamePaths
  <2>2. CASE UNCHANGED segments /\ \E c \in DOMAIN choices : ForkAtChoice(c)
    BY <2>2, ForkPaths
  <2>3. CASE ~UNCHANGED <<segments, branches>> /\ \E t \in Tasks : CommitScene(t)
    <3>1. PICK t \in Tasks : CommitScene(t)
      BY <2>3
    <3>2. task[t].branch # b
      BY <2>3, <3>1
    <3> QED
      BY <2>3, <3>1, <3>2, CommitPaths
  <2> QED
    BY <2>1, <2>2, <2>3, SceneSteps
<1>2. ScenesOn(b)' = ScenesOn(b) /\ ScenesOn(b) \subseteq DOMAIN segments
  BY <1>1, ScenesAreRows DEF ScenesOn
<1>3. WithChoice' \cap ScenesOn(b)' = WithChoice \cap ScenesOn(b)
  BY <1>2, ChoicesStayAtScenes
<1>4. ScenesAfterChoices(b)
        = Cardinality({s \in ScenesOn(b) : \A r \in WithChoice \cap ScenesOn(b) : r < s})
  BY DEF ScenesAfterChoices, WithChoice
<1>5. ScenesAfterChoices(b)'
        = Cardinality({s \in ScenesOn(b)' : \A r \in WithChoice' \cap ScenesOn(b)' : r < s})
  BY DEF ScenesAfterChoices, WithChoice
<1> QED
  BY <1>2, <1>3, <1>4, <1>5

-----------------------------------------------------------------------------
(* What a task decided with its distance *)

\* A task goes on with the distance that it was accepted with.
LEMMA WaitingSteps ==
  ASSUME WellFormed, [Next]_vars, NEW u \in Tasks, Waiting(task'[u])
  PROVE  \/ task'[u] = task[u]
         \/ \E b \in DOMAIN branches :
              /\ task'[u].pc = "accepted" /\ task'[u].branch = b
              /\ task'[u].distance = ScenesSinceLastChoice(b)
              /\ SegmentByKey(task'[u].key) = None
              /\ UNCHANGED repositoryVars
         \/ /\ Waiting(task[u])
            /\ task'[u].branch = task[u].branch /\ task'[u].distance = task[u].distance
            /\ task'[u].key = task[u].key
            /\ UNCHANGED repositoryVars
            /\ \/ task'[u].pc = "director"
               \/ \E head, plan : plan \in Plan /\ StartWriter(u, head, plan)
<1>0. /\ task \in [Tasks -> Task]
      /\ \A d \in drafts : d.plan \in Plan
  BY DEF WellFormed, TasksOK, RowsOK, RepositoryTypeOK, Draft
<1>1. ASSUME NEW t \in Tasks, task' = [task EXCEPT ![t] = NoTask]
      PROVE  task'[u] = task[u]
  BY <1>0, <1>1 DEF Waiting, NoTask
<1>2. ASSUME NEW t \in Tasks, EndTask(t)
      PROVE  task'[u] = task[u]
  BY <1>0, <1>2 DEF Waiting, EndTask, NoTask
<1>3. CASE Generate
  <2>1. PICK t \in Tasks, b \in DOMAIN branches, key \in Keys : Accept(t, b, key)
    BY <1>3 DEF Generate
  <2>2. CASE t = u
    BY <1>0, <2>1, <2>2 DEF Accept, NoTask
  <2>3. CASE t # u
    BY <1>0, <2>1, <2>3 DEF Accept
  <2> QED
    BY <2>2, <2>3
<1>4. CASE \E t \in Tasks : TaskMoves(t)
  <2>1. PICK t \in Tasks : TaskMoves(t)
    BY <1>4
  <2>2. CASE StartRejected(t) \/ ModelFails(t) \/ PauseAtChunk(t) \/ CommitRejected(t)
             \/ \E updated \in BOOLEAN : RollingAnswer(t, updated)
    BY <1>2, <2>2 DEF StartRejected, ModelFails, PauseAtChunk, CommitRejected, RollingAnswer,
                      EndCommitted
  <2>3. CASE StartDirector(t)
    BY <1>0, <2>3 DEF StartDirector, Waiting, Task
  <2>4. ASSUME NEW head, NEW plan \in Plan, StartWriter(t, head, plan),
               task[t].pc \in {"accepted", "director"}, UNCHANGED repositoryVars
        PROVE  \/ task'[u] = task[u]
               \/ /\ Waiting(task[u])
                  /\ task'[u].branch = task[u].branch /\ task'[u].distance = task[u].distance
                  /\ task'[u].key = task[u].key
                  /\ UNCHANGED repositoryVars
                  /\ StartWriter(u, head, plan)
    <3>1. CASE t # u
      BY <1>0, <2>4, <3>1 DEF StartWriter
    <3>2. CASE t = u
      <4>1. /\ task'[u].branch = task[u].branch /\ task'[u].distance = task[u].distance
            /\ task'[u].key = task[u].key
        BY <1>0, <2>4, <3>2 DEF StartWriter, Task
      <4> QED
        BY <2>4, <3>2, <4>1 DEF Waiting
    <3> QED
      BY <3>1, <3>2
  <2>5. CASE StartFromDraft(t)
    <3>1. PICK draft \in DraftOf(task[t].branch) :
            StartWriter(t, branches[task[t].branch].head, draft.plan)
      BY <2>5 DEF StartFromDraft
    <3>2. draft.plan \in Plan /\ task[t].pc = "accepted" /\ UNCHANGED repositoryVars
      BY <1>0, <2>5, <3>1 DEF StartFromDraft, DraftOf
    <3> QED
      BY <2>4, <3>1, <3>2
  <2>6. CASE \E suggestion \in BOOLEAN : DirectorPlans(t, suggestion)
    <3>1. PICK suggestion \in BOOLEAN : DirectorPlans(t, suggestion)
      BY <2>6
    <3>2. PICK plan : plan = [plannedFor |-> task[t].head, choice |-> suggestion]
      OBVIOUS
    <3>3. plan \in Plan
      BY <1>0, <3>2 DEF Plan, Task
    <3>4. StartWriter(t, task[t].head, plan) /\ task[t].pc = "director"
          /\ UNCHANGED repositoryVars
      BY <3>1, <3>2 DEF DirectorPlans
    <3> QED
      BY <2>4, <3>3, <3>4
  <2>7. CASE CommitScene(t)
    BY <1>0, <2>7 DEF CommitScene, Waiting, Task
  <2>8. CASE \E updated \in BOOLEAN : MemoryAnswer(t, updated)
    <3>1. PICK updated \in BOOLEAN : MemoryAnswer(t, updated)
      BY <2>8
    <3>2. CASE EndCommitted(t)
      BY <1>2, <3>2 DEF EndCommitted
    <3>3. CASE ~EndCommitted(t)
      <4>1. \A r \in Tasks : r # t => task'[r] = task[r]
        BY <1>0, <3>1, <3>3 DEF MemoryAnswer
      <4>2. task'[t].pc = "rolling"
        BY <1>0, <3>1, <3>3 DEF MemoryAnswer, Task
      <4> QED
        BY <4>1, <4>2 DEF Waiting
    <3> QED
      BY <3>2, <3>3
  <2>9. CASE DrainResponse(t)
    BY <1>1, <2>9 DEF DrainResponse, CloseResponse
  <2> QED
    BY <2>1, <2>2, <2>3, <2>5, <2>6, <2>7, <2>8, <2>9 DEF TaskMoves, TaskStep
<1>5. CASE UNCHANGED task
  BY <1>5
<1>6. CASE RequestPause \/ Resume \/ \E b \in DOMAIN branches : Activate(b)
  BY <1>5, <1>6 DEF RequestPause, Resume, Activate, serviceVars
<1>7. CASE Select \/ ModelAnswersCustom
  BY <1>5, <1>7 DEF Select, SelectOption, ParseCustomAction, ModelAnswersCustom, SelectCustom,
                    RejectCustom, serviceVars
<1>8. CASE \E c \in DOMAIN choices : CreateBranch(c)
  BY <1>5, <1>8 DEF CreateBranch, serviceVars
<1>9. CASE Fault
  <2>1. CASE Restart
    BY <2>1 DEF Restart, Waiting, NoTask
  <2>2. CASE ~Restart
    BY <1>1, <1>9, <2>2 DEF Fault, Disconnect, CloseResponse, DropResponse
  <2> QED
    BY <2>1, <2>2
<1>10. CASE UNCHANGED vars
  BY <1>5, <1>10 DEF vars
<1> QED
  BY <1>3, <1>4, <1>6, <1>7, <1>8, <1>9, <1>10 DEF Next

\* A scene may end with a choice, or go on without one.
Decided(x) ==
  /\ x.plan.choice => x.distance >= MinInterval(Frequency)
  /\ ~x.plan.choice /\ ~x.limit => x.distance < MaxInterval(Frequency)

\* The policy, applied to the distance of the task.
LEMMA WriterDecides ==
  ASSUME WellFormed, NEW u \in Tasks, NEW head, NEW plan \in Plan, StartWriter(u, head, plan)
  PROVE  Decided(task'[u])
<1> DEFINE decision == EvaluatePolicy(Frequency, task[u].distance, plan.choice)
<1>0. task \in [Tasks -> Task] /\ task[u].distance \in Nat /\ plan.choice \in BOOLEAN
  BY DEF WellFormed, TasksOK, Task, Plan
<1>1. /\ decision \in {"accept", "force"} => task[u].distance >= MinInterval(Frequency)
      /\ decision \notin {"accept", "force", "pause"}
           => task[u].distance < MaxInterval(Frequency)
  <2>1. CASE Frequency = "FEW"
    BY <1>0, <2>1 DEF EvaluatePolicy, MinInterval, MaxInterval
  <2>2. CASE Frequency = "MEDIUM"
    BY <1>0, <2>2 DEF EvaluatePolicy, MinInterval, MaxInterval
  <2>3. CASE Frequency = "MANY"
    BY <1>0, <2>3 DEF EvaluatePolicy, MinInterval, MaxInterval
  <2> QED
    BY <2>1, <2>2, <2>3, GenerationAssumption DEF Frequencies
<1>2. task' = [task EXCEPT ![u].pc = "stream", ![u].head = head,
                 ![u].plan = [plan EXCEPT !.choice = decision \in {"accept", "force"}],
                 ![u].limit = decision = "pause"]
  BY DEF StartWriter
<1> HIDE DEF decision
<1>d. PICK choice, limit : choice = (decision \in {"accept", "force"}) /\ limit = (decision = "pause")
  OBVIOUS
<1>p. PICK rest : rest = [plan EXCEPT !.choice = choice]
  OBVIOUS
<1>3. rest.choice = choice
  BY <1>p DEF Plan
<1>4. task' = [task EXCEPT ![u].pc = "stream", ![u].head = head, ![u].plan = rest,
                           ![u].limit = limit]
  BY <1>2, <1>d, <1>p
<1>5. task'[u].plan = rest /\ task'[u].limit = limit /\ task'[u].distance = task[u].distance
  BY <1>0, <1>4 DEF Task
<1> QED
  BY <1>1, <1>3, <1>5, <1>d DEF Decided

\* The invariant behind ChoicesPaced: until its commit a task has the distance
\* of its branch as it is now, and what it has decided suits that distance.
Paced ==
  \A t \in Tasks :
    /\ Waiting(task[t]) => task[t].distance = ScenesAfterChoices(task[t].branch)
    /\ task[t].pc = "stream" => Decided(task[t])

\* Every step keeps the choices paced.
LEMMA NextPaced ==
  WellFormed /\ WellFormed' /\ Reservations /\ Paced /\ [Next]_vars => Paced'
<1> SUFFICES ASSUME WellFormed, WellFormed', Reservations, Paced, [Next]_vars PROVE Paced'
  OBVIOUS
<1> SUFFICES ASSUME NEW u \in Tasks, Waiting(task'[u])
             PROVE  /\ \A b : b = task'[u].branch
                                => task'[u].distance = ScenesAfterChoices(b)'
                    /\ task'[u].pc = "stream" => Decided(task'[u])
  BY DEF Paced, Waiting, Decided
<1>0. /\ task \in [Tasks -> Task] /\ \A t \in Tasks : Live(t) => task[t].branch \in DOMAIN branches
  BY DEF WellFormed, TasksOK, TaskOK, Live
<1>1. ASSUME UNCHANGED repositoryVars
      PROVE  \A b : ScenesAfterChoices(b)' = ScenesAfterChoices(b)
  BY <1>1, SamePaths DEF ScenesAfterChoices, ScenesOn, repositoryVars
<1>2. CASE task'[u] = task[u]
  <2>1. PICK b : b = task[u].branch
    OBVIOUS
  <2>2. /\ task[u].distance = ScenesAfterChoices(b)
        /\ task[u].pc = "stream" => Decided(task[u])
        /\ b \in DOMAIN branches /\ Live(u)
    BY <1>0, <1>2, <2>1 DEF Paced, Waiting, Live
  <2>3. ASSUME NEW t \in Tasks, CommitScene(t)
        PROVE  task[t].branch # b
    <3>1. task'[t].pc = "memory" /\ Live(t)
      BY <1>0, <2>3 DEF CommitScene, Task, Live
    <3>2. t # u
      BY <3>1 DEF Waiting
    <3> QED
      BY <2>1, <2>2, <3>1, <3>2 DEF Reservations, OneTaskPerBranch
  <2>4. ScenesAfterChoices(b)' = ScenesAfterChoices(b)
    BY <2>2, <2>3, DistanceKept
  <2> QED
    BY <1>2, <2>1, <2>2, <2>4
<1>3. CASE \E b \in DOMAIN branches :
             /\ task'[u].pc = "accepted" /\ task'[u].branch = b
             /\ task'[u].distance = ScenesSinceLastChoice(b)
             /\ UNCHANGED repositoryVars
  <2>1. PICK b \in DOMAIN branches :
             /\ task'[u].pc = "accepted" /\ task'[u].branch = b
             /\ task'[u].distance = ScenesSinceLastChoice(b)
             /\ UNCHANGED repositoryVars
    BY <1>3
  <2>2. ScenesSinceLastChoice(b) = ScenesAfterChoices(b)
        /\ ScenesAfterChoices(b)' = ScenesAfterChoices(b)
    BY <1>1, <2>1, DistanceCounted
  <2> QED
    BY <2>1, <2>2
<1>4. CASE /\ Waiting(task[u])
           /\ task'[u].branch = task[u].branch /\ task'[u].distance = task[u].distance
           /\ UNCHANGED repositoryVars
           /\ \/ task'[u].pc = "director"
              \/ \E head, plan : plan \in Plan /\ StartWriter(u, head, plan)
  <2>1. PICK b : b = task[u].branch
    OBVIOUS
  <2>2. task[u].distance = ScenesAfterChoices(b) /\ ScenesAfterChoices(b)' = ScenesAfterChoices(b)
    BY <1>1, <1>4, <2>1 DEF Paced
  <2>3. task'[u].pc = "stream" => Decided(task'[u])
    BY <1>4, WriterDecides
  <2> QED
    BY <1>4, <2>1, <2>2, <2>3
<1> QED
  BY <1>2, <1>3, <1>4, WaitingSteps

\* Choices keep the configured distance, although a task uses a distance that
\* was counted before all its awaits: pauses, drafts, forks, selections and
\* restarts in between never change the distance on its branch.
THEOREM ChoicesAlwaysPaced == Spec => ChoicesPaced
<1> DEFINE Pace == segments' # segments =>
             LET distance == ScenesAfterChoices(story.current)
             IN  /\ CommittedChoice => distance >= MinInterval(Frequency)
                 /\ story'.status = "IDLE" => distance < MaxInterval(Frequency)
<1>1. WellFormed /\ Paced /\ [Next]_vars => Pace
  <2> SUFFICES ASSUME WellFormed, Paced, [Next]_vars, segments' # segments PROVE Pace
    OBVIOUS
  <2>1. PICK t \in Tasks : CommitScene(t)
    BY SceneSteps
  <2>2. /\ story.current = task[t].branch /\ story'.status = FinalStatus(t)
        /\ SegmentByKey(task[t].key) = None
    BY <2>1, CommittedScene
  <2>3. /\ task[t].distance = ScenesAfterChoices(story.current)
        /\ Decided(task[t])
    BY <2>1, <2>2 DEF Paced, Waiting, CommitScene
  <2>4. CommittedChoice => task[t].plan.choice
    <3>1. ASSUME UNCHANGED choices PROVE ~CommittedChoice
      BY <3>1, RowNumbers DEF CommittedChoice
    <3> QED
      BY <2>1, <2>2, <3>1 DEF CommitScene, CommitGenerationBundle, InsertSegmentBundle
  <2>5. FinalStatus(t) = "IDLE" => ~task[t].plan.choice /\ ~task[t].limit
    BY DEF FinalStatus
  <2> QED
    BY <2>2, <2>3, <2>4, <2>5 DEF Decided
<1>2. WellFormed /\ Paced /\ [Next]_vars => [Pace]_vars
  BY <1>1
<1>3. Init => Paced
  BY DEF Init, ServiceInit, Paced, Waiting, NoTask
<1>4. Spec => []Reservations
  BY AlwaysWellFormed, InitReservations, NextReservations, PTL DEF Spec
<1> HIDE DEF Pace
<1>5. Spec => [][Pace]_vars
  BY AlwaysWellFormed, NextPaced, <1>2, <1>3, <1>4, PTL DEF Spec
<1> QED
  BY <1>5 DEF ChoicesPaced, Pace

-----------------------------------------------------------------------------
(* The memory of a branch *)

\* The key of a task that has not committed has no scene.
KeysFresh == \A t \in Tasks : Waiting(task[t]) => SegmentByKey(task[t].key) = None

\* While no key is shared, every step keeps the keys of writing tasks fresh.
LEMMA NextKeysFresh ==
  WellFormed /\ KeysApart /\ KeysFresh /\ [Next]_vars => KeysFresh'
<1> SUFFICES ASSUME WellFormed, KeysApart, KeysFresh, [Next]_vars PROVE KeysFresh'
  OBVIOUS
<1>1. SUFFICES ASSUME NEW u \in Tasks, Waiting(task'[u])
               PROVE  \A key : key = task'[u].key => SegmentByKey(key)' = None
  BY DEF KeysFresh, Waiting
<1>k. PICK key : key = task'[u].key
  OBVIOUS
<1>0. task \in [Tasks -> Task]
  BY DEF WellFormed, TasksOK
<1>2. CASE UNCHANGED segments
  <2>1. SegmentByKey(key) = None
    BY <1>1, <1>k, WaitingSteps DEF KeysFresh
  <2> QED
    BY <1>2, <1>k, <2>1 DEF SegmentByKey
<1>3. CASE ~UNCHANGED segments
  <2>1. PICK t \in Tasks : CommitScene(t)
    BY <1>3, SceneSteps
  <2>2. /\ SegmentByKey(task[t].key) = None
        /\ Len(segments) \in Nat /\ DOMAIN segments = 1 .. Len(segments)
        /\ DOMAIN segments' = 1 .. Len(segments')
        /\ Len(segments') = Len(segments) + 1
        /\ \A s \in DOMAIN segments : segments'[s] = segments[s]
        /\ segments'[Len(segments')].key = task[t].key
    BY <1>3, <2>1, CommittedScene
  <2>3. task[t].pc = "stream" /\ task'[t].pc = "memory"
        /\ \A r \in Tasks : r # t => task'[r] = task[r]
    BY <1>0, <2>1 DEF CommitScene, Task
  <2>4. u # t /\ task'[u] = task[u]
    BY <1>1, <2>3 DEF Waiting
  <2>5. key # task[t].key /\ SegmentByKey(key) = None
    BY <1>1, <1>k, <2>3, <2>4 DEF KeysApart, KeysFresh, Waiting
  <2>6. \A s \in DOMAIN segments : segments[s].key # key
    BY <2>5, KeyLookup DEF WellFormed, RowsOK
  <2>7. \A s \in DOMAIN segments' : s = Len(segments') \/ s \in DOMAIN segments
    BY <2>2
  <2>8. \A s \in DOMAIN segments' : segments'[s].key # key
    BY <2>2, <2>5, <2>6, <2>7
  <2>9. {s \in DOMAIN segments' : segments'[s].key = key} = {}
    BY <2>8
  <2> QED
    BY <1>k, <2>9 DEF SegmentByKey, FirstRow, None
<1> QED
  BY <1>2, <1>3

\* A task that has committed updates the memory of its own branch, whose head is
\* still its scene.
TasksRemember ==
  \A t \in Tasks : Committed(t) =>
    /\ task[t].segment \in DOMAIN segments
    /\ segments[task[t].segment].branch = task[t].branch
    /\ branches[task[t].branch].head = task[t].segment
    /\ task[t].base.scenes \subseteq ScenesOn(task[t].branch)

\* A snapshot knows scenes of its branch, none of them later than its own scene.
SnapshotOnPath(row) ==
  /\ row.branch \in DOMAIN branches
  /\ row.segment <= branches[row.branch].head
  /\ \A s \in row.memory.scenes : s \in ScenesOn(row.branch) /\ s <= row.segment

SnapshotsOnPath == \A i \in DOMAIN snapshots : SnapshotOnPath(snapshots[i])

\* The snapshots of a branch follow its scenes.
SnapshotsInOrder ==
  \A i, j \in DOMAIN snapshots :
    i <= j /\ snapshots[i].branch = snapshots[j].branch
      => snapshots[i].segment <= snapshots[j].segment

\* What a branch is continued with is the memory of one of its snapshots.
LEMMA LatestMemoryOnPath ==
  ASSUME WellFormed, SnapshotsOnPath, NEW b
  PROVE  /\ b \in DOMAIN branches =>
              \A s \in LatestMemory(b).scenes :
                s \in ScenesOn(b) /\ s <= branches[b].head
         /\ b \notin DOMAIN branches => LatestMemory(b).scenes = {}
<1> DEFINE row == LastRow(SnapshotsOf(b))
<1>1. Len(snapshots) \in Nat /\ DOMAIN snapshots = 1 .. Len(snapshots)
  BY Tables DEF WellFormed, RowsOK
<1>2. SnapshotsOf(b) \in SUBSET (1 .. Len(snapshots))
  BY <1>1 DEF SnapshotsOf
<1>3. row = None \/ row \in SnapshotsOf(b)
  BY <1>1, <1>2, LastRowFinds
<1>4. CASE row = None
  BY <1>4 DEF LatestMemory, MemoryAt, InitialMemory
<1>5. CASE row # None
  <2>1. LatestMemory(b) = snapshots[row].memory
    BY <1>5 DEF LatestMemory, MemoryAt
  <2>2. row \in DOMAIN snapshots /\ snapshots[row].branch = b
    BY <1>3, <1>5 DEF SnapshotsOf
  <2> HIDE DEF row
  <2>3. /\ snapshots[row].segment \in Nat
        /\ snapshots[row].memory.scenes \in SUBSET Nat
    BY <1>1, <2>2, Tables DEF WellFormed, RowsOK, Snapshot, Memory
  <2>4. SnapshotOnPath(snapshots[row])
    BY <2>2 DEF SnapshotsOnPath
  <2>5. b \in DOMAIN branches => branches[b].head \in Nat
    BY Tables DEF WellFormed, RowsOK, Branch
  <2> QED
    BY <2>1, <2>2, <2>3, <2>4, <2>5 DEF SnapshotOnPath
<1> QED
  BY <1>4, <1>5

\* The scenes of a branch only grow, and so does its head.
LEMMA ScenesGrow ==
  ASSUME WellFormed, WellFormed', [Next]_vars
  PROVE  \A b \in DOMAIN branches :
           /\ b \in DOMAIN branches'
           /\ branches[b].head <= branches'[b].head
           /\ \A s \in ScenesOn(b) : s \in ScenesOn(b)'
<1>0. \A b \in DOMAIN branches : branches[b].head \in 0 .. Len(segments)
  BY TablePaths
<1>n. Len(segments) \in Nat /\ \A b \in DOMAIN branches : branches[b] \in Branch
  BY Tables DEF WellFormed, RowsOK
<1>1. CASE UNCHANGED <<segments, branches>>
  BY <1>0, <1>n, <1>1, SamePaths DEF ScenesOn
<1>2. CASE UNCHANGED segments /\ \E c \in DOMAIN choices : ForkAtChoice(c)
  <2>1. PICK c \in DOMAIN choices : ForkAtChoice(c)
    BY <1>2
  <2>2. /\ DOMAIN branches' = 1 .. Len(branches) + 1
        /\ \A b \in DOMAIN branches : BranchPath(b)' = BranchPath(b)
        /\ \A b \in DOMAIN branches : branches'[b] = branches[b]
    BY <2>1, ForkPaths, ForkKeepsRows
  <2>3. DOMAIN branches = 1 .. Len(branches) /\ Len(branches) \in Nat
    BY RowNumbers
  <2> QED
    BY <1>0, <1>n, <2>2, <2>3 DEF ScenesOn
<1>3. CASE ~UNCHANGED <<segments, branches>> /\ \E t \in Tasks : CommitScene(t)
  <2>1. PICK t \in Tasks : CommitScene(t)
    BY <1>3
  <2>b. PICK b, new : b = task[t].branch /\ new = Len(segments')
    OBVIOUS
  <2>2. /\ b \in DOMAIN branches /\ DOMAIN branches' = DOMAIN branches
        /\ new = Len(segments) + 1
        /\ \A r \in DOMAIN branches :
             BranchPath(r)' = IF r = b THEN Append(BranchPath(b), new) ELSE BranchPath(r)
        /\ branches' = [branches EXCEPT ![b].head = new]
    BY <1>3, <2>1, <2>b, CommitPaths, CommittedScene
  <2>3. \A r \in DOMAIN branches : branches'[r].head = IF r = b THEN new ELSE branches[r].head
    BY <1>n, <2>2 DEF Branch
  <2>4. \A s \in ScenesOn(b) : s \in ScenesOn(b)'
    <3>1. PICK path : path = BranchPath(b)
      OBVIOUS
    <3>2. path \in Seq(Nat)
      BY <2>2, <3>1, TablePaths DEF EndsWith
    <3>3. \A i \in DOMAIN path : i \in DOMAIN Append(path, new) /\ Append(path, new)[i] = path[i]
      BY <3>2, AppendKeeps
    <3> QED
      BY <2>2, <3>1, <3>3 DEF ScenesOn
  <2>5. \A r \in DOMAIN branches : r # b => ScenesOn(r)' = ScenesOn(r)
    BY <2>2 DEF ScenesOn
  <2> QED
    BY <1>0, <1>n, <2>2, <2>3, <2>4, <2>5
<1> QED
  BY <1>1, <1>2, <1>3, SceneSteps

\* What a step saves in the table of snapshots.
LEMMA SnapshotSteps ==
  ASSUME WellFormed, [Next]_vars
  PROVE  \/ UNCHANGED snapshots
         \/ \E t \in Tasks, updated \in BOOLEAN : MemoryAnswer(t, updated)
         \/ \E t \in Tasks, updated \in BOOLEAN : RollingAnswer(t, updated)
         \/ \E c \in DOMAIN choices : \E version, selection : SubmitChoice(c, version, selection)
         \/ \E c \in DOMAIN choices : ForkAtChoice(c)
<1>1. CASE Generate
  BY <1>1 DEF Generate, Accept, repositoryVars
<1>2. CASE \E t \in Tasks : TaskMoves(t)
  BY <1>2 DEF TaskMoves, TaskStep, StartRejected, StartDirector, StartFromDraft, DirectorPlans,
              ModelFails, PauseAtChunk, SaveGenerationDraft, CommitRejected, CommitScene,
              CommitGenerationBundle, DrainResponse, CloseResponse, repositoryVars
<1>3. CASE RequestPause \/ Resume \/ \E b \in DOMAIN branches : Activate(b)
  BY <1>3 DEF RequestPause, PauseStory, Resume, ResumeStory, Activate, ActivateBranch
<1>4. CASE Select
  BY <1>4 DEF Select, SelectOption, ParseCustomAction, repositoryVars
<1>5. CASE ModelAnswersCustom
  BY <1>5 DEF ModelAnswersCustom, SelectCustom, RejectCustom, repositoryVars, WellFormed,
              ParsingOK
<1>6. CASE \E c \in DOMAIN choices : CreateBranch(c)
  BY <1>6 DEF CreateBranch
<1>7. CASE Fault
  BY <1>7 DEF Fault, Disconnect, CloseResponse, DropResponse, Restart,
              RecoverInterruptedGenerations, repositoryVars
<1>8. CASE UNCHANGED vars
  BY <1>8 DEF vars
<1> QED
  BY <1>1, <1>2, <1>3, <1>4, <1>5, <1>6, <1>7, <1>8 DEF Next

\* A row that is appended to a table is its last row.
LEMMA LastAppended ==
  ASSUME NEW S, NEW rows \in Seq(S), NEW row
  PROVE  /\ DOMAIN Append(rows, row) = 1 .. Len(rows) + 1
         /\ Append(rows, row)[Len(rows) + 1] = row
OBVIOUS

\* A snapshot is saved at the head of its branch; if it knows the path of the
\* branch, the snapshots stay on the paths and in order.
LEMMA SavedAtHead ==
  ASSUME WellFormed, WellFormed', SnapshotsOnPath, SnapshotsInOrder, [Next]_vars,
         \/ UNCHANGED snapshots
         \/ \E b, s, memory :
              /\ SaveMemorySnapshot(b, s, memory)
              /\ b \in DOMAIN branches' /\ s = branches'[b].head
              /\ \A r \in memory.scenes : r \in ScenesOn(b)' /\ r <= s
  PROVE  SnapshotsOnPath' /\ SnapshotsInOrder'
<1>0. /\ snapshots \in Seq(Snapshot) /\ DOMAIN snapshots = 1 .. Len(snapshots)
      /\ Len(snapshots) \in Nat
      /\ \A i \in DOMAIN snapshots : snapshots[i].segment \in Nat
      /\ \A b \in DOMAIN branches : branches[b].head \in Nat
      /\ \A b \in DOMAIN branches' : branches'[b].head \in Nat
  <2>1. snapshots \in Seq(Snapshot)
    BY DEF WellFormed, RowsOK, RepositoryTypeOK
  <2>2. /\ DOMAIN snapshots = 1 .. Len(snapshots) /\ Len(snapshots) \in Nat
        /\ \A i \in DOMAIN snapshots : snapshots[i].segment \in Nat
    BY Tables DEF WellFormed, RowsOK, Snapshot
  <2>3. /\ branches \in Seq(Branch) /\ branches' \in Seq(Branch)
    BY DEF WellFormed, RowsOK, RepositoryTypeOK
  <2>4. ASSUME NEW rows \in Seq(Branch), NEW b \in DOMAIN rows PROVE rows[b].head \in Nat
    <3>1. rows[b] \in Branch
      OBVIOUS
    <3> QED
      BY <3>1 DEF Branch
  <2> QED
    BY <2>1, <2>2, <2>3, <2>4
<1>1. ASSUME NEW i \in DOMAIN snapshots
      PROVE  /\ \A b : b = snapshots[i].branch =>
                  /\ b \in DOMAIN branches' /\ snapshots[i].segment <= branches'[b].head
                  /\ \A s \in snapshots[i].memory.scenes :
                       s \in ScenesOn(b)' /\ s <= snapshots[i].segment
  <2>1. SnapshotOnPath(snapshots[i])
    BY DEF SnapshotsOnPath
  <2>2. PICK b : b = snapshots[i].branch
    OBVIOUS
  <2>3. /\ b \in DOMAIN branches /\ snapshots[i].segment <= branches[b].head
        /\ \A s \in snapshots[i].memory.scenes :
             s \in ScenesOn(b) /\ s <= snapshots[i].segment
    BY <2>1, <2>2 DEF SnapshotOnPath
  <2>4. /\ b \in DOMAIN branches' /\ branches[b].head <= branches'[b].head
        /\ \A s \in ScenesOn(b) : s \in ScenesOn(b)'
    BY <2>3, ScenesGrow
  <2> QED
    BY <1>0, <2>2, <2>3, <2>4
<1>2. CASE UNCHANGED snapshots
  <2>1. SnapshotsInOrder'
    BY <1>2 DEF SnapshotsInOrder
  <2>2. SnapshotsOnPath'
    BY <1>1, <1>2 DEF SnapshotsOnPath, SnapshotOnPath
  <2> QED
    BY <2>1, <2>2
<1>3. CASE \E b, s, memory :
             /\ SaveMemorySnapshot(b, s, memory)
             /\ b \in DOMAIN branches' /\ s = branches'[b].head
             /\ \A r \in memory.scenes : r \in ScenesOn(b)' /\ r <= s
  <2>1. PICK b, s, memory :
             /\ SaveMemorySnapshot(b, s, memory)
             /\ b \in DOMAIN branches' /\ s = branches'[b].head
             /\ \A r \in memory.scenes : r \in ScenesOn(b)' /\ r <= s
    BY <1>3
  <2>2. PICK row : row = [branch |-> b, segment |-> s, memory |-> memory]
    OBVIOUS
  <2>3. PICK new : new = Len(snapshots) + 1
    OBVIOUS
  <2>4. /\ DOMAIN snapshots' = 1 .. new /\ snapshots'[new] = row
        /\ \A i \in DOMAIN snapshots : snapshots'[i] = snapshots[i]
        /\ \A i \in DOMAIN snapshots' : i = new \/ (i \in DOMAIN snapshots /\ i < new)
    <3>1. snapshots' = Append(snapshots, row)
      BY <2>1, <2>2 DEF SaveMemorySnapshot
    <3>2. \A i \in DOMAIN snapshots : snapshots'[i] = snapshots[i]
      BY <1>0, <3>1, AppendKeeps
    <3>3. DOMAIN snapshots' = 1 .. new /\ snapshots'[new] = row
      BY <1>0, <2>3, <3>1, LastAppended
    <3>4. \A i \in 1 .. new : i = new \/ (i \in 1 .. Len(snapshots) /\ i < new)
      BY <1>0, <2>3
    <3> QED
      BY <1>0, <3>2, <3>3, <3>4
  <2>5. SnapshotsOnPath'
    <3>1. SnapshotOnPath(snapshots[new])'
      <4>1. /\ b \in DOMAIN branches' /\ row.segment <= branches'[b].head
            /\ \A r \in row.memory.scenes : r \in ScenesOn(b)' /\ r <= row.segment
        BY <1>0, <2>1, <2>2
      <4> QED
        BY <2>2, <2>4, <4>1 DEF SnapshotOnPath
    <3>2. ASSUME NEW i \in DOMAIN snapshots PROVE SnapshotOnPath(snapshots[i])'
      BY <1>1, <2>4, <3>2 DEF SnapshotOnPath
    <3> QED
      BY <2>4, <3>1, <3>2 DEF SnapshotsOnPath
  <2>6. SnapshotsInOrder'
    <3>1. ASSUME NEW i \in DOMAIN snapshots', NEW j \in DOMAIN snapshots', i <= j,
                 snapshots'[i].branch = snapshots'[j].branch
          PROVE  snapshots'[i].segment <= snapshots'[j].segment
      <4>1. CASE j \in DOMAIN snapshots
        <5>1. i \in DOMAIN snapshots
          BY <1>0, <2>3, <2>4, <3>1, <4>1
        <5> QED
          BY <2>4, <3>1, <4>1, <5>1 DEF SnapshotsInOrder
      <4>2. CASE j = new /\ i \in DOMAIN snapshots
        <5>1. snapshots[i].branch = b /\ snapshots'[j].segment = branches'[b].head
          BY <2>1, <2>2, <2>4, <3>1, <4>2
        <5> QED
          BY <1>1, <2>4, <4>2, <5>1
      <4>3. CASE j = new /\ i = new
        BY <1>0, <2>1, <2>2, <2>4, <4>3
      <4> QED
        BY <2>4, <4>1, <4>2, <4>3
    <3> QED
      BY <3>1 DEF SnapshotsInOrder
  <2> QED
    BY <2>5, <2>6
<1> QED
  BY <1>2, <1>3

\* The memory before a choice knows the scenes up to the choice, no later ones.
LEMMA PreChoiceMemoryOnPath ==
  ASSUME WellFormed, SnapshotsOnPath, SnapshotsInOrder, NEW b \in DOMAIN branches, NEW s
  PROVE  \A r \in PreChoiceMemory(b, s).scenes : r \in ScenesOn(b) /\ r <= s
<1>0. /\ Len(snapshots) \in Nat /\ DOMAIN snapshots = 1 .. Len(snapshots)
      /\ \A i \in DOMAIN snapshots : /\ snapshots[i].segment \in Nat
                                     /\ snapshots[i].memory.scenes \in SUBSET Nat
  BY Tables DEF WellFormed, RowsOK, Snapshot, Memory
<1> DEFINE at == {i \in SnapshotsOf(b) : snapshots[i].segment = s}
           last == LastRow(at)
           before == {i \in SnapshotsOf(b) : i < last}
           row == LastRow(before)
<1>1. at \in SUBSET (1 .. Len(snapshots)) /\ before \in SUBSET (1 .. Len(snapshots))
  BY <1>0 DEF SnapshotsOf
<1>2. PreChoiceMemory(b, s) = MemoryAt(row)
  BY DEF PreChoiceMemory
<1>3. last = None \/ last \in at
  <2> HIDE DEF at
  <2> QED
    BY <1>0, <1>1, LastRowFinds
<1>4. row = None \/ row \in before
  <2> HIDE DEF before
  <2> QED
    BY <1>0, <1>1, LastRowFinds
<1>5. CASE row = None
  BY <1>2, <1>5 DEF MemoryAt, InitialMemory
<1>6. CASE row # None
  <2>1. /\ row \in DOMAIN snapshots /\ snapshots[row].branch = b /\ row < last
        /\ PreChoiceMemory(b, s) = snapshots[row].memory
    <3> HIDE DEF row, last
    <3> QED
      BY <1>2, <1>4, <1>6 DEF SnapshotsOf, MemoryAt
  <2>2. last \in DOMAIN snapshots /\ snapshots[last].branch = b /\ snapshots[last].segment = s
    <3>1. last # None
      BY <1>0, <2>1 DEF None
    <3> QED
      BY <1>3, <3>1 DEF SnapshotsOf
  <2> HIDE DEF row, last
  <2>3. snapshots[row].segment <= s
    BY <1>0, <2>1, <2>2 DEF SnapshotsInOrder
  <2>4. SnapshotOnPath(snapshots[row])
    BY <2>1 DEF SnapshotsOnPath
  <2> QED
    BY <1>0, <2>1, <2>2, <2>3, <2>4 DEF SnapshotOnPath
<1> QED
  BY <1>5, <1>6

\* The path to a scene of a branch has the scenes of the branch up to that scene.
LEMMA ScenesUpTo ==
  ASSUME WellFormed, OwnScenesOnPath, NEW s \in DOMAIN segments,
         NEW r \in ScenesOn(segments[s].branch), r <= s
  PROVE  \E i \in DOMAIN PathTo[s] : PathTo[s][i] = r
<1> DEFINE path == BranchPath(segments[s].branch)
<1>1. segments[s].branch \in DOMAIN branches
  BY DEF WellFormed, RowsOK, RowReferencesExist
<1>2. /\ EndsWith(path, branches[segments[s].branch].head)
      /\ s \in 0 .. Len(segments) /\ s \in Nat /\ s # None
      /\ EndsWith(PathTo[s], s)
  BY <1>1, TablePaths, RowNumbers
<1>3. PICK n \in 1 .. Len(path) : PathTo[s] = SubSeq(path, 1, n)
  BY DEF OwnScenesOnPath, StartsWith
<1>4. PICK i \in DOMAIN path : path[i] = r
  BY DEF ScenesOn
<1>p. PICK p : p = path
  OBVIOUS
<1> HIDE DEF path
<1>5. p \in Seq(Nat) /\ Len(p) \in Nat /\ DOMAIN p = 1 .. Len(p) /\ n \in 1 .. Len(p)
      /\ i \in 1 .. Len(p)
  BY <1>2, <1>3, <1>4, <1>p DEF EndsWith
<1>6. /\ Len(PathTo[s]) = n /\ DOMAIN PathTo[s] = 1 .. n
      /\ \A k \in 1 .. n : PathTo[s][k] = p[k]
  BY <1>3, <1>5, <1>p
<1>7. p[n] = s
  BY <1>2, <1>5, <1>6 DEF EndsWith
<1>8. n < i => p[n] < p[i]
  BY <1>2, <1>5, <1>p DEF EndsWith
<1>9. i <= n
  BY <1>2, <1>4, <1>5, <1>7, <1>8, <1>p
<1> QED
  BY <1>4, <1>5, <1>6, <1>9, <1>p

\* A task that has committed stays so, got there by its commit, or by the answer
\* for its scene.
LEMMA CommittedSteps ==
  ASSUME WellFormed, [Next]_vars, NEW u \in Tasks, Committed(u)'
  PROVE  \/ task'[u] = task[u]
         \/ CommitScene(u)
         \/ /\ UNCHANGED <<segments, branches>>
            /\ task[u].pc = "memory" /\ task'[u].branch = task[u].branch
            /\ task'[u].segment = task[u].segment
            /\ \/ task'[u].base.scenes = task[u].base.scenes \cup {task[u].segment}
               \/ task'[u].base = LatestMemory(segments[task[u].segment].branch)
<1>0. task \in [Tasks -> Task]
  BY DEF WellFormed, TasksOK
<1>1. ASSUME NEW t \in Tasks, task' = [task EXCEPT ![t] = NoTask]
      PROVE  task'[u] = task[u]
  BY <1>0, <1>1 DEF Committed, NoTask
<1>2. ASSUME NEW t \in Tasks, EndTask(t)
      PROVE  task'[u] = task[u]
  BY <1>0, <1>2 DEF Committed, EndTask, NoTask
<1>3. CASE Generate
  <2>1. PICK t \in Tasks, b \in DOMAIN branches, key \in Keys : Accept(t, b, key)
    BY <1>3 DEF Generate
  <2> QED
    BY <1>0, <2>1 DEF Accept, NoTask, Committed
<1>4. CASE \E t \in Tasks : TaskMoves(t)
  <2>1. PICK t \in Tasks : TaskMoves(t)
    BY <1>4
  <2>2. CASE StartRejected(t) \/ ModelFails(t) \/ PauseAtChunk(t) \/ CommitRejected(t)
             \/ \E updated \in BOOLEAN : RollingAnswer(t, updated)
    BY <1>2, <2>2 DEF StartRejected, ModelFails, PauseAtChunk, CommitRejected, RollingAnswer,
                      EndCommitted
  <2>3. CASE StartDirector(t)
    BY <1>0, <2>3 DEF StartDirector, Committed, Task
  <2>4. ASSUME NEW head, NEW plan, StartWriter(t, head, plan)
        PROVE  task'[u] = task[u]
    BY <1>0, <2>4 DEF StartWriter, Committed, Task
  <2>5. CASE StartFromDraft(t) \/ \E suggestion \in BOOLEAN : DirectorPlans(t, suggestion)
    BY <2>4, <2>5 DEF StartFromDraft, DirectorPlans
  <2>6. CASE CommitScene(t)
    BY <1>0, <2>6 DEF CommitScene
  <2>7. CASE \E updated \in BOOLEAN : MemoryAnswer(t, updated)
    <3>1. PICK updated \in BOOLEAN : MemoryAnswer(t, updated)
      BY <2>7
    <3>2. CASE EndCommitted(t)
      BY <1>2, <3>2 DEF EndCommitted
    <3>3. CASE ~EndCommitted(t)
      <4>1. PICK evolved, base :
              /\ evolved = [task[t].base EXCEPT !.scenes = @ \cup {task[t].segment}]
              /\ base = IF updated THEN evolved
                        ELSE LatestMemory(segments[task[t].segment].branch)
        OBVIOUS
      <4>2. /\ task[t].pc = "memory"
            /\ task' = [task EXCEPT ![t].pc = "rolling", ![t].base = base]
            /\ UNCHANGED <<segments, branches>>
        BY <3>1, <3>3, <4>1 DEF MemoryAnswer
      <4>3. /\ \A r \in Tasks : r # t => task'[r] = task[r]
            /\ task'[t].branch = task[t].branch /\ task'[t].segment = task[t].segment
            /\ task'[t].base = base
        BY <1>0, <4>2 DEF Task
      <4>4. evolved.scenes = task[t].base.scenes \cup {task[t].segment}
        BY <1>0, <4>1 DEF Task, Memory
      <4> QED
        BY <4>1, <4>2, <4>3, <4>4
    <3> QED
      BY <3>2, <3>3
  <2>8. CASE DrainResponse(t)
    BY <1>1, <2>8 DEF DrainResponse, CloseResponse
  <2> QED
    BY <2>1, <2>2, <2>3, <2>5, <2>6, <2>7, <2>8 DEF TaskMoves, TaskStep
<1>5. CASE UNCHANGED task
  BY <1>5
<1>6. CASE RequestPause \/ Resume \/ \E b \in DOMAIN branches : Activate(b)
  BY <1>5, <1>6 DEF RequestPause, Resume, Activate, serviceVars
<1>7. CASE Select \/ ModelAnswersCustom
  BY <1>5, <1>7 DEF Select, SelectOption, ParseCustomAction, ModelAnswersCustom, SelectCustom,
                    RejectCustom, serviceVars
<1>8. CASE \E c \in DOMAIN choices : CreateBranch(c)
  BY <1>5, <1>8 DEF CreateBranch, serviceVars
<1>9. CASE Fault
  <2>1. CASE Restart
    BY <2>1 DEF Restart, Committed, NoTask
  <2>2. CASE ~Restart
    BY <1>1, <1>9, <2>2 DEF Fault, Disconnect, CloseResponse, DropResponse
  <2> QED
    BY <2>1, <2>2
<1>10. CASE UNCHANGED vars
  BY <1>5, <1>10 DEF vars
<1> QED
  BY <1>3, <1>4, <1>6, <1>7, <1>8, <1>9, <1>10 DEF Next

\* Scenes are never changed, and only a commit on a branch moves its head.
LEMMA RowsKept ==
  ASSUME WellFormed, [Next]_vars
  PROVE  /\ \A s \in DOMAIN segments : s \in DOMAIN segments' /\ segments'[s] = segments[s]
         /\ \A b \in DOMAIN branches :
              \/ branches'[b] = branches[b]
              \/ \E t \in Tasks : CommitScene(t) /\ task[t].branch = b
<1>1. CASE UNCHANGED <<segments, branches>>
  BY <1>1
<1>2. CASE UNCHANGED segments /\ \E c \in DOMAIN choices : ForkAtChoice(c)
  BY <1>2, ForkKeepsRows
<1>3. CASE ~UNCHANGED <<segments, branches>> /\ \E t \in Tasks : CommitScene(t)
  <2>1. PICK t \in Tasks : CommitScene(t)
    BY <1>3
  <2>2. /\ Len(segments) \in Nat /\ DOMAIN segments = 1 .. Len(segments)
        /\ Len(segments') = Len(segments) + 1 /\ DOMAIN segments' = 1 .. Len(segments')
        /\ \A s \in DOMAIN segments : segments'[s] = segments[s]
    BY <1>3, <2>1, CommittedScene
  <2>3. branches' = [branches EXCEPT ![task[t].branch].head = Len(segments')]
    BY <1>3, <2>1, CommittedScene
  <2>4. \A b \in DOMAIN branches : b # task[t].branch => branches'[b] = branches[b]
    BY <2>3
  <2> QED
    BY <2>1, <2>2, <2>4
<1> QED
  BY <1>1, <1>2, <1>3, SceneSteps

\* A scene that is committed with a fresh key is the head of the branch of its task.
LEMMA FreshCommit ==
  ASSUME WellFormed, KeysFresh, NEW t \in Tasks, CommitScene(t)
  PROVE  /\ ~UNCHANGED <<segments, branches>>
         /\ task'[t].branch = task[t].branch
         /\ task'[t].segment = Len(segments')
         /\ task'[t].base = LatestMemory(task[t].branch)
<1>0. task \in [Tasks -> Task] /\ task[t].pc = "stream"
      /\ segments \in Seq(Segment) /\ Len(segments) \in Nat
  BY RowNumbers DEF WellFormed, TasksOK, RowsOK, RepositoryTypeOK, CommitScene
<1>1. SegmentByKey(task[t].key) = None
  BY <1>0 DEF KeysFresh, Waiting
<1>2. /\ \E row : segments' = Append(segments, row)
      /\ task' = [task EXCEPT ![t].pc = "memory", ![t].segment = Len(segments) + 1,
                              ![t].base = LatestMemory(task[t].branch)]
  BY <1>1 DEF CommitScene, CommitGenerationBundle, InsertSegmentBundle
<1>3. Len(segments') = Len(segments) + 1
  BY <1>0, <1>2
<1>4. segments' # segments
  BY <1>0, <1>3
<1> QED
  BY <1>0, <1>2, <1>3, <1>4 DEF Task

\* Every step keeps what the tasks have read within their own scenes.
LEMMA NextTasksRemember ==
  WellFormed /\ WellFormed' /\ Reservations /\ KeysFresh /\ TasksRemember /\ SnapshotsOnPath
    /\ [Next]_vars => TasksRemember'
<1> SUFFICES ASSUME WellFormed, WellFormed', Reservations, KeysFresh, TasksRemember,
                    SnapshotsOnPath, [Next]_vars
             PROVE  TasksRemember'
  OBVIOUS
<1>1. SUFFICES ASSUME NEW u \in Tasks, Committed(u)'
               PROVE  \A b, s : b = task'[u].branch /\ s = task'[u].segment =>
                        /\ s \in DOMAIN segments' /\ segments'[s].branch = b
                        /\ branches'[b].head = s
                        /\ \A r \in task'[u].base.scenes : r \in ScenesOn(b)'
  BY DEF TasksRemember
<1>b. PICK b, s : b = task'[u].branch /\ s = task'[u].segment
  OBVIOUS
<1>0. /\ task \in [Tasks -> Task]
      /\ \A t \in Tasks : Live(t) => task[t].branch \in DOMAIN branches
  BY DEF WellFormed, TasksOK, TaskOK, Live
<1>2. CASE Committed(u) /\ b = task[u].branch /\ s = task[u].segment /\ ~CommitScene(u)
  <2>1. /\ s \in DOMAIN segments /\ segments[s].branch = b /\ branches[b].head = s
        /\ \A r \in task[u].base.scenes : r \in ScenesOn(b)
        /\ b \in DOMAIN branches /\ Live(u)
    BY <1>0, <1>2 DEF TasksRemember, Committed, Live
  <2>2. ASSUME NEW t \in Tasks, CommitScene(t) PROVE task[t].branch # b
    <3>1. Live(t) /\ t # u
      BY <1>2, <2>2 DEF CommitScene, Live
    <3> QED
      BY <1>2, <2>1, <3>1 DEF Reservations, OneTaskPerBranch
  <2>3. s \in DOMAIN segments' /\ segments'[s].branch = b /\ branches'[b].head = s
    BY <2>1, <2>2, RowsKept
  <2>4. \A r \in ScenesOn(b) : r \in ScenesOn(b)'
    BY <2>1, ScenesGrow
  <2>5. s \in ScenesOn(b)
    <3>1. EndsWith(BranchPath(b), s) /\ s # None
      BY <2>1, TablePaths, RowNumbers
    <3>2. Len(BranchPath(b)) \in DOMAIN BranchPath(b) /\ BranchPath(b)[Len(BranchPath(b))] = s
      BY <3>1 DEF EndsWith
    <3> QED
      BY <3>2 DEF ScenesOn
  <2>6. \A r \in LatestMemory(b).scenes : r \in ScenesOn(b)
    BY <2>1, LatestMemoryOnPath
  <2>7. \A r \in task'[u].base.scenes : r \in ScenesOn(b)
    <3>1. CASE task'[u] = task[u]
      BY <2>1, <3>1
    <3>2. CASE task'[u].base.scenes = task[u].base.scenes \cup {s}
      BY <2>1, <2>5, <3>2
    <3>3. CASE task'[u].base = LatestMemory(b)
      BY <2>6, <3>3
    <3> QED
      BY <1>1, <1>2, <2>1, <3>1, <3>2, <3>3, CommittedSteps
  <2> QED
    BY <1>b, <2>3, <2>4, <2>7
<1>3. CASE CommitScene(u)
  <2>1. /\ ~UNCHANGED <<segments, branches>> /\ b = task[u].branch /\ s = Len(segments')
        /\ task'[u].base = LatestMemory(b)
    BY <1>3, <1>b, FreshCommit
  <2>2. /\ b \in DOMAIN branches
        /\ Len(segments) \in Nat /\ Len(segments') = Len(segments) + 1
        /\ DOMAIN segments' = 1 .. Len(segments')
        /\ segments'[s].branch = b
        /\ branches' = [branches EXCEPT ![b].head = s]
    BY <1>3, <2>1, CommittedScene
  <2>3. s \in DOMAIN segments'
    BY <2>1, <2>2
  <2>4. branches'[b].head = s
    BY <2>2, Tables DEF WellFormed, RowsOK, Branch
  <2>5. \A r \in LatestMemory(b).scenes : r \in ScenesOn(b)
    BY <2>2, LatestMemoryOnPath
  <2>6. \A r \in ScenesOn(b) : r \in ScenesOn(b)'
    BY <2>2, ScenesGrow
  <2> QED
    BY <1>b, <2>1, <2>2, <2>3, <2>4, <2>5, <2>6
<1>4. CASE ~CommitScene(u)
  <2>1. Committed(u) /\ b = task[u].branch /\ s = task[u].segment
    BY <1>1, <1>4, <1>b, CommittedSteps DEF Committed
  <2> QED
    BY <1>2, <1>4, <2>1
<1> QED
  BY <1>3, <1>4

\* Every save is at the head of its branch and knows only the branch's scenes.
LEMMA NextSnapshotsOnPath ==
  WellFormed /\ WellFormed' /\ OwnScenesOnPath /\ TasksRemember /\ SnapshotsOnPath
    /\ SnapshotsInOrder /\ [Next]_vars => SnapshotsOnPath' /\ SnapshotsInOrder'
<1> SUFFICES ASSUME WellFormed, WellFormed', OwnScenesOnPath, TasksRemember, SnapshotsOnPath,
                    SnapshotsInOrder, [Next]_vars
             PROVE  SnapshotsOnPath' /\ SnapshotsInOrder'
  OBVIOUS
<1> DEFINE Saves(b, s, memory) ==
             /\ SaveMemorySnapshot(b, s, memory)
             /\ b \in DOMAIN branches' /\ s = branches'[b].head
             /\ \A r \in memory.scenes : r \in ScenesOn(b)' /\ r <= s
<1>1. SUFFICES UNCHANGED snapshots \/ \E b, s, memory : Saves(b, s, memory)
  BY SavedAtHead
<1>0. /\ task \in [Tasks -> Task]
      /\ \A t \in Tasks : Live(t) => task[t].branch \in DOMAIN branches
  BY DEF WellFormed, TasksOK, TaskOK, Live
<1>2. ASSUME NEW t \in Tasks, Committed(t), NEW memory, UNCHANGED <<segments, branches>>,
             SaveMemorySnapshot(segments[task[t].segment].branch, task[t].segment, memory),
             memory.scenes \subseteq task[t].base.scenes \cup {task[t].segment}
      PROVE  \E b, s : Saves(b, s, memory)
  <2>1. PICK b, s : b = task[t].branch /\ s = task[t].segment
    OBVIOUS
  <2>2. /\ s \in DOMAIN segments /\ segments[s].branch = b /\ branches[b].head = s
        /\ b \in DOMAIN branches /\ task[t].base.scenes \subseteq ScenesOn(b)
    BY <1>0, <1>2, <2>1 DEF TasksRemember, Committed, Live
  <2>3. EndsWith(BranchPath(b), s) /\ s # None
    BY <2>2, TablePaths, RowNumbers
  <2>4. s \in ScenesOn(b) /\ \A r \in ScenesOn(b) : r <= s
    <3>1. Len(BranchPath(b)) \in DOMAIN BranchPath(b) /\ BranchPath(b)[Len(BranchPath(b))] = s
      BY <2>3 DEF EndsWith
    <3>2. \A i \in DOMAIN BranchPath(b) : BranchPath(b)[i] <= s
      BY <2>3 DEF EndsWith
    <3> QED
      BY <3>1, <3>2 DEF ScenesOn
  <2>5. ScenesOn(b)' = ScenesOn(b)
    BY <1>2, SamePaths DEF ScenesOn
  <2>6. \A r \in memory.scenes : r \in ScenesOn(b)' /\ r <= s
    BY <1>2, <2>1, <2>2, <2>4, <2>5
  <2>7. SaveMemorySnapshot(b, s, memory)
    BY <1>2, <2>1, <2>2
  <2> QED
    BY <1>2, <2>2, <2>6, <2>7
<1>3. CASE \E t \in Tasks, updated \in BOOLEAN : MemoryAnswer(t, updated)
  <2>1. PICK t \in Tasks, updated \in BOOLEAN : MemoryAnswer(t, updated)
    BY <1>3
  <2>2. PICK memory : memory = [task[t].base EXCEPT !.scenes = @ \cup {task[t].segment}]
    OBVIOUS
  <2>3. memory.scenes = task[t].base.scenes \cup {task[t].segment}
    BY <1>0, <2>2 DEF Task, Memory
  <2>4. /\ Committed(t) /\ UNCHANGED <<segments, branches>>
        /\ \/ SaveMemorySnapshot(segments[task[t].segment].branch, task[t].segment, memory)
           \/ UNCHANGED snapshots
    BY <2>1, <2>2 DEF MemoryAnswer, Committed
  <2> HIDE DEF Saves
  <2> QED
    BY <1>2, <2>3, <2>4
<1>4. CASE \E t \in Tasks, updated \in BOOLEAN : RollingAnswer(t, updated)
  <2>1. PICK t \in Tasks, updated \in BOOLEAN : RollingAnswer(t, updated)
    BY <1>4
  <2>2. PICK memory : memory = task[t].base
    OBVIOUS
  <2>3. /\ Committed(t) /\ UNCHANGED <<segments, branches>>
        /\ \/ SaveMemorySnapshot(segments[task[t].segment].branch, task[t].segment, memory)
           \/ UNCHANGED snapshots
    BY <2>1, <2>2 DEF RollingAnswer, Committed
  <2> HIDE DEF Saves
  <2> QED
    BY <1>2, <2>2, <2>3
<1>5. CASE \E c \in DOMAIN choices : \E version, selection : SubmitChoice(c, version, selection)
  <2>0. PICK c \in DOMAIN choices : \E version, selection : SubmitChoice(c, version, selection)
    BY <1>5
  <2>1. PICK version, selection : SubmitChoice(c, version, selection)
    BY <2>0
  <2>2. PICK b, s, memory :
          /\ b = BranchOfChoice(c) /\ s = choices[c].segment
          /\ memory = [LatestMemory(b) EXCEPT !.effects = @ \cup {c}]
    OBVIOUS
  <2>3. /\ SaveMemorySnapshot(b, s, memory) /\ branches[b].head = s
        /\ UNCHANGED <<branches, segments>>
    BY <2>1, <2>2 DEF SubmitChoice, CanSubmit
  <2>4. b \in DOMAIN branches
    BY <2>2, BranchOfChoiceExists DEF WellFormed
  <2>5. memory.scenes = LatestMemory(b).scenes
    <3>1. LatestMemory(b) \in Memory
      BY MemoryTypes DEF WellFormed, RowsOK
    <3> QED
      BY <2>2, <3>1 DEF Memory
  <2>6. \A r \in memory.scenes : r \in ScenesOn(b)' /\ r <= s
    BY <2>3, <2>4, <2>5, LatestMemoryOnPath, ScenesGrow
  <2> QED
    BY <2>3, <2>4, <2>6
<1>6. CASE \E c \in DOMAIN choices : ForkAtChoice(c)
  <2>1. PICK c \in DOMAIN choices : ForkAtChoice(c)
    BY <1>6
  <2>2. PICK fork, s, b, memory :
          /\ fork = Len(branches) + 1 /\ s = choices[c].segment /\ b = segments[s].branch
          /\ memory = PreChoiceMemory(b, s)
    OBVIOUS
  <2>3. SaveMemorySnapshot(fork, s, memory)
    BY <2>1, <2>2 DEF ForkAtChoice
  <2>4. /\ DOMAIN branches' = 1 .. fork /\ BranchPath(fork)' = PathTo[s]
        /\ Len(branches) \in Nat
    BY <2>1, <2>2, ForkPaths, RowNumbers
  <2>5. s \in DOMAIN segments /\ b \in DOMAIN branches
    BY <2>2 DEF WellFormed, RowsOK, RowReferencesExist
  <2>6. branches'[fork].head = s
    <3>1. PICK row : branches' = Append(branches, row) /\ row.head = s
      <4>1. PICK row : row = [head |-> s, parent |-> b, forkSegment |-> s,
                              forkChoice |-> Len(choices) + 1]
        OBVIOUS
      <4>2. branches' = Append(branches, row) /\ row.head = s
        BY <2>1, <2>2, <4>1 DEF ForkAtChoice
      <4> QED
        BY <4>2
    <3>2. branches \in Seq(Branch)
      BY DEF WellFormed, RowsOK, RepositoryTypeOK
    <3> QED
      BY <2>2, <3>1, <3>2, LastAppended
  <2>7. \A r \in memory.scenes : r \in ScenesOn(b) /\ r <= s
    BY <2>2, <2>5, PreChoiceMemoryOnPath
  <2>8. \A r \in memory.scenes : r \in ScenesOn(fork)'
    <3>1. \A r \in memory.scenes : \E i \in DOMAIN PathTo[s] : PathTo[s][i] = r
      BY <2>2, <2>5, <2>7, ScenesUpTo
    <3> QED
      BY <2>4, <3>1 DEF ScenesOn
  <2>9. fork \in DOMAIN branches'
    BY <2>2, <2>4
  <2> QED
    BY <2>3, <2>6, <2>7, <2>8, <2>9
<1> QED
  BY <1>3, <1>4, <1>5, <1>6, SnapshotSteps

\* If no two requests are on their way to a commit with the same key, the memory
\* that a branch is continued with never knows what happened elsewhere, nor,
\* when a fork takes it over, what happened after the fork: late memory updates,
\* selections and forks, in any order, save snapshots of the branch's own scenes.
THEOREM MemoryAlwaysOnPath == Spec /\ []KeysApart => []MemoryOnPath
<1>1. Init => KeysFresh /\ TasksRemember /\ SnapshotsOnPath /\ SnapshotsInOrder
  BY DEF Init, RepositoryInit, ServiceInit, KeysFresh, TasksRemember, SnapshotsOnPath,
         SnapshotsInOrder, Waiting, Committed, NoTask
<1>2. Spec => []Reservations
  BY AlwaysWellFormed, InitReservations, NextReservations, PTL DEF Spec
<1>3. WellFormed /\ SnapshotsOnPath => MemoryOnPath
  BY LatestMemoryOnPath DEF MemoryOnPath
<1>4. Spec /\ []KeysApart => [](KeysFresh /\ TasksRemember /\ SnapshotsOnPath /\ SnapshotsInOrder)
  BY <1>1, <1>2, AlwaysWellFormed, AlwaysOwnScenesOnPath, NextKeysFresh, NextTasksRemember,
     NextSnapshotsOnPath, PTL DEF Spec
<1> QED
  BY <1>3, <1>4, AlwaysWellFormed, PTL
=============================================================================
