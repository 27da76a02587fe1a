----------------------- MODULE StoryRepository_proofs -----------------------
(***************************************************************************)
(* What the queries of StoryRepository return and what its transactions    *)
(* preserve: the types of the tables and the references between them.      *)
(***************************************************************************)
EXTENDS StoryRepository, FiniteSetTheorems, SequenceTheorems,
        WellFoundedInduction, TLAPS

-----------------------------------------------------------------------------
(* Row numbers *)

\* A non-empty set of row numbers has a smallest member.
LEMMA SmallestRow ==
  ASSUME NEW rows \in SUBSET Nat, rows # {}
  PROVE  \E i \in rows : \A j \in rows : i <= j
<1>1. PICK i \in rows : \A j \in rows : <<j, i>> \notin OpToRel(<, Nat)
  BY NatLessThanWellFounded, WFMin
<1>2. \A j \in rows : ~(j < i)
  BY <1>1 DEF OpToRel
<1> QED
  BY <1>2

\* A non-empty set of row numbers of a table has a largest member.
LEMMA LargestRow ==
  ASSUME NEW n \in Nat, NEW rows \in SUBSET (1 .. n), rows # {}
  PROVE  \E i \in rows : \A j \in rows : j <= i
<1> DEFINE mirrored == {n - i : i \in rows}
<1>1. PICK k \in mirrored : \A j \in mirrored : k <= j
  <2>1. mirrored \subseteq Nat
    <3>1. \A i \in rows : n - i \in Nat
      OBVIOUS
    <3> QED
      BY <3>1
  <2>2. mirrored # {}
    OBVIOUS
  <2> QED
    BY <2>1, <2>2, SmallestRow
<1>2. PICK i \in rows : k = n - i
  OBVIOUS
<1>3. \A j \in rows : n - i <= n - j
  BY <1>1, <1>2
<1> QED
  BY <1>3

\* FirstRow finds the smallest row number, None only in the empty set.
LEMMA FirstRowFinds ==
  ASSUME NEW n \in Nat, NEW rows \in SUBSET (1 .. n)
  PROVE  /\ FirstRow(rows) = None <=> rows = {}
         /\ rows # {} => FirstRow(rows) \in rows
         /\ FirstRow(rows) \in 0 .. n
<1>1. CASE rows = {}
  BY <1>1 DEF FirstRow, None
<1>2. CASE rows # {}
  <2>1. \E i \in rows : \A j \in rows : i <= j
    BY <1>2, SmallestRow
  <2>2. FirstRow(rows) \in rows
    BY <1>2, <2>1 DEF FirstRow
  <2>3. FirstRow(rows) \in 1 .. n
    BY <2>2
  <2> QED
    BY <1>2, <2>2, <2>3 DEF None
<1> QED
  BY <1>1, <1>2

\* LastRow finds the largest row number, None only in the empty set.
LEMMA LastRowFinds ==
  ASSUME NEW n \in Nat, NEW rows \in SUBSET (1 .. n)
  PROVE  /\ LastRow(rows) = None <=> rows = {}
         /\ rows # {} => LastRow(rows) \in rows
         /\ \A j \in rows : j <= LastRow(rows)
         /\ LastRow(rows) \in 0 .. n
<1>1. CASE rows = {}
  BY <1>1 DEF LastRow, None
<1>2. CASE rows # {}
  <2>1. \E i \in rows : \A j \in rows : j <= i
    BY <1>2, LargestRow
  <2>2. LastRow(rows) \in rows /\ \A j \in rows : j <= LastRow(rows)
    BY <1>2, <2>1 DEF LastRow
  <2>3. LastRow(rows) \in 1 .. n
    BY <2>2
  <2> QED
    BY <1>2, <2>2, <2>3 DEF None
<1> QED
  BY <1>1, <1>2

-----------------------------------------------------------------------------
(* Queries *)

RowsOK == RepositoryTypeOK /\ RowReferencesExist

\* The tables are functions from row numbers to rows.
LEMMA Tables ==
  ASSUME RepositoryTypeOK
  PROVE  /\ Len(branches) \in Nat /\ branches \in [1 .. Len(branches) -> Branch]
         /\ Len(segments) \in Nat /\ segments \in [1 .. Len(segments) -> Segment]
         /\ Len(choices) \in Nat /\ choices \in [1 .. Len(choices) -> Choice]
         /\ Len(snapshots) \in Nat /\ snapshots \in [1 .. Len(snapshots) -> Snapshot]
BY LenProperties DEF RepositoryTypeOK

\* A lookup by key returns a scene with that key, None if there is none.
LEMMA KeyLookup ==
  ASSUME RepositoryTypeOK, NEW key
  PROVE  /\ SegmentByKey(key) = None <=> \A s \in DOMAIN segments : segments[s].key # key
         /\ SegmentByKey(key) # None =>
              SegmentByKey(key) \in DOMAIN segments /\ segments[SegmentByKey(key)].key = key
<1> DEFINE rows == {s \in DOMAIN segments : segments[s].key = key}
<1>1. Len(segments) \in Nat /\ DOMAIN segments = 1 .. Len(segments)
  BY Tables
<1>2. rows \in SUBSET (1 .. Len(segments))
  BY <1>1
<1> HIDE DEF rows
<1>3. /\ FirstRow(rows) = None <=> rows = {}
      /\ rows # {} => FirstRow(rows) \in rows
  BY <1>1, <1>2, FirstRowFinds
<1> QED
  BY <1>3 DEF SegmentByKey, rows

\* A choice is made on a branch that exists.
LEMMA BranchOfChoiceExists ==
  ASSUME RowsOK, NEW c \in DOMAIN choices
  PROVE  BranchOfChoice(c) \in DOMAIN branches
<1> DEFINE forks == {b \in DOMAIN branches : branches[b].forkChoice = c}
<1>1. Len(branches) \in Nat /\ DOMAIN branches = 1 .. Len(branches)
  BY Tables DEF RowsOK
<1>2. forks \in SUBSET (1 .. Len(branches))
  BY <1>1
<1>3. segments[choices[c].segment].branch \in DOMAIN branches
  BY DEF RowsOK, RowReferencesExist
<1> HIDE DEF forks
<1>4. forks # {} => FirstRow(forks) \in forks
  BY <1>1, <1>2, FirstRowFinds
<1>5. forks # {} => FirstRow(forks) \in DOMAIN branches
  BY <1>1, <1>2, <1>4
<1>6. BranchOfChoice(c) = IF forks # {} THEN FirstRow(forks)
                          ELSE segments[choices[c].segment].branch
  BY DEF BranchOfChoice, forks
<1> QED
  BY <1>3, <1>5, <1>6

\* The memory read from a set of snapshot rows is a memory, the initial one if
\* the set is empty.
LEMMA LastMemoryType ==
  ASSUME RepositoryTypeOK, NEW rows \in SUBSET DOMAIN snapshots
  PROVE  MemoryAt(LastRow(rows)) \in Memory
<1>1. Len(snapshots) \in Nat /\ DOMAIN snapshots = 1 .. Len(snapshots)
  BY Tables
<1>2. LastRow(rows) # None => LastRow(rows) \in DOMAIN snapshots
  BY <1>1, LastRowFinds
<1>3. \A i \in DOMAIN snapshots : snapshots[i].memory \in Memory
  BY Tables DEF Snapshot
<1>4. InitialMemory \in Memory
  BY DEF InitialMemory, Memory
<1> QED
  BY <1>2, <1>3, <1>4 DEF MemoryAt

\* Every memory that a query returns is a memory.
LEMMA MemoryTypes ==
  ASSUME RepositoryTypeOK, NEW b, NEW s
  PROVE  LatestMemory(b) \in Memory /\ PreChoiceMemory(b, s) \in Memory
<1>1. SnapshotsOf(b) \in SUBSET DOMAIN snapshots
  BY DEF SnapshotsOf
<1>2. LatestMemory(b) \in Memory
  BY <1>1, LastMemoryType DEF LatestMemory
<1> DEFINE before == LastRow({i \in SnapshotsOf(b) : snapshots[i].segment = s})
           earlier == {i \in SnapshotsOf(b) : i < before}
<1>3. earlier \in SUBSET DOMAIN snapshots
  BY <1>1
<1>4. PreChoiceMemory(b, s) = MemoryAt(LastRow(earlier))
  BY DEF PreChoiceMemory
<1> HIDE DEF earlier
<1>5. PreChoiceMemory(b, s) \in Memory
  BY <1>3, <1>4, LastMemoryType
<1> QED
  BY <1>2, <1>5

-----------------------------------------------------------------------------
(* Transactions *)

\* Transactions that write only the story row.
LEMMA StoryRowTransactions ==
  ASSUME RowsOK,
         \/ PauseStory
         \/ ResumeStory
         \/ \E b \in DOMAIN branches : ActivateBranch(b)
         \/ RecoverInterruptedGenerations
  PROVE  RowsOK'
<1>1. story' \in Story /\ story'.current \in DOMAIN branches
  <2>1. story \in Story /\ story.current \in DOMAIN branches
    BY DEF RowsOK, RepositoryTypeOK, RowReferencesExist
  <2>2. DOMAIN branches \subseteq Nat
    BY Tables DEF RowsOK
  <2>3. CASE PauseStory
    BY <2>1, <2>3 DEF PauseStory, Story
  <2>4. CASE ResumeStory
    BY <2>1, <2>4 DEF ResumeStory, Story, StoryStatus
  <2>5. CASE \E b \in DOMAIN branches : ActivateBranch(b)
    BY <2>1, <2>2, <2>5 DEF ActivateBranch, Story, StoryStatus
  <2>6. CASE RecoverInterruptedGenerations
    BY <2>1, <2>6 DEF RecoverInterruptedGenerations, Story, StoryStatus
  <2> QED
    BY <2>3, <2>4, <2>5, <2>6
<1>2. UNCHANGED <<branches, segments, choices, snapshots, drafts>>
  BY DEF PauseStory, ResumeStory, ActivateBranch, RecoverInterruptedGenerations
<1> QED
  BY <1>1, <1>2 DEF RowsOK, RepositoryTypeOK, RowReferencesExist

\* Saving a draft keeps the rows in order.
LEMMA SaveDraftRows ==
  ASSUME RowsOK, NEW b \in Nat, NEW plan \in Plan, SaveGenerationDraft(b, plan)
  PROVE  RowsOK'
<1>1. story' \in Story /\ story'.current = story.current
  BY DEF RowsOK, RepositoryTypeOK, SaveGenerationDraft, Story, StoryStatus
<1>2. drafts' \in SUBSET Draft
  BY DEF RowsOK, RepositoryTypeOK, SaveGenerationDraft, Draft, DraftOf
<1> QED
  BY <1>1, <1>2 DEF RowsOK, RepositoryTypeOK, RowReferencesExist, SaveGenerationDraft

\* A snapshot saved under a branch and a scene is one more row of its table.
LEMMA SaveMemorySnapshotType ==
  ASSUME RowsOK, NEW b \in Nat, NEW s \in Nat, NEW memory \in Memory,
         SaveMemorySnapshot(b, s, memory)
  PROVE  snapshots' \in Seq(Snapshot)
<1>1. [branch |-> b, segment |-> s, memory |-> memory] \in Snapshot
  BY DEF Snapshot
<1> QED
  BY <1>1, AppendProperties DEF RowsOK, RepositoryTypeOK, SaveMemorySnapshot

\* A scene is inserted as the newest row of its table and as the head of its
\* branch, or its key has a scene and nothing is inserted.
LEMMA InsertRows ==
  ASSUME RowsOK, NEW b \in DOMAIN branches, NEW key \in Keys, NEW plan \in Plan,
         InsertSegmentBundle(b, branches[b].head, key, plan)
  PROVE  \/ /\ SegmentByKey(key) # None
            /\ UNCHANGED <<segments, choices, branches>>
         \/ /\ SegmentByKey(key) = None
            /\ segments' \in Seq(Segment)
            /\ Len(segments') = Len(segments) + 1
            /\ \A s \in DOMAIN segments : segments'[s] = segments[s]
            /\ segments'[Len(segments')].branch = b
            /\ segments'[Len(segments')].parent = branches[b].head
            /\ segments'[Len(segments')].key = key
            /\ choices' \in Seq(Choice)
            /\ \/ choices' = choices
               \/ choices' = Append(choices, NewChoice(Len(segments')))
            /\ branches' \in Seq(Branch)
            /\ Len(branches') = Len(branches)
            /\ branches' = [branches EXCEPT ![b].head = Len(segments')]
<1>1. CASE SegmentByKey(key) # None
  BY <1>1 DEF InsertSegmentBundle
<1>2. CASE SegmentByKey(key) = None
  <2> DEFINE new == Len(segments) + 1
             parent == branches[b].head
             row == [branch |-> b, parent |-> parent, key |-> key,
                     sequence |-> IF parent = None THEN 1 ELSE segments[parent].sequence + 1,
                     plannedFor |-> plan.plannedFor]
             point == NewChoice(new)
  <2>1. /\ segments' = Append(segments, row)
        /\ choices' = IF plan.choice THEN Append(choices, point) ELSE choices
        /\ branches' = [branches EXCEPT ![b].head = new]
    BY <1>2 DEF InsertSegmentBundle
  <2>2. /\ Len(segments) \in Nat /\ DOMAIN segments = 1 .. Len(segments)
        /\ \A s \in DOMAIN segments : segments[s] \in Segment
        /\ Len(branches) \in Nat /\ DOMAIN branches = 1 .. Len(branches)
        /\ branches[b] \in Branch
    BY Tables DEF RowsOK
  <2>3. parent \in 0 .. Len(segments)
    BY DEF RowsOK, RowReferencesExist
  <2>4. row \in Segment
    <3>1. parent # None => segments[parent].sequence \in Nat
      BY <2>2, <2>3 DEF None, Segment
    <3> QED
      BY <2>2, <2>3, <3>1 DEF Segment, Plan
  <2>5. point \in Choice
    BY <2>2 DEF NewChoice, Choice
  <2> HIDE DEF row, point
  <2>6. /\ segments' \in Seq(Segment)
        /\ Len(segments') = new
        /\ \A s \in DOMAIN segments : segments'[s] = segments[s]
        /\ segments'[new] = row
    BY <2>1, <2>2, <2>4, AppendProperties DEF RowsOK, RepositoryTypeOK
  <2>7. choices' \in Seq(Choice)
    BY <2>1, <2>5, AppendProperties DEF RowsOK, RepositoryTypeOK
  <2>8. branches' \in Seq(Branch) /\ Len(branches') = Len(branches)
    <3>1. [branches[b] EXCEPT !.head = new] \in Branch
      BY <2>2 DEF Branch
    <3>2. branches' = [branches EXCEPT ![b] = [branches[b] EXCEPT !.head = new]]
      BY <2>1
    <3> QED
      BY <2>2, <3>1, <3>2, ExceptSeq DEF RowsOK, RepositoryTypeOK
  <2> QED
    BY <1>2, <2>1, <2>2, <2>6, <2>7, <2>8 DEF row, point
<1> QED
  BY <1>1, <1>2

\* Committing a scene bundle keeps the rows in order.
LEMMA CommitRows ==
  ASSUME RowsOK, NEW b \in DOMAIN branches, NEW parent, NEW key \in Keys, NEW plan \in Plan,
         NEW final \in StoryStatus, CommitGenerationBundle(b, parent, key, plan, final)
  PROVE  RowsOK'
<1>1. /\ InsertSegmentBundle(b, branches[b].head, key, plan)
      /\ story' = [story EXCEPT !.status = final, !.pauseRequested = FALSE]
      /\ UNCHANGED <<snapshots, drafts>>
  BY DEF CommitGenerationBundle, CanCommit
<1>2. story' \in Story /\ story'.current = story.current
  BY <1>1 DEF RowsOK, RepositoryTypeOK, Story
<1>3. CASE UNCHANGED <<segments, choices, branches>>
  BY <1>1, <1>2, <1>3 DEF RowsOK, RepositoryTypeOK, RowReferencesExist
<1>4. CASE ~UNCHANGED <<segments, choices, branches>>
  <2> DEFINE new == Len(segments')
  <2>1. /\ segments' \in Seq(Segment)
        /\ new = Len(segments) + 1
        /\ \A s \in DOMAIN segments : segments'[s] = segments[s]
        /\ segments'[new].branch = b
        /\ segments'[new].parent = branches[b].head
        /\ choices' \in Seq(Choice)
        /\ choices' = choices \/ choices' = Append(choices, NewChoice(new))
        /\ branches' \in Seq(Branch)
        /\ Len(branches') = Len(branches)
        /\ branches' = [branches EXCEPT ![b].head = new]
    BY <1>1, <1>4, InsertRows
  <2>2. RepositoryTypeOK'
    BY <1>1, <1>2, <2>1 DEF RowsOK, RepositoryTypeOK
  <2>3. /\ Len(segments) \in Nat /\ DOMAIN segments = 1 .. Len(segments)
        /\ Len(branches) \in Nat /\ DOMAIN branches = 1 .. Len(branches)
        /\ Len(choices) \in Nat /\ DOMAIN choices = 1 .. Len(choices)
        /\ DOMAIN segments' = 1 .. new /\ DOMAIN branches' = DOMAIN branches
        /\ \A r \in DOMAIN branches : branches[r] \in Branch
    BY Tables, <2>1, LenProperties DEF RowsOK
  <2> HIDE DEF new
  <2>4. \A r \in DOMAIN branches : branches'[r].head \in {branches[r].head, new}
                               /\ branches'[r].forkSegment = branches[r].forkSegment
                               /\ branches'[r].forkChoice = branches[r].forkChoice
    BY <2>1, <2>3 DEF Branch
  <2>5. \A c \in DOMAIN choices' : choices'[c].segment \in 1 .. new
    <3>1. NewChoice(new).segment = new
      BY DEF NewChoice
    <3>2. NewChoice(new) \in Choice
      BY <2>1, <2>3 DEF NewChoice, Choice
    <3>3. CASE choices' = Append(choices, NewChoice(new))
      <4>1. /\ DOMAIN choices' = 1 .. Len(choices) + 1
            /\ \A c \in DOMAIN choices : choices'[c] = choices[c]
            /\ choices'[Len(choices) + 1] = NewChoice(new)
        BY <2>3, <3>2, <3>3, AppendProperties, LenProperties DEF RowsOK, RepositoryTypeOK
      <4> QED
        BY <2>1, <2>3, <3>1, <4>1 DEF RowsOK, RowReferencesExist
    <3>4. CASE choices' = choices
      BY <2>1, <2>3, <3>4 DEF RowsOK, RowReferencesExist
    <3> QED
      BY <2>1, <3>3, <3>4
  <2>6. Len(choices') \in {Len(choices), Len(choices) + 1}
    BY <2>1
  <2>7. \A s \in DOMAIN segments' :
          segments'[s].branch \in DOMAIN branches' /\ segments'[s].parent < s
    BY <2>1, <2>3 DEF new, RowsOK, RowReferencesExist
  <2>8. \A r \in DOMAIN branches' :
          /\ branches'[r].head \in 0 .. new
          /\ branches'[r].forkSegment \in 0 .. new
          /\ branches'[r].forkChoice \in 0 .. Len(choices')
    BY <2>1, <2>3, <2>4, <2>6 DEF RowsOK, RowReferencesExist
  <2> QED
    BY <1>2, <2>2, <2>3, <2>5, <2>7, <2>8 DEF new, RowsOK, RowReferencesExist
<1> QED
  BY <1>3, <1>4

\* A choice stays a choice of its scene when it is selected.
LEMMA SelectedChoiceType ==
  ASSUME NEW choice \in Choice, NEW selection \in Selections
  PROVE  LET row == [choice EXCEPT !.selected = selection, !.version = @ + 1]
         IN  row \in Choice /\ row.segment = choice.segment
<1> DEFINE selected == [choice EXCEPT !.selected = selection]
<1>1. selected \in Choice /\ selected.segment = choice.segment
  BY DEF Choice
<1>2. \A row \in Choice : /\ [row EXCEPT !.version = @ + 1] \in Choice
                         /\ [row EXCEPT !.version = @ + 1].segment = row.segment
  BY DEF Choice
<1> QED
  BY <1>1, <1>2

\* Submitting a choice keeps the rows in order.
LEMMA SubmitRows ==
  ASSUME RowsOK, NEW c \in DOMAIN choices, NEW version, NEW selection \in Selections,
         SubmitChoice(c, version, selection)
  PROVE  RowsOK'
<1> DEFINE branch == BranchOfChoice(c)
           memory == [LatestMemory(branch) EXCEPT !.effects = @ \cup {c}]
           row == [choices[c] EXCEPT !.selected = selection, !.version = @ + 1]
<1>1. /\ choices' = [choices EXCEPT ![c] = row]
      /\ story' = [story EXCEPT !.status = "IDLE"]
      /\ SaveMemorySnapshot(branch, choices[c].segment, memory)
      /\ UNCHANGED <<branches, segments, drafts>>
  BY DEF SubmitChoice
<1>2. /\ Len(choices) \in Nat /\ DOMAIN choices = 1 .. Len(choices) /\ choices[c] \in Choice
      /\ DOMAIN branches \subseteq Nat
  BY Tables DEF RowsOK
<1>3. row \in Choice /\ row.segment = choices[c].segment
  BY <1>2, SelectedChoiceType
<1>4. story' \in Story /\ story'.current = story.current
  BY <1>1 DEF RowsOK, RepositoryTypeOK, Story, StoryStatus
<1>5. snapshots' \in Seq(Snapshot)
  <2>1. branch \in Nat
    BY <1>2, BranchOfChoiceExists
  <2>2. LatestMemory(branch) \in Memory
    BY MemoryTypes DEF RowsOK
  <2>3. memory \in Memory
    BY <1>2, <2>2 DEF Memory
  <2>4. choices[c].segment \in Nat
    BY <1>2 DEF Choice
  <2> HIDE DEF memory, branch
  <2> QED
    BY <1>1, <2>1, <2>3, <2>4, SaveMemorySnapshotType
<1> HIDE DEF row
<1>6. /\ choices' \in Seq(Choice) /\ DOMAIN choices' = DOMAIN choices /\ Len(choices') = Len(choices)
      /\ \A d \in DOMAIN choices : choices'[d].segment = choices[d].segment
  <2>1. choices' \in Seq(Choice) /\ Len(choices') = Len(choices)
    BY <1>1, <1>2, <1>3, ExceptSeq DEF RowsOK, RepositoryTypeOK
  <2> QED
    BY <1>1, <1>2, <1>3, <2>1
<1> QED
  BY <1>1, <1>4, <1>5, <1>6 DEF RowsOK, RepositoryTypeOK, RowReferencesExist

\* Forking at a choice keeps the rows in order.
LEMMA ForkRows ==
  ASSUME RowsOK, NEW c \in DOMAIN choices, ForkAtChoice(c)
  PROVE  RowsOK'
<1> DEFINE segment == choices[c].segment
           original == segments[segment].branch
           copy == Len(choices) + 1
           fork == Len(branches) + 1
           row == [head |-> segment, parent |-> original,
                   forkSegment |-> segment, forkChoice |-> copy]
           point == NewChoice(segment)
<1>1. /\ choices' = Append(choices, point)
      /\ branches' = Append(branches, row)
      /\ SaveMemorySnapshot(fork, segment, PreChoiceMemory(original, segment))
      /\ story' = [story EXCEPT !.current = fork, !.status = "WAITING_CHOICE"]
      /\ UNCHANGED <<segments, drafts>>
  BY DEF ForkAtChoice
<1>2. /\ Len(choices) \in Nat /\ DOMAIN choices = 1 .. Len(choices)
      /\ Len(branches) \in Nat /\ DOMAIN branches = 1 .. Len(branches)
      /\ Len(segments) \in Nat /\ DOMAIN segments = 1 .. Len(segments)
  BY Tables DEF RowsOK
<1>3. segment \in 1 .. Len(segments) /\ original \in 1 .. Len(branches)
  BY <1>2 DEF RowsOK, RowReferencesExist
<1>4. row \in Branch /\ point \in Choice /\ point.segment = segment
  BY <1>2, <1>3 DEF Branch, NewChoice, Choice
<1>5. story' \in Story /\ story'.current = fork
  <2>1. fork \in Nat /\ story \in Story
    BY <1>2 DEF RowsOK, RepositoryTypeOK
  <2> HIDE DEF fork
  <2> QED
    BY <1>1, <2>1 DEF Story, StoryStatus
<1>6. snapshots' \in Seq(Snapshot)
  <2>1. PreChoiceMemory(original, segment) \in Memory
    BY MemoryTypes DEF RowsOK
  <2>2. fork \in Nat /\ segment \in Nat
    BY <1>2, <1>3
  <2> HIDE DEF fork, segment, original
  <2> QED
    BY <1>1, <2>1, <2>2, SaveMemorySnapshotType
<1> HIDE DEF row, point
<1>7. /\ choices' \in Seq(Choice) /\ DOMAIN choices' = 1 .. copy /\ Len(choices') = copy
      /\ \A d \in DOMAIN choices : choices'[d] = choices[d]
      /\ choices'[copy] = point
  BY <1>1, <1>2, <1>4, AppendProperties, LenProperties DEF RowsOK, RepositoryTypeOK
<1>8. /\ branches' \in Seq(Branch) /\ DOMAIN branches' = 1 .. fork
      /\ \A d \in DOMAIN branches : branches'[d] = branches[d]
      /\ branches'[fork] = row
  BY <1>1, <1>2, <1>4, AppendProperties, LenProperties DEF RowsOK, RepositoryTypeOK
<1>9. RepositoryTypeOK'
  BY <1>1, <1>5, <1>6, <1>7, <1>8 DEF RowsOK, RepositoryTypeOK
<1>10. \A r \in DOMAIN branches' :
         /\ branches'[r].head \in 0 .. Len(segments')
         /\ branches'[r].forkSegment \in 0 .. Len(segments')
         /\ branches'[r].forkChoice \in 0 .. Len(choices')
  <2>1. /\ row.head \in 0 .. Len(segments) /\ row.forkSegment \in 0 .. Len(segments)
        /\ row.forkChoice \in 0 .. copy
    BY <1>2, <1>3 DEF row
  <2>2. \A r \in DOMAIN branches :
          /\ branches[r].head \in 0 .. Len(segments)
          /\ branches[r].forkSegment \in 0 .. Len(segments)
          /\ branches[r].forkChoice \in 0 .. Len(choices)
    BY DEF RowsOK, RowReferencesExist
  <2>3. \A r \in DOMAIN branches' : r = fork \/ r \in DOMAIN branches
    BY <1>2, <1>8
  <2> HIDE DEF fork
  <2> QED
    BY <1>1, <1>2, <1>7, <1>8, <2>1, <2>2, <2>3
<1>11. /\ story'.current \in DOMAIN branches'
       /\ \A s \in DOMAIN segments' :
            segments'[s].branch \in DOMAIN branches' /\ segments'[s].parent < s
       /\ \A d \in DOMAIN choices' : choices'[d].segment \in DOMAIN segments'
  <2>1. DOMAIN branches \subseteq DOMAIN branches' /\ fork \in DOMAIN branches'
    BY <1>2, <1>8
  <2>2. \A d \in DOMAIN choices' : d = copy \/ d \in DOMAIN choices
    BY <1>2, <1>7
  <2> HIDE DEF copy, fork
  <2> QED
    BY <1>1, <1>2, <1>3, <1>4, <1>5, <1>7, <2>1, <2>2 DEF RowsOK, RowReferencesExist
<1> QED
  BY <1>9, <1>10, <1>11 DEF RowsOK, RowReferencesExist

-----------------------------------------------------------------------------
(* No transaction deletes a branch, a scene or a choice. *)

TablesGrow ==
  /\ DOMAIN branches \subseteq DOMAIN branches'
  /\ DOMAIN segments \subseteq DOMAIN segments'
  /\ DOMAIN choices \subseteq DOMAIN choices'

\* One more row, or another value in a row that is there, deletes no row.
LEMMA AppendGrows ==
  ASSUME NEW S, NEW rows \in Seq(S), NEW row
  PROVE  DOMAIN rows \subseteq DOMAIN Append(rows, row)
<1>1. rows \in Seq(S \cup {row}) /\ row \in S \cup {row}
  BY SeqMonotonic
<1>2. Len(Append(rows, row)) = Len(rows) + 1 /\ Append(rows, row) \in Seq(S \cup {row})
  BY <1>1, AppendProperties
<1>3. Len(rows) \in Nat /\ DOMAIN rows = 1 .. Len(rows)
      /\ DOMAIN Append(rows, row) = 1 .. Len(rows) + 1
  BY <1>1, <1>2, LenProperties
<1> QED
  BY <1>3

\* A row appended to a table leaves the rows that are there.
LEMMA AppendKeeps ==
  ASSUME NEW S, NEW rows \in Seq(S), NEW row
  PROVE  \A i \in DOMAIN rows : i \in DOMAIN Append(rows, row) /\ Append(rows, row)[i] = rows[i]
<1>1. \A i \in 1 .. Len(rows) : Append(rows, row)[i] = rows[i]
  OBVIOUS
<1> QED
  BY <1>1, AppendGrows, LenProperties

\* A commit only adds rows.
LEMMA CommitGrows ==
  ASSUME RowsOK, NEW b \in DOMAIN branches, NEW parent, NEW key \in Keys, NEW plan \in Plan,
         NEW final \in StoryStatus, CommitGenerationBundle(b, parent, key, plan, final)
  PROVE  TablesGrow /\ DOMAIN branches' = DOMAIN branches
<1>1. InsertSegmentBundle(b, branches[b].head, key, plan)
  BY DEF CommitGenerationBundle, CanCommit
<1>2. CASE SegmentByKey(key) # None
  BY <1>1, <1>2 DEF InsertSegmentBundle, TablesGrow
<1>3. CASE SegmentByKey(key) = None
  <2>1. /\ \E row : segments' = Append(segments, row)
        /\ choices' = choices \/ \E row : choices' = Append(choices, row)
        /\ \E new : branches' = [branches EXCEPT ![b].head = new]
    BY <1>1, <1>3 DEF InsertSegmentBundle
  <2> QED
    BY <2>1, AppendGrows DEF RowsOK, RepositoryTypeOK, TablesGrow
<1> QED
  BY <1>2, <1>3

\* A submission only adds rows.
LEMMA SubmitGrows ==
  ASSUME NEW c, NEW version, NEW selection, SubmitChoice(c, version, selection)
  PROVE  TablesGrow
BY DEF SubmitChoice, TablesGrow

\* A fork only adds rows.
LEMMA ForkGrows ==
  ASSUME RowsOK, NEW c \in DOMAIN choices, ForkAtChoice(c)
  PROVE  TablesGrow
<1>1. /\ \E row : branches' = Append(branches, row)
      /\ \E row : choices' = Append(choices, row)
      /\ UNCHANGED segments
  BY DEF ForkAtChoice
<1> QED
  BY <1>1, AppendGrows DEF RowsOK, RepositoryTypeOK, TablesGrow

=============================================================================
