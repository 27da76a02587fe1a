-------------------------- MODULE StoryRepository --------------------------
(***************************************************************************)
(* The tables of one story and the transactions of StoryRepository on      *)
(* them (src/src/storyflow/db/repositories.py).  A row id is the position  *)
(* of a row in its table, so "ORDER BY rowid DESC" is the largest index.   *)
(*                                                                         *)
(* Every handler that calls these transactions is an async function that   *)
(* runs without a suspension point from its reads to its COMMIT, so a      *)
(* transaction is one step.  The story's version counter is left out: the  *)
(* only comparison with it that follows Bible confirmation is made against *)
(* a value read in the same step (generation.py:293-342).                  *)
(*                                                                         *)
(* Prose and prompts are abstracted.  What remains of a scene plan is the  *)
(* head it was planned to follow and whether it ends with a choice; what   *)
(* remains of a memory snapshot is the scenes and the choices whose        *)
(* effects it contains.                                                    *)
(***************************************************************************)
EXTENDS StoryStatus, FiniteSets

Pending == "pending"   \* ChoicePoint.status before a selection

CONSTANTS
  Keys,          \* generation keys (idempotency keys of generate requests)
  Options,       \* the preset options of a choice
  CustomActions  \* actions a reader may write instead of taking an option

ASSUME RepositoryAssumption ==
  /\ Options \cap CustomActions = {}
  /\ Pending \notin Options \cup CustomActions

VARIABLES
  story,         \* the row of stories: status, current branch, pause flag
  branches,      \* table branches
  segments,      \* table story_segments
  choices,       \* table choice_points (with its choice_options)
  snapshots,     \* table memory_snapshots
  drafts         \* table generation_drafts, keyed by branch

repositoryVars == <<story, branches, segments, choices, snapshots, drafts>>

None == 0        \* NULL in a column that holds a row id
Root == 1        \* the branch that the Bible bundle creates

Selections == Options \cup CustomActions
Plan == [plannedFor : Nat, choice : BOOLEAN]
Memory == [scenes : SUBSET Nat, effects : SUBSET Nat]
InitialMemory == [scenes |-> {}, effects |-> {}]

Story == [status : StoryStatus, current : Nat, pauseRequested : BOOLEAN]
Branch == [head : Nat, parent : Nat, forkSegment : Nat, forkChoice : Nat]
Segment == [branch : Nat, parent : Nat, sequence : Nat, key : Keys, plannedFor : Nat]
Choice == [segment : Nat, selected : Selections \cup {Pending}, version : Nat]
Snapshot == [branch : Nat, segment : Nat, memory : Memory]
Draft == [branch : Nat, plan : Plan]

RepositoryTypeOK ==
  /\ story \in Story
  /\ branches \in Seq(Branch)
  /\ segments \in Seq(Segment)
  /\ choices \in Seq(Choice)
  /\ snapshots \in Seq(Snapshot)
  /\ drafts \in SUBSET Draft

\* A story whose Bible has just been confirmed: one root branch, no scene.
RepositoryInit ==
  /\ story = [status |-> "IDLE", current |-> Root, pauseRequested |-> FALSE]
  /\ branches = <<[head |-> None, parent |-> None,
                   forkSegment |-> None, forkChoice |-> None]>>
  /\ segments = <<>>
  /\ choices = <<>>
  /\ snapshots = <<>>
  /\ drafts = {}

-----------------------------------------------------------------------------
(* Queries *)

FirstRow(rows) == IF rows = {} THEN None ELSE CHOOSE i \in rows : \A j \in rows : i <= j
LastRow(rows)  == IF rows = {} THEN None ELSE CHOOSE i \in rows : \A j \in rows : j <= i

\* Mutant: the key is looked up on the current branch only.
SegmentByKeyOnBranch(key) ==
  FirstRow({s \in DOMAIN segments : segments[s].key = key /\ segments[s].branch = story.current})

SegmentByKey(key) == FirstRow({s \in DOMAIN segments : segments[s].key = key})

\* No ORDER BY: the scan returns the oldest choice of the scene.
ChoicePointForSegment(segment) ==
  FirstRow({c \in DOMAIN choices : choices[c].segment = segment})

CurrentChoice(branch) ==
  LET row == branches[branch]
  IN  IF row.head = None THEN None
      ELSE IF row.forkChoice # None /\ row.forkSegment = row.head THEN row.forkChoice
      ELSE LastRow({c \in DOMAIN choices : choices[c].segment = row.head})

IsPending(choice) == choice # None /\ choices[choice].selected = Pending

\* The branch a choice is made on: the fork that was created for it, if any.
BranchOfChoice(choice) ==
  LET forks == {b \in DOMAIN branches : branches[b].forkChoice = choice}
  IN  IF forks # {} THEN FirstRow(forks) ELSE segments[choices[choice].segment].branch

SnapshotsOf(branch) == {i \in DOMAIN snapshots : snapshots[i].branch = branch}

MemoryAt(row) == IF row = None THEN InitialMemory ELSE snapshots[row].memory

LatestMemory(branch) == MemoryAt(LastRow(SnapshotsOf(branch)))

\* The parent links from a scene to the root, root first.
PathTo ==
  LET path[s \in 0 .. Len(segments)] ==
        IF s = None THEN <<>> ELSE Append(path[segments[s].parent], s)
  IN  path

BranchPath(branch) == PathTo[branches[branch].head]

ScenesOn(branch) == {BranchPath(branch)[i] : i \in DOMAIN BranchPath(branch)}

DraftOf(branch) == {d \in drafts : d.branch = branch}

\* The foreign keys of db/schema.sql; a scene is newer than its parent.
RowReferencesExist ==
  /\ story.current \in DOMAIN branches
  /\ \A b \in DOMAIN branches :
       /\ branches[b].head \in 0 .. Len(segments)
       /\ branches[b].forkSegment \in 0 .. Len(segments)
       /\ branches[b].forkChoice \in 0 .. Len(choices)
  /\ \A s \in DOMAIN segments :
       segments[s].branch \in DOMAIN branches /\ segments[s].parent < s
  /\ \A c \in DOMAIN choices : choices[c].segment \in DOMAIN segments

-----------------------------------------------------------------------------
(* Transactions *)

\* Mutant: a status of its own for a requested pause.
PauseStoryAsStatus ==
  /\ story' = [story EXCEPT !.status = "PAUSE_REQUESTED"]
  /\ UNCHANGED <<branches, segments, choices, snapshots, drafts>>

\* Sets the flag in any status.
PauseStory ==
  /\ story' = [story EXCEPT !.pauseRequested = TRUE]
  /\ UNCHANGED <<branches, segments, choices, snapshots, drafts>>

ResumeStory ==
  /\ story' = [story EXCEPT !.status = IF @ = "PAUSED" THEN "IDLE" ELSE @,
                            !.pauseRequested = FALSE]
  /\ UNCHANGED <<branches, segments, choices, snapshots, drafts>>

\* Mutant: an activated branch is always ready for the next scene.
ActivateBranchIdle(branch) ==
  /\ story' = [status |-> "IDLE", current |-> branch, pauseRequested |-> FALSE]
  /\ UNCHANGED <<branches, segments, choices, snapshots, drafts>>

\* Derives the status from the branch and not from the present status.
ActivateBranch(branch) ==
  /\ story' = [status |-> IF IsPending(CurrentChoice(branch)) THEN "WAITING_CHOICE" ELSE "IDLE",
               current |-> branch, pauseRequested |-> FALSE]
  /\ UNCHANGED <<branches, segments, choices, snapshots, drafts>>

\* Upserts the draft and pauses the story, whatever its status and branch are.
SaveGenerationDraft(branch, plan) ==
  /\ drafts' = (drafts \ DraftOf(branch)) \cup {[branch |-> branch, plan |-> plan]}
  /\ story' = [story EXCEPT !.status = "PAUSED", !.pauseRequested = FALSE]
  /\ UNCHANGED <<branches, segments, choices, snapshots>>

DeleteGenerationDraft(branch) == drafts' = drafts \ DraftOf(branch)

SaveMemorySnapshot(branch, segment, memory) ==
  snapshots' = Append(snapshots, [branch |-> branch, segment |-> segment, memory |-> memory])

StateSequence(final) == <<"IDLE", "PLANNING", "STREAMING", "COMMITTING", final>>

\* Mutant: the task's branch need not be the current one any more.
CanCommitAnyBranch(branch, parent, final) ==
  /\ story.status = StateSequence(final)[1]
  /\ LegalSequence(StateSequence(final))
  /\ branches[branch].head = parent

\* The checks of commit_generation_bundle, made by a task that read parent at its start.
CanCommit(branch, parent, final) ==
  /\ story.status = StateSequence(final)[1]
  /\ LegalSequence(StateSequence(final))
  /\ story.current = branch
  /\ branches[branch].head = parent

NewChoice(segment) == [segment |-> segment, selected |-> Pending, version |-> 1]

\* Mutant: the head stays where it was.
InsertSegmentNoHead(branch, parent, key, plan) ==
  /\ segments' = Append(segments, [branch |-> branch, parent |-> parent, key |-> key,
                                   sequence |-> 1, plannedFor |-> plan.plannedFor])
  /\ UNCHANGED <<choices, branches>>

\* One scene, its choice and the branch head.  A key that has a scene already
\* inserts nothing, although the story row has been written.
InsertSegmentBundle(branch, parent, key, plan) ==
  LET new == Len(segments) + 1
  IN  IF SegmentByKey(key) # None
      THEN UNCHANGED <<segments, choices, branches>>
      ELSE /\ segments' = Append(segments,
                [branch |-> branch, parent |-> parent, key |-> key,
                 sequence |-> IF parent = None THEN 1 ELSE segments[parent].sequence + 1,
                 plannedFor |-> plan.plannedFor])
           /\ choices' = IF plan.choice THEN Append(choices, NewChoice(new)) ELSE choices
           /\ branches' = [branches EXCEPT ![branch].head = new]

CommitGenerationBundle(branch, parent, key, plan, final) ==
  /\ CanCommit(branch, parent, final)
  /\ story' = [story EXCEPT !.status = final, !.pauseRequested = FALSE]
  /\ InsertSegmentBundle(branch, parent, key, plan)
  /\ UNCHANGED <<snapshots, drafts>>

\* Mutant: a choice can be submitted whatever the story's status is.
CanSubmitAnyStatus(choice, version) ==
  /\ choices[choice].version = version
  /\ story.current = BranchOfChoice(choice)
  /\ branches[story.current].head = choices[choice].segment

\* submit_choice accepts (choice, version): no other request did, and the
\* story waits at the scene of the choice, on the branch of the choice.
CanSubmit(choice, version) ==
  LET branch == BranchOfChoice(choice)
  IN  /\ choices[choice].version = version
      /\ story.status = "WAITING_CHOICE"
      /\ story.current = branch
      /\ branches[branch].head = choices[choice].segment

\* Mutant: the story keeps waiting.
SubmitChoiceStillWaiting(choice, version, selection) ==
  /\ CanSubmit(choice, version)
  /\ choices' = [choices EXCEPT ![choice].selected = selection]
  /\ UNCHANGED <<story, branches, segments, snapshots, drafts>>

SubmitChoice(choice, version, selection) ==
  LET branch == BranchOfChoice(choice)
      base == LatestMemory(branch)
  IN  /\ CanSubmit(choice, version)
      /\ choices' = [choices EXCEPT ![choice].selected = selection,
                                    ![choice].version = @ + 1]
      /\ story' = [story EXCEPT !.status = "IDLE"]
      /\ SaveMemorySnapshot(branch, choices[choice].segment,
                            [base EXCEPT !.effects = @ \cup {choice}])
      /\ UNCHANGED <<branches, segments, drafts>>

\* Mutant: the fork inherits what the original branch knows now.
PreChoiceMemoryLatest(branch, segment) == LatestMemory(branch)

\* The snapshot before the latest one of the original branch at the scene.
PreChoiceMemory(branch, segment) ==
  LET atChoice == LastRow({i \in SnapshotsOf(branch) : snapshots[i].segment = segment})
  IN  MemoryAt(LastRow({i \in SnapshotsOf(branch) : i < atChoice}))

\* Mutant: the fork continues at the head of the original branch.
ForkAtHead(choice) ==
  LET segment == choices[choice].segment
      original == segments[segment].branch
  IN  /\ ~IsPending(choice)
      /\ branches' = Append(branches, [head |-> branches[original].head, parent |-> original,
                                       forkSegment |-> segment, forkChoice |-> choice])
      /\ UNCHANGED <<story, segments, choices, snapshots, drafts>>

\* Mutant: the original branch is rewound to the choice.
ForkRewinds(choice) ==
  LET segment == choices[choice].segment
  IN  /\ ~IsPending(choice)
      /\ branches' = Append([branches EXCEPT ![segments[segment].branch].head = segment],
                            [head |-> segment, parent |-> segments[segment].branch,
                             forkSegment |-> segment, forkChoice |-> choice])
      /\ UNCHANGED <<story, segments, choices, snapshots, drafts>>

\* Mutant: the fork point is the head of the original branch.
ForkPointAtHead(choice) ==
  LET segment == choices[choice].segment
      original == segments[segment].branch
      fork == [head |-> segment, parent |-> original,
               forkSegment |-> branches[original].head, forkChoice |-> Len(choices) + 1]
  IN  /\ ~IsPending(choice)
      /\ choices' = Append(choices, NewChoice(segment))
      /\ branches' = Append(branches, fork)
      /\ story' = [story EXCEPT !.current = Len(branches'), !.status = "WAITING_CHOICE"]
      /\ UNCHANGED <<segments, snapshots, drafts>>

ForkAtChoice(choice) ==
  LET segment == choices[choice].segment
      original == segments[segment].branch
      copy == Len(choices) + 1
      fork == Len(branches) + 1
  IN  /\ ~IsPending(choice)
      /\ choices' = Append(choices, NewChoice(segment))
      /\ branches' = Append(branches, [head |-> segment, parent |-> original,
                                       forkSegment |-> segment, forkChoice |-> copy])
      /\ SaveMemorySnapshot(fork, segment, PreChoiceMemory(original, segment))
      /\ story' = [story EXCEPT !.current = fork, !.status = "WAITING_CHOICE"]
      /\ UNCHANGED <<segments, drafts>>

\* At startup: a story that was persisted in an active status.
RecoverInterruptedGenerations ==
  /\ story' = [story EXCEPT !.status = IF @ \in ActiveStatuses THEN "ERROR" ELSE @]
  /\ UNCHANGED <<branches, segments, choices, snapshots, drafts>>

=============================================================================
