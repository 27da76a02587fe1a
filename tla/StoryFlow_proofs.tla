-------------------------- MODULE StoryFlow_proofs --------------------------
(***************************************************************************)
(* Theorems about the specification of StoryFlow: for any number of keys,  *)
(* options, tasks, branches and scenes, with every fault.                  *)
(***************************************************************************)
EXTENDS StoryFlow, StoryRepository_proofs

-----------------------------------------------------------------------------
(* Types and references *)

TaskOK(x) ==
  /\ x \in Task
  /\ x.pc # "idle" => x.branch \in DOMAIN branches
  /\ x.pc \notin {"idle", "done"} => x.key \in Keys
  /\ x.pc \in {"memory", "rolling"} => x.segment \in DOMAIN segments

TasksOK == task \in [Tasks -> Task] /\ \A t \in Tasks : TaskOK(task[t])

ParsingOK ==
  /\ parsing \in SUBSET [choice : Nat, version : Nat, action : CustomActions]
  /\ \A request \in parsing : request.choice \in DOMAIN choices

\* TypeOK and ReferencesExist, cut along the tables, the tasks and the
\* suspended requests.
WellFormed == RowsOK /\ reserved \in SUBSET Nat /\ TasksOK /\ ParsingOK

\* WellFormed is the type invariant and the references, regrouped by component.
LEMMA WellFormedParts == WellFormed <=> TypeOK /\ ReferencesExist
BY DEF WellFormed, TypeOK, ReferencesExist, RowsOK, ServiceTypeOK, TasksOK, TaskOK,
       ParsingOK, Live

\* A task that is not in flight refers to nothing.
LEMMA NoTaskOK == TaskOK(NoTask)
BY DEF TaskOK, NoTask, Task, Phases, Plan, NoPlan, Memory, InitialMemory, None

\* When no row disappears, every task that is left alone stays well-formed.
LEMMA TaskKept ==
  ASSUME TablesGrow, NEW x, TaskOK(x)
  PROVE  TaskOK(x)'
BY DEF TaskOK, TablesGrow

\* A task that is well formed stays so when the tables grow.
LEMMA TasksKept ==
  ASSUME TablesGrow, TasksOK, UNCHANGED task
  PROVE  TasksOK'
BY TaskKept DEF TasksOK

\* To change one task it is enough that its new value is well formed.
LEMMA OneTaskChanges ==
  ASSUME TablesGrow, TasksOK, NEW t \in Tasks, NEW x, TaskOK(x)',
         task' = [task EXCEPT ![t] = x]
  PROVE  TasksOK'
<1>1. x \in Task
  BY DEF TaskOK
<1>2. task' \in [Tasks -> Task]
  BY <1>1 DEF TasksOK
<1>3. \A u \in Tasks : u # t => TaskOK(task[u])'
  <2> SUFFICES ASSUME NEW u \in Tasks, u # t PROVE TaskOK(task[u])'
    OBVIOUS
  <2>1. TaskOK(task[u]) /\ task'[u] = task[u]
    BY DEF TasksOK
  <2> QED
    BY <2>1, TaskKept DEF TaskOK, TablesGrow
<1>4. task'[t] = x
  BY DEF TasksOK
<1> QED
  BY <1>2, <1>3, <1>4 DEF TasksOK

\* Suspended custom actions still refer to existing choices when choices grow.
LEMMA ParsingKept ==
  ASSUME TablesGrow, ParsingOK, parsing' \subseteq parsing
  PROVE  ParsingOK'
BY DEF ParsingOK, TablesGrow

-----------------------------------------------------------------------------
(* The steps of a task *)

\* Accepting a generate request keeps the state well formed.
LEMMA AcceptWellFormed ==
  ASSUME WellFormed, Generate
  PROVE  WellFormed'
<1>1. PICK t \in Tasks, branch \in DOMAIN branches, key \in Keys :
        Accept(t, branch, key) /\ UNCHANGED parsing
  BY DEF Generate
<1>rec. PICK x : x = [NoTask EXCEPT !.pc = "accepted", !.branch = branch, !.key = key,
                                !.distance = ScenesSinceLastChoice(branch)]
  OBVIOUS
<1>2. RowsOK /\ reserved \in SUBSET Nat /\ TasksOK /\ ParsingOK
  BY DEF WellFormed
<1>3. branch \in Nat
  BY <1>2, Tables DEF RowsOK
<1>4. ScenesSinceLastChoice(branch) \in Nat
  <2> DEFINE path == ScenesOn(branch) \cap DOMAIN segments
             scenes == {s \in path : \A r \in path : s <= r => ChoicePointForSegment(r) = None}
  <2>1. Len(segments) \in Nat /\ DOMAIN segments = 1 .. Len(segments)
    BY <1>2, Tables DEF RowsOK
  <2>2. IsFiniteSet(1 .. Len(segments)) /\ scenes \in SUBSET (1 .. Len(segments))
    BY <2>1, FS_Interval
  <2> HIDE DEF scenes
  <2>3. Cardinality(scenes) \in Nat
    BY <2>2, FS_Subset, FS_CardinalityType
  <2> QED
    BY <2>3 DEF ScenesSinceLastChoice, scenes
<1>5. x \in Task
  BY <1>rec, <1>3, <1>4, NoTaskOK DEF TaskOK, Task, Phases, NoTask
<1>6. x.pc = "accepted" /\ x.branch = branch /\ x.key = key
  BY <1>rec DEF NoTask
<1>7. task' = [task EXCEPT ![t] = x] /\ reserved' = reserved \cup {branch}
      /\ UNCHANGED <<repositoryVars, parsing>>
  BY <1>1, <1>rec DEF Accept
<1>8. TablesGrow /\ RowsOK'
  BY <1>2, <1>7
  DEF TablesGrow, repositoryVars, RowsOK, RepositoryTypeOK, RowReferencesExist
<1>9. TaskOK(x)'
  BY <1>5, <1>6, <1>7 DEF TaskOK, repositoryVars
<1>10. TasksOK' /\ ParsingOK'
  BY <1>2, <1>7, <1>8, <1>9, OneTaskChanges, ParsingKept
<1> QED
  BY <1>2, <1>3, <1>7, <1>8, <1>10 DEF WellFormed

\* A step of a task that changes no table leaves everything well-formed if the
\* new record of the task is.
LEMMA TaskOnly ==
  ASSUME WellFormed, NEW t \in Tasks, NEW x, TaskOK(x), task' = [task EXCEPT ![t] = x],
         reserved' \subseteq reserved, UNCHANGED <<repositoryVars, parsing>>
  PROVE  WellFormed'
<1>1. RowsOK /\ reserved \in SUBSET Nat /\ TasksOK /\ ParsingOK
  BY DEF WellFormed
<1>2. TablesGrow /\ RowsOK' /\ TaskOK(x)'
  BY <1>1 DEF TablesGrow, repositoryVars, RowsOK, RepositoryTypeOK, RowReferencesExist, TaskOK
<1>3. TasksOK' /\ ParsingOK'
  BY <1>1, <1>2, OneTaskChanges, ParsingKept
<1> QED
  BY <1>1, <1>2, <1>3 DEF WellFormed

\* The record a task ends with.
Ended(t) == [NoTask EXCEPT !.pc = "done", !.branch = task[t].branch]

\* A task that has ended refers only to its branch.
LEMMA EndedOK ==
  ASSUME TasksOK, NEW t \in Tasks, Live(t)
  PROVE  TaskOK(Ended(t))
<1>1. task[t].branch \in Nat /\ task[t].branch \in DOMAIN branches
  BY DEF TasksOK, TaskOK, Task, Live
<1>2. Ended(t) \in Task /\ Ended(t).pc = "done" /\ Ended(t).branch = task[t].branch
  BY <1>1, NoTaskOK DEF TaskOK, Ended, NoTask, Task, Phases
<1> QED
  BY <1>1, <1>2 DEF TaskOK

\* The record of a task whose Writer starts.
LEMMA WriterTaskOK ==
  ASSUME TasksOK, NEW t \in Tasks, task[t].pc \in {"accepted", "director"},
         NEW head \in Nat, NEW plan \in Plan, StartWriter(t, head, plan)
  PROVE  \E x : TaskOK(x) /\ task' = [task EXCEPT ![t] = x]
<1> DEFINE decision == EvaluatePolicy(Frequency, task[t].distance, plan.choice)
           newPlan == [plan EXCEPT !.choice = decision \in {"accept", "force"}]
           limit == decision = "pause"
           x == [task[t] EXCEPT !.pc = "stream", !.head = head, !.plan = newPlan,
                                !.limit = limit]
<1>1. newPlan \in Plan /\ limit \in BOOLEAN
  <2>1. \A v \in BOOLEAN : [plan EXCEPT !.choice = v] \in Plan
    BY DEF Plan
  <2>2. (decision \in {"accept", "force"}) \in BOOLEAN /\ limit \in BOOLEAN
    OBVIOUS
  <2> HIDE DEF decision
  <2> QED
    BY <2>1, <2>2
<1>2. task' = [task EXCEPT ![t] = x]
  BY DEF StartWriter
<1>3. task[t] \in Task /\ TaskOK(task[t])
  BY DEF TasksOK
<1> HIDE DEF newPlan, limit, decision
<1>4. x \in Task /\ x.pc = "stream" /\ x.branch = task[t].branch /\ x.key = task[t].key
  BY <1>1, <1>3 DEF Task, Phases
<1> HIDE DEF x
<1>5. TaskOK(x)
  BY <1>3, <1>4 DEF TaskOK
<1> QED
  BY <1>2, <1>5

\* A live task that ends and changes no table but perhaps the drafts or snapshots.
LEMMA EndTaskWellFormed ==
  ASSUME WellFormed, NEW t \in Tasks, Live(t), EndTask(t), RowsOK', TablesGrow,
         UNCHANGED <<reserved, parsing>>
  PROVE  WellFormed'
<1>1. PICK x : x = Ended(t)
  OBVIOUS
<1>2. TaskOK(x) /\ task' = [task EXCEPT ![t] = x]
  BY <1>1, EndedOK DEF WellFormed, EndTask, Ended
<1>3. TaskOK(x)'
  BY <1>2, TaskKept
<1>4. TasksOK' /\ ParsingOK'
  BY <1>2, <1>3, OneTaskChanges, ParsingKept DEF WellFormed
<1> QED
  BY <1>4 DEF WellFormed

\* No table changes.
LEMMA NoRowChanges ==
  ASSUME RowsOK, UNCHANGED repositoryVars
  PROVE  RowsOK' /\ TablesGrow
BY DEF TablesGrow, repositoryVars, RowsOK, RepositoryTypeOK, RowReferencesExist

\* The memory updates change only the snapshots and the drafts.
LEMMA MemoryRows ==
  ASSUME WellFormed, NEW t \in Tasks, task[t].pc \in {"memory", "rolling"},
         NEW memory \in Memory,
         \/ SaveMemorySnapshot(segments[task[t].segment].branch, task[t].segment, memory)
         \/ UNCHANGED snapshots,
         drafts' = drafts \/ DeleteGenerationDraft(task[t].branch),
         UNCHANGED <<story, branches, segments, choices>>
  PROVE  RowsOK' /\ TablesGrow
<1>1. RowsOK /\ task[t].segment \in DOMAIN segments
  BY DEF WellFormed, TasksOK, TaskOK
<1>2. task[t].segment \in Nat /\ segments[task[t].segment].branch \in Nat
  BY <1>1, Tables DEF RowsOK, Segment
<1>3. snapshots' \in Seq(Snapshot)
  BY <1>1, <1>2, SaveMemorySnapshotType DEF RowsOK, RepositoryTypeOK
<1>4. drafts' \in SUBSET Draft
  BY <1>1 DEF RowsOK, RepositoryTypeOK, DeleteGenerationDraft
<1> QED
  BY <1>1, <1>3, <1>4 DEF RowsOK, RepositoryTypeOK, RowReferencesExist, TablesGrow

\* Committing a scene keeps the state well formed: the scene the task goes on with
\* exists, the new one or the one that its key already had.
LEMMA CommitWellFormed ==
  ASSUME WellFormed, NEW t \in Tasks, CommitScene(t), UNCHANGED parsing
  PROVE  WellFormed'
<1> DEFINE existing == SegmentByKey(task[t].key)
           owner == IF existing = None THEN task[t].branch ELSE segments[existing].branch
           segment == IF existing = None THEN Len(segments) + 1 ELSE existing
<1>1. /\ task[t].pc = "stream"
      /\ CommitGenerationBundle(task[t].branch, task[t].head, task[t].key,
                                task[t].plan, FinalStatus(t))
      /\ task' = [task EXCEPT ![t].pc = "memory", ![t].segment = segment,
                              ![t].base = LatestMemory(owner)]
      /\ UNCHANGED reserved
  BY DEF CommitScene
<1>2. RowsOK /\ task[t] \in Task /\ TaskOK(task[t])
  BY DEF WellFormed, TasksOK
<1>3. /\ task[t].branch \in DOMAIN branches /\ task[t].key \in Keys
      /\ task[t].plan \in Plan /\ FinalStatus(t) \in StoryStatus
  BY <1>1, <1>2 DEF TaskOK, Task, FinalStatus, StoryStatus
<1>4. RowsOK' /\ TablesGrow
  BY <1>1, <1>2, <1>3, CommitRows, CommitGrows
<1>5. segment \in DOMAIN segments' /\ segment \in Nat
  <2>1. InsertSegmentBundle(task[t].branch, branches[task[t].branch].head, task[t].key,
                            task[t].plan)
    BY <1>1 DEF CommitGenerationBundle, CanCommit
  <2>2. Len(segments) \in Nat /\ DOMAIN segments = 1 .. Len(segments)
    BY <1>2, Tables DEF RowsOK
  <2>3. CASE existing = None
    <3>1. segments' \in Seq(Segment) /\ Len(segments') = Len(segments) + 1
      BY <1>2, <1>3, <2>1, <2>3, InsertRows
    <3> QED
      BY <2>2, <2>3, <3>1, LenProperties
  <2>4. CASE existing # None
    <3>1. existing \in DOMAIN segments
      BY <1>2, <2>4, KeyLookup DEF RowsOK
    <3> QED
      BY <1>4, <2>2, <2>4, <3>1 DEF TablesGrow
  <2> QED
    BY <2>3, <2>4
<1>6. PICK memory : memory = LatestMemory(owner)
  OBVIOUS
<1>7. memory \in Memory
  BY <1>2, <1>6, MemoryTypes DEF RowsOK
<1>8. PICK x : x = [task[t] EXCEPT !.pc = "memory", !.segment = segment, !.base = memory]
  OBVIOUS
<1> HIDE DEF segment, owner
<1>9. /\ x \in Task /\ x.pc = "memory" /\ x.branch = task[t].branch
      /\ x.key = task[t].key /\ x.segment = segment
  BY <1>2, <1>5, <1>7, <1>8 DEF Task, Phases
<1>10. task' = [task EXCEPT ![t] = x]
  BY <1>1, <1>6, <1>8
<1>11. TaskOK(x)'
  BY <1>3, <1>4, <1>5, <1>9 DEF TaskOK, TablesGrow
<1>12. TasksOK' /\ ParsingOK'
  BY <1>4, <1>10, <1>11, OneTaskChanges, ParsingKept DEF WellFormed
<1> QED
  BY <1>1, <1>4, <1>12 DEF WellFormed

\* Saving the memory of a scene keeps the state well formed.
LEMMA MemoryAnswerWellFormed ==
  ASSUME WellFormed, NEW t \in Tasks, NEW updated \in BOOLEAN, MemoryAnswer(t, updated),
         UNCHANGED parsing
  PROVE  WellFormed'
<1> DEFINE branch == segments[task[t].segment].branch
           evolved == [task[t].base EXCEPT !.scenes = @ \cup {task[t].segment}]
<1>1. /\ task[t].pc = "memory"
      /\ SaveMemorySnapshot(branch, task[t].segment, evolved) \/ UNCHANGED snapshots
      /\ UNCHANGED <<story, branches, segments, choices, reserved>>
      /\ \/ /\ task' = [task EXCEPT ![t].pc = "rolling",
                          ![t].base = IF updated THEN evolved ELSE LatestMemory(branch)]
            /\ UNCHANGED drafts
         \/ EndCommitted(t)
  BY DEF MemoryAnswer
<1>2. RowsOK /\ task[t] \in Task /\ TaskOK(task[t])
  BY DEF WellFormed, TasksOK
<1>3. PICK memory : memory = evolved
  OBVIOUS
<1>4. memory \in Memory
  <2>1. task[t].base \in Memory /\ task[t].segment \in Nat
    BY <1>2 DEF Task
  <2> QED
    BY <1>3, <2>1 DEF Memory
<1>5. RowsOK' /\ TablesGrow
  <2>1. SaveMemorySnapshot(branch, task[t].segment, memory) \/ UNCHANGED snapshots
    BY <1>1, <1>3
  <2>2. drafts' = drafts \/ DeleteGenerationDraft(task[t].branch)
    BY <1>1 DEF EndCommitted
  <2> QED
    BY <1>1, <1>4, <2>1, <2>2, MemoryRows
<1>6. CASE EndCommitted(t)
  BY <1>1, <1>5, <1>6, EndTaskWellFormed DEF EndCommitted, Live
<1>7. CASE ~EndCommitted(t)
  <2>1. PICK base : base = IF updated THEN evolved ELSE LatestMemory(branch)
    OBVIOUS
  <2>2. base \in Memory
    BY <1>2, <1>3, <1>4, <2>1, MemoryTypes DEF RowsOK
  <2>3. PICK x : x = [task[t] EXCEPT !.pc = "rolling", !.base = base]
    OBVIOUS
  <2> HIDE DEF branch, evolved
  <2>4. /\ x \in Task /\ x.pc = "rolling" /\ x.branch = task[t].branch
        /\ x.key = task[t].key /\ x.segment = task[t].segment
    BY <1>2, <2>2, <2>3 DEF Task, Phases
  <2>5. task' = [task EXCEPT ![t] = x]
    BY <1>1, <1>7, <2>1, <2>3
  <2>6. TaskOK(x)
    BY <1>1, <1>2, <2>4 DEF TaskOK
  <2>7. TaskOK(x)'
    BY <1>5, <2>6, TaskKept
  <2>8. TasksOK' /\ ParsingOK'
    BY <1>5, <2>5, <2>7, OneTaskChanges, ParsingKept DEF WellFormed
  <2> QED
    BY <1>1, <1>5, <2>8 DEF WellFormed
<1> QED
  BY <1>6, <1>7

\* Saving a rolling summary keeps the state well formed.
LEMMA RollingAnswerWellFormed ==
  ASSUME WellFormed, NEW t \in Tasks, NEW updated \in BOOLEAN, RollingAnswer(t, updated),
         UNCHANGED parsing
  PROVE  WellFormed'
<1>1. PICK memory : memory = task[t].base
  OBVIOUS
<1>2. memory \in Memory
  BY <1>1 DEF WellFormed, TasksOK, Task
<1>3. /\ task[t].pc = "rolling"
      /\ \/ SaveMemorySnapshot(segments[task[t].segment].branch, task[t].segment, memory)
         \/ UNCHANGED snapshots
      /\ EndCommitted(t)
      /\ UNCHANGED <<story, branches, segments, choices, reserved>>
  BY <1>1 DEF RollingAnswer
<1>4. drafts' = drafts \/ DeleteGenerationDraft(task[t].branch)
  BY <1>3 DEF EndCommitted
<1>5. RowsOK' /\ TablesGrow
  BY <1>2, <1>3, <1>4, MemoryRows
<1> QED
  BY <1>3, <1>5, EndTaskWellFormed DEF EndCommitted, Live

\* A task that is dropped with its response.
LEMMA ForgetTaskWellFormed ==
  ASSUME WellFormed, NEW t \in Tasks, task' = [task EXCEPT ![t] = NoTask],
         reserved' \subseteq reserved, UNCHANGED <<repositoryVars, parsing>>
  PROVE  WellFormed'
<1>1. PICK x : x = NoTask
  OBVIOUS
<1>2. TaskOK(x) /\ task' = [task EXCEPT ![t] = x]
  BY <1>1, NoTaskOK
<1> QED
  BY <1>2, TaskOnly

\* No step of a task destroys a row that another task or a row refers to.
LEMMA TaskMovesWellFormed ==
  ASSUME WellFormed, NEW t \in Tasks, TaskMoves(t)
  PROVE  WellFormed'
<1> USE DEF TaskMoves
<1>0. RowsOK /\ TasksOK /\ task[t] \in Task /\ TaskOK(task[t]) /\ UNCHANGED parsing
  BY DEF WellFormed, TasksOK
<1>1. ASSUME Live(t), EndTask(t), UNCHANGED <<repositoryVars, reserved>>
      PROVE  WellFormed'
  BY <1>0, <1>1, NoRowChanges, EndTaskWellFormed
<1>2. CASE StartRejected(t)
  BY <1>1, <1>2 DEF StartRejected, Live
<1>3. CASE StartDirector(t)
  <2>1. PICK x : x = [task[t] EXCEPT !.pc = "director",
                                     !.head = branches[task[t].branch].head]
    OBVIOUS
  <2>2. branches[task[t].branch].head \in Nat
    <3>1. task[t].branch \in DOMAIN branches
      BY <1>0, <1>3 DEF StartDirector, TaskOK
    <3> QED
      BY <1>0, <3>1, Tables DEF RowsOK, Branch
  <2>3. x \in Task /\ x.pc = "director" /\ x.branch = task[t].branch /\ x.key = task[t].key
    BY <1>0, <2>1, <2>2 DEF Task, Phases
  <2>4. TaskOK(x)
    BY <1>0, <1>3, <2>3 DEF TaskOK, StartDirector
  <2>5. task' = [task EXCEPT ![t] = x] /\ UNCHANGED <<repositoryVars, reserved>>
    BY <1>3, <2>1 DEF StartDirector
  <2> QED
    BY <1>0, <2>4, <2>5, TaskOnly
<1>4. CASE StartFromDraft(t)
  <2>1. PICK draft \in DraftOf(task[t].branch) :
          StartWriter(t, branches[task[t].branch].head, draft.plan)
    BY <1>4 DEF StartFromDraft
  <2>2. draft.plan \in Plan
    BY <1>0 DEF RowsOK, RepositoryTypeOK, DraftOf, Draft
  <2>3. branches[task[t].branch].head \in Nat /\ task[t].pc = "accepted"
    <3>1. task[t].branch \in DOMAIN branches /\ task[t].pc = "accepted"
      BY <1>0, <1>4 DEF StartFromDraft, TaskOK
    <3> QED
      BY <1>0, <3>1, Tables DEF RowsOK, Branch
  <2>4. PICK head : head = branches[task[t].branch].head
    OBVIOUS
  <2>5. PICK x : TaskOK(x) /\ task' = [task EXCEPT ![t] = x]
    BY <1>0, <2>1, <2>2, <2>3, <2>4, WriterTaskOK
  <2> QED
    BY <1>0, <1>4, <2>5, TaskOnly DEF StartFromDraft
<1>5. CASE \E suggestion \in BOOLEAN : DirectorPlans(t, suggestion)
  <2>1. PICK suggestion \in BOOLEAN : DirectorPlans(t, suggestion)
    BY <1>5
  <2>2. PICK head, plan : head = task[t].head
                          /\ plan = [plannedFor |-> task[t].head, choice |-> suggestion]
    OBVIOUS
  <2>3. head \in Nat /\ plan \in Plan
    BY <1>0, <2>2 DEF Task, Plan
  <2>4. StartWriter(t, head, plan) /\ task[t].pc = "director"
    BY <2>1, <2>2 DEF DirectorPlans
  <2>5. PICK x : TaskOK(x) /\ task' = [task EXCEPT ![t] = x]
    BY <1>0, <2>3, <2>4, WriterTaskOK
  <2> QED
    BY <1>0, <2>1, <2>5, TaskOnly DEF DirectorPlans
<1>6. CASE ModelFails(t)
  BY <1>1, <1>6 DEF ModelFails, Live
<1>7. CASE PauseAtChunk(t)
  <2>1. RowsOK'
    BY <1>0, <1>7, SaveDraftRows DEF PauseAtChunk, Task
  <2>2. TablesGrow
    BY <1>7 DEF PauseAtChunk, SaveGenerationDraft, TablesGrow
  <2> QED
    BY <1>0, <1>7, <2>1, <2>2, EndTaskWellFormed DEF PauseAtChunk, Live
<1>8. CASE CommitScene(t)
  BY <1>0, <1>8, CommitWellFormed
<1>9. CASE CommitRejected(t)
  BY <1>1, <1>9 DEF CommitRejected, Live
<1>10. CASE \E updated \in BOOLEAN : MemoryAnswer(t, updated)
  BY <1>0, <1>10, MemoryAnswerWellFormed
<1>11. CASE \E updated \in BOOLEAN : RollingAnswer(t, updated)
  BY <1>0, <1>11, RollingAnswerWellFormed
<1>12. CASE DrainResponse(t)
  BY <1>0, <1>12, ForgetTaskWellFormed DEF DrainResponse, CloseResponse
<1> QED
  BY <1>2, <1>3, <1>4, <1>5, <1>6, <1>7, <1>8, <1>9, <1>10, <1>11, <1>12 DEF TaskStep

-----------------------------------------------------------------------------
(* The other handlers and the faults *)

\* A story whose Bible has just been confirmed is well formed.
LEMMA InitWellFormed == Init => WellFormed
<1> SUFFICES ASSUME Init PROVE WellFormed
  OBVIOUS
<1>1. story \in Story /\ drafts \in SUBSET Draft
  BY DEF Init, RepositoryInit, Story, StoryStatus, Root
<1>2. branches \in Seq(Branch) /\ Len(branches) = 1 /\ DOMAIN branches = {1}
  <2>1. [head |-> None, parent |-> None, forkSegment |-> None, forkChoice |-> None] \in Branch
    BY DEF Branch, None
  <2> QED
    BY <2>1 DEF Init, RepositoryInit
<1>3. segments = <<>> /\ choices = <<>> /\ snapshots = <<>>
  BY DEF Init, RepositoryInit
<1>4. RepositoryTypeOK
  BY <1>1, <1>2, <1>3 DEF RepositoryTypeOK
<1>5. RowReferencesExist
  BY <1>2, <1>3 DEF Init, RepositoryInit, RowReferencesExist, None, Root
<1>6. TasksOK /\ ParsingOK /\ reserved \in SUBSET Nat
  BY NoTaskOK DEF TasksOK, TaskOK, ParsingOK, Init, ServiceInit
<1> QED
  BY <1>4, <1>5, <1>6 DEF WellFormed, RowsOK

\* A transaction of another handler leaves the tasks alone.
LEMMA HandlerWellFormed ==
  ASSUME WellFormed, RowsOK', TablesGrow, UNCHANGED serviceVars, ParsingOK'
  PROVE  WellFormed'
BY TasksKept DEF WellFormed, serviceVars

\* Pause, resume and activate write the story row only and keep it well formed.
LEMMA StoryRowWellFormed ==
  ASSUME WellFormed,
         \/ PauseStory
         \/ ResumeStory
         \/ \E b \in DOMAIN branches : ActivateBranch(b),
         UNCHANGED <<serviceVars, parsing>>
  PROVE  WellFormed'
<1>1. RowsOK' /\ TablesGrow
  BY StoryRowTransactions
  DEF WellFormed, PauseStory, ResumeStory, ActivateBranch, TablesGrow
<1> QED
  BY <1>1, HandlerWellFormed, ParsingKept DEF WellFormed

\* Selecting an option, or sending a custom action to the model, keeps the state
\* well formed.
LEMMA SelectWellFormed ==
  ASSUME WellFormed, Select
  PROVE  WellFormed'
<1>1. PICK c \in DOMAIN choices :
        \/ \E option \in Options : SelectOption(c, choices[c].version, option)
        \/ \E action \in CustomActions : ParseCustomAction(c, choices[c].version, action)
  BY DEF Select
<1>2. CASE \E option \in Options : SelectOption(c, choices[c].version, option)
  <2>1. PICK option \in Options : SelectOption(c, choices[c].version, option)
    BY <1>2
  <2>2. /\ SubmitChoice(c, choices[c].version, option) /\ option \in Selections
        /\ UNCHANGED <<serviceVars, parsing>>
    BY <2>1 DEF SelectOption, Selections
  <2>3. RowsOK' /\ TablesGrow
    BY <2>2, SubmitRows, SubmitGrows DEF WellFormed
  <2> QED
    BY <2>2, <2>3, HandlerWellFormed, ParsingKept DEF WellFormed
<1>3. CASE \E action \in CustomActions : ParseCustomAction(c, choices[c].version, action)
  <2>1. PICK action \in CustomActions : ParseCustomAction(c, choices[c].version, action)
    BY <1>3
  <2> DEFINE request == [choice |-> c, version |-> choices[c].version, action |-> action]
  <2>2. request \in [choice : Nat, version : Nat, action : CustomActions]
    BY Tables DEF WellFormed, RowsOK, Choice
  <2>3. RowsOK' /\ TablesGrow /\ UNCHANGED <<choices, serviceVars>>
    BY <2>1, NoRowChanges DEF ParseCustomAction, WellFormed, repositoryVars
  <2>4. parsing' = parsing \cup {request}
    BY <2>1 DEF ParseCustomAction
  <2>5. ParsingOK'
    BY <2>2, <2>3, <2>4 DEF WellFormed, ParsingOK
  <2> QED
    BY <2>3, <2>5, HandlerWellFormed
<1> QED
  BY <1>1, <1>2, <1>3

\* The answer to a custom action keeps the state well formed, whatever happened
\* while it was awaited.
LEMMA ModelAnswersCustomWellFormed ==
  ASSUME WellFormed, ModelAnswersCustom
  PROVE  WellFormed'
<1>1. PICK request \in parsing : SelectCustom(request) \/ RejectCustom(request)
  BY DEF ModelAnswersCustom
<1>2. /\ request.choice \in DOMAIN choices /\ request.action \in Selections
      /\ parsing' \subseteq parsing /\ UNCHANGED serviceVars
  BY <1>1 DEF WellFormed, ParsingOK, Selections, SelectCustom, RejectCustom
<1>3. CASE SelectCustom(request)
  <2>1. RowsOK' /\ TablesGrow
    BY <1>2, <1>3, SubmitRows, SubmitGrows DEF SelectCustom, WellFormed
  <2> QED
    BY <1>2, <2>1, HandlerWellFormed, ParsingKept DEF WellFormed
<1>4. CASE RejectCustom(request)
  <2>1. RowsOK' /\ TablesGrow
    BY <1>4, NoRowChanges DEF RejectCustom, WellFormed
  <2> QED
    BY <1>2, <2>1, HandlerWellFormed, ParsingKept DEF WellFormed
<1> QED
  BY <1>1, <1>3, <1>4

\* A fork keeps the state well formed: its copy of the choice exists with it.
LEMMA CreateBranchWellFormed ==
  ASSUME WellFormed, NEW c \in DOMAIN choices, CreateBranch(c)
  PROVE  WellFormed'
<1>1. RowsOK' /\ TablesGrow /\ UNCHANGED <<serviceVars, parsing>>
  BY ForkRows, ForkGrows DEF CreateBranch, WellFormed
<1> QED
  BY <1>1, HandlerWellFormed, ParsingKept DEF WellFormed

\* Disconnects, dropped responses and restarts keep the state well formed.
LEMMA FaultWellFormed ==
  ASSUME WellFormed, Fault
  PROVE  WellFormed'
<1>1. CASE \E t \in Tasks : Disconnect(t) /\ UNCHANGED parsing
  BY <1>1, ForgetTaskWellFormed DEF Disconnect, CloseResponse
<1>2. CASE \E t \in Tasks : DropResponse(t) /\ UNCHANGED parsing
  BY <1>2, ForgetTaskWellFormed DEF DropResponse
<1>3. CASE Restart
  <2>1. RowsOK'
    BY <1>3, StoryRowTransactions DEF Restart, WellFormed
  <2>2. TaskOK(NoTask)'
    BY NoTaskOK DEF TaskOK, NoTask
  <2>3. task' = [t \in Tasks |-> NoTask] /\ reserved' = {} /\ parsing' = {}
    BY <1>3 DEF Restart
  <2>4. TasksOK'
    BY <2>2, <2>3 DEF TasksOK, TaskOK
  <2> QED
    BY <2>1, <2>3, <2>4 DEF WellFormed, ParsingOK
<1> QED
  BY <1>1, <1>2, <1>3 DEF Fault

\* Every step keeps the state well formed.
LEMMA NextWellFormed == WellFormed /\ [Next]_vars => WellFormed'
<1> SUFFICES ASSUME WellFormed, [Next]_vars PROVE WellFormed'
  OBVIOUS
<1>1. CASE Generate
  BY <1>1, AcceptWellFormed
<1>2. CASE \E t \in Tasks : TaskMoves(t)
  BY <1>2, TaskMovesWellFormed
<1>3. CASE RequestPause \/ Resume \/ \E b \in DOMAIN branches : Activate(b)
  BY <1>3, StoryRowWellFormed DEF RequestPause, Resume, Activate
<1>4. CASE Select
  BY <1>4, SelectWellFormed
<1>5. CASE ModelAnswersCustom
  BY <1>5, ModelAnswersCustomWellFormed
<1>6. CASE \E c \in DOMAIN choices : CreateBranch(c)
  BY <1>6, CreateBranchWellFormed
<1>7. CASE Fault
  BY <1>7, FaultWellFormed
<1>8. CASE UNCHANGED vars
  <2>1. RowsOK' /\ TablesGrow
    BY <1>8, NoRowChanges DEF WellFormed, vars, repositoryVars
  <2> QED
    BY <1>8, <2>1, HandlerWellFormed, ParsingKept DEF WellFormed, vars, serviceVars
<1> QED
  BY <1>1, <1>2, <1>3, <1>4, <1>5, <1>6, <1>7, <1>8 DEF Next

\* Every reachable state is well formed.
LEMMA AlwaysWellFormed == Spec => []WellFormed
BY InitWellFormed, NextWellFormed, PTL DEF Spec

\* The tables, the tasks and the reservations keep their types, whatever the
\* handlers, the model's answers and the faults do.
THEOREM TypeCorrect == Spec => []TypeOK
BY AlwaysWellFormed, WellFormedParts, PTL

\* No row, task or suspended request ever refers to a row that does not exist:
\* the ids that a task reads before an await still name rows after it.
THEOREM ReferencesAlwaysExist == Spec => []ReferencesExist
BY AlwaysWellFormed, WellFormedParts, PTL

-----------------------------------------------------------------------------
(* One task per branch *)

\* The invariant of the reservations: the branch of a request in flight is
\* reserved until the request ends, and no two requests share a branch.
Reservations ==
  /\ OneTaskPerBranch
  /\ \A t \in Tasks : Live(t) => task[t].branch \in reserved

\* Whether task u is in flight, and on which branch, does not change.
SameLife(u) == (Live(u)' <=> Live(u)) /\ (Live(u) => task'[u].branch = task[u].branch)

\* A step of a task keeps its branch, and wakes or ends no other task.
LEMMA TaskKeepsBranch ==
  ASSUME TasksOK, NEW t \in Tasks, TaskMoves(t), ~DrainResponse(t)
  PROVE  /\ reserved' = reserved
         /\ \A u \in Tasks : SameLife(u)
<1>0. task \in [Tasks -> Task]
  BY DEF TasksOK
<1>1. ASSUME Live(t), EndTask(t)
      PROVE  \A u \in Tasks : SameLife(u)
  BY <1>0, <1>1 DEF EndTask, NoTask, Live, SameLife
<1>2. ASSUME NEW head, NEW plan, Live(t), StartWriter(t, head, plan)
      PROVE  \A u \in Tasks : SameLife(u)
  BY <1>0, <1>2 DEF StartWriter, Live, SameLife, Task
<1>3. CASE StartRejected(t) \/ ModelFails(t) \/ CommitRejected(t) \/ PauseAtChunk(t)
  BY <1>1, <1>3 DEF StartRejected, ModelFails, CommitRejected, PauseAtChunk, Live, SameLife
<1>4. CASE StartDirector(t)
  BY <1>0, <1>4 DEF StartDirector, Live, SameLife, Task
<1>5. CASE StartFromDraft(t)
  BY <1>2, <1>5 DEF StartFromDraft, Live, SameLife
<1>6. CASE \E suggestion \in BOOLEAN : DirectorPlans(t, suggestion)
  BY <1>2, <1>6 DEF DirectorPlans, Live, SameLife
<1>7. CASE CommitScene(t)
  BY <1>0, <1>7 DEF CommitScene, Live, SameLife, Task
<1>8. CASE \E updated \in BOOLEAN : MemoryAnswer(t, updated)
  <2>1. PICK updated \in BOOLEAN : MemoryAnswer(t, updated)
    BY <1>8
  <2>2. CASE EndCommitted(t)
    BY <1>1, <2>1, <2>2 DEF EndCommitted, MemoryAnswer, Live
  <2>3. CASE ~EndCommitted(t)
    BY <1>0, <2>1, <2>3 DEF MemoryAnswer, Live, Task, SameLife
  <2> QED
    BY <2>1, <2>2, <2>3 DEF MemoryAnswer
<1>9. CASE \E updated \in BOOLEAN : RollingAnswer(t, updated)
  BY <1>1, <1>9 DEF RollingAnswer, EndCommitted, Live, SameLife
<1> QED
  BY <1>3, <1>4, <1>5, <1>6, <1>7, <1>8, <1>9 DEF TaskMoves, TaskStep

\* At the start nothing is reserved and no task is in flight.
LEMMA InitReservations == Init => Reservations
BY DEF Init, ServiceInit, Reservations, OneTaskPerBranch, Live, NoTask

\* Every step keeps a reservation with each task in flight, and tasks on distinct
\* branches.
LEMMA NextReservations == WellFormed /\ Reservations /\ [Next]_vars => Reservations'
<1> SUFFICES ASSUME WellFormed, Reservations, [Next]_vars PROVE Reservations'
  OBVIOUS
<1>0. task \in [Tasks -> Task] /\ TasksOK
  BY DEF WellFormed, TasksOK
<1> USE DEF Reservations, OneTaskPerBranch
<1>1. CASE Generate
  <2>1. PICK t \in Tasks, branch \in DOMAIN branches, key \in Keys : Accept(t, branch, key)
    BY <1>1 DEF Generate
  <2>2. /\ branch \notin reserved /\ reserved' = reserved \cup {branch}
        /\ task'[t].branch = branch
        /\ \A u \in Tasks : u # t => task'[u] = task[u]
    BY <1>0, <2>1 DEF Accept, NoTask
  <2> QED
    BY <2>2 DEF Live
<1>2. ASSUME NEW t \in Tasks, CloseResponse(t)
      PROVE  Reservations'
  <2>1. /\ reserved' = reserved \ {task[t].branch} /\ Live(t) /\ ~Live(t)'
        /\ \A u \in Tasks : u # t => task'[u] = task[u]
    BY <1>0, <1>2 DEF CloseResponse, NoTask, Live
  <2> QED
    BY <2>1 DEF Live
<1>3. CASE \E t \in Tasks : TaskMoves(t)
  <2>1. PICK t \in Tasks : TaskMoves(t)
    BY <1>3
  <2>2. CASE DrainResponse(t)
    BY <1>2, <2>2 DEF DrainResponse
  <2>3. CASE ~DrainResponse(t)
    BY <1>0, <2>1, <2>3, TaskKeepsBranch DEF SameLife
  <2> QED
    BY <2>2, <2>3
<1>4. CASE UNCHANGED serviceVars
  BY <1>4 DEF serviceVars, Live
<1>5. CASE Fault
  <2>1. CASE \E t \in Tasks : Disconnect(t)
    BY <1>2, <2>1 DEF Disconnect
  <2>2. CASE \E t \in Tasks : DropResponse(t)
    <3>1. PICK t \in Tasks : DropResponse(t)
      BY <2>2
    <3>2. /\ reserved' = reserved /\ ~Live(t)'
          /\ \A u \in Tasks : u # t => task'[u] = task[u]
      BY <1>0, <3>1 DEF DropResponse, NoTask, Live
    <3> QED
      BY <3>2 DEF Live
  <2>3. CASE Restart
    BY <2>3 DEF Restart, NoTask, Live
  <2> QED
    BY <1>5, <2>1, <2>2, <2>3 DEF Fault
<1>6. CASE RequestPause \/ Resume \/ \E b \in DOMAIN branches : Activate(b)
  BY <1>4, <1>6 DEF RequestPause, Resume, Activate
<1>7. CASE Select \/ ModelAnswersCustom
  BY <1>4, <1>7 DEF Select, SelectOption, ParseCustomAction, ModelAnswersCustom, SelectCustom,
                    RejectCustom
<1>8. CASE \E c \in DOMAIN choices : CreateBranch(c)
  BY <1>4, <1>8 DEF CreateBranch
<1>9. CASE UNCHANGED vars
  BY <1>4, <1>9 DEF vars, serviceVars
<1> QED
  BY <1>1, <1>3, <1>5, <1>6, <1>7, <1>8, <1>9 DEF Next

\* At any moment a branch has at most one generation task: a reservation
\* outlives every await of its task and falls only with it.
THEOREM OneTaskPerBranchAlways == Spec => []OneTaskPerBranch
<1>1. Spec => []Reservations
  BY AlwaysWellFormed, InitReservations, NextReservations, PTL DEF Spec
<1>2. Reservations => OneTaskPerBranch
  BY DEF Reservations
<1> QED
  BY <1>1, <1>2, PTL

\* However a request ends, its branch is free again, but for a response that is
\* dropped before it starts.
THEOREM OnlyDroppedResponsesLeak == Spec => OnlyDropLeaks
<1>1. ASSUME WellFormed, [Next]_vars, NEW b, Leaked(b)', ~Leaked(b)
      PROVE  \E t \in Tasks : DropResponse(t)
  <2>0. task \in [Tasks -> Task] /\ TasksOK
    BY <1>1 DEF WellFormed, TasksOK
  <2> USE <1>1 DEF Leaked
  <2>1. CASE Generate
    <3>1. PICK t \in Tasks, branch \in DOMAIN branches, key \in Keys : Accept(t, branch, key)
      BY <2>1 DEF Generate
    <3>2. /\ reserved' = reserved \cup {branch} /\ ~Live(t)
          /\ Live(t)' /\ task'[t].branch = branch
          /\ \A u \in Tasks : u # t => task'[u] = task[u]
      BY <2>0, <3>1 DEF Accept, NoTask, Live
    <3> QED
      BY <3>2 DEF Live
  <2>2. ASSUME NEW t \in Tasks, CloseResponse(t) PROVE FALSE
    <3>1. /\ reserved' = reserved \ {task[t].branch}
          /\ \A u \in Tasks : u # t => task'[u] = task[u]
      BY <2>0, <2>2 DEF CloseResponse
    <3> QED
      BY <3>1 DEF Live
  <2>3. CASE \E t \in Tasks : TaskMoves(t)
    <3>1. PICK t \in Tasks : TaskMoves(t)
      BY <2>3
    <3>2. CASE DrainResponse(t)
      BY <2>2, <3>2 DEF DrainResponse
    <3>3. CASE ~DrainResponse(t)
      BY <2>0, <3>1, <3>3, TaskKeepsBranch DEF SameLife
    <3> QED
      BY <3>2, <3>3
  <2>4. CASE UNCHANGED serviceVars
    BY <2>4 DEF serviceVars, Live
  <2>5. CASE Fault
    <3>1. CASE \E t \in Tasks : Disconnect(t)
      BY <2>2, <3>1 DEF Disconnect
    <3>2. CASE Restart
      BY <3>2 DEF Restart
    <3> QED
      BY <2>5, <3>1, <3>2 DEF Fault
  <2>6. CASE RequestPause \/ Resume \/ \E branch \in DOMAIN branches : Activate(branch)
    BY <2>4, <2>6 DEF RequestPause, Resume, Activate
  <2>7. CASE Select \/ ModelAnswersCustom
    BY <2>4, <2>7 DEF Select, SelectOption, ParseCustomAction, ModelAnswersCustom,
                      SelectCustom, RejectCustom
  <2>8. CASE \E c \in DOMAIN choices : CreateBranch(c)
    BY <2>4, <2>8 DEF CreateBranch
  <2>9. CASE UNCHANGED vars
    BY <2>4, <2>9 DEF vars, serviceVars
  <2> QED
    BY <2>1, <2>3, <2>5, <2>6, <2>7, <2>8, <2>9 DEF Next
<1>2. WellFormed /\ [Next]_vars =>
        [\A b \in reserved' : Leaked(b)' => Leaked(b) \/ \E t \in Tasks : DropResponse(t)]_vars
  BY <1>1
<1> QED
  BY <1>2, AlwaysWellFormed, PTL DEF Spec, OnlyDropLeaks

-----------------------------------------------------------------------------
(* Scenes and choices *)

\* Only a commit adds a scene or moves a head; only a fork adds a branch.
LEMMA SceneSteps ==
  ASSUME [Next]_vars
  PROVE  \/ UNCHANGED <<segments, branches>>
         \/ UNCHANGED segments /\ \E c \in DOMAIN choices : ForkAtChoice(c)
         \/ \E t \in Tasks : CommitScene(t)
<1>1. CASE Generate
  BY <1>1 DEF Generate, Accept, repositoryVars
<1>2. CASE \E t \in Tasks : TaskMoves(t)
  BY <1>2 DEF TaskMoves, TaskStep, StartRejected, StartDirector, StartFromDraft, DirectorPlans,
              ModelFails, PauseAtChunk, SaveGenerationDraft, CommitRejected, MemoryAnswer,
              RollingAnswer, DrainResponse, CloseResponse, repositoryVars
<1>3. CASE RequestPause \/ Resume \/ \E b \in DOMAIN branches : Activate(b)
  BY <1>3 DEF RequestPause, PauseStory, Resume, ResumeStory, Activate, ActivateBranch
<1>4. CASE Select
  BY <1>4 DEF Select, SelectOption, SubmitChoice, ParseCustomAction, repositoryVars
<1>5. CASE ModelAnswersCustom
  BY <1>5 DEF ModelAnswersCustom, SelectCustom, SubmitChoice, RejectCustom, repositoryVars
<1>6. CASE \E c \in DOMAIN choices : CreateBranch(c)
  BY <1>6 DEF CreateBranch, ForkAtChoice
<1>7. CASE Fault
  BY <1>7 DEF Fault, Disconnect, CloseResponse, DropResponse, Restart,
              RecoverInterruptedGenerations, repositoryVars
<1>8. CASE UNCHANGED vars
  BY <1>8 DEF vars
<1> QED
  BY <1>1, <1>2, <1>3, <1>4, <1>5, <1>6, <1>7, <1>8 DEF Next

\* Row numbers are positive, so none of them is NULL.
LEMMA RowNumbers ==
  ASSUME WellFormed
  PROVE  /\ Len(branches) \in Nat /\ DOMAIN branches = 1 .. Len(branches)
         /\ None \notin DOMAIN branches
         /\ Len(segments) \in Nat /\ DOMAIN segments = 1 .. Len(segments)
         /\ None \notin DOMAIN segments
         /\ Len(choices) \in Nat /\ DOMAIN choices = 1 .. Len(choices)
         /\ None \notin DOMAIN choices
BY Tables DEF WellFormed, RowsOK, None

\* Only a selection, a fork and a commit write the table of choices.
LEMMA ChoiceSteps ==
  ASSUME [Next]_vars
  PROVE  \/ UNCHANGED choices
         \/ \E c, version, selection : SubmitChoice(c, version, selection)
         \/ \E c \in DOMAIN choices : ForkAtChoice(c)
         \/ \E t \in Tasks : CommitScene(t)
<1>1. CASE Generate
  BY <1>1 DEF Generate, Accept, repositoryVars
<1>2. CASE \E t \in Tasks : TaskMoves(t)
  BY <1>2 DEF TaskMoves, TaskStep, StartRejected, StartDirector, StartFromDraft, DirectorPlans,
              ModelFails, PauseAtChunk, SaveGenerationDraft, CommitRejected, MemoryAnswer,
              RollingAnswer, DrainResponse, CloseResponse, repositoryVars
<1>3. CASE RequestPause \/ Resume \/ \E b \in DOMAIN branches : Activate(b)
  BY <1>3 DEF RequestPause, PauseStory, Resume, ResumeStory, Activate, ActivateBranch
<1>4. CASE Select
  BY <1>4 DEF Select, SelectOption, ParseCustomAction, repositoryVars
<1>5. CASE ModelAnswersCustom
  BY <1>5 DEF ModelAnswersCustom, SelectCustom, RejectCustom, repositoryVars
<1>6. CASE \E c \in DOMAIN choices : CreateBranch(c)
  BY <1>6 DEF CreateBranch
<1>7. CASE Fault
  BY <1>7 DEF Fault, Disconnect, CloseResponse, DropResponse, Restart,
              RecoverInterruptedGenerations, repositoryVars
<1>8. CASE UNCHANGED vars
  BY <1>8 DEF vars
<1> QED
  BY <1>1, <1>2, <1>3, <1>4, <1>5, <1>6, <1>7, <1>8 DEF Next

\* A choice stays the choice of its scene.
LEMMA ChoicesKeepTheirScene ==
  ASSUME WellFormed, [Next]_vars
  PROVE  \A c \in DOMAIN choices :
           c \in DOMAIN choices' /\ choices'[c].segment = choices[c].segment
<1>1. choices \in Seq(Choice) /\ \A c \in DOMAIN choices : choices[c] \in Choice
  BY Tables DEF WellFormed, RowsOK, RepositoryTypeOK
<1>2. CASE UNCHANGED choices
  BY <1>2
<1>3. CASE \E c, version, selection : SubmitChoice(c, version, selection)
  BY <1>1, <1>3 DEF SubmitChoice, Choice
<1>4. CASE \E row : choices' = Append(choices, row)
  BY <1>1, <1>4, AppendKeeps
<1>5. CASE \E c \in DOMAIN choices : ForkAtChoice(c)
  BY <1>4, <1>5 DEF ForkAtChoice
<1>6. CASE \E t \in Tasks : CommitScene(t)
  BY <1>2, <1>4, <1>6 DEF CommitScene, CommitGenerationBundle, InsertSegmentBundle
<1> QED
  BY <1>2, <1>3, <1>5, <1>6, ChoiceSteps

\* What a commit that stores a scene finds and leaves.
LEMMA CommittedScene ==
  ASSUME WellFormed, NEW t \in Tasks, CommitScene(t), ~UNCHANGED <<segments, branches>>
  PROVE  /\ story.status = "IDLE" /\ story.current = task[t].branch
         /\ story'.status = FinalStatus(t)
         /\ SegmentByKey(task[t].key) = None
         /\ task[t].branch \in DOMAIN branches
         /\ Len(segments) \in Nat /\ DOMAIN segments = 1 .. Len(segments)
         /\ Len(segments') = Len(segments) + 1 /\ DOMAIN segments' = 1 .. Len(segments')
         /\ \A s \in DOMAIN segments : segments'[s] = segments[s]
         /\ segments'[Len(segments')].branch = task[t].branch
         /\ segments'[Len(segments')].parent = branches[task[t].branch].head
         /\ segments'[Len(segments')].key = task[t].key
         /\ DOMAIN branches' = DOMAIN branches
         /\ branches' = [branches EXCEPT ![task[t].branch].head = Len(segments')]
<1>1. /\ task[t].pc = "stream"
      /\ CommitGenerationBundle(task[t].branch, task[t].head, task[t].key,
                                task[t].plan, FinalStatus(t))
  BY DEF CommitScene
<1>2. RowsOK /\ task[t] \in Task /\ TaskOK(task[t])
  BY DEF WellFormed, TasksOK
<1>3. /\ task[t].branch \in DOMAIN branches /\ task[t].key \in Keys
      /\ task[t].plan \in Plan /\ FinalStatus(t) \in StoryStatus
  BY <1>1, <1>2 DEF TaskOK, Task, FinalStatus, StoryStatus
<1>4. /\ InsertSegmentBundle(task[t].branch, branches[task[t].branch].head, task[t].key,
                             task[t].plan)
      /\ story.status = "IDLE" /\ story.current = task[t].branch
      /\ story'.status = FinalStatus(t)
  BY <1>1, <1>2 DEF CommitGenerationBundle, CanCommit, StateSequence, RowsOK, RepositoryTypeOK,
                    Story
<1>5. /\ SegmentByKey(task[t].key) = None
      /\ segments' \in Seq(Segment)
      /\ Len(segments') = Len(segments) + 1
      /\ \A s \in DOMAIN segments : segments'[s] = segments[s]
      /\ segments'[Len(segments')].branch = task[t].branch
      /\ segments'[Len(segments')].parent = branches[task[t].branch].head
      /\ segments'[Len(segments')].key = task[t].key
      /\ branches' = [branches EXCEPT ![task[t].branch].head = Len(segments')]
  BY <1>2, <1>3, <1>4, InsertRows
<1>6. DOMAIN segments' = 1 .. Len(segments') /\ DOMAIN branches' = DOMAIN branches
  BY <1>5, LenProperties
<1>7. Len(segments) \in Nat /\ DOMAIN segments = 1 .. Len(segments)
  BY <1>2, Tables DEF RowsOK
<1> QED
  BY <1>3, <1>4, <1>5, <1>6, <1>7

\* Two scenes of a branch never follow the same scene: the head of a branch is
\* no scene's parent on it, and the next scene follows the head.
Linear ==
  /\ LinearBranches
  /\ \A s \in DOMAIN segments : segments[s].parent # branches[segments[s].branch].head

\* A fork adds a branch without scenes of its own.
LEMMA ForkKeepsRows ==
  ASSUME WellFormed, NEW c \in DOMAIN choices, ForkAtChoice(c)
  PROVE  /\ \A b \in DOMAIN branches : branches'[b] = branches[b]
         /\ \A s \in DOMAIN segments : segments[s].branch \in DOMAIN branches
<1>1. branches \in Seq(Branch)
  BY DEF WellFormed, RowsOK, RepositoryTypeOK
<1>2. PICK row : branches' = Append(branches, row)
  BY DEF ForkAtChoice
<1>3. \A b \in 1 .. Len(branches) : branches'[b] = branches[b]
  BY <1>1, <1>2
<1> QED
  BY <1>3, Tables DEF WellFormed, RowsOK, RowReferencesExist

\* Every step keeps the segments of a branch a line: a commit needs the head it read.
LEMMA NextLinear == WellFormed /\ Linear /\ [Next]_vars => Linear'
<1> SUFFICES ASSUME WellFormed, Linear, [Next]_vars PROVE Linear'
  OBVIOUS
<1> USE DEF Linear, LinearBranches
<1>1. CASE UNCHANGED <<segments, branches>>
  BY <1>1
<1>2. CASE UNCHANGED segments /\ \E c \in DOMAIN choices : ForkAtChoice(c)
  BY <1>2, ForkKeepsRows
<1>3. CASE ~UNCHANGED <<segments, branches>> /\ \E t \in Tasks : CommitScene(t)
  <2>1. PICK t \in Tasks : CommitScene(t)
    BY <1>3
  <2> DEFINE b == task[t].branch
             new == Len(segments')
  <2>2. /\ b \in DOMAIN branches
        /\ new = Len(segments) + 1 /\ Len(segments) \in Nat
        /\ DOMAIN segments = 1 .. Len(segments) /\ DOMAIN segments' = 1 .. new
        /\ \A s \in DOMAIN segments : segments'[s] = segments[s]
        /\ segments'[new].branch = b
        /\ segments'[new].parent = branches[b].head
        /\ branches' = [branches EXCEPT ![b].head = new]
    BY <1>3, <2>1, CommittedScene
  <2>3. /\ \A s \in DOMAIN segments : segments[s].parent < s /\ segments[s].parent \in Nat
        /\ \A s \in DOMAIN segments : segments[s].branch \in DOMAIN branches
        /\ branches[b].head \in 0 .. Len(segments)
        /\ branches[b] \in Branch
    BY <2>2, Tables DEF WellFormed, RowsOK, RowReferencesExist, Segment
  <2> HIDE DEF b, new
  <2>4. \A r \in DOMAIN branches : branches'[r].head = IF r = b THEN new ELSE branches[r].head
    BY <2>2, <2>3 DEF Branch
  <2>5. \A s \in DOMAIN segments' : s = new \/ s \in DOMAIN segments
    BY <2>2
  <2>6. LinearBranches'
    BY <2>2, <2>3, <2>5
  <2>7. \A s \in DOMAIN segments' :
          segments'[s].parent # branches'[segments'[s].branch].head
    <3>1. segments'[new].parent # branches'[segments'[new].branch].head
      <4>1. branches'[segments'[new].branch].head = new
        BY <2>2, <2>4
      <4>2. branches[b].head # new
        BY <2>2, <2>3
      <4> QED
        BY <2>2, <4>1, <4>2
    <3>2. \A s \in DOMAIN segments :
            segments'[s].parent # branches'[segments'[s].branch].head
      BY <2>2, <2>3, <2>4
    <3> QED
      BY <2>5, <3>1, <3>2
  <2> QED
    BY <2>6, <2>7
<1> QED
  BY <1>1, <1>2, <1>3, SceneSteps

\* A branch is a line of scenes: the interleavings of requests, forks, faults
\* and late tasks never give a scene two successors on one branch.
THEOREM LinearBranchesAlways == Spec => []LinearBranches
<1>1. Init => Linear
  BY DEF Init, RepositoryInit, Linear, LinearBranches
<1>2. Spec => []Linear
  BY <1>1, AlwaysWellFormed, NextLinear, PTL DEF Spec
<1>3. Linear => LinearBranches
  BY DEF Linear
<1> QED
  BY <1>2, <1>3, PTL

\* Every step keeps keys distinct: a key that has a scene inserts nothing.
LEMMA NextOneScenePerKey ==
  WellFormed /\ OneScenePerKey /\ [Next]_vars => OneScenePerKey'
<1> SUFFICES ASSUME WellFormed, OneScenePerKey, [Next]_vars PROVE OneScenePerKey'
  OBVIOUS
<1>1. CASE UNCHANGED segments
  BY <1>1 DEF OneScenePerKey
<1>2. CASE ~UNCHANGED segments /\ \E t \in Tasks : CommitScene(t)
  <2>1. PICK t \in Tasks : CommitScene(t)
    BY <1>2
  <2>2. /\ SegmentByKey(task[t].key) = None
        /\ Len(segments) \in Nat /\ DOMAIN segments = 1 .. Len(segments)
        /\ Len(segments') = Len(segments) + 1 /\ DOMAIN segments' = 1 .. Len(segments')
        /\ \A s \in DOMAIN segments : segments'[s] = segments[s]
        /\ segments'[Len(segments')].key = task[t].key
    BY <1>2, <2>1, CommittedScene
  <2>3. \A s \in DOMAIN segments : segments[s].key # task[t].key
    BY <2>2, KeyLookup DEF WellFormed, RowsOK
  <2>4. \A s \in DOMAIN segments' : s = Len(segments') \/ s \in DOMAIN segments
    BY <2>2
  <2> QED
    BY <2>2, <2>3, <2>4 DEF OneScenePerKey
<1> QED
  BY <1>1, <1>2, SceneSteps

\* A generation key never commits two scenes, whichever tasks and branches use
\* it and however often a request is repeated.
THEOREM OneScenePerKeyAlways == Spec => []OneScenePerKey
<1>1. Init => OneScenePerKey
  BY DEF Init, RepositoryInit, OneScenePerKey
<1> QED
  BY <1>1, AlwaysWellFormed, NextOneScenePerKey, PTL DEF Spec

\* A scene is added only to the current branch of an IDLE story, after the
\* head of that branch: what the task read before its awaits still holds.
THEOREM ScenesOnlyWhenIdleAlways == Spec => ScenesOnlyWhenIdle
<1> DEFINE Added == segments' # segments =>
             LET new == segments'[Len(segments')]
             IN  /\ story.status = "IDLE"
                 /\ new.branch = story.current
                 /\ new.parent = branches[new.branch].head
<1>1. WellFormed /\ [Next]_vars => Added
  BY SceneSteps, CommittedScene
<1>2. WellFormed /\ [Next]_vars => [Added]_vars
  BY <1>1
<1> HIDE DEF Added
<1>3. Spec => [][Added]_vars
  BY AlwaysWellFormed, <1>2, PTL DEF Spec
<1> QED
  BY <1>3 DEF ScenesOnlyWhenIdle, Added

\* A scene committed while a pause is requested leaves the story paused or
\* waiting for a choice.
THEOREM PauseStopsBatchAlways == Spec => PauseStopsBatch
<1> DEFINE Stopped == segments' # segments /\ story.pauseRequested
                        => story'.status \in {"PAUSED", "WAITING_CHOICE"}
<1>1. WellFormed /\ [Next]_vars => Stopped
  BY SceneSteps, CommittedScene DEF FinalStatus
<1>2. WellFormed /\ [Next]_vars => [Stopped]_vars
  BY <1>1
<1> HIDE DEF Stopped
<1>3. Spec => [][Stopped]_vars
  BY AlwaysWellFormed, <1>2, PTL DEF Spec
<1> QED
  BY <1>3 DEF PauseStopsBatch, Stopped

-----------------------------------------------------------------------------
(* Heads and fork points *)

Own(b) == {s \in DOMAIN segments : segments[s].branch = b}

\* The latest own scene of a branch is one of its rows.
LEMMA OwnRows ==
  ASSUME WellFormed, NEW b
  PROVE  /\ Own(b) \in SUBSET (1 .. Len(segments)) /\ Len(segments) \in Nat
         /\ Own(b) # {} => LastRow(Own(b)) \in Own(b)
         /\ \A s \in Own(b) : s <= LastRow(Own(b))
<1>1. Len(segments) \in Nat /\ DOMAIN segments = 1 .. Len(segments)
  BY Tables DEF WellFormed, RowsOK
<1>2. Own(b) \in SUBSET (1 .. Len(segments))
  BY <1>1 DEF Own
<1> QED
  BY <1>1, <1>2, LastRowFinds

\* Every step keeps each head the latest own scene of its branch.
LEMMA NextPathsWellFormed ==
  WellFormed /\ PathsWellFormed /\ [Next]_vars => PathsWellFormed'
<1> SUFFICES ASSUME WellFormed, PathsWellFormed, [Next]_vars PROVE PathsWellFormed'
  OBVIOUS
<1> DEFINE ParentOK(s) ==
             /\ segments[s].parent < s /\ segments[s].branch \in DOMAIN branches
             /\ \/ segments[s].parent = branches[segments[s].branch].forkSegment
                \/ /\ segments[s].parent # None
                   /\ segments[segments[s].parent].branch = segments[s].branch
           HeadOK(b) ==
             branches[b].head = IF Own(b) = {} THEN branches[b].forkSegment ELSE LastRow(Own(b))
<1>1. /\ \A s \in DOMAIN segments : ParentOK(s)
      /\ \A b \in DOMAIN branches : HeadOK(b)
  BY DEF PathsWellFormed, Own
<1>2. SUFFICES /\ \A s \in DOMAIN segments' : ParentOK(s)'
               /\ \A b \in DOMAIN branches' : HeadOK(b)'
  BY DEF PathsWellFormed, Own
<1>3. CASE UNCHANGED <<segments, branches>>
  BY <1>1, <1>3 DEF Own
<1>4. CASE UNCHANGED segments /\ \E c \in DOMAIN choices : ForkAtChoice(c)
  <2>1. PICK c \in DOMAIN choices : ForkAtChoice(c)
    BY <1>4
  <2>b. PICK fork : fork = Len(branches) + 1
    OBVIOUS
  <2>2. /\ \A b \in DOMAIN branches : branches'[b] = branches[b]
        /\ \A s \in DOMAIN segments : segments[s].branch \in DOMAIN branches
    BY <2>1, ForkKeepsRows
  <2>3. /\ branches \in Seq(Branch) /\ Len(branches) \in Nat
        /\ DOMAIN branches = 1 .. Len(branches)
    BY Tables DEF WellFormed, RowsOK, RepositoryTypeOK
  <2>4. /\ DOMAIN branches' = 1 .. fork
        /\ branches'[fork].head = branches'[fork].forkSegment
    BY <2>1, <2>b, <2>3 DEF ForkAtChoice
  <2>5. Own(fork)' = {} /\ \A b : Own(b)' = Own(b)
    BY <1>4, <2>b, <2>2, <2>3 DEF Own
  <2>6. \A b \in DOMAIN branches' : b = fork \/ b \in DOMAIN branches
    BY <2>b, <2>3, <2>4
  <2>7. HeadOK(fork)'
    BY <2>4, <2>5
  <2>8. \A b \in DOMAIN branches : HeadOK(b)'
    BY <1>1, <2>2, <2>5
  <2>9. \A s \in DOMAIN segments' : ParentOK(s)'
    BY <1>1, <1>4, <2>b, <2>2, <2>3, <2>4
  <2> HIDE DEF ParentOK, HeadOK
  <2> QED
    BY <2>6, <2>7, <2>8, <2>9
<1>5. CASE ~UNCHANGED <<segments, branches>> /\ \E t \in Tasks : CommitScene(t)
  <2>1. PICK t \in Tasks : CommitScene(t)
    BY <1>5
  <2>b. PICK b, new : b = task[t].branch /\ new = Len(segments')
    OBVIOUS
  <2>2. /\ b \in DOMAIN branches /\ DOMAIN branches' = DOMAIN branches
        /\ new = Len(segments) + 1 /\ Len(segments) \in Nat
        /\ DOMAIN segments = 1 .. Len(segments) /\ DOMAIN segments' = 1 .. new
        /\ \A s \in DOMAIN segments : segments'[s] = segments[s]
        /\ segments'[new].branch = b
        /\ segments'[new].parent = branches[b].head
        /\ branches' = [branches EXCEPT ![b].head = new]
    BY <1>5, <2>1, <2>b, CommittedScene
  <2>3. /\ \A s \in DOMAIN segments : segments[s].parent \in Nat
        /\ \A r \in DOMAIN branches : branches[r] \in Branch
        /\ branches[b].head \in 0 .. Len(segments)
    BY <2>2, Tables DEF WellFormed, RowsOK, RowReferencesExist, Segment
  <2>4. \A r \in DOMAIN branches :
          /\ branches'[r].head = IF r = b THEN new ELSE branches[r].head
          /\ branches'[r].forkSegment = branches[r].forkSegment
    BY <2>2, <2>3 DEF Branch
  <2>5. \A s \in DOMAIN segments' : s = new \/ s \in DOMAIN segments
    BY <2>2
  <2>6. \A s \in DOMAIN segments : ParentOK(s)'
    <3>1. SUFFICES ASSUME NEW s \in DOMAIN segments PROVE ParentOK(s)'
      OBVIOUS
    <3>2. ParentOK(s) /\ segments'[s] = segments[s] /\ segments[s].parent \in Nat
      BY <1>1, <2>2, <2>3
    <3>3. segments[s].parent # None => segments[s].parent \in DOMAIN segments
      BY <2>2, <3>2 DEF None
    <3> QED
      BY <2>2, <2>4, <3>2, <3>3
  <2>7. ParentOK(new)'
    <3>1. \/ branches[b].head = branches[b].forkSegment
          \/ branches[b].head \in Own(b)
      BY <1>1, <2>2, OwnRows
    <3>2. branches[b].head \in DOMAIN segments
            => branches[b].head # None /\ segments'[branches[b].head] = segments[branches[b].head]
      BY <2>2 DEF None
    <3>3. segments'[new].parent < new /\ segments'[new].branch \in DOMAIN branches'
      BY <2>2, <2>3
    <3>4. \/ segments'[new].parent = branches'[b].forkSegment
          \/ /\ segments'[new].parent # None
             /\ segments'[segments'[new].parent].branch = b
      BY <2>2, <2>4, <3>1, <3>2 DEF Own
    <3> QED
      BY <2>2, <3>3, <3>4
  <2>8. \A r \in DOMAIN branches : r # b => HeadOK(r)'
    <3>1. SUFFICES ASSUME NEW r \in DOMAIN branches, r # b PROVE HeadOK(r)'
      OBVIOUS
    <3>2. Own(r)' = Own(r)
      BY <2>2, <2>5, <3>1 DEF Own
    <3> QED
      BY <1>1, <2>4, <3>1, <3>2
  <2>9. HeadOK(b)'
    <3>1. Own(b)' \in SUBSET (1 .. new) /\ new \in Nat /\ new \in Own(b)'
      BY <2>2 DEF Own
    <3>2. PICK rows : rows = Own(b)'
      OBVIOUS
    <3>3. LastRow(rows) \in rows /\ \A s \in rows : s <= LastRow(rows)
      BY <3>1, <3>2, LastRowFinds
    <3>4. LastRow(rows) = new
      BY <3>1, <3>2, <3>3
    <3>5. LastRow(Own(b))' = LastRow(rows)
      BY <3>2 DEF LastRow, None
    <3> QED
      BY <2>2, <2>4, <3>1, <3>4, <3>5
  <2> HIDE DEF ParentOK, HeadOK
  <2> QED
    BY <2>2, <2>5, <2>6, <2>7, <2>8, <2>9
<1> QED
  BY <1>3, <1>4, <1>5, SceneSteps

\* Every branch leaves its original at its fork scene only, and its head is its
\* newest scene or still the fork scene, whatever happens to other branches.
THEOREM PathsAlwaysWellFormed == Spec => []PathsWellFormed
<1>1. Init => PathsWellFormed
  BY DEF Init, RepositoryInit, PathsWellFormed, None
<1> QED
  BY <1>1, AlwaysWellFormed, NextPathsWellFormed, PTL DEF Spec

-----------------------------------------------------------------------------
(* Plans and drafts *)

Planning(t) == task[t].pc \in {"director", "stream"}
Committed(t) == task[t].pc \in {"memory", "rolling"}

\* The head of a branch is the one its task works on until the task commits.
TasksFollowHeads ==
  \A t \in Tasks :
    /\ Planning(t) => task[t].head = branches[task[t].branch].head
    /\ task[t].pc = "stream" => task[t].plan.plannedFor = task[t].head

\* A draft goes on from the head of its branch, or is about to be deleted.
DraftsFollowHeads ==
  \A d \in drafts :
    /\ d.branch \in DOMAIN branches
    /\ \/ d.plan.plannedFor = branches[d.branch].head
       \/ \E t \in Tasks : Committed(t) /\ task[t].branch = d.branch

Planned == ScenesFollowTheirPlan /\ TasksFollowHeads /\ DraftsFollowHeads

\* What a task may become in a step that is not its commit.
Follows(u) ==
  /\ Planning(u)' => task'[u].head = branches[task'[u].branch].head
  /\ task'[u].pc = "stream" => task'[u].plan.plannedFor = task'[u].head
  /\ Committed(u) => Committed(u)' /\ task'[u].branch = task[u].branch

\* A step that moves no head, saves no draft and stores no scene keeps the plans.
LEMMA PlansKept ==
  ASSUME WellFormed, Planned, UNCHANGED segments, drafts' \subseteq drafts,
         \A b \in DOMAIN branches : b \in DOMAIN branches' /\ branches'[b] = branches[b],
         \A u \in Tasks : task'[u].branch \in DOMAIN branches \/ ~Planning(u)',
         \A u \in Tasks : Follows(u)
  PROVE  Planned'
<1>1. ScenesFollowTheirPlan'
  BY DEF Planned, ScenesFollowTheirPlan
<1>2. TasksFollowHeads'
  BY DEF TasksFollowHeads, Follows, Planning
<1>3. DraftsFollowHeads'
  BY DEF Planned, DraftsFollowHeads, Follows, Committed
<1> QED
  BY <1>1, <1>2, <1>3 DEF Planned

\* A task that starts its Writer with a plan for the head follows it.
LEMMA WriterFollows ==
  ASSUME WellFormed, Planned, NEW t \in Tasks, NEW plan \in Plan,
         StartWriter(t, branches[task[t].branch].head, plan),
         task[t].pc \in {"accepted", "director"},
         plan.plannedFor = branches[task[t].branch].head
  PROVE  \A u \in Tasks : Follows(u) /\ task'[u].branch = task[u].branch
<1>1. task \in [Tasks -> Task]
  BY DEF WellFormed, TasksOK
<1>2. PICK rest, limit :
        /\ task' = [task EXCEPT ![t].pc = "stream", ![t].head = branches[task[t].branch].head,
                                ![t].plan = rest, ![t].limit = limit]
        /\ rest.plannedFor = plan.plannedFor
  <2>1. PICK x, decided : x = [plan EXCEPT !.choice = decided]
               /\ \E blocked : task' = [task EXCEPT ![t].pc = "stream",
                    ![t].head = branches[task[t].branch].head, ![t].plan = x, ![t].limit = blocked]
    BY DEF StartWriter
  <2>2. x.plannedFor = plan.plannedFor
    BY <2>1 DEF Plan
  <2> QED
    BY <2>1, <2>2
<1>3. /\ task'[t].branch = task[t].branch /\ task'[t].head = branches[task[t].branch].head
      /\ task'[t].plan = rest
  BY <1>1, <1>2 DEF Task
<1>4. \A u \in Tasks : u # t => task'[u] = task[u]
  BY <1>1, <1>2
<1> QED
  BY <1>2, <1>3, <1>4 DEF Follows, Planned, TasksFollowHeads, Planning, Committed

\* A commit is planned for the head it follows; it moves the head of no other task.
LEMMA CommitFollowsPlan ==
  ASSUME WellFormed, Reservations, Planned, NEW t \in Tasks, CommitScene(t)
  PROVE  Planned'
<1> DEFINE b == task[t].branch
<1>1. /\ task \in [Tasks -> Task] /\ task[t].pc = "stream" /\ b \in DOMAIN branches
      /\ \A u \in Tasks : Live(u) => task[u].branch \in DOMAIN branches
      /\ UNCHANGED drafts
  BY DEF WellFormed, TasksOK, TaskOK, Live, CommitScene, CommitGenerationBundle
<1>2. /\ task'[t].pc = "memory" /\ task'[t].branch = b
      /\ \A u \in Tasks : u # t => task'[u] = task[u]
  BY <1>1 DEF CommitScene, Task
<1>3. \A u \in Tasks : u # t /\ Live(u) => task[u].branch # b
  BY <1>1 DEF Reservations, OneTaskPerBranch, Live
<1>4. /\ DOMAIN branches' = DOMAIN branches
      /\ \A r \in DOMAIN branches : r # b => branches'[r] = branches[r]
  <2>1. UNCHANGED branches \/ \E new : branches' = [branches EXCEPT ![b].head = new]
    BY DEF CommitScene, CommitGenerationBundle, InsertSegmentBundle
  <2> QED
    BY <2>1
<1>5. TasksFollowHeads'
  BY <1>1, <1>2, <1>3, <1>4 DEF Planned, TasksFollowHeads, Planning, Live
<1>6. DraftsFollowHeads'
  <2>1. \A u \in Tasks : Committed(u) => Committed(u)' /\ task'[u].branch = task[u].branch
    BY <1>1, <1>2 DEF Committed
  <2>2. Committed(t)'
    BY <1>2 DEF Committed
  <2> QED
    BY <1>1, <1>2, <1>4, <2>1, <2>2 DEF Planned, DraftsFollowHeads
<1>7. ScenesFollowTheirPlan'
  <2>1. CASE UNCHANGED <<segments, branches>>
    BY <2>1 DEF Planned, ScenesFollowTheirPlan
  <2>2. CASE ~UNCHANGED <<segments, branches>>
    <3>1. /\ \A s \in DOMAIN segments : segments'[s] = segments[s]
          /\ DOMAIN segments = 1 .. Len(segments) /\ Len(segments) \in Nat
          /\ DOMAIN segments' = 1 .. Len(segments) + 1
          /\ segments'[Len(segments) + 1].parent = branches[b].head
      BY <2>2, CommittedScene
    <3>2. segments'[Len(segments) + 1].plannedFor = task[t].plan.plannedFor
      <4>1. SegmentByKey(task[t].key) = None
        BY <2>2, CommittedScene
      <4>2. \E row : segments' = Append(segments, row) /\ row.plannedFor = task[t].plan.plannedFor
        BY <4>1 DEF CommitScene, CommitGenerationBundle, InsertSegmentBundle
      <4> QED
        BY <4>2 DEF WellFormed, RowsOK, RepositoryTypeOK
    <3>3. task[t].plan.plannedFor = branches[b].head
      BY <1>1 DEF Planned, TasksFollowHeads, Planning
    <3>4. \A s \in DOMAIN segments' : s = Len(segments) + 1 \/ s \in DOMAIN segments
      BY <3>1
    <3> QED
      BY <3>1, <3>2, <3>3, <3>4 DEF Planned, ScenesFollowTheirPlan
  <2> QED
    BY <2>1, <2>2
<1> QED
  BY <1>5, <1>6, <1>7 DEF Planned

\* Every step of a task keeps the plans.
LEMMA TaskFollowsPlan ==
  ASSUME WellFormed, Reservations, Planned, NEW t \in Tasks, TaskMoves(t)
  PROVE  Planned'
<1>0. /\ task \in [Tasks -> Task] /\ TasksOK
      /\ \A d \in drafts : d \in Draft
  BY DEF WellFormed, TasksOK, RowsOK, RepositoryTypeOK
<1>1. ASSUME UNCHANGED <<branches, segments>>, drafts' \subseteq drafts,
             \A u \in Tasks : Follows(u) /\ (u # t => task'[u] = task[u]),
             task'[t].branch = task[t].branch \/ ~Planning(t)',
             Planning(t)' => Live(t)
      PROVE  Planned'
  <2>1. \A u \in Tasks : task'[u].branch \in DOMAIN branches \/ ~Planning(u)'
    BY <1>0, <1>1 DEF TasksOK, TaskOK, Planning, Live
  <2> QED
    BY <1>1, <2>1, PlansKept
<1>2. ASSUME EndTask(t), task[t].pc \notin {"memory", "rolling"}
      PROVE  /\ \A u \in Tasks : Follows(u) /\ (u # t => task'[u] = task[u])
             /\ ~Planning(t)'
  <2>1. task'[t].pc = "done" /\ \A u \in Tasks : u # t => task'[u] = task[u]
    BY <1>0, <1>2 DEF EndTask, NoTask
  <2> QED
    BY <1>2, <2>1 DEF Follows, Planned, TasksFollowHeads, Planning, Committed
<1>3. CASE StartRejected(t) \/ ModelFails(t) \/ CommitRejected(t)
  BY <1>1, <1>2, <1>3 DEF StartRejected, ModelFails, CommitRejected, repositoryVars
<1>4. CASE StartDirector(t)
  <2>1. /\ task'[t].pc = "director" /\ task'[t].branch = task[t].branch
        /\ task'[t].head = branches[task[t].branch].head
        /\ \A u \in Tasks : u # t => task'[u] = task[u]
        /\ task[t].pc = "accepted" /\ UNCHANGED repositoryVars
    BY <1>0, <1>4 DEF StartDirector, Task
  <2>2. \A u \in Tasks : Follows(u)
    BY <2>1 DEF Follows, Planned, TasksFollowHeads, Planning, Committed
  <2> QED
    BY <1>1, <2>1, <2>2 DEF Live, repositoryVars
<1>5. CASE StartFromDraft(t)
  <2>1. PICK draft \in DraftOf(task[t].branch) :
          StartWriter(t, branches[task[t].branch].head, draft.plan)
    BY <1>5 DEF StartFromDraft
  <2>2. draft \in drafts /\ draft.branch = task[t].branch /\ draft.plan \in Plan
    BY <1>0, <2>1 DEF DraftOf, Draft
  <2>3. \A u \in Tasks : Committed(u) => task[u].branch # task[t].branch
    BY <1>5 DEF StartFromDraft, Committed, Live, Reservations, OneTaskPerBranch
  <2>4. draft.plan.plannedFor = branches[task[t].branch].head
    BY <2>2, <2>3 DEF Planned, DraftsFollowHeads
  <2>5. \A u \in Tasks : Follows(u) /\ task'[u].branch = task[u].branch
    BY <1>5, <2>1, <2>2, <2>4, WriterFollows DEF StartFromDraft
  <2>6. \A u \in Tasks : u # t => task'[u] = task[u]
    BY <1>0, <2>1 DEF StartWriter
  <2> QED
    BY <1>1, <1>5, <2>5, <2>6 DEF StartFromDraft, Live, repositoryVars
<1>6. CASE \E suggestion \in BOOLEAN : DirectorPlans(t, suggestion)
  <2>1. PICK suggestion \in BOOLEAN : DirectorPlans(t, suggestion)
    BY <1>6
  <2>2. task[t].head = branches[task[t].branch].head /\ task[t].head \in Nat
    BY <1>0, <2>1 DEF DirectorPlans, Planned, TasksFollowHeads, Planning, Task
  <2>3. PICK plan : plan = [plannedFor |-> task[t].head, choice |-> suggestion]
    OBVIOUS
  <2>4. plan \in Plan /\ plan.plannedFor = branches[task[t].branch].head
    BY <2>2, <2>3 DEF Plan
  <2>5. StartWriter(t, branches[task[t].branch].head, plan) /\ task[t].pc = "director"
    BY <2>1, <2>2, <2>3 DEF DirectorPlans
  <2>6. \A u \in Tasks : Follows(u) /\ task'[u].branch = task[u].branch
    BY <2>4, <2>5, WriterFollows
  <2>7. \A u \in Tasks : u # t => task'[u] = task[u]
    BY <1>0, <2>5 DEF StartWriter
  <2> QED
    BY <1>1, <2>1, <2>6, <2>7 DEF DirectorPlans, Live, repositoryVars
<1>7. CASE PauseAtChunk(t)
  <2>1. /\ task[t].pc = "stream" /\ EndTask(t) /\ UNCHANGED <<branches, segments>>
        /\ drafts' = (drafts \ DraftOf(task[t].branch))
                       \cup {[branch |-> task[t].branch, plan |-> task[t].plan]}
    BY <1>7 DEF PauseAtChunk, SaveGenerationDraft
  <2>2. /\ task[t].branch \in DOMAIN branches
        /\ task[t].plan.plannedFor = branches[task[t].branch].head
    BY <1>0, <2>1 DEF TasksOK, TaskOK, Planned, TasksFollowHeads, Planning
  <2>3. /\ \A u \in Tasks : Follows(u) /\ (u # t => task'[u] = task[u])
        /\ ~Planning(t)'
    BY <1>2, <2>1
  <2>4. ScenesFollowTheirPlan' /\ TasksFollowHeads'
    BY <2>1, <2>3 DEF Planned, ScenesFollowTheirPlan, TasksFollowHeads, Follows, Planning
  <2>5. DraftsFollowHeads'
    BY <2>1, <2>2, <2>3 DEF Planned, DraftsFollowHeads, Follows, Committed
  <2> QED
    BY <2>4, <2>5 DEF Planned
<1>8. CASE CommitScene(t)
  BY <1>8, CommitFollowsPlan
<1>9. ASSUME EndCommitted(t), Committed(t), UNCHANGED <<branches, segments>>
      PROVE  Planned'
  <2>1. /\ drafts' = drafts \ DraftOf(task[t].branch)
        /\ task'[t].pc = "done" /\ \A u \in Tasks : u # t => task'[u] = task[u]
    BY <1>0, <1>9 DEF EndCommitted, DeleteGenerationDraft, EndTask, NoTask
  <2>2. \A d \in drafts' : d \in drafts /\ d.branch # task[t].branch
    BY <2>1 DEF DraftOf
  <2>3. ScenesFollowTheirPlan' /\ TasksFollowHeads'
    BY <1>9, <2>1 DEF Planned, ScenesFollowTheirPlan, TasksFollowHeads, Planning
  <2>4. DraftsFollowHeads'
    BY <1>9, <2>1, <2>2 DEF Planned, DraftsFollowHeads, Committed
  <2> QED
    BY <2>3, <2>4 DEF Planned
<1>10. CASE \E updated \in BOOLEAN : MemoryAnswer(t, updated)
  <2>1. PICK updated \in BOOLEAN : MemoryAnswer(t, updated)
    BY <1>10
  <2>2. CASE EndCommitted(t)
    BY <1>9, <2>1, <2>2 DEF MemoryAnswer, Committed
  <2>3. CASE ~EndCommitted(t)
    <3>1. /\ task'[t].pc = "rolling" /\ task'[t].branch = task[t].branch
          /\ \A u \in Tasks : u # t => task'[u] = task[u]
          /\ UNCHANGED <<branches, segments, drafts>>
      BY <1>0, <2>1, <2>3 DEF MemoryAnswer, Task
    <3>2. \A u \in Tasks : Follows(u)
      BY <3>1 DEF Follows, Planned, TasksFollowHeads, Planning, Committed
    <3> QED
      BY <1>1, <3>1, <3>2 DEF Planning
  <2> QED
    BY <2>2, <2>3
<1>11. CASE \E updated \in BOOLEAN : RollingAnswer(t, updated)
  BY <1>9, <1>11 DEF RollingAnswer, Committed
<1>12. CASE DrainResponse(t)
  <2>1. /\ task[t].pc = "done" /\ task'[t].pc = "idle" /\ UNCHANGED repositoryVars
        /\ \A u \in Tasks : u # t => task'[u] = task[u]
    BY <1>0, <1>12 DEF DrainResponse, CloseResponse, NoTask
  <2>2. \A u \in Tasks : Follows(u)
    BY <2>1 DEF Follows, Planned, TasksFollowHeads, Planning, Committed
  <2> QED
    BY <1>1, <2>1, <2>2 DEF repositoryVars, Planning
<1> QED
  BY <1>3, <1>4, <1>5, <1>6, <1>7, <1>8, <1>10, <1>11, <1>12 DEF TaskMoves, TaskStep

\* Without faults every step keeps the plans.
LEMMA NextPlanned ==
  ASSUME Faults = {}
  PROVE  WellFormed /\ Reservations /\ Planned /\ [Next]_vars => Planned'
<1> SUFFICES ASSUME WellFormed, Reservations, Planned, [Next]_vars PROVE Planned'
  OBVIOUS
<1>0. /\ task \in [Tasks -> Task]
      /\ \A u \in Tasks : Planning(u) => task[u].branch \in DOMAIN branches
  BY DEF WellFormed, TasksOK, TaskOK, Planning
<1>1. ASSUME UNCHANGED <<segments, drafts, task>>,
             \A b \in DOMAIN branches : b \in DOMAIN branches' /\ branches'[b] = branches[b]
      PROVE  Planned'
  <2>1. \A u \in Tasks : Follows(u) /\ (task'[u].branch \in DOMAIN branches \/ ~Planning(u)')
    BY <1>0, <1>1 DEF Follows, Planned, TasksFollowHeads, Planning, Committed
  <2> QED
    BY <1>1, <2>1, PlansKept
<1>2. CASE Generate
  <2>1. PICK t \in Tasks, branch \in DOMAIN branches, key \in Keys :
          Accept(t, branch, key) /\ UNCHANGED parsing
    BY <1>2 DEF Generate
  <2>2. /\ task'[t].pc = "accepted" /\ task[t].pc = "idle" /\ UNCHANGED repositoryVars
        /\ \A u \in Tasks : u # t => task'[u] = task[u]
    BY <1>0, <2>1 DEF Accept, NoTask
  <2>3. \A u \in Tasks : Follows(u) /\ (task'[u].branch \in DOMAIN branches \/ ~Planning(u)')
    BY <1>0, <2>2 DEF Follows, Planned, TasksFollowHeads, Planning, Committed
  <2> QED
    BY <2>2, <2>3, PlansKept DEF repositoryVars
<1>3. CASE \E t \in Tasks : TaskMoves(t)
  BY <1>3, TaskFollowsPlan
<1>4. CASE RequestPause \/ Resume \/ \E b \in DOMAIN branches : Activate(b)
  BY <1>1, <1>4 DEF RequestPause, PauseStory, Resume, ResumeStory, Activate, ActivateBranch,
                    serviceVars
<1>5. CASE Select \/ ModelAnswersCustom
  BY <1>1, <1>5 DEF Select, SelectOption, SubmitChoice, ParseCustomAction, ModelAnswersCustom,
                    SelectCustom, RejectCustom, repositoryVars, serviceVars
<1>6. CASE \E c \in DOMAIN choices : CreateBranch(c)
  <2>1. PICK c \in DOMAIN choices : ForkAtChoice(c) /\ UNCHANGED serviceVars
    BY <1>6 DEF CreateBranch
  <2>2. /\ UNCHANGED <<segments, drafts, task>> /\ TablesGrow
        /\ \A b \in DOMAIN branches : branches'[b] = branches[b]
    BY <2>1, ForkKeepsRows, ForkGrows DEF ForkAtChoice, serviceVars, WellFormed
  <2> QED
    BY <1>1, <2>2 DEF TablesGrow
<1>7. CASE Fault
  BY <1>7 DEF Fault
<1>8. CASE UNCHANGED vars
  BY <1>1, <1>8 DEF vars
<1> QED
  BY <1>2, <1>3, <1>4, <1>5, <1>6, <1>7, <1>8 DEF Next

\* If no client is lost, a plan and the prose saved with it become one scene, at
\* the place they were made for: whatever pauses, drafts, forks and activations
\* come between the plan and the commit.
THEOREM ScenesAlwaysFollowTheirPlan ==
  ASSUME Faults = {}
  PROVE  Spec => []ScenesFollowTheirPlan
<1>1. Init => Planned
  BY DEF Init, RepositoryInit, ServiceInit, Planned, ScenesFollowTheirPlan, TasksFollowHeads,
         DraftsFollowHeads, Planning, NoTask
<1>2. Spec => []Reservations
  BY AlwaysWellFormed, InitReservations, NextReservations, PTL DEF Spec
<1>3. Planned => ScenesFollowTheirPlan
  BY DEF Planned
<1> QED
  BY <1>1, <1>2, <1>3, AlwaysWellFormed, NextPlanned, PTL DEF Spec

=============================================================================
