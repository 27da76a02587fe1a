------------------------- MODULE GenerationService -------------------------
(***************************************************************************)
(* The generate endpoint and the task it starts: services/generation.py    *)
(* and api/routes/generation.py under src/src/storyflow/.                  *)
(*                                                                         *)
(* The application is one asyncio event loop.  A task gives up control     *)
(* only where it awaits the language model, so each action below is the    *)
(* code from one such await to the next, with every database call in it.   *)
(* pc names the await the task is suspended at:                            *)
(*   accepted  the handler has reserved the branch, the task has not run   *)
(*   director  awaiting the Director's plan                                *)
(*   stream    awaiting the next chunk of prose, or the end of the stream  *)
(*   memory    scene committed, awaiting the scene's memory update         *)
(*   rolling   awaiting the rolling summary                                *)
(*   done      result queued, the response has not been drained            *)
(***************************************************************************)
EXTENDS StoryRepository, ChoicePolicy

CONSTANTS
  Tasks,           \* generate requests that may be in flight together
  Frequency,       \* the story's choice frequency
  RollingInterval, \* a rolling summary is due at its multiples (5 in the code)
  MaxSegments      \* bound: no request is accepted once there are so many scenes

ASSUME GenerationAssumption ==
  /\ Frequency \in Frequencies
  /\ RollingInterval \in Nat \ {0}
  /\ MaxSegments \in Nat

VARIABLES
  reserved,        \* GenerationService._active_branches
  task             \* the in-flight requests

serviceVars == <<reserved, task>>

Phases == {"idle", "accepted", "director", "stream", "memory", "rolling", "done"}

NoPlan == [plannedFor |-> None, choice |-> FALSE]

\* head: branch.head_segment_id read at the start; distance: the request's
\* scenes_since_last_choice; limit: the policy said "pause"; segment and base:
\* the committed scene and the snapshot its memory update works on.
Task == [pc : Phases, branch : Nat, key : Keys \cup {None}, head : Nat, distance : Nat,
         plan : Plan, limit : BOOLEAN, segment : Nat, base : Memory]

NoTask == [pc |-> "idle", branch |-> None, key |-> None, head |-> None, distance |-> 0,
           plan |-> NoPlan, limit |-> FALSE, segment |-> None, base |-> InitialMemory]

ServiceTypeOK ==
  /\ reserved \in SUBSET Nat
  /\ task \in [Tasks -> Task]

ServiceInit ==
  /\ reserved = {}
  /\ task = [t \in Tasks |-> NoTask]

Live(t) == task[t].pc # "idle"

-----------------------------------------------------------------------------
\* Mutant: the count is not reset by a choice.
ScenesSinceTheBeginning(branch) == Cardinality(ScenesOn(branch) \cap DOMAIN segments)

\* Completed scenes after the latest choice on the path of a branch.
ScenesSinceLastChoice(branch) ==
  LET path == ScenesOn(branch) \cap DOMAIN segments
      noChoiceFrom(s) == \A r \in path : s <= r => ChoicePointForSegment(r) = None
  IN  Cardinality({s \in path : noChoiceFrom(s)})

\* Mutant: nobody asks whether the branch is reserved.
AcceptUnreserved(t, branch, key) ==
  /\ Len(segments) < MaxSegments
  /\ task[t].pc = "idle"
  /\ story.status = "IDLE"
  /\ story.current = branch
  /\ reserved' = reserved \cup {branch}
  /\ task' = [task EXCEPT ![t] = [NoTask EXCEPT
       !.pc = "accepted", !.branch = branch, !.key = key]]
  /\ UNCHANGED repositoryVars

\* The request handler: 409 unless the story is IDLE on this branch and nobody
\* holds the branch.  A key that has a scene is answered from the database.
Accept(t, branch, key) ==
  /\ Len(segments) < MaxSegments
  /\ task[t].pc = "idle"
  /\ SegmentByKey(key) = None
  /\ story.status = "IDLE"
  /\ story.current = branch
  /\ branch \notin reserved
  /\ reserved' = reserved \cup {branch}
  /\ task' = [task EXCEPT ![t] = [NoTask EXCEPT
       !.pc = "accepted", !.branch = branch, !.key = key,
       !.distance = ScenesSinceLastChoice(branch)]]
  /\ UNCHANGED repositoryVars

\* A finished task keeps only its reservation until the response is drained.
EndTask(t) ==
  task' = [task EXCEPT ![t] = [NoTask EXCEPT !.pc = "done", !.branch = task[t].branch]]

\* generate() looks at key, status and branch again when the task first runs.
StillValid(t) ==
  /\ SegmentByKey(task[t].key) = None
  /\ story.status = "IDLE"
  /\ story.current = task[t].branch

\* The policy decides on the suggestion of the plan; the Writer gets the rest.
StartWriter(t, head, plan) ==
  LET decision == EvaluatePolicy(Frequency, task[t].distance, plan.choice)
  IN  task' = [task EXCEPT ![t].pc = "stream", ![t].head = head,
        ![t].plan = [plan EXCEPT !.choice = decision \in {"accept", "force"}],
        ![t].limit = decision = "pause"]

StartRejected(t) ==
  /\ task[t].pc = "accepted"
  /\ ~StillValid(t)
  /\ EndTask(t)
  /\ UNCHANGED <<repositoryVars, reserved>>

StartDirector(t) ==
  /\ task[t].pc = "accepted"
  /\ StillValid(t)
  /\ DraftOf(task[t].branch) = {}
  /\ task' = [task EXCEPT ![t].pc = "director", ![t].head = branches[task[t].branch].head]
  /\ UNCHANGED <<repositoryVars, reserved>>

\* A saved draft brings its plan and its prose; the Director is not asked.
StartFromDraft(t) ==
  /\ task[t].pc = "accepted"
  /\ StillValid(t)
  /\ \E draft \in DraftOf(task[t].branch) :
       StartWriter(t, branches[task[t].branch].head, draft.plan)
  /\ UNCHANGED <<repositoryVars, reserved>>

\* The plan may suggest a choice.  (Two attempts, with no other effect.)
DirectorPlans(t, suggestion) ==
  /\ task[t].pc = "director"
  /\ StartWriter(t, task[t].head, [plannedFor |-> task[t].head, choice |-> suggestion])
  /\ UNCHANGED <<repositoryVars, reserved>>

\* director_failed, director_invalid or writer_failed: nothing is persisted.
ModelFails(t) ==
  /\ task[t].pc \in {"director", "stream"}
  /\ EndTask(t)
  /\ UNCHANGED <<repositoryVars, reserved>>

\* After a chunk the task sees the pause flag and saves what it has.
PauseAtChunk(t) ==
  /\ task[t].pc = "stream"
  /\ story.pauseRequested
  /\ SaveGenerationDraft(task[t].branch, task[t].plan)
  /\ EndTask(t)
  /\ UNCHANGED reserved

\* Mutant: a pause is looked at before the choice.
FinalStatusPauseFirst(t) ==
  IF story.pauseRequested \/ task[t].limit THEN "PAUSED"
  ELSE IF task[t].plan.choice THEN "WAITING_CHOICE" ELSE "IDLE"

\* Mutant: a pause requested during the last chunk is forgotten.
FinalStatusNoPause(t) ==
  IF task[t].plan.choice THEN "WAITING_CHOICE" ELSE IF task[t].limit THEN "PAUSED" ELSE "IDLE"

FinalStatus(t) ==
  IF task[t].plan.choice THEN "WAITING_CHOICE"
  ELSE IF story.pauseRequested \/ task[t].limit THEN "PAUSED"
  ELSE "IDLE"

\* Mutant: a commit is taken to have stored a new scene.
CommitSceneAssumedNew(t) ==
  /\ task[t].pc = "stream"
  /\ CommitGenerationBundle(task[t].branch, task[t].head, task[t].key,
                            task[t].plan, FinalStatus(t))
  /\ task' = [task EXCEPT ![t].pc = "memory", ![t].segment = Len(segments) + 1,
                          ![t].base = LatestMemory(task[t].branch)]
  /\ UNCHANGED reserved

\* The stream ends: commit, then read the snapshot that the memory update starts from.
CommitScene(t) ==
  LET existing == SegmentByKey(task[t].key)
      owner == IF existing = None THEN task[t].branch ELSE segments[existing].branch
  IN  /\ task[t].pc = "stream"
      /\ CommitGenerationBundle(task[t].branch, task[t].head, task[t].key,
                                task[t].plan, FinalStatus(t))
      /\ task' = [task EXCEPT ![t].pc = "memory",
           ![t].segment = IF existing = None THEN Len(segments) + 1 ELSE existing,
           ![t].base = LatestMemory(owner)]
      /\ UNCHANGED reserved

\* commit_failed: the transaction is rolled back and the prose is discarded.
CommitRejected(t) ==
  /\ task[t].pc = "stream"
  /\ ~CanCommit(task[t].branch, task[t].head, FinalStatus(t))
  /\ EndTask(t)
  /\ UNCHANGED <<repositoryVars, reserved>>

\* Mutant: the draft is kept.
EndCommittedKeepDraft(t) == EndTask(t) /\ UNCHANGED drafts

\* The draft goes last, after both memory updates.
EndCommitted(t) ==
  /\ DeleteGenerationDraft(task[t].branch)
  /\ EndTask(t)

RollingDue(t) == segments[task[t].segment].sequence % RollingInterval = 0

\* The scene's memory arrives, or the update failed and nothing is saved.  If
\* a rolling summary is due, the snapshot it starts from is read next.
MemoryAnswer(t, updated) ==
  LET branch == segments[task[t].segment].branch
      evolved == [task[t].base EXCEPT !.scenes = @ \cup {task[t].segment}]
  IN  /\ task[t].pc = "memory"
      /\ IF updated THEN SaveMemorySnapshot(branch, task[t].segment, evolved)
                    ELSE UNCHANGED snapshots
      /\ IF RollingDue(t)
         THEN /\ task' = [task EXCEPT ![t].pc = "rolling",
                   ![t].base = IF updated THEN evolved ELSE LatestMemory(branch)]
              /\ UNCHANGED drafts
         ELSE EndCommitted(t)
      /\ UNCHANGED <<story, branches, segments, choices, reserved>>

\* A rolling summary is saved on a copy of the snapshot it started from.
RollingAnswer(t, updated) ==
  /\ task[t].pc = "rolling"
  /\ IF updated
     THEN SaveMemorySnapshot(segments[task[t].segment].branch, task[t].segment, task[t].base)
     ELSE UNCHANGED snapshots
  /\ EndCommitted(t)
  /\ UNCHANGED <<story, branches, segments, choices, reserved>>

\* Mutant: the branch stays reserved.
CloseResponseNoRelease(t) ==
  /\ Live(t)
  /\ task' = [task EXCEPT ![t] = NoTask]
  /\ UNCHANGED <<repositoryVars, reserved>>

\* The response ends: event_stream's finally cancels a task that is not done
\* and releases the branch.  A cancelled task makes no further database call.
CloseResponse(t) ==
  /\ Live(t)
  /\ task' = [task EXCEPT ![t] = NoTask]
  /\ reserved' = reserved \ {task[t].branch}
  /\ UNCHANGED repositoryVars

\* Mutant: the response of a story that was paused stays open.
DrainUnlessPaused(t) == task[t].pc = "done" /\ story.status # "PAUSED" /\ CloseResponse(t)

\* The whole response has been sent.
DrainResponse(t) == task[t].pc = "done" /\ CloseResponse(t)

\* The client disconnects before that.
Disconnect(t) == task[t].pc # "done" /\ CloseResponse(t)

\* The response is dropped before event_stream first runs, so neither its
\* body nor its finally is ever executed.
DropResponse(t) ==
  /\ task[t].pc = "accepted"
  /\ task' = [task EXCEPT ![t] = NoTask]
  /\ UNCHANGED <<repositoryVars, reserved>>

\* What a task and its response do by themselves, given the model answers.
TaskStep(t) ==
  \/ StartRejected(t)
  \/ StartDirector(t)
  \/ StartFromDraft(t)
  \/ \E suggestion \in BOOLEAN : DirectorPlans(t, suggestion)
  \/ ModelFails(t)
  \/ PauseAtChunk(t)
  \/ CommitScene(t)
  \/ CommitRejected(t)
  \/ \E updated \in BOOLEAN : MemoryAnswer(t, updated)
  \/ \E updated \in BOOLEAN : RollingAnswer(t, updated)
  \/ DrainResponse(t)

=============================================================================
