----------------------------- MODULE StoryFlow -----------------------------
(***************************************************************************)
(* One story from the confirmation of its Bible on: the generate requests  *)
(* of GenerationService together with every other handler that writes the  *)
(* story (api/routes/generation.py, api/routes/choices.py) and the restart *)
(* of the process (main.py).                                               *)
(***************************************************************************)
EXTENDS GenerationService

CONSTANTS
  MaxBranches,   \* bound: no fork once there are so many branches
  MaxVersion,    \* bound: a choice at this version is not submitted again
  Faults         \* which of "disconnect", "drop", "restart" may happen

ASSUME StoryFlowAssumption ==
  /\ MaxBranches \in Nat
  /\ MaxVersion \in Nat
  /\ Faults \subseteq {"disconnect", "drop", "restart"}

VARIABLES
  parsing        \* custom actions awaiting the model, with the choice and version sent

vars == <<story, branches, segments, choices, snapshots, drafts, reserved, task, parsing>>

TypeOK ==
  /\ RepositoryTypeOK
  /\ ServiceTypeOK
  /\ parsing \in SUBSET [choice : Nat, version : Nat, action : CustomActions]

Init == RepositoryInit /\ ServiceInit /\ parsing = {}

-----------------------------------------------------------------------------
RequestPause == PauseStory /\ UNCHANGED <<serviceVars, parsing>>

Resume == ResumeStory /\ UNCHANGED <<serviceVars, parsing>>

Activate(branch) == ActivateBranch(branch) /\ UNCHANGED <<serviceVars, parsing>>

SelectOption(choice, version, option) ==
  /\ version < MaxVersion
  /\ SubmitChoice(choice, version, option)
  /\ UNCHANGED <<serviceVars, parsing>>

\* A custom action passes the first check and is sent to the model.
ParseCustomAction(choice, version, action) ==
  /\ version < MaxVersion
  /\ choices[choice].version = version
  /\ story.status = "WAITING_CHOICE"
  /\ parsing' = parsing \cup {[choice |-> choice, version |-> version, action |-> action]}
  /\ UNCHANGED <<repositoryVars, serviceVars>>

\* The model's answer is submitted under the checks of the transaction.
SelectCustom(request) ==
  /\ SubmitChoice(request.choice, request.version, request.action)
  /\ parsing' = parsing \ {request}
  /\ UNCHANGED serviceVars

\* No usable effects, or the transaction refuses the choice by now.
RejectCustom(request) ==
  /\ parsing' = parsing \ {request}
  /\ UNCHANGED <<repositoryVars, serviceVars>>

CreateBranch(choice) ==
  /\ Len(branches) < MaxBranches
  /\ ForkAtChoice(choice)
  /\ UNCHANGED <<serviceVars, parsing>>

\* The tables survive; tasks, reservations and suspended requests do not.
Restart ==
  /\ RecoverInterruptedGenerations
  /\ task' = [t \in Tasks |-> NoTask]
  /\ reserved' = {}
  /\ parsing' = {}

-----------------------------------------------------------------------------
Generate == \E t \in Tasks, branch \in DOMAIN branches, key \in Keys :
              Accept(t, branch, key) /\ UNCHANGED parsing

TaskMoves(t) == TaskStep(t) /\ UNCHANGED parsing

Select == \E choice \in DOMAIN choices :
            \/ \E option \in Options : SelectOption(choice, choices[choice].version, option)
            \/ \E action \in CustomActions :
                 ParseCustomAction(choice, choices[choice].version, action)

ModelAnswersCustom == \E request \in parsing : SelectCustom(request) \/ RejectCustom(request)

Fault ==
  \/ "disconnect" \in Faults /\ \E t \in Tasks : Disconnect(t) /\ UNCHANGED parsing
  \/ "drop" \in Faults /\ \E t \in Tasks : DropResponse(t) /\ UNCHANGED parsing
  \/ "restart" \in Faults /\ Restart

Next ==
  \/ Generate
  \/ \E t \in Tasks : TaskMoves(t)
  \/ RequestPause
  \/ Resume
  \/ \E branch \in DOMAIN branches : Activate(branch)
  \/ Select
  \/ ModelAnswersCustom
  \/ \E choice \in DOMAIN choices : CreateBranch(choice)
  \/ Fault

Spec == Init /\ [][Next]_vars

(***************************************************************************)
(* Every call to the model ends, with an answer, an error or the client    *)
(* library's timeout, the event loop runs a task that is ready, and a      *)
(* response is drained or closed.  Users and faults owe nothing.           *)
(***************************************************************************)
Fairness == \A t \in Tasks : WF_vars(TaskMoves(t))

FairSpec == Spec /\ Fairness

-----------------------------------------------------------------------------
(* Properties that hold of every story. *)

\* Every row that a row, a task or a suspended request refers to exists (the
\* foreign keys of db/schema.sql, and the ids a task keeps across its awaits,
\* which nothing in the database protects).
ReferencesExist ==
  /\ RowReferencesExist
  /\ \A request \in parsing : request.choice \in DOMAIN choices
  /\ \A t \in Tasks :
       /\ Live(t) => task[t].branch \in DOMAIN branches
       /\ task[t].pc \notin {"idle", "done"} => task[t].key \in Keys
       /\ task[t].pc \in {"memory", "rolling"} => task[t].segment \in DOMAIN segments

\* At any moment a branch has at most one generation task (SPEC.md:282), also
\* after disconnects and restarts: reserve at generation.py:147-157, release in
\* routes/generation.py:192-196.
OneTaskPerBranch ==
  \A t, u \in Tasks :
    Live(t) /\ Live(u) /\ task[t].branch = task[u].branch => t = u

\* No two scenes of one branch follow the same scene, whatever heads the tasks
\* that committed them had read (repositories.py:593-642).
LinearBranches ==
  \A r, s \in DOMAIN segments :
    /\ segments[r].branch = segments[s].branch
    /\ segments[r].parent = segments[s].parent
    => r = s

\* A generation key commits at most one scene, on one branch, even when two
\* branches generate with it together (AC-07, repositories.py:895-900).
OneScenePerKey ==
  \A r, s \in DOMAIN segments : segments[r].key = segments[s].key => r = s

\* A branch leaves the branch it was forked from at the fork scene and nowhere
\* else, and its head is its own latest scene or still the fork scene: what
\* list_branch_path and the branch_path_references triggers rely on.
PathsWellFormed ==
  /\ \A s \in DOMAIN segments :
       LET parent == segments[s].parent
           branch == segments[s].branch
       IN  /\ parent < s /\ branch \in DOMAIN branches
           /\ \/ parent = branches[branch].forkSegment
              \/ parent # None /\ segments[parent].branch = branch
  /\ \A b \in DOMAIN branches :
       LET own == {s \in DOMAIN segments : segments[s].branch = b}
       IN  branches[b].head = IF own = {} THEN branches[b].forkSegment ELSE LastRow(own)

Paths == [b \in DOMAIN branches |-> BranchPath(b)]
Tree == INSTANCE BranchTree WITH paths <- Paths

\* The branches, as list_branch_path reads them, are an append-only tree of
\* scenes: nothing a fork, a late task or a restart does changes another branch.
BranchesFormATree == Tree!Spec

\* A request on its way to a commit, and that no two such have the same key.
Waiting(x) == x.pc \in {"accepted", "director", "stream"}

KeysApart ==
  \A t, u \in Tasks :
    Waiting(task[t]) /\ Waiting(task[u]) /\ task[t].key = task[u].key => t = u

\* The memory a branch is continued with knows only scenes of that branch: a
\* fork never knows what happened on the original after the fork (AC-06,
\* repositories.py:1090-1133 with the late updates of generation.py:355-445).
\* With three branches this needs KeysApart (README, section 3).
MemoryOnPath ==
  \A b \in DOMAIN branches : LatestMemory(b).scenes \subseteq ScenesOn(b)

\* A scene is added only to the current branch of a story that is IDLE, right
\* after the head of that branch, although the task read all three long before.
ScenesOnlyWhenIdle ==
  [][segments' # segments =>
       LET new == segments'[Len(segments')]
       IN  /\ story.status = "IDLE"
           /\ new.branch = story.current
           /\ new.parent = branches[new.branch].head]_vars

\* A scene that is committed while a pause is requested stops the automatic
\* batch: the story is left PAUSED or waiting for a choice (AC-02).
PauseStopsBatch ==
  [][segments' # segments /\ story.pauseRequested
       => story'.status \in {"PAUSED", "WAITING_CHOICE"}]_vars

CommittedChoice == Len(choices') > Len(choices)

\* Scenes of a branch that are later than every scene of it with a choice.
ScenesAfterChoices(branch) ==
  LET path == ScenesOn(branch)
      withChoice == {choices[c].segment : c \in DOMAIN choices} \cap path
  IN  Cardinality({s \in path : \A r \in withChoice : r < s})

\* The policy's bounds hold at the commit, for the completed scenes after the
\* latest choice on the path: the scene has a choice only from MinInterval of them
\* on, and from MaxInterval on it has one or the story is paused (AC-03).  The
\* distance was counted when the request was accepted, before pauses, drafts and
\* forks.  (This is the policy's count.  SPEC.md 5.2 counts the scene itself, too, and
\* is one scene shorter.)
ChoicesPaced ==
  [][segments' # segments =>
       LET distance == ScenesAfterChoices(story.current)
       IN  /\ CommittedChoice => distance >= MinInterval(Frequency)
           /\ story'.status = "IDLE" => distance < MaxInterval(Frequency)]_vars

-----------------------------------------------------------------------------
(* Properties of the choices, which fail once a story has a fork. *)

\* The choice that belongs to a branch at a scene of its path: the copy made
\* for it if it was forked there, else the choice of the branch it came from.
OwnChoice(branch, segment) ==
  LET own[b \in 0 .. Len(branches)] ==
        IF b = None THEN None
        ELSE IF branches[b].forkSegment = segment /\ segment # None THEN branches[b].forkChoice
        ELSE IF segment # None /\ segments[segment].branch = b
             THEN ChoicePointForSegment(segment)
        ELSE own[branches[b].parent]
  IN  own[branch]

CurrentOwnChoice == OwnChoice(story.current, branches[story.current].head)

\* A story that waits, waits for a choice the reader can make: the one shown
\* (get_current_choice_for_branch) is pending and submit_choice would take it.
WaitingForAChoice ==
  story.status = "WAITING_CHOICE" =>
    LET shown == CurrentChoice(story.current)
    IN  /\ IsPending(shown)
        /\ CanSubmit(shown, choices[shown].version)

\* While the choice at the head of the current branch is open the story waits
\* for it; it is never IDLE, so no scene can be generated past it.
OpenChoiceBlocks == IsPending(CurrentOwnChoice) => story.status = "WAITING_CHOICE"

\* A choice that has been selected is never changed by a later submission,
\* a double click or a custom action that was still being parsed (AC-04).
SelectionsStand ==
  [][\A c \in DOMAIN choices :
       choices[c].selected # Pending => choices'[c] = choices[c]]_vars

\* No scene follows a scene whose choice is still open on its branch.
NoScenePastOpenChoice ==
  [][segments' # segments => ~IsPending(CurrentOwnChoice)]_vars

\* Once a branch has made its choice at a scene, the history view, the export
\* and the context of the next scene show that choice for the scene.
HistoryShowsOwnChoice ==
  \A b \in DOMAIN branches : \A s \in ScenesOn(b) :
    LET own == OwnChoice(b, s)
    IN  own # None /\ ~IsPending(own) => ChoicePointForSegment(s) = own

-----------------------------------------------------------------------------
(* Properties of memory, drafts and reservations. *)

\* The effects of the choice made at the head of a branch are in the memory
\* that the next scene of the branch is generated with.
EffectsKept ==
  \A b \in DOMAIN branches :
    LET c == OwnChoice(b, branches[b].head)
    IN  c # None /\ ~IsPending(c) => c \in LatestMemory(b).effects

\* A scene is committed where it was planned: no plan, and no half-written
\* prose saved with it, is used for a second scene.
ScenesFollowTheirPlan ==
  \A s \in DOMAIN segments : segments[s].plannedFor = segments[s].parent

\* Reserved by nobody: every request for the branch is refused until a restart.
Leaked(branch) ==
  branch \in reserved /\ \A t \in Tasks : ~(Live(t) /\ task[t].branch = branch)

\* No way a request ends, by a scene, a pause, an error, a lost client or a restart,
\* leaves its branch reserved, except a response that is dropped before its first
\* event: its finally (routes/generation.py:192-196) never runs.
OnlyDropLeaks ==
  [][\A b \in reserved' : Leaked(b)' => Leaked(b) \/ \E t \in Tasks : DropResponse(t)]_vars

\* Every request ends, and its branch can be generated on again.
TasksEnd == \A t \in Tasks : Live(t) ~> ~Live(t)
BranchesReleased == \A b \in 1 .. MaxBranches : (b \in reserved) ~> (b \notin reserved)

=============================================================================
