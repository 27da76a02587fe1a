------------------------- MODULE ReaderPage_proofs -------------------------
(***************************************************************************)
(* Theorems about a reader page: whatever the reader, the other tabs and   *)
(* the faults do, the page only makes steps that StoryFlow allows, keeps   *)
(* its types, continues only after its own scene and sends at most one     *)
(* request after a pause. The last part is about the choices of a story    *)
(* until it is forked, in StoryFlow and in the page's view; after a fork   *)
(* those properties fail (README, section 3).                              *)
(***************************************************************************)
EXTENDS ReaderPage, StoryFlow_proofs

-----------------------------------------------------------------------------
(* What a document refers to *)

RequestOK(x) == IF x.phase = "streaming" THEN \E t \in Tasks : x.request = {t} ELSE x.request = {}

\* The branch and the choice in view exist.
ViewOK(x) ==
  /\ x.phase # "closed" => x.branch \in DOMAIN branches
  /\ x.choice # None => x.choice \in DOMAIN choices

PageOK(x) == x \in Page /\ RequestOK(x) /\ ViewOK(x)

\* A response has an event exactly from its commit or its failure on.
Outcome(t) == task[t].pc \in {"memory", "rolling", "done"}

EventsOK ==
  /\ event \in [Tasks -> Events]
  /\ \A t \in Tasks : Outcome(t) <=> event[t] # "none"

PageWellFormed == WellFormed /\ PageOK(page) /\ EventsOK /\ pressed \in Pressed

\* The type invariant of the page follows.
LEMMA PageWellFormedTypes == PageWellFormed => PageTypeOK
BY WellFormedParts DEF PageWellFormed, PageOK, RequestOK, EventsOK, PageTypeOK

\* No step deletes a branch or a choice.
LEMMA RowsStay ==
  ASSUME WellFormed, [Next]_vars
  PROVE  DOMAIN branches \subseteq DOMAIN branches' /\ DOMAIN choices \subseteq DOMAIN choices'
<1>0. RowsOK /\ TasksOK /\ ParsingOK
  BY DEF WellFormed
<1>1. CASE UNCHANGED <<branches, choices>>
  BY <1>1
<1>2. CASE \E t \in Tasks : CommitScene(t)
  <2>1. PICK t \in Tasks : CommitScene(t)
    BY <1>2
  <2>2. /\ task[t].branch \in DOMAIN branches /\ task[t].key \in Keys /\ task[t].plan \in Plan
        /\ FinalStatus(t) \in StoryStatus
    BY <1>0, <2>1 DEF TasksOK, TaskOK, Task, CommitScene, FinalStatus, StoryStatus
  <2>3. CommitGenerationBundle(task[t].branch, task[t].head, task[t].key,
                               task[t].plan, FinalStatus(t))
    BY <2>1 DEF CommitScene
  <2>4. TablesGrow
    BY <1>0, <2>2, <2>3, CommitGrows
  <2> QED
    BY <2>4 DEF TablesGrow
<1>3. CASE \E c \in DOMAIN choices : ForkAtChoice(c)
  BY <1>0, <1>3, ForkGrows DEF TablesGrow
<1>4. CASE \E c, version, selection : SubmitChoice(c, version, selection)
  BY <1>4, SubmitGrows DEF TablesGrow
<1>5. CASE Generate
  BY <1>1, <1>5 DEF Generate, Accept, repositoryVars
<1>6. CASE \E t \in Tasks : TaskMoves(t)
  BY <1>1, <1>2, <1>6
  DEF TaskMoves, TaskStep, StartRejected, StartDirector, StartFromDraft, DirectorPlans,
      ModelFails, PauseAtChunk, SaveGenerationDraft, CommitRejected, MemoryAnswer,
      RollingAnswer, DrainResponse, CloseResponse, repositoryVars
<1>7. CASE RequestPause \/ Resume \/ \E b \in DOMAIN branches : Activate(b)
  BY <1>1, <1>7 DEF RequestPause, PauseStory, Resume, ResumeStory, Activate, ActivateBranch
<1>8. CASE Select \/ ModelAnswersCustom
  BY <1>1, <1>4, <1>8 DEF Select, SelectOption, ParseCustomAction, ModelAnswersCustom,
                          SelectCustom, RejectCustom, repositoryVars
<1>9. CASE \E c \in DOMAIN choices : CreateBranch(c)
  BY <1>3, <1>9 DEF CreateBranch
<1>10. CASE Fault
  BY <1>1, <1>10 DEF Fault, Disconnect, CloseResponse, DropResponse, Restart,
                     RecoverInterruptedGenerations, repositoryVars
<1>11. CASE UNCHANGED vars
  BY <1>1, <1>11 DEF vars
<1> QED
  BY <1>5, <1>6, <1>7, <1>8, <1>9, <1>10, <1>11 DEF Next

\* The choice shown on a branch, if any, is a row.
LEMMA ShownExists ==
  ASSUME WellFormed, NEW branch \in DOMAIN branches
  PROVE  Shown(branch) \in Nat /\ (Shown(branch) # None => Shown(branch) \in DOMAIN choices)
<1>1. RowsOK /\ Len(choices) \in Nat /\ DOMAIN choices = 1 .. Len(choices)
  BY Tables DEF WellFormed, RowsOK
<1>2. branches[branch].forkChoice \in 0 .. Len(choices)
  BY <1>1 DEF RowsOK, RowReferencesExist
<1>3. PICK rows : rows = {c \in DOMAIN choices : choices[c].segment = branches[branch].head}
  OBVIOUS
<1>4. LastRow(rows) \in 0 .. Len(choices)
  BY <1>1, <1>3, LastRowFinds
<1>5. CurrentChoice(branch) \in 0 .. Len(choices)
  BY <1>1, <1>2, <1>3, <1>4 DEF CurrentChoice, None
<1> QED
  BY <1>1, <1>5 DEF Shown, None

\* A document that is loaded shows rows and awaits no response.
LEMMA LoadedOK ==
  ASSUME WellFormed, NEW branch \in DOMAIN branches, NEW pinned \in BOOLEAN
  PROVE  PageOK(Loaded(branch, pinned))
<1>1. branch \in Nat /\ story.status \in StoryStatus /\ (story.current = branch) \in BOOLEAN
  BY Tables DEF WellFormed, RowsOK, RepositoryTypeOK, Story
<1>2. PICK shown : shown = Shown(branch)
  OBVIOUS
<1>3. shown \in Nat /\ (shown # None => shown \in DOMAIN choices)
  BY <1>2, ShownExists
<1>4. PICK version : version = IF shown = None THEN 0 ELSE choices[shown].version
  OBVIOUS
<1>5. version \in Nat
  BY <1>3, <1>4, Tables DEF WellFormed, RowsOK, Choice
<1>6. PICK x : x = Loaded(branch, pinned)
  OBVIOUS
<1>7. /\ x \in Page /\ x.phase \in {"timer", "still"} /\ x.request = {}
      /\ x.branch = branch /\ x.choice = shown
  BY <1>1, <1>2, <1>3, <1>4, <1>5, <1>6 DEF Loaded, Closed, Page, None
<1> QED
  BY <1>3, <1>6, <1>7 DEF PageOK, RequestOK, ViewOK

-----------------------------------------------------------------------------
(* The page only does what StoryFlow lets a client do *)

\* The key of a new request is one that nobody else makes.
LEMMA NewKey ==
  ASSUME UnusedKeys # {}
  PROVE  /\ (CHOOSE k \in UnusedKeys : TRUE) \in PageKeys
         /\ (CHOOSE k \in UnusedKeys : TRUE) \in UnusedKeys
         /\ (CHOOSE k \in UnusedKeys : TRUE) \in Keys
BY PageAssumption DEF UnusedKeys

\* Every step of the page and its surroundings is a step of StoryFlow, or changes
\* only the page.
LEMMA PageStepIsStep ==
  ASSUME PageWellFormed, [PageNext]_pageVars
  PROVE  [Next]_vars
<1>0. story.current \in DOMAIN branches
  BY DEF PageWellFormed, WellFormed, RowsOK, RowReferencesExist
<1>1. CASE \E t \in Tasks : TaskRuns(t)
  BY <1>1 DEF TaskRuns, TaskStep, TaskMoves, Next
<1>2. CASE \E t \in Tasks : ResponseEnds(t)
  BY <1>2 DEF ResponseEnds, TaskStep, TaskMoves, Next
<1>3. CASE UNCHANGED vars
  BY <1>3
<1>4. CASE RequestAccepted
  <2>1. PICK key : key = CHOOSE k \in UnusedKeys : TRUE
    OBVIOUS
  <2>2. UNCHANGED parsing /\ UnusedKeys # {} /\ \E t \in Tasks : Accept(t, page.branch, key)
    BY <1>4, <2>1 DEF RequestAccepted
  <2>3. key \in Keys /\ page.branch \in DOMAIN branches
    BY <1>0, <2>1, <2>2, NewKey DEF Accept
  <2> QED
    BY <2>2, <2>3 DEF Generate, Next
<1>5. CASE PressPause
  BY <1>5 DEF PressPause, Next
<1>6. CASE \E option \in Options : PressOption(option) /\ ~UNCHANGED vars
  <2>1. PICK option \in Options : PressOption(option) /\ ~UNCHANGED vars
    BY <1>6
  <2>2. page.choice # None /\ SelectOption(page.choice, page.version, option)
    BY <2>1 DEF PressOption
  <2>3. page.choice \in DOMAIN choices /\ page.version = choices[page.choice].version
    BY <2>2 DEF PageWellFormed, PageOK, ViewOK, SelectOption, SubmitChoice, CanSubmit
  <2> QED
    BY <2>2, <2>3 DEF Select, Next
<1>7. CASE Others
  <2>1. CASE \E t \in Tasks, branch \in DOMAIN branches, key \in Keys \ PageKeys :
               Accept(t, branch, key) /\ UNCHANGED parsing
    BY <2>1 DEF Generate, Next
  <2> QED
    BY <1>7, <2>1 DEF Others, Next
<1>8. CASE ServerFault
  BY <1>8 DEF ServerFault, Fault, Next
<1> QED
  BY <1>1, <1>2, <1>3, <1>4, <1>5, <1>6, <1>7, <1>8
  DEF PageNext, PageScript, Open, Close, Reload, RequestRefused, ConnectionLost, pageVars

-----------------------------------------------------------------------------
(* Types *)

\* A document keeps its references while the tables grow.
LEMMA PageKept ==
  ASSUME WellFormed, [Next]_vars, NEW x, PageOK(x)
  PROVE  PageOK(x)'
BY RowsStay DEF PageOK, RequestOK, ViewOK

\* What the script makes of the document keeps its types.
LEMMA ScriptPages ==
  ASSUME PageOK(page), page.phase # "closed"
  PROVE  /\ PageOK(Failed)
         /\ \A name \in Events \ {"none"} : PageOK(After(name))
<1>1. PageOK(Failed) /\ Failed.phase = "still"
  BY DEF PageOK, RequestOK, ViewOK, Failed, Page
<1>2. \A phase \in {"timer", "reload"} : PageOK(Answered(phase))
  BY DEF PageOK, RequestOK, ViewOK, Answered, Page
<1>3. ASSUME NEW name \in Events \ {"none"} PROVE PageOK(After(name))
  BY <1>1, <1>2 DEF After, Events
<1> QED
  BY <1>1, <1>3

\* A step of a task changes no other task.
LEMMA OtherTasksStay ==
  ASSUME TasksOK, NEW t \in Tasks, TaskMoves(t), NEW u \in Tasks, u # t
  PROVE  task'[u] = task[u]
<1>1. task \in [Tasks -> Task]
  BY DEF TasksOK
<1>2. \E x : task' = [task EXCEPT ![t] = x]
  BY DEF TaskMoves, TaskStep, StartRejected, StartDirector, StartFromDraft, DirectorPlans,
         StartWriter, ModelFails, PauseAtChunk, CommitScene, CommitRejected, MemoryAnswer,
         RollingAnswer, EndCommitted, EndTask, DrainResponse, CloseResponse
<1> QED
  BY <1>1, <1>2

\* No response ends without an event: a task that has committed or failed has
\* queued one before.
LEMMA NextEventsOK ==
  ASSUME PageWellFormed, [PageNext]_pageVars
  PROVE  EventsOK'
<1>0. /\ task \in [Tasks -> Task] /\ TasksOK /\ event \in [Tasks -> Events]
      /\ \A t \in Tasks : Outcome(t) <=> event[t] # "none"
  BY DEF PageWellFormed, WellFormed, TasksOK, EventsOK
<1> USE DEF Outcome
<1>1. CASE UNCHANGED <<task, event>>
  BY <1>0, <1>1 DEF EventsOK
<1>2. CASE \E t \in Tasks : TaskRuns(t)
  <2>1. PICK t \in Tasks : TaskRuns(t)
    BY <1>2
  <2>2. \A u \in Tasks : u # t => task'[u] = task[u]
    BY <1>0, <2>1, OtherTasksStay DEF TaskRuns, TaskStep, TaskMoves
  <2>3. CASE Outcome(t)' /\ \E name \in Events \ {"none"} : Queue(t, name)
    BY <1>0, <2>2, <2>3 DEF Queue, EventsOK
  <2>e. CASE EndTask(t) /\ \E name \in Events \ {"none"} : Queue(t, name)
    <3>1. task'[t].pc = "done"
      BY <1>0, <2>e DEF EndTask, NoTask
    <3> QED
      BY <2>3, <2>e, <3>1
  <2>c. CASE CommitScene(t) /\ Queue(t, CommitEvent(t))
    <3>1. task'[t].pc = "memory"
      BY <1>0, <2>c DEF CommitScene, Task
    <3> QED
      BY <2>3, <2>c, <3>1 DEF CommitEvent, Events
  <2>4. CASE StartDirector(t) /\ UNCHANGED event
    <3>1. task'[t].pc = "director"
      BY <1>0, <2>4 DEF StartDirector, Task
    <3> QED
      BY <1>0, <2>2, <2>4, <3>1 DEF EventsOK, StartDirector
  <2>5. CASE /\ \E head, plan : StartWriter(t, head, plan)
             /\ task[t].pc \in {"accepted", "director"} /\ UNCHANGED event
    <3>1. task'[t].pc = "stream"
      BY <1>0, <2>5 DEF StartWriter, Task
    <3> QED
      BY <1>0, <2>2, <2>5, <3>1 DEF EventsOK
  <2>6. CASE /\ \E updated \in BOOLEAN : MemoryAnswer(t, updated) \/ RollingAnswer(t, updated)
             /\ UNCHANGED event
    <3>1. task[t].pc \in {"memory", "rolling"} /\ task'[t].pc \in {"rolling", "done"}
      <4>1. CASE EndTask(t)
        BY <1>0, <2>6, <4>1 DEF EndTask, NoTask, MemoryAnswer, RollingAnswer
      <4>2. CASE ~EndTask(t)
        BY <1>0, <2>6, <4>2 DEF MemoryAnswer, RollingAnswer, EndCommitted, Task
      <4> QED
        BY <4>1, <4>2
    <3> QED
      BY <1>0, <2>2, <2>6, <3>1 DEF EventsOK
  <2> QED
    BY <2>1, <2>c, <2>e, <2>4, <2>5, <2>6
    DEF TaskRuns, Events, StartRejected, ModelFails, CommitRejected, PauseAtChunk,
        StartFromDraft, DirectorPlans
<1>3. ASSUME NEW t \in Tasks, NEW x, task' = [task EXCEPT ![t] = x],
             x.pc \in {"idle", "accepted"},
             Queue(t, "none") \/ (UNCHANGED event /\ ~Outcome(t))
      PROVE  EventsOK'
  BY <1>0, <1>3 DEF EventsOK, Queue, Events
<1>4. ASSUME NEW t \in Tasks, CloseResponse(t), Queue(t, "none") PROVE EventsOK'
  BY <1>3, <1>4 DEF CloseResponse, NoTask
<1>5. CASE \E t \in Tasks : ResponseEnds(t)
  BY <1>4, <1>5 DEF ResponseEnds, DrainResponse
<1>6. ASSUME NEW t \in Tasks, NEW branch, NEW key, Accept(t, branch, key), UNCHANGED event
      PROVE  EventsOK'
  <2>1. PICK x : x = [NoTask EXCEPT !.pc = "accepted", !.branch = branch, !.key = key,
                        !.distance = ScenesSinceLastChoice(branch)]
    OBVIOUS
  <2>2. x.pc = "accepted" /\ task' = [task EXCEPT ![t] = x] /\ ~Outcome(t)
    BY <1>6, <2>1 DEF Accept, NoTask
  <2> QED
    BY <1>3, <1>6, <2>2
<1>7. CASE RequestAccepted
  BY <1>6, <1>7 DEF RequestAccepted
<1>8. CASE Others
  <2>1. CASE \E t \in Tasks, branch \in DOMAIN branches, key \in Keys \ PageKeys :
               Accept(t, branch, key)
    BY <1>6, <1>8, <2>1 DEF Others
  <2> QED
    BY <1>1, <1>8, <2>1
    DEF Others, RequestPause, Resume, Activate, Select, SelectOption, ParseCustomAction,
        ModelAnswersCustom, SelectCustom, RejectCustom, CreateBranch, serviceVars
<1>9. CASE ServerFault
  <2>1. CASE \E t \in Tasks : Disconnect(t) /\ Queue(t, "none")
    BY <1>4, <2>1 DEF Disconnect
  <2>2. CASE \E t \in Tasks : DropResponse(t) /\ UNCHANGED event
    BY <1>3, <2>2 DEF DropResponse, NoTask
  <2>3. CASE Restart /\ event' = [t \in Tasks |-> "none"]
    BY <2>3 DEF Restart, NoTask, EventsOK, Events
  <2> QED
    BY <1>9, <2>1, <2>2, <2>3 DEF ServerFault
<1>10. CASE PressPause
  BY <1>1, <1>10 DEF PressPause, RequestPause, serviceVars
<1>11. CASE \E option \in Options : PressOption(option)
  BY <1>1, <1>11 DEF PressOption, SelectOption, serviceVars, vars
<1> QED
  BY <1>1, <1>2, <1>5, <1>7, <1>8, <1>9, <1>10, <1>11
  DEF PageNext, PageScript, Open, Close, Reload, RequestRefused, ConnectionLost, pageVars, vars

\* The observation of the pause button keeps its type.
LEMMA NextPressedOK ==
  ASSUME pressed \in Pressed, [PageNext]_pageVars
  PROVE  pressed' \in Pressed
<1>1. Pressed = [held : BOOLEAN, sent : Nat] /\ NotPressed \in Pressed
  BY DEF Pressed, NotPressed
<1>2. Sent => pressed' \in Pressed
  BY <1>1 DEF Sent
<1>3. [held |-> TRUE, sent |-> 0] \in Pressed
  BY <1>1
<1>4. CASE PressPause
  BY <1>3, <1>4 DEF PressPause
<1>5. CASE \E option \in Options : PressOption(option)
  BY <1>1, <1>5 DEF PressOption, vars
<1>6. CASE Others
  BY <1>1, <1>6 DEF Others
<1>7. CASE ConnectionLost
  BY <1>2, <1>7 DEF ConnectionLost
<1> QED
  BY <1>1, <1>2, <1>4, <1>5, <1>6, <1>7
  DEF PageNext, PageScript, TaskRuns, ResponseEnds, Open, Close, Reload, RequestAccepted,
      RequestRefused, ServerFault, pageVars

\* Every step keeps the page well formed.
LEMMA NextPageWellFormed ==
  ASSUME PageWellFormed, [PageNext]_pageVars
  PROVE  PageWellFormed'
<1>0. WellFormed /\ PageOK(page) /\ EventsOK /\ [Next]_vars
  BY PageStepIsStep DEF PageWellFormed
<1>1. WellFormed' /\ EventsOK' /\ pressed' \in Pressed
  BY <1>0, NextWellFormed, NextEventsOK, NextPressedOK DEF PageWellFormed
<1>2. SUFFICES PageOK(page')
  <2>1. PageOK(page') => PageOK(page)'
    BY <1>0, RowsStay DEF PageOK, RequestOK, ViewOK
  <2> QED
    BY <1>1, <1>2, <2>1 DEF PageWellFormed
<1>3. CASE UNCHANGED page
  BY <1>0, <1>3
<1>4. CASE page' = Closed
  BY <1>4 DEF PageOK, RequestOK, ViewOK, Page, Closed, None
<1>5. CASE \E branch \in DOMAIN branches, pinned \in BOOLEAN : page' = Loaded(branch, pinned)
  BY <1>0, <1>5, LoadedOK
<1>6. CASE page' = Failed /\ page.phase # "closed"
  BY <1>0, <1>6, ScriptPages
<1>7. CASE \E t \in Tasks : ResponseEnds(t)
  <2>1. PICK t \in Tasks : ResponseEnds(t)
    BY <1>7
  <2>2. CASE t \in page.request
    <3>1. page.phase # "closed" /\ event[t] \in Events \ {"none"}
      BY <1>0, <2>1, <2>2 DEF PageOK, RequestOK, EventsOK, Outcome, ResponseEnds, DrainResponse
    <3> QED
      BY <1>0, <2>1, <2>2, <3>1, ScriptPages DEF ResponseEnds
  <2> QED
    BY <1>3, <2>1, <2>2 DEF ResponseEnds
<1>8. CASE Reload
  <2>1. page.branch \in DOMAIN branches /\ story.current \in DOMAIN branches
        /\ page.pinned \in BOOLEAN
    BY <1>0, <1>8 DEF Reload, PageOK, ViewOK, Page, WellFormed, RowsOK, RowReferencesExist
  <2> QED
    BY <1>5, <1>8, <2>1 DEF Reload
<1>9. CASE RequestAccepted
  <2>1. PICK key : key = CHOOSE k \in UnusedKeys : TRUE
    OBVIOUS
  <2>2. PICK t \in Tasks : page' = [page EXCEPT !.phase = "streaming", !.request = {t},
                                                !.key = {key}, !.error = FALSE]
    BY <1>9, <2>1 DEF RequestAccepted
  <2>3. key \in Keys /\ page.phase = "timer"
    BY <1>9, <2>1, NewKey DEF RequestAccepted
  <2> QED
    BY <1>0, <2>2, <2>3 DEF PageOK, RequestOK, ViewOK, Page
<1>10. CASE PressPause
  BY <1>0, <1>10 DEF PressPause, PageOK, RequestOK, ViewOK, Page
<1>11. CASE \E option \in Options : PressOption(option)
  <2>1. page.phase = "still"
        /\ (page' = Failed \/ page' = [page EXCEPT !.phase = "reload"])
    BY <1>11 DEF PressOption
  <2> QED
    BY <1>0, <1>6, <2>1 DEF PageOK, RequestOK, ViewOK, Page
<1> QED
  BY <1>3, <1>4, <1>5, <1>6, <1>7, <1>8, <1>9, <1>10, <1>11
  DEF PageNext, PageScript, TaskRuns, Open, Close, RequestRefused, ConnectionLost, Others,
      ServerFault, pageVars

\* A closed page is well formed.
LEMMA InitPageWellFormed == PageInit => PageWellFormed
BY InitWellFormed
DEF PageInit, PageWellFormed, PageOK, RequestOK, ViewOK, Page, Closed, EventsOK, Outcome, Events,
    None, Init, ServiceInit, NoTask, Pressed, NotPressed

\* Every reachable state is well formed.
LEMMA AlwaysPageWellFormed == PageSpec => []PageWellFormed
BY InitPageWellFormed, NextPageWellFormed, PTL DEF PageSpec

\* The page and its events keep their types: a page streams exactly while it has
\* one request.
THEOREM PageTypeCorrect == PageSpec => []PageTypeOK
BY AlwaysPageWellFormed, PageWellFormedTypes, PTL

\* A page in front of StoryFlow is one of its clients: every theorem about Spec
\* holds with a page that continues the story by itself.
THEOREM PageIsAClient == PageSpec => Spec
<1>1. PageInit => Init
  BY DEF PageInit
<1> QED
  BY <1>1, AlwaysPageWellFormed, PageStepIsStep, PTL DEF PageSpec, Spec

-----------------------------------------------------------------------------
(* The page continues after its own scene *)

Early(t) == task[t].pc \in {"accepted", "director", "stream"}

Unused(k) == \A s \in DOMAIN segments : segments[s].key # k

HeadHasKey(branch, k) ==
  LET head == branches[branch].head
  IN  head # None /\ segments[head].key = k

\* Task t works for the page, and nobody else uses its key k: until the commit no
\* scene has the key, and an announced continuation means that the head has it.
Serves(t, k) ==
  /\ page.request = {t} /\ page.key = {k}
  /\ Live(t) /\ task[t].branch = page.branch
  /\ \A u \in Tasks : u # t => task[u].key # k
  /\ Early(t) => task[t].key = k /\ Unused(k)
  /\ event[t] = "continue" => HeadHasKey(page.branch, k)

Served == page.phase = "streaming" => \E t \in Tasks, k \in PageKeys : Serves(t, k)

\* A step of a task keeps its key or ends with it.
LEMMA TaskKeepsKey ==
  ASSUME TasksOK, NEW t \in Tasks, TaskMoves(t)
  PROVE  task'[t].key \in {task[t].key, None}
<1>0. task \in [Tasks -> Task]
  BY DEF TasksOK
<1>1. CASE EndTask(t) \/ CloseResponse(t)
  <2>1. NoTask.key = None /\ Ended(t).key = None
    BY DEF Ended, NoTask
  <2>2. task' = [task EXCEPT ![t] = Ended(t)] \/ task' = [task EXCEPT ![t] = NoTask]
    BY <1>1 DEF EndTask, CloseResponse, Ended
  <2> QED
    BY <1>0, <2>1, <2>2
<1>2. CASE StartDirector(t) \/ CommitScene(t)
  BY <1>0, <1>2 DEF StartDirector, CommitScene, Task
<1>3. CASE \E head, plan : StartWriter(t, head, plan)
  BY <1>0, <1>3 DEF StartWriter, Task
<1>4. CASE (\E updated \in BOOLEAN : MemoryAnswer(t, updated)) /\ ~EndTask(t)
  BY <1>0, <1>4 DEF MemoryAnswer, EndCommitted, Task
<1>5. CASE StartFromDraft(t) \/ \E suggestion \in BOOLEAN : DirectorPlans(t, suggestion)
  BY <1>3, <1>5 DEF StartFromDraft, DirectorPlans
<1>6. CASE StartRejected(t) \/ ModelFails(t) \/ PauseAtChunk(t) \/ CommitRejected(t)
  BY <1>1, <1>6 DEF StartRejected, ModelFails, PauseAtChunk, CommitRejected
<1>7. CASE (\E updated \in BOOLEAN : RollingAnswer(t, updated)) \/ DrainResponse(t)
  BY <1>1, <1>7 DEF RollingAnswer, EndCommitted, DrainResponse
<1> QED
  BY <1>1, <1>2, <1>4, <1>5, <1>6, <1>7 DEF TaskMoves, TaskStep

\* While a task is in flight nobody else moves the head of its branch or stores a
\* scene under its key.
LEMMA ScenesStay ==
  ASSUME WellFormed, Reservations, [Next]_vars, NEW t \in Tasks, NEW k, Live(t),
         \A u \in Tasks : u # t => task[u].key # k, ~CommitScene(t)
  PROVE  /\ Unused(k) => Unused(k)'
         /\ HeadHasKey(task[t].branch, k) =>
              /\ branches'[task[t].branch].head = branches[task[t].branch].head
              /\ branches[task[t].branch].head # None
              /\ segments'[branches[task[t].branch].head].key = k
<1> DEFINE b == task[t].branch
<1>0. /\ b \in DOMAIN branches /\ branches[b] \in Branch
      /\ branches[b].head \in 0 .. Len(segments)
      /\ Len(segments) \in Nat /\ DOMAIN segments = 1 .. Len(segments)
  BY Tables DEF WellFormed, TasksOK, TaskOK, Live, RowsOK, RowReferencesExist
<1>1. CASE UNCHANGED <<segments, branches>>
  BY <1>1 DEF Unused, HeadHasKey
<1>2. CASE UNCHANGED segments /\ \E c \in DOMAIN choices : ForkAtChoice(c)
  BY <1>0, <1>2, ForkKeepsRows DEF Unused, HeadHasKey
<1>3. CASE ~UNCHANGED <<segments, branches>> /\ \E u \in Tasks : CommitScene(u)
  <2>1. PICK u \in Tasks : CommitScene(u)
    BY <1>3
  <2>2. u # t /\ Live(u)
    BY <2>1 DEF CommitScene, Live
  <2>3. task[u].branch # b /\ task[u].key # k
    BY <2>2 DEF Reservations, OneTaskPerBranch
  <2>4. /\ Len(segments') = Len(segments) + 1 /\ DOMAIN segments' = 1 .. Len(segments')
        /\ \A s \in DOMAIN segments : segments'[s] = segments[s]
        /\ segments'[Len(segments')].key = task[u].key
        /\ branches' = [branches EXCEPT ![task[u].branch].head = Len(segments')]
    BY <1>3, <2>1, CommittedScene
  <2>5. \A s \in DOMAIN segments' : s = Len(segments') \/ s \in DOMAIN segments
    BY <1>0, <2>4
  <2>6. Unused(k) => Unused(k)'
    BY <2>3, <2>4, <2>5 DEF Unused
  <2>7. branches'[b] = branches[b]
    BY <1>0, <2>3, <2>4
  <2>8. branches[b].head # None => branches[b].head \in DOMAIN segments
    BY <1>0 DEF None
  <2> QED
    BY <2>4, <2>6, <2>7, <2>8 DEF HeadHasKey
<1> QED
  BY <1>1, <1>2, <1>3, SceneSteps

\* The commit of a task with a fresh key puts its scene at the head of its branch.
LEMMA OwnCommit ==
  ASSUME WellFormed, NEW t \in Tasks, CommitScene(t), Unused(task[t].key)
  PROVE  /\ branches'[task[t].branch].head # None
         /\ segments'[branches'[task[t].branch].head].key = task[t].key
<1> DEFINE b == task[t].branch
<1>1. RowsOK /\ task[t] \in Task /\ TaskOK(task[t]) /\ task[t].pc = "stream"
  BY DEF WellFormed, TasksOK, CommitScene
<1>2. b \in DOMAIN branches /\ task[t].key \in Keys /\ task[t].plan \in Plan
  BY <1>1 DEF TaskOK, Task
<1>3. InsertSegmentBundle(b, branches[b].head, task[t].key, task[t].plan)
  BY DEF CommitScene, CommitGenerationBundle, CanCommit
<1>4. SegmentByKey(task[t].key) = None
  BY <1>1, KeyLookup DEF RowsOK, Unused
<1>5. /\ Len(segments') = Len(segments) + 1
      /\ segments'[Len(segments')].key = task[t].key
      /\ branches' = [branches EXCEPT ![b].head = Len(segments')]
  BY <1>1, <1>2, <1>3, <1>4, InsertRows
<1>6. branches[b] \in Branch /\ Len(segments) \in Nat
  BY <1>1, <1>2, Tables DEF RowsOK
<1>7. branches'[b].head = Len(segments')
  BY <1>2, <1>5, <1>6 DEF Branch
<1> QED
  BY <1>5, <1>6, <1>7 DEF None

\* A step of another client leaves alone the tasks, and the events, in flight.
LEMMA OthersServe ==
  ASSUME PageWellFormed, PageNext, ~RequestAccepted, NEW t \in Tasks, Live(t),
         page.request = {t}, page.phase = "streaming", page'.phase = "streaming",
         ~TaskRuns(t), NEW k \in PageKeys, \A u \in Tasks : u # t => task[u].key # k
  PROVE  /\ task'[t] = task[t] /\ event'[t] = event[t]
         /\ \A u \in Tasks : u # t => task'[u].key # k
<1>0. task \in [Tasks -> Task] /\ TasksOK /\ event \in [Tasks -> Events] /\ k # None
      /\ k \in Keys
  BY PageAssumption DEF PageWellFormed, WellFormed, TasksOK, EventsOK
<1>1. CASE UNCHANGED <<task, event>>
  BY <1>1
<1>2. CASE \E u \in Tasks \ {t} : TaskMoves(u) /\ \E name : Queue(u, name) \/ UNCHANGED event
  <2>1. PICK u \in Tasks \ {t} : TaskMoves(u) /\ \E name : Queue(u, name) \/ UNCHANGED event
    BY <1>2
  <2>2. \A v \in Tasks : v # u => task'[v] = task[v]
    BY <1>0, <2>1, OtherTasksStay
  <2>3. task'[u].key \in {task[u].key, None}
    BY <1>0, <2>1, TaskKeepsKey
  <2>4. event'[t] = event[t]
    BY <1>0, <2>1 DEF Queue
  <2> QED
    BY <1>0, <2>1, <2>2, <2>3, <2>4
<1>3. CASE \E u \in Tasks : TaskRuns(u)
  BY <1>2, <1>3 DEF TaskRuns, TaskStep, TaskMoves
<1>4. CASE \E u \in Tasks : ResponseEnds(u)
  <2>1. PICK u \in Tasks : ResponseEnds(u)
    BY <1>4
  <2>2. CASE u = t
    <3>1. event[t] \in {"error", "continue", "choice", "paused"} /\ page' = After(event[t])
      BY <1>0, <2>1, <2>2
      DEF PageWellFormed, EventsOK, Outcome, ResponseEnds, DrainResponse, Events
    <3>2. page \in Page
      BY DEF PageWellFormed, PageOK
    <3>3. \A phase \in {"timer", "reload"} : Answered(phase).phase = phase
      BY <3>2 DEF Answered, Page
    <3>4. Failed.phase = "still"
      BY <3>2 DEF Failed, Page
    <3> QED
      BY <3>1, <3>3, <3>4 DEF After
  <2>3. CASE u # t
    BY <1>2, <2>1, <2>3 DEF ResponseEnds, TaskStep, TaskMoves
  <2> QED
    BY <2>2, <2>3
<1>5. CASE Others
  <2>1. CASE \E u \in Tasks, branch \in DOMAIN branches, key \in Keys \ PageKeys :
               Accept(u, branch, key)
    <3>1. PICK u \in Tasks, branch \in DOMAIN branches, key \in Keys \ PageKeys :
            Accept(u, branch, key)
      BY <2>1
    <3>2. u # t
      BY <3>1 DEF Accept, Live
    <3>3. PICK x : x = [NoTask EXCEPT !.pc = "accepted", !.branch = branch, !.key = key,
                                      !.distance = ScenesSinceLastChoice(branch)]
      OBVIOUS
    <3>4. x.key = key /\ task' = [task EXCEPT ![u] = x]
      BY <3>1, <3>3 DEF Accept, NoTask
    <3> QED
      BY <1>0, <1>5, <3>1, <3>2, <3>4 DEF Others
  <2> QED
    BY <1>1, <1>5, <2>1
    DEF Others, RequestPause, Resume, Activate, Select, SelectOption, ParseCustomAction,
        ModelAnswersCustom, SelectCustom, RejectCustom, CreateBranch, serviceVars
<1>6. CASE ServerFault
  <2>1. CASE \E u \in Tasks \ {t} : /\ CloseResponse(u) \/ DropResponse(u)
                                    /\ Queue(u, "none") \/ UNCHANGED event
    BY <1>0, <2>1 DEF CloseResponse, DropResponse, NoTask, Queue
  <2>2. ~(page' = Failed)
    BY DEF PageWellFormed, PageOK, Failed, Page
  <2> QED
    BY <1>6, <2>1, <2>2 DEF ServerFault, Disconnect
<1>7. CASE PressPause
  BY <1>1, <1>7 DEF PressPause, RequestPause, serviceVars
<1>8. CASE \E option \in Options : PressOption(option)
  BY <1>8 DEF PressOption
<1> QED
  BY <1>1, <1>3, <1>4, <1>5, <1>6, <1>7, <1>8
  DEF PageNext, PageScript, Open, Close, Reload, RequestRefused, ConnectionLost, vars

\* A request that is accepted is served by its task.
LEMMA NewRequestServed ==
  ASSUME PageWellFormed, RequestAccepted
  PROVE  Served'
<1>0. /\ task \in [Tasks -> Task] /\ event \in [Tasks -> Events]
      /\ \A u \in Tasks : Outcome(u) <=> event[u] # "none"
      /\ page \in Page
  BY DEF PageWellFormed, WellFormed, TasksOK, EventsOK, PageOK
<1>1. PICK k : k = CHOOSE x \in UnusedKeys : TRUE
  OBVIOUS
<1>2. PICK t \in Tasks :
        /\ Accept(t, page.branch, k)
        /\ page' = [page EXCEPT !.phase = "streaming", !.request = {t}, !.key = {k},
                                !.error = FALSE]
        /\ UNCHANGED event
  BY <1>1 DEF RequestAccepted
<1>3. k \in PageKeys /\ k \in UnusedKeys
  BY <1>1, NewKey DEF RequestAccepted
<1>4. PICK x : x = [NoTask EXCEPT !.pc = "accepted", !.branch = page.branch, !.key = k,
                                  !.distance = ScenesSinceLastChoice(page.branch)]
  OBVIOUS
<1>5. /\ x.pc = "accepted" /\ x.branch = page.branch /\ x.key = k
      /\ task' = [task EXCEPT ![t] = x] /\ task[t].pc = "idle" /\ UNCHANGED segments
  BY <1>2, <1>4 DEF Accept, NoTask, repositoryVars
<1>6. page'.branch = page.branch /\ page'.request = {t} /\ page'.key = {k}
  BY <1>0, <1>2 DEF Page
<1>7. Unused(k)
  <2>1. RepositoryTypeOK /\ SegmentByKey(k) = None
    BY <1>3 DEF UnusedKeys, PageWellFormed, WellFormed, RowsOK
  <2> QED
    BY <2>1, KeyLookup DEF Unused
<1>8. \A u \in Tasks : u # t => task'[u].key # k
  BY <1>0, <1>3, <1>5 DEF UnusedKeys
<1>9. event'[t] = "none"
  BY <1>0, <1>2, <1>5 DEF Outcome
<1>10. Serves(t, k)'
  BY <1>0, <1>5, <1>6, <1>7, <1>8, <1>9 DEF Serves, Live, Early, Unused
<1> QED
  BY <1>3, <1>10 DEF Served

\* A step of the page's own task: only its commit announces a continuation.
LEMMA OwnStepServes ==
  ASSUME PageWellFormed, Reservations, NEW t \in Tasks, NEW k \in PageKeys, Serves(t, k),
         TaskRuns(t)
  PROVE  Serves(t, k)'
<1>0. /\ WellFormed /\ TasksOK /\ task \in [Tasks -> Task] /\ event \in [Tasks -> Events]
      /\ \A u \in Tasks : Outcome(u) <=> event[u] # "none"
      /\ page.branch = task[t].branch /\ UNCHANGED page
  BY DEF PageWellFormed, WellFormed, TasksOK, EventsOK, Serves, TaskRuns
<1>1. TaskMoves(t) /\ [Next]_vars
  BY DEF TaskRuns, TaskStep, TaskMoves, Next
<1>2. ~DrainResponse(t)
  <2>1. CASE task[t].pc = "done"
    BY <2>1
    DEF TaskRuns, StartRejected, ModelFails, CommitRejected, PauseAtChunk, CommitScene,
        StartDirector, StartFromDraft, DirectorPlans, MemoryAnswer, RollingAnswer
  <2> QED
    BY <2>1 DEF DrainResponse
<1>3. Live(t)' /\ task'[t].branch = page.branch
  BY <1>0, <1>1, <1>2, TaskKeepsBranch DEF Serves, SameLife
<1>4. \A u \in Tasks : u # t => task'[u].key # k
  BY <1>0, <1>1, OtherTasksStay DEF Serves
<1>5. CASE CommitScene(t)
  <2>1. task[t].key = k /\ Unused(k) /\ task'[t].pc = "memory"
    BY <1>0, <1>5 DEF CommitScene, Serves, Early, Task
  <2>2. HeadHasKey(page.branch, k)'
    BY <1>0, <1>5, <2>1, OwnCommit DEF HeadHasKey
  <2> QED
    BY <1>0, <1>3, <1>4, <2>1, <2>2 DEF Serves, Early
<1>6. CASE ~CommitScene(t)
  <2>1. /\ Unused(k) => Unused(k)'
        /\ HeadHasKey(page.branch, k) => HeadHasKey(page.branch, k)'
    BY <1>0, <1>1, <1>6, ScenesStay DEF Serves, HeadHasKey
  <2>2. Early(t)' => Early(t) /\ task'[t].key = task[t].key
    <3>1. CASE EndTask(t)
      <4>1. Ended(t).pc = "done" /\ task' = [task EXCEPT ![t] = Ended(t)]
        BY <3>1 DEF EndTask, Ended, NoTask
      <4> QED
        BY <1>0, <4>1 DEF Early
    <3>2. CASE StartDirector(t)
      BY <1>0, <3>2 DEF StartDirector, Early, Task
    <3>3. CASE task[t].pc \in {"accepted", "director"} /\ \E head, plan : StartWriter(t, head, plan)
      BY <1>0, <3>3 DEF StartWriter, Early, Task
    <3>4. CASE \E updated \in BOOLEAN : MemoryAnswer(t, updated) /\ ~EndTask(t)
      BY <1>0, <3>4 DEF MemoryAnswer, EndCommitted, Early, Task
    <3>5. CASE StartFromDraft(t) \/ \E suggestion \in BOOLEAN : DirectorPlans(t, suggestion)
      BY <3>3, <3>5 DEF StartFromDraft, DirectorPlans
    <3>6. CASE StartRejected(t) \/ ModelFails(t) \/ PauseAtChunk(t) \/ CommitRejected(t)
      BY <3>1, <3>6 DEF StartRejected, ModelFails, PauseAtChunk, CommitRejected
    <3>7. CASE \E updated \in BOOLEAN : RollingAnswer(t, updated)
      BY <3>1, <3>7 DEF RollingAnswer, EndCommitted
    <3> QED
      BY <1>1, <1>2, <1>6, <3>1, <3>2, <3>4, <3>5, <3>6, <3>7 DEF TaskMoves, TaskStep
  <2>3. event'[t] \in {event[t], "error", "paused"}
    BY <1>0, <1>6 DEF TaskRuns, Queue
  <2> QED
    BY <1>0, <1>3, <1>4, <2>1, <2>2, <2>3 DEF Serves
<1> QED
  BY <1>5, <1>6

\* Every step keeps the request of the page served.
LEMMA NextServed ==
  ASSUME PageWellFormed, Reservations, Served, [PageNext]_pageVars
  PROVE  Served'
<1>1. SUFFICES ASSUME page'.phase = "streaming" PROVE Served'
  BY DEF Served
<1>2. CASE UNCHANGED pageVars
  <2>1. UNCHANGED <<segments, branches, task, page, event>>
    BY <1>2 DEF pageVars, vars
  <2> QED
    BY <2>1 DEF Served, Serves, Live, Early, Unused, HeadHasKey
<1>3. CASE RequestAccepted
  BY <1>3, NewRequestServed
<1>4. CASE PageNext /\ ~RequestAccepted
  <2>0. page \in Page
    BY DEF PageWellFormed, PageOK
  <2>1. /\ page.phase = "streaming" /\ page'.branch = page.branch
        /\ page'.request = page.request /\ page'.key = page.key
    <3>1. CASE UNCHANGED page
      BY <1>1, <3>1
    <3>2. CASE page' = Closed
      BY <1>1, <3>2 DEF Closed
    <3>3. CASE \E branch, pinned : page' = Loaded(branch, pinned)
      <4>1. PICK branch, pinned : page' = Loaded(branch, pinned)
        BY <3>3
      <4>2. PICK phase : phase = IF story.status = "IDLE" /\ story.current = branch
                                 THEN "timer" ELSE "still"
        OBVIOUS
      <4>3. Loaded(branch, pinned).phase = phase
        BY <4>2 DEF Loaded, Closed
      <4> QED
        BY <1>1, <4>1, <4>2, <4>3
    <3>4. CASE page' = Failed
      BY <1>1, <2>0, <3>4 DEF Failed, Page
    <3>5. CASE PressPause
      BY <1>1, <2>0, <3>5 DEF PressPause, Page
    <3>6. CASE \E option \in Options : PressOption(option)
      <4>1. page' = Failed \/ page' = [page EXCEPT !.phase = "reload"]
        BY <3>6 DEF PressOption
      <4> QED
        BY <1>1, <2>0, <3>4, <4>1 DEF Page
    <3>7. CASE \E t \in Tasks : ResponseEnds(t)
      <4>1. PICK t \in Tasks : ResponseEnds(t)
        BY <3>7
      <4>2. CASE t \in page.request
        <5>1. event[t] \in {"error", "continue", "choice", "paused"}
          BY <4>1 DEF PageWellFormed, EventsOK, Outcome, ResponseEnds, DrainResponse, Events
        <5>2. \A phase \in {"timer", "reload"} : Answered(phase).phase = phase
          BY <2>0 DEF Answered, Page
        <5> QED
          BY <1>1, <3>4, <4>1, <4>2, <5>1, <5>2 DEF ResponseEnds, After
      <4> QED
        BY <3>1, <4>1, <4>2 DEF ResponseEnds
    <3> QED
      BY <1>4, <3>1, <3>2, <3>3, <3>4, <3>5, <3>6, <3>7
      DEF PageNext, PageScript, TaskRuns, Open, Close, Reload, RequestRefused, ConnectionLost,
          Others, ServerFault
  <2>2. PICK t \in Tasks, k \in PageKeys : Serves(t, k)
    BY <2>1 DEF Served
  <2>3. CASE TaskRuns(t)
    BY <2>2, <2>3, OwnStepServes DEF Served
  <2>4. CASE ~TaskRuns(t)
    <3>1. Live(t) /\ page.request = {t} /\ \A u \in Tasks : u # t => task[u].key # k
      BY <2>2 DEF Serves
    <3>2. /\ task'[t] = task[t] /\ event'[t] = event[t]
          /\ \A u \in Tasks : u # t => task'[u].key # k
      BY <1>1, <1>4, <2>1, <2>4, <3>1, OthersServe
    <3>3. WellFormed /\ task \in [Tasks -> Task] /\ [Next]_vars /\ page.branch = task[t].branch
      BY <2>2, PageStepIsStep DEF PageWellFormed, WellFormed, TasksOK, Serves
    <3>4. ~CommitScene(t)
      <4>1. CommitScene(t) => task[t].pc = "stream" /\ task'[t].pc = "memory"
        BY <3>3 DEF CommitScene, Task
      <4> QED
        BY <3>2, <4>1
    <3>5. /\ Unused(k) => Unused(k)'
          /\ HeadHasKey(page.branch, k) => HeadHasKey(page.branch, k)'
      BY <2>1, <3>1, <3>3, <3>4, ScenesStay DEF HeadHasKey
    <3>6. Serves(t, k)'
      BY <2>1, <2>2, <3>2, <3>5 DEF Serves, Live, Early, HeadHasKey
    <3> QED
      BY <3>6 DEF Served
  <2> QED
    BY <2>3, <2>4
<1> QED
  BY <1>2, <1>3, <1>4

\* The page asks for the next scene by itself only when the scene it asked for is
\* the head of its branch, whatever the other tabs did while it was generated.
THEOREM ContinuesOnlyAfterItsScene == PageSpec => ContinuesAfterItsScene
<1> DEFINE Continues == page.phase = "streaming" /\ page'.phase = "timer" =>
             LET head == branches[page.branch].head
             IN  head # None /\ segments[head].key \in page.key
<1>1. PageSpec => []Reservations
  BY PageIsAClient, AlwaysWellFormed, InitReservations, NextReservations, PTL DEF Spec
<1>2. PageInit => Served
  BY DEF PageInit, Served, Closed
<1>3. PageSpec => []Served
  BY <1>1, <1>2, AlwaysPageWellFormed, NextServed, PTL DEF PageSpec
<1>4. PageWellFormed /\ Served /\ PageNext => Continues
  <2> SUFFICES ASSUME PageWellFormed, Served, PageNext, page.phase = "streaming",
                      page'.phase = "timer"
               PROVE  HeadHasKey(page.branch, CHOOSE k \in page.key : TRUE)
                      /\ (CHOOSE k \in page.key : TRUE) \in page.key
    BY DEF HeadHasKey
  <2>0. page \in Page
    BY DEF PageWellFormed, PageOK
  <2>1. PICK t \in Tasks, k \in PageKeys : Serves(t, k)
    BY DEF Served
  <2>2. ResponseEnds(t) /\ event[t] = "continue"
    <3>1. PICK u \in Tasks : ResponseEnds(u) /\ u \in page.request
      <4>1. Failed.phase = "still" /\ Closed.phase = "closed"
        BY <2>0 DEF Failed, Closed, Page
      <4>2. \E u \in Tasks : ResponseEnds(u) /\ page' # page
        BY <2>0, <4>1
        DEF PageNext, PageScript, TaskRuns, ResponseEnds, Open, Close, Reload, RequestAccepted,
            RequestRefused, ConnectionLost, PressPause, PressOption, Others, ServerFault, Page
      <4> QED
        BY <4>2 DEF ResponseEnds
    <3>2. u = t
      BY <2>1, <3>1 DEF Serves
    <3>3. event[t] \in {"error", "continue", "choice", "paused"} /\ page' = After(event[t])
      BY <3>1, <3>2 DEF PageWellFormed, EventsOK, Outcome, ResponseEnds, DrainResponse, Events
    <3>4. Failed.phase = "still" /\ Answered("reload").phase = "reload"
      BY <2>0 DEF Failed, Answered, Page
    <3> QED
      BY <3>1, <3>2, <3>3, <3>4 DEF After
  <2>3. HeadHasKey(page.branch, k) /\ page.key = {k}
    BY <2>1, <2>2 DEF Serves
  <2> QED
    BY <2>3
<1>5. PageWellFormed /\ Served /\ [PageNext]_pageVars => [Continues]_pageVars
  BY <1>4
<1> HIDE DEF Continues
<1>6. PageSpec => [][Continues]_pageVars
  BY <1>3, <1>5, AlwaysPageWellFormed, PTL DEF PageSpec
<1> QED
  BY <1>6 DEF ContinuesAfterItsScene, Continues

-----------------------------------------------------------------------------
(* After a pause *)

\* No request is accepted, or the next commit stops the story.
Stopped == story.pauseRequested \/ story.status # "IDLE"

\* A pause stands until somebody goes on.  One request may follow it, then the
\* document does not wait to send another: the scene of that request stops the story.
PauseStands ==
  /\ pressed.held => Stopped
  /\ pressed.sent > 0 => pressed.held /\ pressed.sent = 1 /\ page.phase # "timer"
  /\ pressed.sent > 0 => \A t \in page.request : event[t] # "continue"

\* Only a resumption, an activation and an answer to a choice end a pause.
LEMMA StoppedStays ==
  ASSUME story \in Story, Stopped,
         \/ UNCHANGED story
         \/ PauseStory
         \/ \E t \in Tasks : CommitScene(t) \/ PauseAtChunk(t)
         \/ \E c \in DOMAIN choices : ForkAtChoice(c)
         \/ RecoverInterruptedGenerations
  PROVE  Stopped'
<1>1. CASE \E t \in Tasks : CommitScene(t)
  <2>1. PICK t \in Tasks : CommitScene(t)
    BY <1>1
  <2>2. story.status = "IDLE"
    BY <2>1 DEF CommitScene, CommitGenerationBundle, CanCommit, StateSequence
  <2>3. story'.status = FinalStatus(t) /\ FinalStatus(t) \in {"WAITING_CHOICE", "PAUSED"}
    BY <2>1, <2>2 DEF CommitScene, CommitGenerationBundle, FinalStatus, Stopped, Story
  <2> QED
    BY <2>3 DEF Stopped
<1>2. CASE \E t \in Tasks : PauseAtChunk(t)
  BY <1>2 DEF PauseAtChunk, SaveGenerationDraft, Stopped, Story
<1>3. CASE \E c \in DOMAIN choices : ForkAtChoice(c)
  BY <1>3 DEF ForkAtChoice, Stopped, Story
<1>4. CASE PauseStory
  BY <1>4 DEF PauseStory, Stopped, Story
<1>5. CASE RecoverInterruptedGenerations
  BY <1>5 DEF RecoverInterruptedGenerations, Stopped, Story
<1> QED
  BY <1>1, <1>2, <1>3, <1>4, <1>5 DEF Stopped

\* An answer to a choice changes the choice.
LEMMA AnswerChangesChoices ==
  ASSUME WellFormed, NEW c \in DOMAIN choices, NEW version, NEW selection,
         SubmitChoice(c, version, selection)
  PROVE  choices' # choices
<1>1. choices[c] \in Choice /\ choices[c].version \in Nat
  BY Tables DEF WellFormed, RowsOK, Choice
<1>2. choices'[c].version = choices[c].version + 1
  BY <1>1 DEF SubmitChoice, Choice
<1> QED
  BY <1>1, <1>2

\* A step of anybody keeps the story stopped, or is one that ends the pause.
LEMMA NextStopped ==
  ASSUME PageWellFormed, Stopped, [PageNext]_pageVars, pressed' # NotPressed
  PROVE  Stopped'
<1>0. WellFormed /\ story \in Story
  BY DEF PageWellFormed, WellFormed, RowsOK, RepositoryTypeOK
<1>1. CASE UNCHANGED story
  BY <1>0, <1>1, StoppedStays
<1>2. CASE \E t \in Tasks : TaskRuns(t)
  BY <1>0, <1>1, <1>2, StoppedStays
  DEF TaskRuns, StartRejected, ModelFails, CommitRejected, StartDirector, StartFromDraft,
      DirectorPlans, MemoryAnswer, RollingAnswer, repositoryVars
<1>3. CASE Others
  <2>1. CASE choices' = choices /\ (Select \/ ModelAnswersCustom)
    <3>1. CASE \E c \in DOMAIN choices : \E version, selection : SubmitChoice(c, version, selection)
      BY <1>0, <2>1, <3>1, AnswerChangesChoices
    <3>2. \A request \in parsing : request.choice \in DOMAIN choices
      BY <1>0 DEF WellFormed, ParsingOK
    <3> QED
      BY <1>1, <2>1, <3>1, <3>2
      DEF Select, SelectOption, ParseCustomAction, ModelAnswersCustom, SelectCustom,
          RejectCustom, repositoryVars
  <2>2. CASE RequestPause \/ \E c \in DOMAIN choices : CreateBranch(c)
    BY <1>0, <2>2, StoppedStays DEF RequestPause, CreateBranch
  <2> QED
    BY <1>1, <1>3, <2>1, <2>2 DEF Others, Accept, repositoryVars
<1>4. CASE ServerFault
  BY <1>0, <1>1, <1>4, StoppedStays
  DEF ServerFault, Disconnect, CloseResponse, DropResponse, Restart, repositoryVars
<1>5. CASE PressPause
  BY <1>0, <1>5, StoppedStays DEF PressPause, RequestPause
<1>6. CASE \E option \in Options : PressOption(option)
  BY <1>1, <1>6 DEF PressOption, vars
<1>7. CASE RequestAccepted \/ \E t \in Tasks : ResponseEnds(t)
  BY <1>1, <1>7 DEF RequestAccepted, Accept, ResponseEnds, DrainResponse, CloseResponse,
                    repositoryVars
<1> QED
  BY <1>1, <1>2, <1>3, <1>4, <1>5, <1>6, <1>7
  DEF PageNext, PageScript, Open, Close, Reload, RequestRefused, ConnectionLost, pageVars, vars

\* The commit of the page's own scene announces no continuation of a stopped story.
LEMMA StoppedCommitEvent ==
  ASSUME PageWellFormed, Stopped, Served, page.phase = "streaming",
         NEW t \in page.request, CommitScene(t)
  PROVE  CommitEvent(t) # "continue"
<1>1. PICK k \in PageKeys : Serves(t, k)
  BY DEF Served, Serves
<1>2. SegmentByKey(task[t].key) = None
  BY <1>1, KeyLookup
  DEF Serves, Early, Unused, CommitScene, PageWellFormed, WellFormed, RowsOK
<1>3. story.status = "IDLE" /\ FinalStatus(t) \in {"WAITING_CHOICE", "PAUSED"}
  BY DEF CommitScene, CommitGenerationBundle, CanCommit, StateSequence, FinalStatus, Stopped
<1> QED
  BY <1>2, <1>3 DEF CommitEvent

\* Every step keeps what a pause leaves to the page.
LEMMA NextPauseStands ==
  ASSUME PageWellFormed, Served, PauseStands, [PageNext]_pageVars
  PROVE  PauseStands'
<1>0. /\ page \in Page /\ RequestOK(page) /\ event \in [Tasks -> Events]
      /\ pressed \in Pressed /\ pressed.held \in BOOLEAN /\ pressed.sent \in Nat
  BY DEF PageWellFormed, PageOK, EventsOK, Pressed
<1>n. NotPressed.sent = 0 /\ NotPressed.held = FALSE
  BY DEF NotPressed
<1>1. CASE pressed' = NotPressed
  BY <1>n, <1>1 DEF PauseStands
<1>2. CASE PressPause
  BY <1>2 DEF PressPause, RequestPause, PauseStory, PauseStands, Stopped, PageWellFormed,
              WellFormed, RowsOK, RepositoryTypeOK, Story
<1>3. ASSUME pressed' # NotPressed, pressed'.held = pressed.held
      PROVE  pressed'.held => Stopped'
  BY <1>3, NextStopped DEF PauseStands
<1>4. CASE pressed' = pressed /\ UNCHANGED <<page, event>>
  BY <1>3, <1>1, <1>4 DEF PauseStands
<1>5. ASSUME Sent, page.phase = "timer", page'.phase # "timer",
             \A t \in page'.request : event'[t] # "continue"
      PROVE  PauseStands'
  <2>1. pressed.sent = 0
    BY <1>0, <1>5 DEF PauseStands
  <2>2. pressed' = pressed \/ (pressed.held /\ pressed' = [pressed EXCEPT !.sent = 1])
    BY <1>5, <2>1 DEF Sent
  <2>3. pressed'.held = pressed.held /\ (pressed'.sent > 0 => pressed.held /\ pressed'.sent = 1)
    BY <1>0, <2>1, <2>2 DEF Pressed
  <2> QED
    BY <1>1, <1>3, <1>5, <2>3 DEF PauseStands
<1>6. ASSUME pressed' = pressed, page'.request = {}, page'.phase # "timer"
      PROVE  PauseStands'
  BY <1>1, <1>3, <1>6 DEF PauseStands
<1>7. Failed.phase = "still" /\ Failed.request = {}
  BY <1>0 DEF Failed, Page
<1>8. CASE RequestAccepted
  <2>1. PICK key : key = CHOOSE k \in UnusedKeys : TRUE
    OBVIOUS
  <2>2. PICK t \in Tasks :
          /\ Accept(t, page.branch, key) /\ UNCHANGED event
          /\ page' = [page EXCEPT !.phase = "streaming", !.request = {t}, !.key = {key},
                                  !.error = FALSE]
    BY <1>8, <2>1 DEF RequestAccepted
  <2>3. event'[t] = "none"
    BY <2>2 DEF Accept, PageWellFormed, EventsOK, Outcome
  <2>4. page'.phase = "streaming" /\ page'.request = {t}
    BY <1>0, <2>2 DEF Page
  <2> QED
    BY <1>5, <1>8, <2>3, <2>4 DEF RequestAccepted
<1>9. CASE RequestRefused
  BY <1>5, <1>7, <1>9 DEF RequestRefused
<1>10. CASE ConnectionLost
  <2>1. CASE page.phase = "timer"
    BY <1>5, <1>7, <1>10, <2>1 DEF ConnectionLost
  <2> QED
    BY <1>6, <1>7, <1>10, <2>1 DEF ConnectionLost
<1>11. CASE \E t \in Tasks : ResponseEnds(t)
  <2>1. PICK t \in Tasks : ResponseEnds(t)
    BY <1>11
  <2>2. CASE t \notin page.request
    <3>1. \A u \in page.request : event'[u] = event[u] /\ UNCHANGED <<page, pressed>>
      BY <1>0, <2>1, <2>2 DEF ResponseEnds, Queue, RequestOK
    <3>2. UNCHANGED <<page, pressed>>
      BY <2>1, <2>2 DEF ResponseEnds
    <3> QED
      BY <1>1, <1>3, <3>1, <3>2 DEF PauseStands
  <2>3. CASE t \in page.request
    <3>1. event[t] \in {"error", "continue", "choice", "paused"} /\ page' = After(event[t])
          /\ pressed' = pressed
      BY <2>1, <2>3 DEF PageWellFormed, EventsOK, Outcome, ResponseEnds, DrainResponse, Events
    <3>2. \A phase \in {"timer", "reload"} : /\ Answered(phase).phase = phase
                                             /\ Answered(phase).request = {}
      BY <1>0 DEF Answered, Page
    <3>3. CASE event[t] = "continue"
      <4>1. pressed'.sent = 0
        BY <1>0, <2>3, <3>1, <3>3 DEF PauseStands
      <4> QED
        BY <1>1, <1>3, <3>1, <4>1 DEF PauseStands
    <3> QED
      BY <1>6, <1>7, <3>1, <3>2, <3>3 DEF After
  <2> QED
    BY <2>2, <2>3
<1>12. CASE \E t \in Tasks : TaskRuns(t)
  <2>1. PICK t \in Tasks : TaskRuns(t)
    BY <1>12
  <2>2. UNCHANGED <<page, pressed>>
    BY <2>1 DEF TaskRuns
  <2>3. ASSUME NEW u \in page.request, pressed.sent > 0, event'[u] = "continue"
        PROVE  event[u] = "continue"
    <3>1. u \in Tasks /\ page.phase = "streaming" /\ Stopped
      BY <1>0, <2>3 DEF RequestOK, PauseStands, Page
    <3>2. CASE u = t /\ CommitScene(t) /\ Queue(t, CommitEvent(t))
      BY <1>0, <2>3, <3>1, <3>2, StoppedCommitEvent DEF Queue
    <3> QED
      BY <1>0, <2>1, <2>3, <3>1, <3>2 DEF TaskRuns, Queue
  <2> QED
    BY <1>1, <1>3, <2>2, <2>3 DEF PauseStands
<1>13. CASE ServerFault
  <2>1. CASE UNCHANGED <<page, pressed>>
    <3>1. \A u \in page.request : event'[u] \in {event[u], "none"}
      BY <1>0, <1>13 DEF ServerFault, Queue, RequestOK
    <3> QED
      BY <1>1, <1>3, <2>1, <3>1 DEF PauseStands
  <2> QED
    BY <1>6, <1>7, <1>13, <2>1 DEF ServerFault
<1>14. CASE \E option \in Options : PressOption(option) /\ pressed' = pressed
  <2>1. page.phase = "still" /\ (page' = Failed \/ page' = [page EXCEPT !.phase = "reload"])
    BY <1>14 DEF PressOption
  <2>2. page.request = {}
    BY <1>0, <2>1 DEF RequestOK
  <2> QED
    BY <1>0, <1>6, <1>7, <1>14, <2>1, <2>2 DEF Page
<1>15. CASE Others
  BY <1>1, <1>4, <1>15 DEF Others
<1>16. CASE \E option \in Options : PressOption(option) /\ pressed' # pressed
  BY <1>1, <1>16 DEF PressOption, vars
<1> QED
  BY <1>1, <1>2, <1>4, <1>8, <1>9, <1>10, <1>11, <1>12, <1>13, <1>14, <1>15, <1>16
  DEF PageNext, PageScript, Open, Close, Reload, pageVars

\* After a pause at most one more request of the page reaches the server, whoever
\* else generates, forks or loses the connection meanwhile: the pause stands until
\* the scene of that request is committed, and its event continues nothing.
THEOREM OneRequestAfterPauseAlways == PageSpec => []OneRequestAfterPause
<1>1. PageSpec => []Served
  <2>1. PageSpec => []Reservations
    BY PageIsAClient, AlwaysWellFormed, InitReservations, NextReservations, PTL DEF Spec
  <2>2. PageInit => Served
    BY DEF PageInit, Served, Closed
  <2> QED
    BY <2>1, <2>2, AlwaysPageWellFormed, NextServed, PTL DEF PageSpec
<1>2. PageInit => PauseStands
  BY DEF PageInit, PauseStands, NotPressed
<1>3. PageSpec => []PauseStands
  BY <1>1, <1>2, AlwaysPageWellFormed, NextPauseStands, PTL DEF PageSpec
<1>4. PageWellFormed /\ PauseStands => OneRequestAfterPause
  BY DEF PageWellFormed, Pressed, PauseStands, OneRequestAfterPause
<1> QED
  BY <1>3, <1>4, AlwaysPageWellFormed, PTL

-----------------------------------------------------------------------------
(* The choices of a story until it is forked *)

Unforked == Len(branches) = 1

Tip == branches[Root].head

\* The choice at the head of the only branch has not been made.
Unanswered == \E c \in DOMAIN choices : choices[c].segment = Tip /\ choices[c].selected = Pending

OnlyRoot ==
  /\ Unforked /\ story.current = Root
  /\ branches[Root].parent = None
  /\ branches[Root].forkSegment = None /\ branches[Root].forkChoice = None

OneChoicePerScene ==
  \A c, d \in DOMAIN choices : choices[c].segment = choices[d].segment => c = d

WaitsIffOpen == story.status = "WAITING_CHOICE" <=> Unanswered

Writing(t) == task[t].pc \in {"director", "stream"}

\* A task looks at the status and at its key only when it starts.
WritersStartedReady ==
  \A t \in Tasks : Writing(t) => ~Unanswered /\ SegmentByKey(task[t].key) = None

LinearStory == OnlyRoot /\ OneChoicePerScene /\ WaitsIffOpen /\ WritersStartedReady

-----------------------------------------------------------------------------
(* What the queries return *)

\* There is one branch, and every scene and every choice is on it.
LEMMA RootOnly ==
  ASSUME WellFormed, OnlyRoot
  PROVE  /\ DOMAIN branches = {Root}
         /\ \A s \in DOMAIN segments : segments[s].branch = Root
         /\ \A c \in DOMAIN choices : BranchOfChoice(c) = Root
<1>1. DOMAIN branches = {Root}
  BY RowNumbers DEF OnlyRoot, Unforked, Root
<1>2. \A s \in DOMAIN segments : segments[s].branch = Root
  BY <1>1 DEF WellFormed, RowsOK, RowReferencesExist
<1>3. ASSUME NEW c \in DOMAIN choices PROVE BranchOfChoice(c) = Root
  <2>1. {b \in DOMAIN branches : branches[b].forkChoice = c} = {}
    BY <1>1, <1>3, RowNumbers DEF OnlyRoot
  <2>2. choices[c].segment \in DOMAIN segments
    BY <1>3 DEF WellFormed, RowsOK, RowReferencesExist
  <2> QED
    BY <1>2, <2>1, <2>2 DEF BranchOfChoice
<1> QED
  BY <1>1, <1>2, <1>3

\* The choice that is shown is the one at the head, and it is open exactly when
\* that one is.
LEMMA ShownIsOpen ==
  ASSUME WellFormed, OnlyRoot, OneChoicePerScene
  PROVE  /\ IsPending(CurrentChoice(Root)) <=> Unanswered
         /\ Unanswered => /\ CurrentChoice(Root) \in DOMAIN choices
                    /\ choices[CurrentChoice(Root)].segment = Tip
<1> DEFINE rows == {c \in DOMAIN choices : choices[c].segment = Tip}
<1>1. /\ Len(choices) \in Nat /\ DOMAIN choices = 1 .. Len(choices)
      /\ None \notin DOMAIN choices /\ None \notin DOMAIN segments
  BY RowNumbers
<1>2. rows \in SUBSET (1 .. Len(choices))
  BY <1>1
<1>3. \A c \in rows : choices[c].segment = Tip /\ c \in DOMAIN choices
  OBVIOUS
<1>4. Unanswered <=> \E c \in rows : choices[c].selected = Pending
  BY DEF Unanswered
<1>5. Tip = None => rows = {}
  BY <1>1 DEF WellFormed, RowsOK, RowReferencesExist
<1>6. CurrentChoice(Root) = IF Tip = None THEN None ELSE LastRow(rows)
  BY DEF CurrentChoice, OnlyRoot, Tip
<1> HIDE DEF rows
<1>7. /\ LastRow(rows) = None <=> rows = {}
      /\ rows # {} => LastRow(rows) \in rows
  BY <1>1, <1>2, LastRowFinds
<1>8. CurrentChoice(Root) = None <=> rows = {}
  BY <1>5, <1>6, <1>7
<1>9. rows # {} => CurrentChoice(Root) \in rows
  BY <1>5, <1>6, <1>7
<1>10. \A c \in rows : c = CurrentChoice(Root)
  BY <1>3, <1>9 DEF OneChoicePerScene
<1> QED
  BY <1>3, <1>4, <1>8, <1>9, <1>10 DEF IsPending

\* Without forks the choice that belongs to the branch is that of its head.
LEMMA OwnIsOpen ==
  ASSUME WellFormed, OnlyRoot, IsPending(CurrentOwnChoice)
  PROVE  Unanswered
<1> DEFINE Rec(f) ==
             [b \in 0 .. Len(branches) |->
                IF b = None THEN None
                ELSE IF branches[b].forkSegment = Tip /\ Tip # None THEN branches[b].forkChoice
                ELSE IF Tip # None /\ segments[Tip].branch = b THEN ChoicePointForSegment(Tip)
                ELSE f[branches[b].parent]]
           own == CHOOSE f : f = Rec(f)
           value == IF Tip # None /\ segments[Tip].branch = Root
                    THEN ChoicePointForSegment(Tip) ELSE None
           found == [b \in 0 .. 1 |-> IF b = None THEN None ELSE value]
<1>1. Len(branches) = 1 /\ branches[Root].parent = None /\ branches[Root].forkSegment = None
  BY DEF OnlyRoot, Unforked
<1>2. \A b \in 0 .. 1 : b = None \/ b = Root
  BY DEF None, Root
<1>3. found = Rec(found)
  BY <1>1, <1>2 DEF None
<1>4. own = Rec(own)
  BY <1>3
<1>5. own[Root] = value
  <2>1. PICK f : f = own
    OBVIOUS
  <2>2. f = Rec(f) /\ None \in 0 .. 1 /\ Root \in 0 .. 1 /\ Root # None
    BY <1>4, <2>1 DEF None, Root
  <2> HIDE DEF own
  <2>3. f[None] = None
    BY <1>1, <2>2
  <2>4. f[Root] = IF Tip # None /\ segments[Tip].branch = Root
                  THEN ChoicePointForSegment(Tip) ELSE f[None]
    BY <1>1, <2>2
  <2> QED
    BY <2>1, <2>3, <2>4
<1>6. CurrentOwnChoice = own[Root]
  BY DEF CurrentOwnChoice, OwnChoice, OnlyRoot, Tip
<1> HIDE DEF own
<1>7. /\ CurrentOwnChoice = ChoicePointForSegment(Tip) /\ CurrentOwnChoice # None
      /\ choices[CurrentOwnChoice].selected = Pending
  BY <1>5, <1>6 DEF IsPending
<1> DEFINE rows == {c \in DOMAIN choices : choices[c].segment = Tip}
<1>8. rows \in SUBSET (1 .. Len(choices)) /\ Len(choices) \in Nat
  BY RowNumbers
<1>9. CurrentOwnChoice = FirstRow(rows)
  BY <1>7 DEF ChoicePointForSegment
<1>10. \A c \in rows : c \in DOMAIN choices /\ choices[c].segment = Tip
  OBVIOUS
<1> HIDE DEF rows
<1>11. FirstRow(rows) \in rows
  BY <1>7, <1>8, <1>9, FirstRowFinds
<1> QED
  BY <1>7, <1>9, <1>10, <1>11 DEF Unanswered

-----------------------------------------------------------------------------
(* The invariant *)

\* A task that is writing after a step was writing before it, with the same key,
\* or has just found the story ready.
WritersFrom(t) ==
  Writing(t)' => \/ Writing(t) /\ task'[t].key = task[t].key
                 \/ story.status = "IDLE" /\ SegmentByKey(task'[t].key) = None

\* A step that writes no table but the story's row, and neither starts nor ends
\* the wait, keeps the invariant.
LEMMA QuietStep ==
  ASSUME LinearStory, UNCHANGED <<branches, segments, choices>>, story'.current = Root,
         story'.status = "WAITING_CHOICE" <=> story.status = "WAITING_CHOICE",
         \A t \in Tasks : WritersFrom(t)
  PROVE  LinearStory'
<1>1. (Unanswered' <=> Unanswered) /\ \A key : SegmentByKey(key)' = SegmentByKey(key)
  BY DEF Unanswered, Tip, SegmentByKey
<1>2. OnlyRoot' /\ OneChoicePerScene'
  BY DEF LinearStory, OnlyRoot, Unforked, OneChoicePerScene
<1>3. WaitsIffOpen'
  BY <1>1 DEF LinearStory, WaitsIffOpen
<1>4. WritersStartedReady'
  BY <1>1 DEF LinearStory, WaitsIffOpen, WritersStartedReady, WritersFrom, Writing, SegmentByKey
<1> QED
  BY <1>2, <1>3, <1>4 DEF LinearStory

\* A task that ends, or is taken away, is not writing any more.
LEMMA EndingTask ==
  ASSUME TasksOK, NEW t \in Tasks, NEW x, task' = [task EXCEPT ![t] = x],
         x.pc \notin {"director", "stream"}
  PROVE  \A u \in Tasks : WritersFrom(u)
BY DEF TasksOK, WritersFrom, Writing

\* A task that starts its Writer keeps its key.
LEMMA StartingWriter ==
  ASSUME TasksOK, NEW t \in Tasks, NEW head, NEW plan, StartWriter(t, head, plan),
         \/ Writing(t)
         \/ story.status = "IDLE" /\ SegmentByKey(task[t].key) = None
  PROVE  \A u \in Tasks : WritersFrom(u)
<1>1. /\ task \in [Tasks -> Task]
      /\ \E rest, limit : task' = [task EXCEPT ![t].pc = "stream", ![t].head = head,
                                       ![t].plan = rest, ![t].limit = limit]
  BY DEF TasksOK, StartWriter
<1>2. /\ task'[t].key = task[t].key
      /\ \A u \in Tasks : u # t => task'[u] = task[u]
  BY <1>1 DEF Task
<1> QED
  BY <1>2 DEF WritersFrom, Writing

\* Two tasks never write at the same time.
LEMMA OneWriter ==
  ASSUME WellFormed, Reservations, OnlyRoot, NEW t \in Tasks, NEW u \in Tasks,
         Writing(t), Writing(u)
  PROVE  t = u
<1>1. Live(t) /\ Live(u)
  BY DEF Writing, Live
<1>2. task[t].branch \in DOMAIN branches /\ task[u].branch \in DOMAIN branches
  BY <1>1 DEF WellFormed, TasksOK, TaskOK, Live
<1>3. task[t].branch = task[u].branch
  BY <1>2, RootOnly
<1> QED
  BY <1>1, <1>3 DEF Reservations, OneTaskPerBranch

\* A commit makes the story wait exactly when its scene ends with a choice.
LEMMA CommitLinear ==
  ASSUME WellFormed, Reservations, LinearStory, NEW t \in Tasks, CommitScene(t)
  PROVE  LinearStory'
<1> DEFINE new == Len(segments) + 1
           key == task[t].key
           plan == task[t].plan
<1>1. OnlyRoot /\ OneChoicePerScene /\ WaitsIffOpen /\ WritersStartedReady /\ Writing(t)
  BY DEF LinearStory, CommitScene, Writing
<1>2. SegmentByKey(key) = None /\ ~Unanswered
  BY <1>1 DEF WritersStartedReady
<1>3. task[t] \in Task /\ task[t].branch = Root
  <2>1. task[t].branch \in DOMAIN branches
    BY <1>1 DEF WellFormed, TasksOK, TaskOK, Writing
  <2> QED
    BY <1>1, <2>1, RootOnly DEF WellFormed, TasksOK
<1>4. /\ choices' = IF plan.choice THEN Append(choices, NewChoice(new)) ELSE choices
      /\ branches' = [branches EXCEPT ![Root].head = new]
      /\ story' = [story EXCEPT !.status = FinalStatus(t), !.pauseRequested = FALSE]
  BY <1>2, <1>3 DEF CommitScene, CommitGenerationBundle, InsertSegmentBundle
<1>5. /\ Len(branches) \in Nat /\ branches \in Seq(Branch) /\ Root \in DOMAIN branches
      /\ Len(choices) \in Nat /\ choices \in Seq(Choice) /\ DOMAIN choices = 1 .. Len(choices)
      /\ Len(segments) \in Nat /\ DOMAIN segments = 1 .. Len(segments)
      /\ \A c \in DOMAIN choices : choices[c].segment \in DOMAIN segments
      /\ branches[Root] \in Branch /\ story \in Story
  BY <1>1, RootOnly, RowNumbers, Tables
  DEF WellFormed, RowsOK, RepositoryTypeOK, RowReferencesExist
<1>6. OnlyRoot' /\ Tip' = new
  <2>1. branches'[Root] = [branches[Root] EXCEPT !.head = new] /\ Len(branches') = Len(branches)
    BY <1>4, <1>5
  <2> QED
    BY <1>1, <1>4, <1>5, <2>1 DEF OnlyRoot, Unforked, Tip, Branch, Story
<1>7. \A c \in DOMAIN choices : choices[c].segment # new
  BY <1>5
<1>8. NewChoice(new) \in Choice /\ NewChoice(new).segment = new
      /\ NewChoice(new).selected = Pending
  BY <1>5 DEF NewChoice, Choice
<1>9. WritersStartedReady'
  <2>1. ASSUME NEW u \in Tasks PROVE ~Writing(u)'
    <3>1. CASE u = t
      BY <3>1 DEF CommitScene, Writing, WellFormed, TasksOK, Task
    <3>2. CASE u # t
      <4>1. task'[u] = task[u]
        BY <3>2 DEF CommitScene, WellFormed, TasksOK
      <4>2. ~Writing(u)
        BY <1>1, <3>2, OneWriter
      <4> QED
        BY <4>1, <4>2 DEF Writing
    <3> QED
      BY <3>1, <3>2
  <2> QED
    BY <2>1 DEF WritersStartedReady
<1>10. CASE plan.choice
  <2>1. /\ DOMAIN choices' = 1 .. Len(choices) + 1
        /\ \A c \in DOMAIN choices : choices'[c] = choices[c]
        /\ choices'[Len(choices) + 1] = NewChoice(new)
    BY <1>4, <1>5, <1>8, <1>10, AppendProperties, LenProperties
  <2>2. \A c \in DOMAIN choices' : c = Len(choices) + 1 \/ c \in DOMAIN choices
    BY <1>5, <2>1
  <2>3. OneChoicePerScene'
    BY <1>1, <1>7, <1>8, <2>1, <2>2 DEF OneChoicePerScene
  <2>4. Unanswered'
    BY <1>5, <1>6, <1>8, <2>1 DEF Unanswered
  <2>5. story'.status = "WAITING_CHOICE"
    BY <1>4, <1>5, <1>10 DEF FinalStatus, Story
  <2> QED
    BY <2>3, <2>4, <2>5, <1>6, <1>9 DEF LinearStory, WaitsIffOpen
<1>11. CASE ~plan.choice
  <2>1. choices' = choices /\ story'.status # "WAITING_CHOICE"
    BY <1>4, <1>5, <1>11 DEF FinalStatus, Story
  <2>2. OneChoicePerScene' /\ ~Unanswered'
    BY <1>1, <1>6, <1>7, <2>1 DEF OneChoicePerScene, Unanswered
  <2> QED
    BY <1>6, <1>9, <2>1, <2>2 DEF LinearStory, WaitsIffOpen
<1> QED
  BY <1>10, <1>11

\* Only the open choice at the head can be submitted.
LEMMA SubmittedIsOpen ==
  ASSUME WellFormed, LinearStory, NEW c \in DOMAIN choices, NEW version, CanSubmit(c, version)
  PROVE  choices[c].selected = Pending /\ choices[c].segment = Tip
<1>1. OnlyRoot /\ OneChoicePerScene /\ WaitsIffOpen
  BY DEF LinearStory
<1>2. story.status = "WAITING_CHOICE" /\ choices[c].segment = Tip
  BY <1>1, RootOnly DEF CanSubmit, Tip
<1> QED
  BY <1>1, <1>2 DEF WaitsIffOpen, Unanswered, OneChoicePerScene

\* A selection answers the open choice and ends the wait.
LEMMA SubmitLinear ==
  ASSUME WellFormed, LinearStory, NEW c \in DOMAIN choices, NEW version,
         NEW selection \in Selections, SubmitChoice(c, version, selection),
         \A t \in Tasks : WritersFrom(t)
  PROVE  LinearStory'
<1>1. OnlyRoot /\ OneChoicePerScene /\ WaitsIffOpen /\ WritersStartedReady
  BY DEF LinearStory
<1>2. /\ choices' = [choices EXCEPT ![c].selected = selection, ![c].version = @ + 1]
      /\ story' = [story EXCEPT !.status = "IDLE"]
      /\ UNCHANGED <<branches, segments>> /\ CanSubmit(c, version)
  BY DEF SubmitChoice
<1>3. choices[c].segment = Tip /\ choices[c].selected = Pending
  BY <1>2, SubmittedIsOpen
<1>4. /\ \A d \in DOMAIN choices : choices[d] \in Choice
      /\ choices \in [DOMAIN choices -> Choice] /\ story \in Story
  BY Tables DEF WellFormed, RowsOK, RepositoryTypeOK
<1>5. /\ DOMAIN choices' = DOMAIN choices
      /\ \A d \in DOMAIN choices : choices'[d].segment = choices[d].segment
      /\ choices'[c].selected = selection
  BY <1>2, <1>4 DEF Choice
<1>6. selection # Pending
  BY RepositoryAssumption DEF Selections
<1>7. OnlyRoot' /\ Tip' = Tip /\ story'.status = "IDLE"
  BY <1>1, <1>2, <1>4 DEF OnlyRoot, Unforked, Tip, Story
<1>8. OneChoicePerScene'
  BY <1>1, <1>5 DEF OneChoicePerScene
<1>9. ~Unanswered'
  BY <1>1, <1>3, <1>5, <1>6, <1>7 DEF Unanswered, OneChoicePerScene
<1>10. WritersStartedReady'
  BY <1>1, <1>2, <1>3, <1>9 DEF WritersStartedReady, WritersFrom, Unanswered, SegmentByKey,
                                WaitsIffOpen, CanSubmit, Writing
<1> QED
  BY <1>7, <1>8, <1>9, <1>10 DEF LinearStory, WaitsIffOpen

\* Steps of tasks: a task writes only when no choice is open, and a pause that it
\* sees cannot hide one.
LEMMA TaskLinear ==
  ASSUME WellFormed, Reservations, LinearStory, NEW t \in Tasks, TaskMoves(t)
  PROVE  LinearStory'
<1>0. /\ TasksOK /\ task \in [Tasks -> Task] /\ story \in Story
      /\ OnlyRoot /\ WaitsIffOpen /\ WritersStartedReady
  BY DEF WellFormed, TasksOK, RowsOK, RepositoryTypeOK, LinearStory
<1>1. ASSUME UNCHANGED <<branches, segments, choices, story>>, \A u \in Tasks : WritersFrom(u)
      PROVE  LinearStory'
  BY <1>0, <1>1, QuietStep DEF OnlyRoot
<1>2. ASSUME EndTask(t) PROVE \A u \in Tasks : WritersFrom(u)
  <2>1. PICK x : x = [NoTask EXCEPT !.pc = "done", !.branch = task[t].branch]
    OBVIOUS
  <2>2. x.pc = "done"
    BY <2>1 DEF NoTask
  <2>3. task' = [task EXCEPT ![t] = x]
    BY <1>2, <2>1 DEF EndTask
  <2> QED
    BY <1>0, <2>2, <2>3, EndingTask
<1>3. CASE StartRejected(t) \/ ModelFails(t) \/ CommitRejected(t)
  BY <1>1, <1>2, <1>3 DEF StartRejected, ModelFails, CommitRejected, repositoryVars
<1>4. CASE StartDirector(t)
  <2>1. /\ task'[t].key = task[t].key
        /\ \A u \in Tasks : u # t => task'[u] = task[u]
        /\ story.status = "IDLE" /\ SegmentByKey(task[t].key) = None
    BY <1>0, <1>4 DEF StartDirector, StillValid, Task
  <2>2. \A u \in Tasks : WritersFrom(u)
    BY <2>1 DEF WritersFrom, Writing
  <2> QED
    BY <1>1, <1>4, <2>2 DEF StartDirector, repositoryVars
<1>5. CASE StartFromDraft(t)
  <2>1. \A u \in Tasks : WritersFrom(u)
    BY <1>0, <1>5, StartingWriter DEF StartFromDraft, StillValid
  <2> QED
    BY <1>1, <1>5, <2>1 DEF StartFromDraft, repositoryVars
<1>6. CASE \E suggestion \in BOOLEAN : DirectorPlans(t, suggestion)
  <2>1. \A u \in Tasks : WritersFrom(u)
    BY <1>0, <1>6, StartingWriter DEF DirectorPlans, Writing
  <2> QED
    BY <1>1, <1>6, <2>1 DEF DirectorPlans, repositoryVars
<1>7. CASE PauseAtChunk(t)
  <2>1. story.status # "WAITING_CHOICE"
    BY <1>0, <1>7 DEF PauseAtChunk, WritersStartedReady, WaitsIffOpen, Writing
  <2>2. story'.status = "PAUSED" /\ story'.current = story.current
    BY <1>0, <1>7 DEF PauseAtChunk, SaveGenerationDraft, Story
  <2>3. UNCHANGED <<branches, segments, choices>> /\ \A u \in Tasks : WritersFrom(u)
    BY <1>2, <1>7 DEF PauseAtChunk, SaveGenerationDraft
  <2> QED
    BY <1>0, <2>1, <2>2, <2>3, QuietStep DEF OnlyRoot
<1>8. CASE CommitScene(t)
  BY <1>8, CommitLinear
<1>9. CASE \E updated \in BOOLEAN : MemoryAnswer(t, updated)
  <2>1. PICK updated \in BOOLEAN : MemoryAnswer(t, updated)
    BY <1>9
  <2>2. CASE EndCommitted(t)
    BY <1>1, <1>2, <2>1, <2>2 DEF MemoryAnswer, EndCommitted
  <2>3. CASE ~EndCommitted(t)
    <3>1. /\ task'[t].pc = "rolling"
          /\ \A u \in Tasks : u # t => task'[u] = task[u]
      BY <1>0, <2>1, <2>3 DEF MemoryAnswer, Task
    <3>2. \A u \in Tasks : WritersFrom(u)
      BY <3>1 DEF WritersFrom, Writing
    <3> QED
      BY <1>1, <2>1, <3>2 DEF MemoryAnswer
  <2> QED
    BY <2>2, <2>3
<1>10. CASE \E updated \in BOOLEAN : RollingAnswer(t, updated)
  BY <1>1, <1>2, <1>10 DEF RollingAnswer, EndCommitted
<1>11. CASE DrainResponse(t)
  <2>1. NoTask.pc = "idle" /\ task' = [task EXCEPT ![t] = NoTask]
    BY <1>11 DEF DrainResponse, CloseResponse, NoTask
  <2>2. \A u \in Tasks : WritersFrom(u)
    BY <1>0, <2>1, EndingTask
  <2> QED
    BY <1>1, <1>11, <2>2 DEF DrainResponse, CloseResponse, repositoryVars
<1> QED
  BY <1>3, <1>4, <1>5, <1>6, <1>7, <1>8, <1>9, <1>10, <1>11 DEF TaskMoves, TaskStep

\* Every step but a fork keeps the invariant.
LEMMA NextLinearStory ==
  ASSUME WellFormed, Reservations, LinearStory, [Next]_vars,
         ~ \E c \in DOMAIN choices : CreateBranch(c)
  PROVE  LinearStory'
<1>0. /\ TasksOK /\ ParsingOK /\ task \in [Tasks -> Task] /\ story \in Story
      /\ OnlyRoot /\ OneChoicePerScene /\ WaitsIffOpen
  BY DEF WellFormed, TasksOK, RowsOK, RepositoryTypeOK, LinearStory
<1>1. ASSUME UNCHANGED task PROVE \A u \in Tasks : WritersFrom(u)
  BY <1>1 DEF WritersFrom, Writing
<1>2. ASSUME UNCHANGED repositoryVars, \A u \in Tasks : WritersFrom(u)
      PROVE  LinearStory'
  BY <1>0, <1>2, QuietStep DEF OnlyRoot, repositoryVars
<1>3. CASE Generate
  <2>1. PICK t \in Tasks, branch \in DOMAIN branches, key \in Keys :
          Accept(t, branch, key) /\ UNCHANGED parsing
    BY <1>3 DEF Generate
  <2>2. PICK x : x = [NoTask EXCEPT !.pc = "accepted", !.branch = branch, !.key = key,
                                    !.distance = ScenesSinceLastChoice(branch)]
    OBVIOUS
  <2>3. x.pc = "accepted" /\ task' = [task EXCEPT ![t] = x] /\ UNCHANGED repositoryVars
    BY <2>1, <2>2 DEF Accept, NoTask
  <2> QED
    BY <1>0, <1>2, <2>3, EndingTask
<1>4. CASE \E t \in Tasks : TaskMoves(t)
  BY <1>4, TaskLinear
<1>5. CASE RequestPause \/ Resume
  <2>1. /\ story'.current = story.current
        /\ story'.status = "WAITING_CHOICE" <=> story.status = "WAITING_CHOICE"
        /\ UNCHANGED <<branches, segments, choices, task>>
    BY <1>0, <1>5 DEF RequestPause, PauseStory, Resume, ResumeStory, Story, serviceVars
  <2> QED
    BY <1>0, <1>1, <2>1, QuietStep DEF OnlyRoot
<1>6. CASE \E b \in DOMAIN branches : Activate(b)
  <2>1. Activate(Root)
    BY <1>0, <1>6, RootOnly
  <2>2. /\ story'.current = Root
        /\ story'.status = "WAITING_CHOICE" <=> IsPending(CurrentChoice(Root))
        /\ UNCHANGED <<branches, segments, choices, task>>
    BY <2>1 DEF Activate, ActivateBranch, serviceVars
  <2> QED
    BY <1>0, <1>1, <2>2, ShownIsOpen, QuietStep DEF WaitsIffOpen
<1>7. ASSUME NEW c \in DOMAIN choices, NEW version, NEW selection \in Selections,
             SubmitChoice(c, version, selection), UNCHANGED serviceVars
      PROVE  LinearStory'
  BY <1>1, <1>7, SubmitLinear DEF serviceVars
<1>8. CASE Select
  BY <1>1, <1>2, <1>7, <1>8 DEF Select, SelectOption, ParseCustomAction, serviceVars, Selections
<1>9. CASE ModelAnswersCustom
  <2>1. PICK request \in parsing : SelectCustom(request) \/ RejectCustom(request)
    BY <1>9 DEF ModelAnswersCustom
  <2>2. request.choice \in DOMAIN choices /\ request.action \in Selections
    BY <1>0, <2>1 DEF ParsingOK, Selections
  <2> QED
    BY <1>1, <1>2, <1>7, <2>1, <2>2 DEF SelectCustom, RejectCustom, serviceVars
<1>10. CASE Fault
  <2>1. NoTask.pc = "idle"
    BY DEF NoTask
  <2>2. CASE Restart
    <3>1. /\ story'.current = story.current
          /\ story'.status = "WAITING_CHOICE" <=> story.status = "WAITING_CHOICE"
          /\ UNCHANGED <<branches, segments, choices>>
      BY <1>0, <2>2 DEF Restart, RecoverInterruptedGenerations, ActiveStatuses, Story
    <3>2. \A u \in Tasks : WritersFrom(u)
      BY <2>1, <2>2 DEF Restart, WritersFrom, Writing
    <3> QED
      BY <1>0, <3>1, <3>2, QuietStep DEF OnlyRoot
  <2>3. CASE ~Restart
    <3>1. /\ \E t \in Tasks : task' = [task EXCEPT ![t] = NoTask]
          /\ UNCHANGED repositoryVars
      BY <1>10, <2>3 DEF Fault, Disconnect, CloseResponse, DropResponse
    <3> QED
      BY <1>0, <1>2, <2>1, <3>1, EndingTask
  <2> QED
    BY <2>2, <2>3
<1>11. CASE UNCHANGED vars
  BY <1>1, <1>2, <1>11 DEF vars, repositoryVars
<1> QED
  BY <1>3, <1>4, <1>5, <1>6, <1>8, <1>9, <1>10, <1>11 DEF Next

\* At the start there is one branch, without a choice or a task.
LEMMA InitLinearStory == Init => LinearStory
BY DEF Init, RepositoryInit, ServiceInit, LinearStory, OnlyRoot, Unforked, OneChoicePerScene,
       WaitsIffOpen, Unanswered, WritersStartedReady, Writing, NoTask, Root

\* A fork makes a second branch, and branches are never deleted.
LEMMA ForkedForGood ==
  ASSUME WellFormed, [Next]_vars, Unforked'
  PROVE  Unforked /\ ~ \E c \in DOMAIN choices : CreateBranch(c)
<1>1. /\ branches \in Seq(Branch) /\ branches' \in Seq(Branch)' /\ Len(branches) \in Nat
      /\ Len(branches) # 0 /\ DOMAIN branches = 1 .. Len(branches)
      /\ Len(branches') \in Nat /\ DOMAIN branches' = 1 .. Len(branches')
  <2>1. WellFormed'
    BY NextWellFormed
  <2>2. story.current \in DOMAIN branches
    BY DEF WellFormed, RowsOK, RowReferencesExist
  <2> QED
    BY <2>1, <2>2, RowNumbers, LenProperties DEF WellFormed, RowsOK, RepositoryTypeOK
<1>2. ASSUME NEW c \in DOMAIN choices, ForkAtChoice(c) PROVE FALSE
  <2>1. PICK row : branches' = Append(branches, row)
    BY <1>2 DEF ForkAtChoice
  <2>2. Len(branches') = Len(branches) + 1
    BY <1>1, <2>1
  <2> QED
    BY <1>1, <2>2 DEF Unforked
<1>3. CASE \E t \in Tasks : CommitScene(t)
  <2>1. UNCHANGED branches \/ \E b, new : branches' = [branches EXCEPT ![b].head = new]
    BY <1>3 DEF CommitScene, CommitGenerationBundle, InsertSegmentBundle
  <2>2. DOMAIN branches' = DOMAIN branches
    BY <2>1
  <2>3. Unforked
    BY <1>1, <2>2 DEF Unforked
  <2> QED
    BY <1>2, <2>3 DEF CreateBranch
<1> QED
  BY <1>2, <1>3, SceneSteps DEF CreateBranch, Unforked

\* The invariant holds of every story until it is forked.
LEMMA LinearUntilForked == Spec => [](WellFormed /\ (Unforked => LinearStory))
<1>1. Spec => []Reservations
  BY AlwaysWellFormed, InitReservations, NextReservations, PTL DEF Spec
<1>2. WellFormed /\ Reservations /\ (Unforked => LinearStory) /\ [Next]_vars
        => (Unforked => LinearStory)'
  BY NextLinearStory, ForkedForGood
<1> QED
  BY <1>1, <1>2, AlwaysWellFormed, InitLinearStory, PTL DEF Spec

\* The invariant holds for good if the story may have one branch only.
LEMMA AlwaysLinearStory ==
  ASSUME MaxBranches \in 0 .. 1
  PROVE  Spec => [](WellFormed /\ LinearStory)
<1>1. Spec => []Reservations
  BY AlwaysWellFormed, InitReservations, NextReservations, PTL DEF Spec
<1>2. WellFormed /\ Reservations /\ LinearStory /\ [Next]_vars => LinearStory'
  <2>1. LinearStory => ~ \E c \in DOMAIN choices : CreateBranch(c)
    BY DEF LinearStory, OnlyRoot, Unforked, CreateBranch
  <2> QED
    BY <2>1, NextLinearStory
<1> QED
  BY <1>1, <1>2, AlwaysWellFormed, InitLinearStory, PTL DEF Spec

-----------------------------------------------------------------------------
(* Theorems *)

\* A story that waits shows a choice that the reader can make: no pause, draft,
\* activation, restart or late custom action leaves it waiting for nothing.
THEOREM WaitsForAChoiceUntilForked == Spec => [](Unforked => WaitingForAChoice)
<1>1. ASSUME WellFormed, LinearStory PROVE WaitingForAChoice
  <2>1. OnlyRoot /\ OneChoicePerScene /\ WaitsIffOpen
    BY <1>1 DEF LinearStory
  <2>2. SUFFICES ASSUME story.status = "WAITING_CHOICE"
                 PROVE  LET shown == CurrentChoice(story.current)
                        IN  IsPending(shown) /\ CanSubmit(shown, choices[shown].version)
    BY DEF WaitingForAChoice
  <2>3. PICK shown : shown = CurrentChoice(Root)
    OBVIOUS
  <2>4. shown \in DOMAIN choices /\ choices[shown].segment = Tip /\ IsPending(shown)
    BY <1>1, <2>1, <2>2, <2>3, ShownIsOpen DEF WaitsIffOpen
  <2>5. BranchOfChoice(shown) = Root /\ story.current = Root
    BY <1>1, <2>1, <2>4, RootOnly DEF OnlyRoot
  <2>6. CanSubmit(shown, choices[shown].version)
    BY <2>2, <2>4, <2>5 DEF CanSubmit, Tip
  <2> QED
    BY <2>3, <2>4, <2>5, <2>6
<1> QED
  BY <1>1, LinearUntilForked, PTL

\* While the choice at the head is open the story waits for it.
THEOREM OpenChoiceBlocksUntilForked == Spec => [](Unforked => OpenChoiceBlocks)
<1>1. WellFormed /\ LinearStory => OpenChoiceBlocks
  BY OwnIsOpen DEF LinearStory, OpenChoiceBlocks, WaitsIffOpen
<1> QED
  BY <1>1, LinearUntilForked, PTL

\* A selection is final: a second tab, a double click and a custom action that
\* was being parsed are refused.
THEOREM SelectionsStandAlways ==
  ASSUME MaxBranches \in 0 .. 1
  PROVE  Spec => SelectionsStand
<1>1. ASSUME WellFormed, LinearStory, [Next]_vars
      PROVE  [\A c \in DOMAIN choices :
                choices[c].selected # Pending => choices'[c] = choices[c]]_vars
  <2> SUFFICES ASSUME NEW c \in DOMAIN choices, choices[c].selected # Pending
               PROVE  choices'[c] = choices[c]
    OBVIOUS
  <2>1. choices \in Seq(Choice) /\ ParsingOK
    BY <1>1 DEF WellFormed, RowsOK, RepositoryTypeOK
  <2>2. CASE UNCHANGED choices \/ \E row : choices' = Append(choices, row)
    BY <2>1, <2>2, AppendKeeps
  <2>3. CASE \E t \in Tasks : CommitScene(t)
    BY <2>2, <2>3 DEF CommitScene, CommitGenerationBundle, InsertSegmentBundle
  <2>4. CASE \E d \in DOMAIN choices : ForkAtChoice(d)
    BY <2>2, <2>4 DEF ForkAtChoice
  <2>5. CASE \E d, version, selection : SubmitChoice(d, version, selection)
    <3>1. PICK d, version, selection : SubmitChoice(d, version, selection)
      BY <2>5
    <3>2. CASE d = c
      BY <1>1, <3>1, <3>2, SubmittedIsOpen DEF SubmitChoice
    <3>3. CASE d # c
      BY <3>1, <3>3 DEF SubmitChoice
    <3> QED
      BY <3>2, <3>3
  <2> QED
    BY <1>1, <2>2, <2>3, <2>4, <2>5, ChoiceSteps
<1> QED
  BY <1>1, AlwaysLinearStory, PTL DEF Spec, SelectionsStand

\* No scene is written past an open choice, whatever a task read before it.
THEOREM NoScenePastOpenChoiceAlways ==
  ASSUME MaxBranches \in 0 .. 1
  PROVE  Spec => NoScenePastOpenChoice
<1>1. ASSUME WellFormed, LinearStory, [Next]_vars
      PROVE  [segments' # segments => ~IsPending(CurrentOwnChoice)]_vars
  <2> SUFFICES ASSUME segments' # segments PROVE ~IsPending(CurrentOwnChoice)
    OBVIOUS
  <2>1. PICK t \in Tasks : CommitScene(t)
    BY <1>1, SceneSteps
  <2>2. ~Unanswered
    BY <1>1, <2>1 DEF LinearStory, WritersStartedReady, CommitScene, Writing
  <2> QED
    BY <1>1, <2>2, OwnIsOpen DEF LinearStory
<1> QED
  BY <1>1, AlwaysLinearStory, PTL DEF Spec, NoScenePastOpenChoice

-----------------------------------------------------------------------------
(* The choice in view *)

\* A choice that still has the version in view is the open one at the head.
ViewStands(x) ==
  x.choice # None =>
    /\ x.version <= choices[x.choice].version
    /\ choices[x.choice].version = x.version =>
         choices[x.choice].segment = Tip /\ choices[x.choice].selected = Pending

\* A choice changes only by a selection, which counts its version up.
LEMMA VersionsCountSelections ==
  ASSUME WellFormed, [Next]_vars, NEW c \in DOMAIN choices
  PROVE  /\ choices[c].version \in Nat
         /\ \/ choices'[c] = choices[c]
            \/ choices'[c].version = choices[c].version + 1
<1>1. choices \in Seq(Choice) /\ choices[c] \in Choice /\ choices[c].version \in Nat
  BY Tables DEF WellFormed, RowsOK, RepositoryTypeOK, Choice
<1>2. ASSUME UNCHANGED choices \/ \E row : choices' = Append(choices, row)
      PROVE  choices'[c] = choices[c]
  BY <1>1, <1>2, AppendKeeps
<1>3. CASE \E t \in Tasks : CommitScene(t)
  BY <1>1, <1>2, <1>3 DEF CommitScene, CommitGenerationBundle, InsertSegmentBundle
<1>4. CASE \E d \in DOMAIN choices : ForkAtChoice(d)
  BY <1>1, <1>2, <1>4 DEF ForkAtChoice
<1>5. CASE \E d, version, selection : SubmitChoice(d, version, selection)
  <2>1. PICK d, version, selection : SubmitChoice(d, version, selection)
    BY <1>5
  <2>2. choices' = [choices EXCEPT ![d].selected = selection, ![d].version = @ + 1]
    BY <2>1 DEF SubmitChoice
  <2> QED
    BY <1>1, <2>2 DEF Choice
<1> QED
  BY <1>1, <1>2, <1>3, <1>4, <1>5, ChoiceSteps

\* While the choice at the head is open, no scene follows.
LEMMA TipStays ==
  ASSUME WellFormed, LinearStory, Unanswered, [Next]_vars, Unforked'
  PROVE  Tip' = Tip
<1>1. CASE \E t \in Tasks : CommitScene(t)
  BY <1>1 DEF LinearStory, WritersStartedReady, CommitScene, Writing
<1>2. CASE \E c \in DOMAIN choices : ForkAtChoice(c)
  <2>1. \A b \in DOMAIN branches : branches'[b] = branches[b]
    BY <1>2, ForkKeepsRows
  <2> QED
    BY <2>1, RootOnly DEF LinearStory, Tip
<1> QED
  BY <1>1, <1>2, SceneSteps DEF Tip

\* A view goes on standing whatever step is taken.
LEMMA ViewKept ==
  ASSUME WellFormed, LinearStory, [Next]_vars, Unforked', NEW x \in Page, ViewOK(x), ViewStands(x)
  PROVE  ViewStands(x)'
<1> SUFFICES ASSUME x.choice # None
             PROVE  /\ x.version <= choices'[x.choice].version
                    /\ choices'[x.choice].version = x.version =>
                         /\ choices'[x.choice].segment = Tip'
                         /\ choices'[x.choice].selected = Pending
  BY DEF ViewStands
<1>1. x.choice \in DOMAIN choices /\ x.version \in Nat
  BY DEF ViewOK, Page
<1>2. /\ choices[x.choice].version \in Nat
      /\ \/ choices'[x.choice] = choices[x.choice]
         \/ choices'[x.choice].version = choices[x.choice].version + 1
  BY <1>1, VersionsCountSelections
<1>3. choices[x.choice].version = x.version => Unanswered
  BY <1>1 DEF ViewStands, Unanswered
<1>4. choices[x.choice].version = x.version => Tip' = Tip
  BY <1>3, TipStays
<1> QED
  BY <1>1, <1>2, <1>4 DEF ViewStands

\* What a document shows when it is loaded stands.
LEMMA LoadedStands ==
  ASSUME WellFormed, LinearStory, NEW branch, NEW pinned
  PROVE  ViewStands(Loaded(branch, pinned))
<1>1. PICK x, shown : x = Loaded(branch, pinned) /\ shown = Shown(branch)
  OBVIOUS
<1>2. /\ x.choice = shown
      /\ x.version = IF shown = None THEN 0 ELSE choices[shown].version
  BY <1>1 DEF Loaded, Closed
<1>3. ASSUME shown # None
      PROVE  /\ choices[shown].version \in Nat
             /\ choices[shown].segment = Tip /\ choices[shown].selected = Pending
  <2>1. story.status = "WAITING_CHOICE" /\ branch = Root /\ shown = CurrentChoice(Root)
    BY <1>1, <1>3 DEF Shown, LinearStory, OnlyRoot
  <2>2. /\ IsPending(shown) /\ shown \in DOMAIN choices
        /\ choices[shown].segment = Tip
    BY <2>1, ShownIsOpen DEF LinearStory, WaitsIffOpen
  <2> QED
    BY <2>2, Tables DEF IsPending, WellFormed, RowsOK, Choice
<1>4. ViewStands(x)
  BY <1>2, <1>3 DEF ViewStands
<1> QED
  BY <1>1, <1>4

\* The page keeps its view, closes it or loads another one.
LEMMA NextView ==
  ASSUME PageWellFormed, [PageNext]_pageVars
  PROVE  \/ page'.choice = page.choice /\ page'.version = page.version
         \/ page'.choice = None
         \/ UNCHANGED vars /\ \E branch, pinned : page' = Loaded(branch, pinned)
<1>0. page \in Page /\ EventsOK
  BY DEF PageWellFormed, PageOK
<1>1. CASE UNCHANGED page
  BY <1>1
<1>2. /\ Failed.choice = page.choice /\ Failed.version = page.version
      /\ \A phase \in {"timer", "reload"} : /\ Answered(phase).choice = page.choice
                                            /\ Answered(phase).version = page.version
  BY <1>0 DEF Failed, Answered, Page
<1>3. CASE \E t \in Tasks : ResponseEnds(t)
  <2>1. PICK t \in Tasks : ResponseEnds(t)
    BY <1>3
  <2>2. event[t] \in {"error", "continue", "choice", "paused"}
    BY <1>0, <2>1 DEF ResponseEnds, DrainResponse, EventsOK, Events, Outcome
  <2>3. After(event[t]).choice = page.choice /\ After(event[t]).version = page.version
    BY <1>2, <2>2 DEF After
  <2> QED
    BY <2>1, <2>3 DEF ResponseEnds
<1>4. CASE RequestAccepted \/ PressPause
  BY <1>0, <1>4 DEF RequestAccepted, PressPause, Page
<1>5. CASE RequestRefused \/ ConnectionLost \/ ServerFault
  BY <1>1, <1>2, <1>5 DEF RequestRefused, ConnectionLost, ServerFault
<1>6. CASE \E option \in Options : PressOption(option)
  <2>1. page' = Failed \/ page' = [page EXCEPT !.phase = "reload"]
    BY <1>6 DEF PressOption
  <2> QED
    BY <1>0, <1>2, <2>1 DEF Page
<1>7. CASE Close
  BY <1>7 DEF Close, Closed
<1>8. CASE Reload \/ \E branch \in DOMAIN branches, pinned \in BOOLEAN : Open(branch, pinned)
  BY <1>8 DEF Reload, Open
<1> QED
  BY <1>1, <1>3, <1>4, <1>5, <1>6, <1>7, <1>8
  DEF PageNext, PageScript, TaskRuns, Others, pageVars

\* Every step keeps the choice in view answerable or answered.
LEMMA NextViewStands ==
  ASSUME PageWellFormed, Unforked => LinearStory, Unforked => ViewStands(page),
         [PageNext]_pageVars
  PROVE  (Unforked => ViewStands(page))'
<1> SUFFICES ASSUME Unforked' PROVE ViewStands(page)'
  OBVIOUS
<1>0. WellFormed /\ page \in Page /\ ViewOK(page) /\ [Next]_vars
  BY PageStepIsStep DEF PageWellFormed, PageOK
<1>1. Unforked /\ LinearStory /\ ViewStands(page)
  BY <1>0, ForkedForGood
<1>2. CASE page'.choice = page.choice /\ page'.version = page.version
  <2>1. PICK x : x = page
    OBVIOUS
  <2>2. ViewStands(x)'
    BY <1>0, <1>1, <2>1, ViewKept
  <2> QED
    BY <1>2, <2>1, <2>2 DEF ViewStands
<1>3. CASE page'.choice = None
  BY <1>3 DEF ViewStands
<1>4. CASE UNCHANGED vars /\ \E branch, pinned : page' = Loaded(branch, pinned)
  <2>1. PICK branch, pinned : page' = Loaded(branch, pinned)
    BY <1>4
  <2>2. PICK x : x = Loaded(branch, pinned)
    OBVIOUS
  <2>3. ViewStands(x)
    BY <1>0, <1>1, <2>2, LoadedStands
  <2> QED
    BY <1>4, <2>1, <2>2, <2>3 DEF ViewStands, Tip, vars
<1> QED
  BY <1>2, <1>3, <1>4, NextView

\* Until the story is forked, the choice in view has been made, in this tab or
\* another, or can be made as it is shown: a page never offers a dead choice.
THEOREM ShownChoiceAlwaysStands == PageSpec => []ShownChoiceStands
<1>1. PageInit => (Unforked => ViewStands(page))
  BY DEF PageInit, Closed, ViewStands
<1>2. PageSpec => [](Unforked => LinearStory)
  BY PageIsAClient, LinearUntilForked, PTL
<1>3. PageSpec => [](Unforked => ViewStands(page))
  BY <1>1, <1>2, AlwaysPageWellFormed, NextViewStands, PTL DEF PageSpec
<1>4. ASSUME PageWellFormed, Unforked => LinearStory, Unforked => ViewStands(page)
      PROVE  ShownChoiceStands
  <2> SUFFICES ASSUME page.choice # None, Unforked,
                      choices[page.choice].version = page.version
               PROVE  CanSubmit(page.choice, page.version)
    BY DEF ShownChoiceStands, Unforked
  <2>1. /\ WellFormed /\ page.choice \in DOMAIN choices
        /\ choices[page.choice].segment = Tip /\ choices[page.choice].selected = Pending
        /\ OnlyRoot /\ WaitsIffOpen
    BY <1>4 DEF PageWellFormed, PageOK, ViewOK, ViewStands, LinearStory
  <2>2. story.status = "WAITING_CHOICE" /\ story.current = Root
    BY <2>1 DEF WaitsIffOpen, Unanswered, OnlyRoot
  <2>3. BranchOfChoice(page.choice) = Root
    BY <2>1, RootOnly
  <2> QED
    BY <2>1, <2>2, <2>3 DEF CanSubmit, Tip
<1> QED
  BY <1>2, <1>3, <1>4, AlwaysPageWellFormed, PTL
=============================================================================
