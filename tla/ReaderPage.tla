----------------------------- MODULE ReaderPage -----------------------------
(***************************************************************************)
(* One reader page in front of StoryFlow: static/js/reader.js with         *)
(* templates/reader.html and reader_page of api/routes/web.py, and the     *)
(* events of a generate response (_publish_result of                       *)
(* api/routes/generation.py).                                              *)
(*                                                                         *)
(* Other tabs and other clients are the users of StoryFlow: they send any  *)
(* request at any time.  A button whose answer only reloads the page       *)
(* (resume, activate, a new branch) is such a request followed by Open.    *)
(* phase is what the page awaits:                                          *)
(*   closed     there is no page                                           *)
(*   timer      the next startGeneration                                   *)
(*   streaming  events of its generate request                             *)
(*   reload     the document again (location.reload)                       *)
(*   still      the reader                                                 *)
(* The server releases the branch at once after the last event, well       *)
(* before the page's timer (300 ms, 1 s) or its reload, so the last event  *)
(* and the release are one step.                                           *)
(***************************************************************************)
EXTENDS StoryFlow

CONSTANTS
  PageKeys      \* keys made from the page's clock, which nobody else uses

ASSUME PageAssumption == PageKeys \subseteq Keys \ {None}

VARIABLES
  page,         \* what the document shows and what its script awaits
  event,        \* the last event that each task has queued
  pressed       \* observes the pause button; nothing depends on it

pageVars == <<vars, page, event, pressed>>

Events == {"none", "error", "continue", "choice", "paused"}

\* pinned: the address names the branch, else the page shows the current branch.
Page == [phase : {"closed", "timer", "streaming", "reload", "still"},
         branch : Nat, pinned : BOOLEAN, status : StoryStatus \cup {"none"}, current : BOOLEAN,
         choice : Nat, version : Nat, request : SUBSET Tasks, key : SUBSET Keys,
         error : BOOLEAN, pausing : BOOLEAN]

Closed == [phase |-> "closed", branch |-> None, pinned |-> FALSE, status |-> "none", current |-> FALSE,
           choice |-> None, version |-> 0, request |-> {}, key |-> {},
           error |-> FALSE, pausing |-> FALSE]

\* held: the pause button of this document has been pressed, and since then nobody
\* has gone on by resuming the story, activating a branch or answering a choice.
\* sent: the generate requests that the document has sent while held.
Pressed == [held : BOOLEAN, sent : Nat]

NotPressed == [held |-> FALSE, sent |-> 0]

\* A page has at most one request, and exactly while it streams.
PageTypeOK ==
  /\ TypeOK
  /\ page \in Page
  /\ event \in [Tasks -> Events]
  /\ pressed \in Pressed
  /\ IF page.phase = "streaming" THEN \E t \in Tasks : page.request = {t} ELSE page.request = {}

PageInit ==
  /\ Init
  /\ page = Closed
  /\ event = [t \in Tasks |-> "none"]
  /\ pressed = NotPressed

-----------------------------------------------------------------------------
(* Server side *)

\* _publish_result for a committed scene; a key that had a scene already brings
\* the choice of that scene.
CommitEvent(t) ==
  LET final    == FinalStatus(t)
      existing == SegmentByKey(task[t].key)
  IN  IF final = "WAITING_CHOICE" /\ (existing = None \/ ChoicePointForSegment(existing) # None)
      THEN "choice"
      ELSE IF final = "PAUSED" THEN "paused" ELSE "continue"

Queue(t, name) == event' = [event EXCEPT ![t] = name]

\* A step of a task that does not end its response.
TaskRuns(t) ==
  /\ \/ (StartRejected(t) \/ ModelFails(t) \/ CommitRejected(t)) /\ Queue(t, "error")
     \/ PauseAtChunk(t) /\ Queue(t, "paused")
     \/ CommitScene(t) /\ Queue(t, CommitEvent(t))
     \/ /\ \/ StartDirector(t)
           \/ StartFromDraft(t)
           \/ \E suggestion \in BOOLEAN : DirectorPlans(t, suggestion)
           \/ \E updated \in BOOLEAN : MemoryAnswer(t, updated) \/ RollingAnswer(t, updated)
        /\ UNCHANGED event
  /\ UNCHANGED <<parsing, page, pressed>>

-----------------------------------------------------------------------------
(* The document *)

Shown(branch) ==
  IF story.status = "WAITING_CHOICE" /\ branch = story.current THEN CurrentChoice(branch) ELSE None

\* A story that is IDLE on this branch is continued after 300 ms.
Loaded(branch, pinned) ==
  [Closed EXCEPT
     !.pinned  = pinned,
     !.phase   = IF story.status = "IDLE" /\ story.current = branch THEN "timer" ELSE "still",
     !.branch  = branch,
     !.status  = story.status,
     !.current = story.current = branch,
     !.choice  = Shown(branch),
     !.version = IF Shown(branch) = None THEN 0 ELSE choices[Shown(branch)].version]

Open(branch, pinned) ==
  /\ page.phase = "closed"
  /\ pinned \/ branch = story.current
  /\ page' = Loaded(branch, pinned)
  /\ pressed' = NotPressed
  /\ UNCHANGED <<vars, event>>

\* The reader leaves, reloads, or follows a link; the server notices later.
Close ==
  /\ page.phase # "closed"
  /\ page' = Closed
  /\ pressed' = NotPressed
  /\ UNCHANGED <<vars, event>>

Reload ==
  /\ page.phase = "reload"
  /\ page' = Loaded(IF page.pinned THEN page.branch ELSE story.current, page.pinned)
  /\ pressed' = NotPressed
  /\ UNCHANGED <<vars, event>>

Failed == [page EXCEPT !.phase = "still", !.request = {}, !.key = {}, !.error = TRUE]

-----------------------------------------------------------------------------
(* startGeneration *)

\* _nextKey: the clock gives a key that no scene and no task has.
UnusedKeys == {k \in PageKeys : SegmentByKey(k) = None /\ \A t \in Tasks : task[t].key # k}

Sent == pressed' = IF pressed.held THEN [pressed EXCEPT !.sent = @ + 1] ELSE pressed

RequestAccepted ==
  /\ page.phase = "timer"
  /\ UnusedKeys # {}
  /\ LET key == CHOOSE k \in UnusedKeys : TRUE
     IN  \E t \in Tasks :
           /\ Accept(t, page.branch, key)
           /\ page' = [page EXCEPT !.phase = "streaming", !.request = {t}, !.key = {key},
                                   !.error = FALSE]
  /\ Sent
  /\ UNCHANGED <<parsing, event>>

\* Mutant: a refused request is sent again and again.
RequestRepeated == page.phase = "timer" /\ UNCHANGED pageVars

\* 409: another tab generates, or the story has moved on.
RequestRefused ==
  /\ page.phase = "timer"
  /\ \/ story.status # "IDLE"
     \/ story.current # page.branch
     \/ page.branch \in reserved
  /\ page' = Failed
  /\ Sent
  /\ UNCHANGED <<vars, event>>

Answered(phase) == [page EXCEPT !.phase = phase, !.request = {}, !.key = {}]

\* Mutant: the page tries again after an error.
AfterRetryingErrors(name) ==
  CASE name \in {"continue", "error"} -> Answered("timer")
    [] name \in {"choice", "paused"}  -> Answered("reload")

\* Mutant: the page goes on and forgets to end its request.
AfterStillBusy(name) ==
  CASE name = "continue"              -> [page EXCEPT !.phase = "timer"]
    [] name \in {"choice", "paused"}  -> Answered("reload")
    [] name = "error"                 -> Failed

\* _handleEvent: what the last event of a response makes of the page.
After(name) ==
  CASE name = "continue"              -> Answered("timer")
    [] name \in {"choice", "paused"}  -> Answered("reload")
    [] name = "error"                 -> Failed

\* The response ends, for this page or for another client.
ResponseEnds(t) ==
  /\ DrainResponse(t)
  /\ page' = IF t \in page.request THEN After(event[t]) ELSE page
  /\ Queue(t, "none")
  /\ UNCHANGED <<parsing, pressed>>

\* The request never arrives, or the connection breaks: the page learns of it now,
\* the server later.
ConnectionLost ==
  /\ "disconnect" \in Faults
  /\ page.phase \in {"timer", "streaming"}
  /\ page' = Failed
  /\ IF page.phase = "timer" THEN Sent ELSE UNCHANGED pressed
  /\ UNCHANGED <<vars, event>>

-----------------------------------------------------------------------------
(* Buttons *)

\* The pause button neither stops the script nor reloads the page.
PressPause ==
  /\ page.phase \in {"timer", "streaming", "still"}
  /\ page.status \notin {"none", "PAUSED", "WAITING_CHOICE", "ERROR", "DRAFT"}
  /\ ~page.pausing
  /\ RequestPause
  /\ page' = [page EXCEPT !.pausing = TRUE]
  /\ pressed' = [held |-> TRUE, sent |-> 0]
  /\ UNCHANGED event

\* The choice that is shown, at the version that is shown.  The same answer given
\* once more, after a lost reply or from another tab, is answered as a duplicate.
PressOption(option) ==
  /\ page.phase = "still"
  /\ page.choice # None
  /\ \/ /\ SelectOption(page.choice, page.version, option)
        /\ \/ page' = [page EXCEPT !.phase = "reload"]
           \/ "disconnect" \in Faults /\ page' = Failed
        /\ pressed' = NotPressed
     \/ /\ choices[page.choice].version = page.version + 1
        /\ choices[page.choice].selected = option
        /\ page' = [page EXCEPT !.phase = "reload"]
        /\ UNCHANGED <<vars, pressed>>
     \/ /\ ~CanSubmit(page.choice, page.version)
        /\ ~(choices[page.choice].version = page.version + 1
               /\ choices[page.choice].selected = option)
        /\ page' = Failed
        /\ UNCHANGED <<vars, pressed>>
  /\ UNCHANGED event

-----------------------------------------------------------------------------
(* Everyone else *)

\* What is not a request to generate, to pause or to fork makes the story go on.
Others ==
  /\ \/ /\ \/ \E t \in Tasks, branch \in DOMAIN branches, key \in Keys \ PageKeys :
                Accept(t, branch, key) /\ UNCHANGED parsing
           \/ RequestPause
           \/ \E choice \in DOMAIN choices : CreateBranch(choice)
        /\ UNCHANGED pressed
     \/ /\ Resume \/ \E branch \in DOMAIN branches : Activate(branch)
        /\ pressed' = NotPressed
     \/ /\ Select \/ ModelAnswersCustom
        /\ pressed' = IF choices' = choices THEN pressed ELSE NotPressed
  /\ UNCHANGED <<page, event>>

\* A task whose client has gone is cancelled, a response may be dropped, and a
\* restart ends all of them; a page that streams sees its connection break.
ServerFault ==
  \/ /\ "disconnect" \in Faults
     /\ \E t \in Tasks \ page.request : Disconnect(t) /\ Queue(t, "none")
     /\ UNCHANGED <<parsing, page, pressed>>
  \/ /\ "drop" \in Faults
     /\ \E t \in Tasks \ page.request : DropResponse(t)
     /\ UNCHANGED <<parsing, page, event, pressed>>
  \/ /\ "restart" \in Faults
     /\ Restart
     /\ event' = [t \in Tasks |-> "none"]
     /\ page' = IF page.phase = "streaming" THEN Failed ELSE page
     /\ UNCHANGED pressed

PageScript == Reload \/ RequestAccepted \/ RequestRefused

PageNext ==
  \/ \E t \in Tasks : TaskRuns(t) \/ ResponseEnds(t)
  \/ \E branch \in DOMAIN branches, pinned \in BOOLEAN : Open(branch, pinned)
  \/ Close
  \/ PageScript
  \/ ConnectionLost
  \/ PressPause
  \/ \E option \in Options : PressOption(option)
  \/ Others
  \/ ServerFault

PageSpec == PageInit /\ [][PageNext]_pageVars

\* Fairness of StoryFlow for the tasks; timers fire and a reload is answered.
PageFairSpec ==
  /\ PageSpec
  /\ \A t \in Tasks : WF_pageVars(TaskRuns(t) \/ ResponseEnds(t))
  /\ WF_pageVars(PageScript)

-----------------------------------------------------------------------------
\* A page that generates comes to rest: the reader is shown a choice, a pause or
\* an error and is not left with an indicator that turns for ever (SPEC.md 9.3),
\* unless the story is resumed for ever.  (Or the bound MaxSegments holds back the
\* next request of its timer; the policy ends every batch, choice_policy.py:37.)
PageComesToRest ==
  <>[][story.status = "PAUSED" => story'.status = "PAUSED"]_pageVars =>
    (page.phase \in {"timer", "streaming", "reload"} ~>
       \/ page.phase \in {"still", "closed"}
       \/ page.phase = "timer" /\ Len(segments) = MaxSegments)

\* The page continues by itself only after the scene it asked for is the head of
\* its branch (SPEC.md 6).
ContinuesAfterItsScene ==
  [][page.phase = "streaming" /\ page'.phase = "timer" =>
       LET head == branches[page.branch].head
       IN  head # None /\ segments[head].key \in page.key]_pageVars

\* After the reader has pressed pause, and until somebody goes on, the page sends
\* at most one more request.  SPEC.md:82 and 487 ask for none, but neither the timer
\* nor the event "continue" looks at the button: a pause pressed while the timer runs
\* or after the commit is followed by one.  The server keeps the pause until that
\* request ends.  (A choice committed meanwhile uses the pause up: repositories.py:625.)
OneRequestAfterPause == pressed.sent <= 1

\* The choice in view has been made, here or elsewhere, or can be made as shown.
\* (Until the story is forked.)
ShownChoiceStands ==
  page.phase = "still" /\ page.choice # None /\ Len(branches) = 1 =>
    \/ choices[page.choice].version # page.version
    \/ CanSubmit(page.choice, page.version)

=============================================================================
