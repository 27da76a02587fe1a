--------------------------- MODULE BibleLifecycle ---------------------------
(***************************************************************************)
(* A story before its first scene: Bible generation and confirmation       *)
(* (api/routes/stories.py, services/bible.py, db/repositories.py), with    *)
(* the pause, resume and activate handlers, which ask for no confirmed     *)
(* Bible.  StoryFlow begins where this module ends.                        *)
(*                                                                         *)
(* generate_bible reads the story, awaits the model (one or two attempts   *)
(* with a lenient fallback) and then writes the whole bundle: a Bible, a   *)
(* root branch, characters and an arc.  A bundle is known by a number, and *)
(* a row of a table by the bundle that it came with.  Each handler is one  *)
(* step here; BibleTransactions shows that the steps in which the database *)
(* sees them implement this.                                               *)
(***************************************************************************)
EXTENDS StoryStatus, FiniteSets

CONSTANTS
  Requests,      \* bible/generate requests that may be in flight together
  MaxVersion,    \* bound: no handler bumps the version beyond it
  MaxBundles     \* bound: no request is accepted once so many bundles were written

ASSUME BibleAssumption ==
  /\ MaxVersion \in Nat \ {0}
  /\ MaxBundles \in Nat

VARIABLES
  story,         \* the row of stories
  tables,        \* the rows that belong to the story, by table
  request,       \* what each request in flight has read
  written,       \* number of bundles written so far
  confirmed      \* has bible/confirm succeeded?  (the code does not record it)

vars == <<story, tables, request, written, confirmed>>

None == 0        \* no branch; no request

Tables == {"branches", "story_bibles", "character_states", "story_arcs"}

TypeOK ==
  /\ story \in [status : {"DRAFT", "IDLE"}, version : Nat \ {0}, current : Nat,
                pauseRequested : BOOLEAN]
  /\ tables \in [Tables -> SUBSET Nat]
  /\ request \in [Requests -> Nat]
  /\ written \in Nat
  /\ confirmed \in BOOLEAN

\* POST /stories.
Init ==
  /\ story = [status |-> "DRAFT", version |-> 1, current |-> None, pauseRequested |-> FALSE]
  /\ tables = [table \in Tables |-> {}]
  /\ request = [r \in Requests |-> None]
  /\ written = 0
  /\ confirmed = FALSE

-----------------------------------------------------------------------------
\* The handler reads the story and awaits the model.
GenerateBible(r) ==
  /\ written < MaxBundles
  /\ request[r] = None
  /\ story.status = "DRAFT"
  /\ request' = [request EXCEPT ![r] = story.version]
  /\ UNCHANGED <<story, tables, written, confirmed>>

\* Mutant: the story is not read again after the model has answered.
CanReplaceUnread(version) == version # None

CanReplace(version) == story.status = "DRAFT" /\ story.version = version

\* Mutant: the previous rows are left in the tables.
ReplaceBundleKeepingRows(bundle) ==
  /\ tables' = [table \in Tables |-> tables[table] \cup {bundle}]
  /\ story' = [story EXCEPT !.current = bundle]

\* Mutant: the arc is deleted last.
ReplaceBundleLosingArc(bundle) ==
  /\ tables' = [table \in Tables |-> IF table = "story_arcs" THEN {} ELSE {bundle}]
  /\ story' = [story EXCEPT !.current = bundle]

\* All previous rows go; the version stays.
ReplaceBundle(bundle) ==
  /\ tables' = [table \in Tables |-> {bundle}]
  /\ story' = [story EXCEPT !.current = bundle]

BibleArrives(r) ==
  /\ request[r] # None
  /\ CanReplace(request[r])
  /\ ReplaceBundle(written + 1)
  /\ written' = written + 1
  /\ request' = [request EXCEPT ![r] = None]
  /\ UNCHANGED confirmed

\* The model failed, the story has moved on, or the database was busy.
BibleRejected(r) ==
  /\ request[r] # None
  /\ request' = [request EXCEPT ![r] = None]
  /\ UNCHANGED <<story, tables, written, confirmed>>

Complete ==
  /\ story.current # None
  /\ story.current \in tables["branches"]
  /\ tables["story_bibles"] # {}
  /\ story.current \in tables["character_states"]
  /\ story.current \in tables["story_arcs"]

\* A story that is IDLE is confirmed once more without effect.
ConfirmBible ==
  /\ story.status = "DRAFT" => story.version < MaxVersion
  /\ story.status \in {"DRAFT", "IDLE"}
  /\ Complete
  /\ story' = IF story.status = "IDLE" THEN story
              ELSE [story EXCEPT !.status = "IDLE", !.version = @ + 1]
  /\ confirmed' = TRUE
  /\ UNCHANGED <<tables, request, written>>

\* Mutant: a pause requested too early pauses the story.
PauseAtOnce ==
  /\ story.version < MaxVersion
  /\ story' = [story EXCEPT !.status = "PAUSED", !.version = @ + 1]
  /\ UNCHANGED <<tables, request, written, confirmed>>

RequestPause ==
  /\ story.version < MaxVersion
  /\ story' = [story EXCEPT !.pauseRequested = TRUE, !.version = @ + 1]
  /\ UNCHANGED <<tables, request, written, confirmed>>

\* There is no PAUSED story before the first scene.
Resume ==
  /\ story.version < MaxVersion
  /\ story' = [story EXCEPT !.pauseRequested = FALSE, !.version = @ + 1]
  /\ UNCHANGED <<tables, request, written, confirmed>>

\* Activating a branch without a scene makes the story IDLE, whatever it was.  The
\* story is read before the transaction that writes it, so the step from DRAFT to
\* IDLE that a confirmation takes in between is not counted in the version.
Activate ==
  /\ \E branch \in tables["branches"], version \in {story.version, story.version + 1} :
       /\ version <= MaxVersion
       /\ version = story.version => story.status = "IDLE"
       /\ story' = [story EXCEPT !.status = "IDLE", !.current = branch,
                                 !.pauseRequested = FALSE, !.version = version]
  /\ UNCHANGED <<tables, request, written, confirmed>>

\* The process restarts; a DRAFT story needs no recovery.
Restart ==
  /\ request' = [r \in Requests |-> None]
  /\ UNCHANGED <<story, tables, written, confirmed>>

Next ==
  \/ \E r \in Requests : GenerateBible(r) \/ BibleArrives(r) \/ BibleRejected(r)
  \/ ConfirmBible
  \/ RequestPause
  \/ Resume
  \/ Activate
  \/ Restart

Spec == Init /\ [][Next]_vars

-----------------------------------------------------------------------------
\* Whatever requests overlapped, the tables hold the rows of one bundle, and the
\* current branch is the branch of that bundle (repositories.py:343-442).
OneBundle ==
  LET expected == IF written = 0 THEN {} ELSE {written}
  IN  /\ \A table \in Tables : tables[table] = expected
      /\ story.current = written

\* A Bible that has been accepted is never replaced by an answer that was still
\* on its way, nor does the story lose its branch (repositories.py:373-379).
AcceptedBibleStands ==
  [][story.status # "DRAFT" =>
       /\ UNCHANGED tables
       /\ story'.status # "DRAFT"
       /\ story'.current = story.current]_vars

\* A story that can generate scenes has a complete bundle to generate them from.
ReadyStoryIsComplete == story.status # "DRAFT" => Complete

\* A confirmation that has succeeded is never taken back, also not by a handler
\* that had read the story before it (repositories.py:163-185).
ConfirmationStands == confirmed => story.status # "DRAFT"

=============================================================================
