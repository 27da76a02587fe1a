# StoryFlow in TLA+

StoryFlow is an interactive-fiction server: a reader confirms a "story Bible", the server then
generates one scene after the other with a language model, stops at choices, and lets the reader go
back to a choice and continue on another branch.  The program is one FastAPI process (asyncio) over one
SQLite file.  This directory holds TLA+ modules that model its core, the TLC configurations that check
them on small instances, and proofs that TLAPS checks for every instance.  Paths below are relative to
`src/src/storyflow/` unless they start with `src/`.

## 1. Inventory

| Component | State | Operations | Hard behaviour | What makes it correct |
|---|---|---|---|---|
| Story status (`domain/enums.py`, `domain/state_machine.py`) | none | `transition` | callers that write a status without asking the table | a commit walks a legal sequence of statuses |
| Choice policy (`services/choice_policy.py`) | none | `evaluate_choice_policy` | off by one at both interval bounds; distance counted earlier than used | choices keep the configured distance |
| Story repository (`db/repositories.py`, `db/schema.sql`, `domain/models.py`) | the tables stories, branches, story_segments, choice_points, memory_snapshots, generation_drafts | 12 transactions and their queries | stale values brought by callers; two choices on one scene after a fork; order of snapshots | references exist, a branch is a line of scenes, branches form a tree, one scene per key, memory belongs to the branch |
| Generation service and endpoint (`services/generation.py`, `api/routes/generation.py`) | `_active_branches`; one task and one response per request | generate, stream, commit, update memory, roll up, release | minutes of model calls between read and write; pause, cancellation, disconnect at any await | one task per branch, a scene only where and when it may be added, a pause stops the batch, requests end |
| Control and choice endpoints (`api/routes/generation.py`, `api/routes/choices.py`) | custom actions being parsed | pause, resume, activate, select, fork | double submissions; model call between check and write | a choice is made once, a waiting story can be answered |
| Startup (`main.py`) | none | `recover_interrupted_generations` | what a restart loses and keeps | no stale reservation |
| Bible lifecycle (`api/routes/stories.py`, `services/bible.py`) | stories, story_bibles, branches, character_states, story_arcs of a DRAFT | create, generate, replace, confirm | overlapping answers, confirmation in a worker thread | one complete bundle, never replaced once accepted |
| Rate limiter (`security/rate_limit.py`) | list of times per session | `is_allowed` | window edge, equal clock readings | bound in every window, no needless refusal |
| Memory service (`services/memory.py`) | none | `parse_update`, `apply_update`, `apply_choice_effects` | the model lists whole casts while choices patch single characters by name; several entries for one character | a choice merges without loss or double; versions count changes |
| Context builder (`services/context_builder.py`) | none | `build` | three dropping loops against a budget, then the minimal context | only what must be dropped is dropped |
| Bible response (`services/bible.py`) | none | normalise, validate, retry, fall back | two failed attempts of different kinds; normalisation and fallback know different names | what the model has written is kept, and a bundle comes out (the code fails both) |
| Database (`db/database.py`) | SQLite file, WAL | `read`, `transaction` | a thread and the event loop write the same row; snapshots | threads show nothing that handlers one after the other could not do |
| Reader page (`static/js/reader.js`, `templates/reader.html`, `reader_page` of `api/routes/web.py`) | the document, `activeRequest`, timers | open, generate, continue, pause, submit, reload | two tabs, lost connections and replies, buttons pressed while the script runs, a view that is out of date | it comes to rest, goes on only after its own scene, sends at most one request after a pause, shows a choice that stands |
| Export, reader view, field improvement, model clients, prompts, sessions, credentials, create form | none | formatting, one model call, checks | none of their own | not modelled |

How they interact.  Every request handler that writes a story after confirmation is an `async def` on
one event loop; it gives up control only at an `await` of the model or of a queue.  A generate request
reserves its branch, and its response starts a task which calls the Director (a plan), the choice policy, the
Writer (a stream of chunks, the pause flag being read after each), commits scene, choice, branch head and
story status in one transaction, then awaits up to two more model calls that evolve the memory, and deletes
the draft.  The response's `finally` cancels the task and releases the branch.  All other handlers meet the
task only through the tables.  Before confirmation there is one asynchronous handler (Bible generation)
and two that write in the thread pool (creation of a story, confirmation).  The page in the browser asks for one scene after the other: the last event of
a response decides whether it sends the next request, reloads, or stops.

The hazards this gives rise to are listed, line by line, in `PROJECT.json`.

## 2. Modules

| Module | Models | Correspondence |
|---|---|---|
| `StoryStatus` | enums.py, state_machine.py | the table of transitions as a function |
| `ChoicePolicy` | choice_policy.py | `EvaluatePolicy(frequency, distance, valid)` |
| `StoryRepository` | repositories.py | one variable per table, one operator per query, one operator per transaction (named after the method); a row id is the position in its table, as `ORDER BY rowid` sees it |
| `Schema` | the triggers of db/schema.sql | one operator per trigger: what it demands of a row of `branches`; the recursive query is the smallest closed set |
| `GenerationService` | generation.py and the generate endpoint | `reserved` is `_active_branches`; `task[t]` is one request with the local variables it keeps across awaits; `task[t].pc` names the await it is suspended at; each action is the code up to the next await |
| `StoryFlow` | the composition | the remaining endpoints, faults (`disconnect`, `drop`, `restart`), `Next`, fairness and the properties |
| `BranchTree` | the promise of `src/SPEC.md` 5.6 | abstract: a list of scene lists that only grow at the end, or are forked as a prefix |
| `BibleLifecycle` | stories.py, bible.py, `replace_generated_bible_bundle`, `confirm_bible` | a bundle is a number and a row is the bundle it came with, so mixed bundles are visible |
| `BibleResponse` | `generate_validated_bible`, `_normalize_bible_response`, `_lenient_bible_fallback` | `attempt`, `lastRaw`, `outcome` are the function's progress; an answer has one text that must be there, the kinds of aliases it comes under (known to both parts, to the normalisation only, to the fallback only), and kinds of characters; the result says where the text came from and which characters are kept |
| `BibleTransactions` | repositories.py and database.py below the handlers of `BibleLifecycle` | `latest` is the set of open transactions whose snapshot is still current; `loop` and `confirming` are the handlers between their reads and their writes; implements `BibleLifecycle` |
| `ReaderPage` | reader.js, reader.html, `reader_page`, `_publish_result` | `page` is one document and its script, `event` the last event that each task has queued, `pressed` observes the pause button (a pause that nobody has ended yet, and the requests of the page since); other tabs are the users of `StoryFlow`; every step is a step of `StoryFlow` or a stutter |
| `RateLimiter` | rate_limit.py | `IsAllowed` is one step; `admitted` and `refused` record the answers |
| `MemoryService` | memory.py | one operator per update of a snapshot; names are compared through `Folded` |
| `ContextBuilder` | context_builder.py | `Build` of layers; texts are lengths, a loop is the first round at which it stops |
| `StoryContext` | the composition of these two by generation.py, `submit_choice` and `_build_story_context` | the memory of one branch; `base` is what the task has read before its await, `LayeredMemory` what the next request builds its context from |
| `MCStoryFlow`, `MCStoryContext` | - | symmetry of keys and of tasks; names, answers and effects for TLC |
| `*_proofs` | - | theorems: `StoryRepository_proofs` (transactions), `StoryFlow_proofs`, `BranchTree_proofs` (triggers, tree, pacing, memory of branches), `ReaderPage_proofs` (the page, and a story that is not forked), `BibleTransactions_proofs` (handlers and transactions), `RateLimiter_proofs`, `StoryContext_proofs` (memory and context) |
| `FoldFacts` | - | what `FoldLeft` returns, for any operation: the lemmas that `StoryContext_proofs` instantiates |

What is abstracted.  Of a scene only its place remains: branch, parent, sequence, key, and the head its plan was made
for (`plannedFor`).  Of a memory snapshot only the scenes and the choices whose effects it contains.  Prose,
prompts, options' texts, timestamps, generation events and HTTP bodies are left out, and so is the
story's version counter after confirmation: a commit compares it with a value read in the same step
(generation.py:293-342), so the comparison can never fail.  In `BibleLifecycle`, where it is compared across an await, it is kept.  The statuses
PLANNING, STREAMING and COMMITTING are written only inside the commit transaction and never seen outside it;
`RecoverInterruptedGenerations` is modelled as written but finds nothing to recover in this system.

Atomicity.  Database calls are synchronous, so everything a handler or task does between two awaits, with its
transactions, is one step of the event loop; this is the grain of the actions.  `confirm_bible` runs in the thread pool, so its
transaction can meet the steps of the loop.  `BibleTransactions` takes the handlers apart for that: a deferred transaction fixes its snapshot at the
first SELECT, its first write fails if anything has been committed since (`SQLITE_BUSY_SNAPSHOT`), and once it writes nobody else can;
an immediate one is a step; `activate_branch` reads before its transaction.  `HandlersAreSteps` says that this refines `BibleLifecycle`, so that the
coarse grain is justified.  Of the other synchronous handlers only `create_story` (stories.py:58-73) writes: rows of a story of its own,
so that the others can meet it only in the lock, as they meet the confirmation of another story.  A commit of `StoryFlow` that meets one of these two
fails, which `ModelFails` (an error before the commit) includes.

The page.  The server releases a branch right after the last event, long before the page's timer (300 ms, 1 s) or its reload, so the
last event and the release are one step (`ResponseEnds`).  A click whose answer only reloads (resume, activate, new branch) is a user's request followed by `Open`.
`PageKeys` are keys made from the page's clock; a page never uses a key again.

Cancellation.  A task that is cancelled gets `CancelledError` at its await and makes no database call after
it (the handlers there catch `Exception`, which does not include it, or return at once), so `Disconnect` simply removes it.
`DropResponse` is the case in which the response object is discarded before its generator first runs: neither body nor `finally` executes.

## 3. Runs

All bounds are CONSTANTS of the modules: `Keys`, `PageKeys`, `MaxSegments`, `MaxBranches`, `MaxVersion` (of a choice, or of a story in
`BibleLifecycle`), `MaxBundles`, `MaxTime`.  They only stop users from asking for more; no step of a running task is
cut off.  `RollingInterval` is 5 in the code and 2 where the run has only three scenes, so that the rolling summary is reached.

Runs that pass:

| Run | Instance | Shows |
|---|---|---|
| `core_forks` | 2 requests, 3 keys, 3 scenes, 2 branches, all faults | typing, references, one task per branch, linear branches, one scene per key, paths, memory, where scenes are added, pause, rows that the triggers accept, a reservation without a request only where a response was dropped, and that `StoryFlow` implements `BranchTree` |
| `core_linear` | a reader page with 3 keys, other clients with 1, 2 requests, 3 scenes, 1 branch, 1 option, 1 custom action, versions up to 3, all faults, fairness | an open choice blocks, can be answered, and is answered once, also by the page whose view is old; the page goes on only after its own scene, comes to rest, and sends at most one request after a pause |
| `core_live` | 2 requests, 2 scenes, 2 branches, disconnects, restarts, fairness | requests end, branches are released |
| `core_pacing` | 2 requests, 4 scenes, 2 branches, MEDIUM, no faults | a plan is used once; choices keep the policy's distance, which counts completed scenes |
| `bible` | 3 requests, 2 confirmations, 4 bundles, versions up to 6 | the transactions implement the handlers; one bundle, completeness, a confirmation and an accepted Bible stand |
| `context` | 4 scenes, 2 characters, one of them with 2 spellings, 4 model answers, 5 kinds of effects | memory and context: choices merge without loss or double, versions count, nothing dropped in vain |
| `limiter` | 2 sessions, limit 2, window 2, 5 ticks | window bound, no needless refusal |

Two requests are enough for every race between a task and its successor or a task on another branch, since the
service lets one task work on a branch; two branches give an original and a fork in flight together; three
scenes give a scene before, at and after the fork, and a rolling summary.  Three keys allow a key to be used
again and fresh ones to be used with it.  The limiter's five ticks hold two full windows and the edge between them.
In `context` the lengths and the budget are such that each loop stops at once, half-way and at its end, and that the minimal context is
reached; four scenes give two older summaries and two rolling ones.  The instance ends after its scenes, so deadlock is not checked there.
Constants that describe inputs (`Roster`, `SceneUpdates`, `ChoiceEffects`, `Summaries`) are assumed to have the shapes that pydantic and the parsers
of memory.py let through (`InputAssumption`; `Character`, `Update`, `Effects` in `MemoryService`); TLC evaluates the assumption for the instance.
`MinimalOnlyWhenForced` and `NothingDroppedInVain` hold for every marking of characters as unrelated; the server marks none.

In `core_linear` the page may ask three times and another client once, so that the page continues by itself, is overtaken by another tab, and is refused.
One option and one custom action give the same answer twice and two different answers.  In `bible` three answers and two confirmations give every
pair of transactions, and each pair with a third that comes between or after.

`core_linear` has one branch on purpose: `WaitingForAChoice`, `OpenChoiceBlocks`, `SelectionsStand` and `NoScenePastOpenChoice` are what the code keeps for a story that is never forked, and
fail after a fork (when `MaxBranches` is 2; see below); `ShownChoiceStands` names this restriction itself.  Section 4 proves them up to the first fork.  Likewise `core_pacing` has no
faults because a lost client breaks `ScenesFollowTheirPlan` (`v_stale_draft`; without one it is proved, section 4), and `core_live` has no `drop` fault because a response that
never starts leaves its branch reserved until a restart, by nobody (routes/generation.py:159, 192-196; with `"drop"` in `Faults` `BranchesReleased` fails).  That only such a response does so is `OnlyDropLeaks`, in `core_forks` and with all faults.

`MemoryOnPath` is checked without any assumption on keys with two branches and three scenes, and proved for every number of both while no two requests on their way to a commit have
the same key (`KeysApart`).  Without that it fails with three branches and five scenes: a request on a fork waits with the key of one on the original; the original commits scene *s* with
that key and a choice, then a later scene whose update is in the memory; the fork's commit is given *s* (repositories.py:895-900), and `_update_scene_memory` saves for *s* (generation.py:382-390) what
is by now the latest memory of the original.  A third branch that forks at the choice of *s* takes the snapshot before the last one at *s* (repositories.py:1093-1110),
so it knows the later scene.  The page's keys hold the clock (reader.js:69-71), so this takes another client, or two tabs in the same millisecond.

Runs that TLC refutes, each quoting in `PROJECT.json` the line of the repository that promises the property:

| Run | What happens |
|---|---|
| `v_history` | history, export and context of a fork show the original's choice |
| `v_effects` | a memory update that overlaps a selection drops the effects of the choice |
| `v_stale_draft` | a disconnect after the commit leaves the draft, which becomes a second scene |
| `v_cast` | a rolling summary that is saved before any memory update leaves the context without characters |
| `v_fallback` | the fallback replaces a text whose name only the normalisation knows by the settings, and drops what a character knows |

Other disagreements that the models show, without a run of their own:

- After a fork the newest choice of the scene is the fork's copy (repositories.py:689).  Back on the original branch the story waits for that copy,
  which cannot be submitted there (`WaitingForAChoice` with two branches; `src/SPEC.md:276`).
- A task that streams on an older branch pauses the story with its draft (repositories.py:208) also when it waits for a choice by then; after resume a
  scene passes the open choice (`NoScenePastOpenChoice` with two branches and no fault; `src/SPEC.md:276`).
- A response that is dropped before its first event leaves its branch reserved, and every retry is refused until a restart (`OnlyDropLeaks`
  says that nothing else does; `src/SPEC.md:172`).
- Activating the branch of a Bible that is generated but not confirmed makes the DRAFT story IDLE, ready to generate (repositories.py:170, `Activate` of
  `BibleLifecycle`; `src/SPEC.md:481`).
- The choices of a branch and their effects are in the context for good and are not dropped.  Once they and the other fixed layers exceed the budget, every
  later scene gets the minimal context, ids without world rules, characters or clues (`MinimalOnlyWhenForced` has the condition; `src/SPEC.md:505`).
- Effects are checked when an option is selected.  If none of a choice's options has effects that the memory can take, for example relations of
  characters the model has dropped, only a custom action answers the choice (`EffectsValid`).
- `submit_choice` does not ask whether the choice is pending, so a selected choice can be selected again while the story waits at its
  scene (`SelectionsStand` with two branches; `src/SPEC.md:498`).
- `fork_at_choice` takes the snapshot before the latest one at the scene for the memory before the choice.  A memory update that is saved after the
  choice makes the fork start with the effects it should undo (repositories.py:1093-1110; `src/SPEC.md:511`).
- One key used on two branches at a time: the second commit writes the story's final status and stores no scene
  (repositories.py:899; `InsertSegmentBundle`'s first alternative).
- The policy compares completed scenes with its interval, `src/SPEC.md` counts the scene being written, too.  With few choices (interval 4 to 5) the sixth
  scene, not the fifth of `src/SPEC.md:173`, is the first that must end with a choice or a pause; MEDIUM gives three or four scenes, where
  `src/SPEC.md:187` says two or three (choice_policy.py:34).  `ChoicesPaced` states the policy's count.
- A pause takes effect at the next chunk and saves half a scene (`PauseAtChunk`), where `src/SPEC.md:263` has it wait for the end of the scene.
- A pause that is pressed while the page's timer runs, or after the commit, is followed by another request of the page: it is accepted (generate does not look at
  `pause_requested`), calls the Director and ends at the first chunk (`PressPause`, then `RequestAccepted`).  `src/SPEC.md:82` and `487` ask for none;
  `OneRequestAfterPause` says that there is one at most.
- A pause that meets a commit which ends in a choice is used up by it (repositories.py:625), and generation goes on after the choice is made: `pressed` counts
  the answer as going on.
- A memory update that fails or is interrupted is never tried again (`MemoryAnswer`, `Restart`), where `src/SPEC.md:317` has a queue for retries.
- A page that shows another branch than the current one has a pause button too.  It says "saving" for ever, because nothing streams there.
- After an error event the story is IDLE and the page offers no way to go on but to be loaded again: the retry button is rendered only for the status
  ERROR, which is never stored (reader.html:118; `src/SPEC.md:172`).
- A second tab on an IDLE story sends its own request, gets 409 and shows "generation failed" while the first one streams (`RequestRefused`).
- The page hides its indicator only on a terminal event.  A response that ends normally without one would leave it turning; the server always queues one
  before it closes the queue (`PageTypeOK`, `PageComesToRest` rest on this).
- The fallback takes a name of blanks for a name, and `GeneratedCharacter` then raises a `ValidationError` that nobody catches (`"raised"` in `Fallback`), although
  the comment calls it a "last resort" that builds "a minimal valid payload" (bible.py:349).
- `BibleGenerationValidationError` is never raised, so the 502 for it (stories.py:95) is dead code; instead of the retryable error of `src/SPEC.md:146` a bundle is made from the settings.
- Confirmation names no bundle (`static/js/api.js:54`, stories.py:125): a bundle that replaced the one in view, from another tab's late answer, is accepted unseen.
- A Bible request that fails leaves its DRAFT behind; the form creates another story for the next attempt (`static/js/create.js:209`).
- When the second answer cannot be parsed the fallback uses the first one (`Unparsable`).
- Two confirmations at a time, or one that meets a pause or a new bundle, fail with an uncaught "database is locked", a 500 (`ConfirmFails`).

Fairness (`StoryFlow!Fairness`): weak fairness of the steps of each task.  The event loop runs ready tasks, a model call ends
by an answer, an error or the client library's default timeout, and a response is drained or closed.  `ReaderPage!PageFairSpec` has the same for the tasks, and weak fairness of
the page's script: a timer fires and sends its request, which is accepted or refused, and a reload is answered.  Nothing is
assumed of users or of faults: a lost connection, a closed page and every click may happen or not.  `PageComesToRest` excepts a story that is resumed infinitely often, and a timer
whose request `MaxSegments` holds back.  In the code that request is sent; a batch without choices ends there too, because the policy answers "pause" at the maximum of the interval (choice_policy.py:37).

`BibleResponse` has no passing run: what it should promise the code does not keep (`v_fallback`, and see above).

Every property of a passing run has a mutant in `PROJECT.json`: a plausible bug, defined next to the definition it replaces (`\* Mutant:`), with which TLC finds the property violated.

## 4. Proofs

`StoryFlow_proofs` (with `StoryRepository_proofs` for the transactions) proves for every set of keys, options and requests, every bound and
every set of faults:

- `TypeCorrect`: the type invariant.
- `ReferencesAlwaysExist`, `OneTaskPerBranchAlways`, `LinearBranchesAlways`, `OneScenePerKeyAlways`, `PathsAlwaysWellFormed` (invariants).
- `ScenesOnlyWhenIdleAlways`, `PauseStopsBatchAlways` (action properties).
- `OnlyDroppedResponsesLeak`: with all faults, a branch that is reserved without a request was reserved by a response that was dropped.
- `ScenesAlwaysFollowTheirPlan`, under the assumption that there are no faults: a client that is lost leaves a draft behind that breaks it.

The argument.  `OneTaskPerBranch` is not inductive: a release must not free a branch that another task holds.  The
invariant `Reservations` adds that the branch of every live task is reserved, which makes acceptance by another task impossible.
The properties of scenes rest on `WellFormed` and `Linear`: types, references, parents older than their children, own
scenes that follow the fork scene or an own scene, the head being the latest own scene, and one child per scene and branch.
The commit's comparison of the branch head with the head read at the start is what preserves them:
a new scene's parent is the latest own scene, which has no child on its branch yet.  Each transaction has a lemma in
`StoryRepository_proofs`; `StoryFlow_proofs` goes through the actions of `Next`.

`ScenesFollowTheirPlan` needs more than the heads.  `Planned` adds that a task that writes still has the head of its branch as it read it
(`TasksFollowHeads`), and that a draft goes on from the head of its branch, or its task has made its scene of it and is about to delete it
(`DraftsFollowHeads`).  A lost client stops the task between that commit and the deletion.

`BranchTree_proofs`, for every number of branches, scenes, choices, keys and requests and with all faults.

`SchemaAlwaysAccepts`: the triggers speak of all ancestors of a branch, the code only of the parent; `ForksFit` says that every branch but the
root leaves an older branch at one of that branch's own scenes by a choice of that scene.  The branches older than a given one are then a path that does not hold it, so there is no
cycle, and the fork point is on the path because the parent is.

`BranchesAlwaysFormATree` is the refinement of `BranchTree`.  The path of a branch is the value of a recursive function, `PathTo`.  That the recursion has the values of its
equation is `PathEquation`, and that the paths of old scenes are not changed by new rows is `PathsKept`, both by counting scenes up: a set that holds 0 and with every number below a bound its
successor holds all (`RowInduction`, from the well-foundedness of the numbers).  A commit then is `Grow`, a fork is `Fork` (a scene of a branch is on its path, `OwnScenesOnPath`, which
up to it is the scene's own path), and every other step stutters.

`ChoicesAlwaysPaced`: the loop that counts the distance finds the number of scenes after the latest choice on the path (`DistanceCounted`), and the number that a task was accepted with
is still right until its commit (`Paced`): no other task works on its branch, a choice is committed with its scene, and a fork's copy belongs to a scene that had one already.

`MemoryAlwaysOnPath`, under `[]KeysApart` (section 3).  The invariant says that a waiting request's key has no scene (`KeysFresh`), that a task that updates the memory works at the head of its own branch and has read
only scenes of it (`TasksRemember`), that every snapshot knows only scenes of its branch and none later than its own (`SnapshotsOnPath`), and that snapshots of one branch are
saved in the order of their scenes (`SnapshotsInOrder`), which is why the snapshot that a fork goes back to knows nothing later than the fork scene (`PreChoiceMemoryOnPath`).

`ReaderPage_proofs`, for every number of clients, keys, scenes, branches and forks and with all faults: `PageTypeCorrect`, `PageIsAClient`,
`OneRequestAfterPauseAlways`, `ContinuesOnlyAfterItsScene`.
`PageIsAClient` maps every step of the page to a step of `StoryFlow` or a stutter, so that the theorems about `StoryFlow` hold with the page and can be used in its
invariants.  `OneRequestAfterPauseAlways` says that the page sends at most one more request after its pause button, until somebody resumes, activates a branch or answers a choice.  Its invariant `PauseStands`: such a pause
keeps the story `Stopped` (a pause is requested, or the status is not IDLE), which a commit, a draft, a fork and a restart leave so (`StoppedStays`), and after the one request the page is not in its
timer and its task has not announced "continue".  `ContinuesOnlyAfterItsScene` follows from `Served`: a key of the
page is used by its own task alone, and a task that has announced "continue" has made its scene the head of its branch; that no other task can move
the head meanwhile is `Reservations`.

The second part of `ReaderPage_proofs`, for every number of requests, keys, scenes and options and with all faults: `WaitsForAChoiceUntilForked`, `OpenChoiceBlocksUntilForked` and
`ShownChoiceAlwaysStands` (until the story has a second branch), `SelectionsStandAlways` and `NoScenePastOpenChoiceAlways` (for `MaxBranches` at most 1,
because an action property cannot name a whole prefix of a behaviour).
The invariant `LinearStory` says that the story waits exactly when the choice at the head is unanswered, that a scene has at most one choice, and that a task
that plans or writes started when no choice was open and its key had no scene; the last part is why a commit, which does not look at choices again, cannot pass one.
It is lost at the first fork, which is never undone (`ForkedForGood`), so it is proved as `Unforked => LinearStory`.
`ViewStands` adds that a choice in view whose version has not moved is the open one at the head.

`BibleTransactions_proofs`, the handlers: `OneBundleAlways`, `ReadyStoryAlwaysComplete`, `AcceptedBibleAlwaysStands`, `ConfirmationAlwaysStands`.
A status other than DRAFT implies a bundle, because confirmation checks completeness and activation needs a branch; a
replacement needs DRAFT.

The transactions: `TransactionsImplementHandlers`, a refinement for any number of threads, requests and stories' versions: an open transaction that is
`latest` has read what is still stored, so its writes are a handler's step now; while the loop is in `activate_branch` the story that it has read is the stored one or the stored one
before a confirmation (`Reading`), and the row written back is an activation of either, but that a version number may be used twice.  `DbTypeCorrect` is their type invariant.  `TransactionsAreSafe` brings the
theorems about the handlers to the transactions.

`RateLimiter_proofs`: `WindowBoundAlways`, `RefusedOnlyWhenFullAlways`, for every limit and window.
The code looks only at what it kept, the property at all admissions.  The invariant says that the kept times are the last ones
admitted (`Kept`), that times are ordered (`Sorted`), that an admission is more than a window later than the one `MaxRequests`
places before it (`Spaced`), and that every refusal had a full window (`Full`).

`StoryContext_proofs`, for every Bible, every set of answers, effects and summaries, all lengths and every budget.

`MemoryTypeCorrect`, `ChoicesNeverAddADouble`, `ChoicesOnlyAdd`, `VersionsAlwaysCountChoices`.  A choice is two folds over its entries.  `Grown` relates the cast in the middle of a merge to the cast it started
with: the old characters stay in their places with what they had, a character that is not noted as changed is as it was, and an index that a newcomer gets had no character of his name before.
Each kind of entry keeps `Grown` (`CharacterStateKeepsGrown`, `RelationshipsKeepGrown`), and `FoldKeeps` carries it through both folds.

`MinimalContextOnlyWhenForced`, `ContextDropsByNeed`.  Each loop of the builder stops at the first round after which the layers fit, or at its last (`SummariesStage`, `UnrelatedStage`,
`WordsStage`); `BuildStages` puts them together: a loop drops something only when the earlier ones have dropped all they can.  The length of what is left is then compared
with what may not be dropped.  The one hard part is the middle loop, which removes unrelated characters from within the list: what remains after *n* rounds is the list of the members at the positions that are not
among the first *n* unrelated ones (`WithoutUnrelatedIsPicked`), at least as long as the related ones alone, and equal to them after the last round (`PickedAroundRelated`, `DroppedUpTo`).

`FoldFacts` proves once what `FoldLeft` returns: the result is the last of a series of partial results (`FoldSteps`), so an appended member is folded last
(`FoldAppend`) and what every step keeps the fold keeps (`FoldKeeps`).

The constants' assumptions are those of the modules: options and custom actions are disjoint, `RollingInterval` is positive, the window is positive, the
bounds are natural numbers.  TLC evaluates them in every run.

Only model-checked: the liveness properties `TasksEnd`, `BranchesReleased` and `PageComesToRest` (TLAPS proves no liveness under fairness here).  Every other property of a passing run is a theorem; some have a
hypothesis: `ScenesFollowTheirPlan` (no fault), `MemoryOnPath` (`KeysApart`), and four properties of choices (no fork).

Induction over data is done without the library's induction theorems, whose operator parameter the provers cannot instantiate: the numbers for which a claim holds are a set, and a non-empty set of
counterexamples would have a smallest member (`WFMin` and `NatLessThanWellFounded` of the library).

## 5. Not modelled

- Text: `_normalize_director_response` (its result is the input `suggestion` of `DirectorPlans`), `_normalize_character_names` (returns its argument), the repair of JSON and of escapes in
  `llm/provider.py`, the repairs of optional fields in `_normalize_bible_response`, prompts, Markdown export, templates other than the reader's, CSS, the create form.
- Stateless checks: sessions, credentials, redaction, configuration, error bodies; field improvement (one model call).
- `commit_segment_bundle`, `set_current_branch`, `save_bible`, `create_branch` of the repository and `BranchService`: no route uses them.
- `db/database.py`: pragmas, the creation of the schema, the migration of `generation_events` at start (it runs before requests are served).  After confirmation a transaction is one step in the models,
  because no other handler that writes runs in a thread.
- A story whose Bible is confirmed while `StoryFlow` runs: the two halves meet only in the status IDLE (`ConfirmAgain` writes nothing), and another story's confirmation
  only in the lock.
- The production application (`main.py:95-98`) is built without a rate limiter, although `src/SPEC.md:474` asks for one on the public demo;
  `RateLimiter` models the class and how the generate endpoint consults it when it is there.

## 6. Plan

Done: StoryRepository, GenerationService, StoryFlow with BranchTree, BibleLifecycle and RateLimiter, StoryContext with MemoryService
and ContextBuilder, ReaderPage, BibleResponse, BibleTransactions and Schema; the proofs of all their safety properties, with the tree of branches, pacing, the memory of branches
and the context builder last.  Next:

1. `MemoryOnPath` under an assumption about fewer pairs of requests: only those for different branches need different keys.
2. Content in `StoryFlow`'s snapshots (`StoryContext` for several branches), so that forks are checked against what their memory says.
3. The normalisation of the Director's answer, as `BibleResponse` does it for the Bible's.
