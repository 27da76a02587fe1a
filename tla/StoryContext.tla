---------------------------- MODULE StoryContext ----------------------------
(***************************************************************************)
(* The memory of one branch as scenes and choices follow one another, and  *)
(* the context built from it for the next scene: the composition of        *)
(* MemoryService and ContextBuilder by services/generation.py (355-445),   *)
(* db/repositories.py (submit_choice) and api/routes/generation.py         *)
(* (_build_story_context).                                                 *)
(*                                                                         *)
(* A memory update awaits the model between the read of the snapshot       *)
(* (base) and its save; a choice may be submitted in between.  StoryFlow   *)
(* has the faults, the forks and the other branches.                       *)
(***************************************************************************)
EXTENDS MemoryService, ContextBuilder

CONSTANTS
  Roster,           \* the Bible's characters (character_states), a sequence
  SceneUpdates,     \* answers to the memory prompt
  ChoiceEffects,    \* effects of an option or of a custom action
  Summaries,        \* answers to the rolling-summary prompt, with visible text
  RollingInterval,  \* a rolling summary is due at its multiples; 5 in the code
  MaxScenes,        \* bound: no scene is generated beyond it
  FixedLength,      \* length of the fixed memory and the arc
  SceneLength,      \* ... of a recent scene
  SummaryLength,    \* ... of the summary of an older one
  ChoiceLength,     \* ... of a choice with its effects
  ClueLength,       \* ... of an open clue
  CharacterLength,  \* ... of a character without facts and relations
  FactLength        \* ... of a fact or a relation

ASSUME ContextAssumption ==
  /\ RollingInterval \in Nat \ {0}
  /\ MaxScenes \in Nat
  /\ \A summary \in Summaries : summary.words # <<>>

ASSUME LengthAssumption ==
  {FixedLength, SceneLength, SummaryLength, ChoiceLength, ClueLength, CharacterLength, FactLength}
    \subseteq Nat

\* What pydantic and the parsers of services/memory.py let through.
ASSUME InputAssumption ==
  /\ Roster \in Seq(Character)
  /\ SceneUpdates \subseteq Update
  /\ ChoiceEffects \subseteq Effects
  /\ Summaries \subseteq Summary

VARIABLES
  scenes,    \* number of committed scenes of the branch
  open,      \* is the choice of the latest scene still to be made?
  chosen,    \* number of choices made
  memory,    \* the latest snapshot, as a set of at most one
  task,      \* what the generation task awaits
  base       \* the memory the task has read

vars == <<scenes, open, chosen, memory, task, base>>

\* At most one choice is made at a scene; the task holds a memory.
TypeOK ==
  /\ scenes \in Nat
  /\ open \in BOOLEAN
  /\ chosen \in 0 .. scenes
  /\ task \in {"idle", "update", "rollup"}
  /\ memory \in Optional(Memory)
  /\ base \in Memory

Init ==
  /\ scenes = 0
  /\ open = FALSE
  /\ chosen = 0
  /\ memory = {}
  /\ task = "idle"
  /\ base = EmptyMemory(<<>>, 0)

-----------------------------------------------------------------------------
\* The task commits a scene and reads the memory to update; where there is
\* none it starts with the Bible's characters.
CommitScene(choice) ==
  /\ task = "idle"
  /\ ~open
  /\ scenes < MaxScenes
  /\ scenes' = scenes + 1
  /\ open' = choice
  /\ task' = "update"
  /\ base' = Given(memory, EmptyMemory(Roster, 1))
  /\ UNCHANGED <<chosen, memory>>

RollingDue == scenes > 0 /\ scenes % RollingInterval = 0

\* Unlike an updated one, a rolled-up memory starts without characters.
RollupBase(saved) == Given(saved, EmptyMemory(<<>>, 1))

\* After the update of the scene, the rolling summary reads the memory again.
NextUpdate(saved) ==
  IF RollingDue
  THEN task' = "rollup" /\ base' = RollupBase(saved)
  ELSE task' = "idle" /\ base' = EmptyMemory(<<>>, 0)

\* update_from_scene: an empty answer saves nothing.
SceneUpdated(update) ==
  /\ task = "update"
  /\ ~IsEmptyUpdate(update)
  /\ memory' = {ApplyUpdate(base, update)}
  /\ NextUpdate(memory')
  /\ UNCHANGED <<scenes, open, chosen>>

\* The model fails, or its answer is malformed or empty.
SceneUpdateFails ==
  /\ task = "update"
  /\ NextUpdate(memory)
  /\ UNCHANGED <<scenes, open, chosen, memory>>

EndTask == task' = "idle" /\ base' = EmptyMemory(<<>>, 0)

\* update_rolling_summary: the same summary is not saved again.
RolledUp(summary) ==
  /\ task = "rollup"
  /\ memory' = IF summary = base.summary THEN memory ELSE {ApplyRollup(base, summary)}
  /\ EndTask
  /\ UNCHANGED <<scenes, open, chosen>>

RollupFails ==
  /\ task = "rollup"
  /\ EndTask
  /\ UNCHANGED <<scenes, open, chosen, memory>>

\* Mutant: the choice stays open.
SelectChoiceStillOpen(effects) ==
  LET current == Given(memory, EmptyMemory(Roster, 0))
  IN  /\ open
      /\ EffectsValid(current, effects)
      /\ chosen' = chosen + 1
      /\ memory' = {ApplyChoiceEffects(current, effects)}
      /\ UNCHANGED <<scenes, open, task, base>>

\* submit_choice: effects that cannot be merged reject the choice.
SelectChoice(effects) ==
  LET current == Given(memory, EmptyMemory(Roster, 0))
  IN  /\ open
      /\ EffectsValid(current, effects)
      /\ open' = FALSE
      /\ chosen' = chosen + 1
      /\ memory' = {ApplyChoiceEffects(current, effects)}
      /\ UNCHANGED <<scenes, task, base>>

Next ==
  \/ \E choice \in BOOLEAN : CommitScene(choice)
  \/ \E update \in SceneUpdates : SceneUpdated(update)
  \/ SceneUpdateFails
  \/ \E summary \in Summaries : RolledUp(summary)
  \/ RollupFails
  \/ \E effects \in ChoiceEffects : SelectChoice(effects)

Spec == Init /\ [][Next]_vars
-----------------------------------------------------------------------------
\* The memory the context shows; before there is one, the Bible's characters.
Shown == Given(memory, EmptyMemory(Roster, 0))

\* The layers of the next scene's context.  The server marks no character as
\* unrelated; unrelated are the positions of those another caller marks.
LayeredMemory(unrelated) ==
  LET recent == IF scenes < 2 THEN scenes ELSE 2
      Size(c) == CharacterLength
                   + FactLength * (Cardinality(c.facts) + Cardinality(DOMAIN c.relations))
  IN  [older  |-> [i \in 1 .. scenes - recent |-> [scene |-> scenes - recent + 1 - i,
                                                   size |-> SummaryLength]],
       cast   |-> [i \in DOMAIN Shown.cast |-> [size |-> Size(Shown.cast[i]),
                                               related |-> i \notin unrelated]],
       words  |-> Shown.summary.words,
       blanks |-> Shown.summary.blanks,
       rest   |-> FixedLength + SceneLength * recent + ChoiceLength * chosen
                    + ClueLength * Cardinality(Shown.clues)]

\* Holds(l, b) for every marking: the layers l and what Build makes of them.
ForEveryContext(Holds(_, _)) ==
  \A unrelated \in SUBSET DOMAIN Shown.cast :
    LET layers == LayeredMemory(unrelated) IN Holds(layers, Build(layers))

-----------------------------------------------------------------------------
RelatedOnly(cast) ==
  FoldLeft(LAMBDA kept, c : IF c.related THEN Append(kept, c) ELSE kept, <<>>, cast)

\* What may not be dropped fits by itself exactly if Build finds a context.
FitsIfPossible(layers, built) ==
  Fits(built) <=> EstimateTokens(layers.rest + Sizes(RelatedOnly(layers.cast))) <= Budget

\* A scene gets the minimal context (the ids only, api/routes/generation.py:365-367) only
\* when what may not be dropped exceeds the budget by itself: the loops of
\* ContextBuilder.build (123-146) give up nothing too early.
MinimalOnlyWhenForced == ForEveryContext(FitsIfPossible)

\* Old goes before new, summaries before characters before words of the rolling
\* summary, and nothing that there was room for.
DropsByNeed(layers, built) ==
  LET kept    == Len(built.older)
      parted  == Len(layers.cast) - Len(built.cast)
      silent  == Len(layers.words) - Len(built.words)
      noOlder == [layers EXCEPT !.older = <<>>]
      noCast  == [noOlder EXCEPT !.cast = RelatedOnly(@)]
  IN  /\ \A i \in DOMAIN layers.older : \A j \in DOMAIN built.older :
           layers.older[i] \in ToSet(built.older) \/ layers.older[i].scene < built.older[j].scene
      /\ kept < Len(layers.older) => ~Fits([layers EXCEPT !.older = SubSeq(@, 1, kept + 1)])
      /\ parted > 0 => /\ kept = 0
                       /\ ~Fits([noOlder EXCEPT !.cast = WithoutUnrelated(@, parted - 1)])
      /\ silent > 0 => /\ kept = 0
                       /\ \A i \in DOMAIN built.cast : built.cast[i].related
                       /\ ~Fits(noCast)
                       /\ silent > 1 =>
                            ~Fits([noCast EXCEPT !.words = SubSeq(@, silent, Len(@)),
                                                 !.blanks = Len(layers.words) - silent])

\* Build drops only what the budget forces it to, in every context of a scene.
NothingDroppedInVain == ForEveryContext(DropsByNeed)

Duplicates(cast) ==
  {ij \in (DOMAIN cast) \X (DOMAIN cast) : ij[1] < ij[2] /\ SameName(cast[ij[1]].name, cast[ij[2]].name)}

\* A choice finds the character it speaks of under any spelling: it never adds
\* a second one of the same name (memory.py:419, 486, 498-507).
ChoiceAddsNoDouble ==
  [][chosen' # chosen => Duplicates(Shown'.cast) = Duplicates(Shown.cast)]_vars

\* The effects of a choice only add to the memory the story has when it is made:
\* facts, relations, characters, threads and clues stay, in their places, and
\* the summary is not touched (memory.py:160-188, repositories.py:787-834).
ChoiceOnlyAdds ==
  [][chosen' # chosen =>
       /\ Len(Shown'.cast) >= Len(Shown.cast)
       /\ \A i \in DOMAIN Shown.cast :
            /\ Shown'.cast[i].name = Shown.cast[i].name
            /\ Shown.cast[i].facts \subseteq Shown'.cast[i].facts
            /\ DOMAIN Shown.cast[i].relations \subseteq DOMAIN Shown'.cast[i].relations
       /\ Shown.threads \subseteq Shown'.threads
       /\ Shown.clues \subseteq Shown'.clues
       /\ Shown'.summary = Shown.summary]_vars

\* A character that a choice changes, by however many entries, gets exactly one
\* new version, and one that keeps its version is unchanged (memory.py:182-186).
VersionsCountChoices ==
  [][chosen' # chosen =>
       \A i \in DOMAIN Shown.cast :
         LET before == Shown.cast[i]
             after  == Shown'.cast[i]
         IN  after = before \/ after.version = before.version + 1]_vars

\* The rolling summary compresses what happened; the characters that the next
\* context shows are the same as before (api/routes/generation.py:305-315).
RollupKeepsCast ==
  [][task = "rollup" /\ task' = "idle" => Shown'.cast = Shown.cast]_vars

=============================================================================
