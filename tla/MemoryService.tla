--------------------------- MODULE MemoryService ---------------------------
(***************************************************************************)
(* What one update does to the structured memory of a branch:              *)
(* src/src/storyflow/services/memory.py.                                   *)
(*                                                                         *)
(* A name is matched without regard to case and surrounding blanks:        *)
(* Folded(n) is what remains of the spelling n.  Lists that are only       *)
(* extended by what they lack (facts and secrets, threads) are sets; the   *)
(* open clues are the keys of the foreshadowing dictionary.  The fields of *)
(* a character that a patch overwrites (role, location, motivation, alive) *)
(* are left out.  An optional field is a set of at most one value.         *)
(***************************************************************************)
EXTENDS Integers, SequencesExt

CONSTANTS
  Names,         \* spellings of characters' names
  Folded(_),     \* the folded form of a spelling
  Texts          \* facts, relations, threads and ids of clues

SameName(n, m) == Folded(n) = Folded(m)

Given(option, default) == IF option = {} THEN default ELSE CHOOSE x \in option : TRUE

\* A snapshot without a scene; the scene is added by those who save it.
EmptyMemory(cast, version) ==
  [cast |-> cast, threads |-> {}, clues |-> {}, summary |-> [words |-> <<>>, blanks |-> 0],
   version |-> version]

-----------------------------------------------------------------------------
Finite(S) == {T \in SUBSET S : IsFiniteSet(T)}
Optional(S) == {T \in SUBSET S : \A x, y \in T : x = y}

Relations == UNION {[names -> Texts] : names \in Finite(Names)}

\* A version may be any number: an answer of the model brings its own.
Character == [name : Names, facts : Finite(Texts), relations : Relations, version : Int]

Summary == [words : Seq(Nat), blanks : Nat]

Memory == [cast : Seq(Character), threads : SUBSET Texts, clues : Finite(Texts),
           summary : Summary, version : Nat]

\* An answer to the memory prompt; fields that it does not have are empty.
Update == [cast : Optional(Seq(Character)), threads : Optional(SUBSET Texts),
           clues : Optional(Seq([id : Texts, open : BOOLEAN])), summary : Optional(Summary)]

\* Effects of a choice, an absent one being empty.
Effects == [threads : SUBSET Texts, clues : Finite(Texts),
            states : Seq([name : Names, facts : Finite(Texts), relations : Relations,
                          hasRole : BOOLEAN]),
            relations : Seq([name : Names, relations : Relations])]

-----------------------------------------------------------------------------
\* The model's answer to a scene: whole lists replace the old ones, but clues
\* are planted and resolved one after the other.
TrackClue(open, clue) == IF clue.open THEN open \cup {clue.id} ELSE open \ {clue.id}

ApplyUpdate(memory, update) ==
  [memory EXCEPT
     !.cast    = Given(update.cast, @),
     !.threads = Given(update.threads, @),
     !.clues   = FoldLeft(TrackClue, @, Given(update.clues, <<>>)),
     !.summary = Given(update.summary, @),
     !.version = @ + 1]

IsEmptyUpdate(update) ==
  update.cast = {} /\ update.threads = {} /\ update.clues = {} /\ update.summary = {}

-----------------------------------------------------------------------------
\* Mutant: names are compared as they are spelt.
CharacterIndexAsSpelt(cast, name) == SelectInSeq(cast, LAMBDA c : c.name = name)

\* The first character of that name, 0 if there is none.
CharacterIndex(cast, name) == SelectInSeq(cast, LAMBDA c : SameName(c.name, name))

\* dict.update: a key of the same spelling is overwritten.
Updated(old, new) ==
  [key \in DOMAIN old \cup DOMAIN new |-> IF key \in DOMAIN new THEN new[key] ELSE old[key]]

\* Mutant: the given facts replace the known ones.
MergedReplacing(character, facts, relations) ==
  [character EXCEPT !.facts = IF facts = {} THEN @ ELSE facts,
                    !.relations = Updated(@, relations)]

\* Facts are added to the known ones.
Merged(character, facts, relations) ==
  [character EXCEPT !.facts = @ \cup facts, !.relations = Updated(@, relations)]

\* Merging goes on until a change cannot be made, which rejects all effects.
Merging(cast) == [cast |-> cast, changed |-> {}, valid |-> TRUE]

\* One entry of character_state.  A name not known yet needs a role.
MergeCharacterState(m, patch) ==
  LET i == CharacterIndex(m.cast, patch.name)
      created == [name |-> patch.name, facts |-> patch.facts, relations |-> patch.relations,
                  version |-> 1]
  IN  CASE ~m.valid -> m
        [] m.valid /\ i = 0 -> IF patch.hasRole THEN [m EXCEPT !.cast = Append(@, created)]
                                                ELSE [m EXCEPT !.valid = FALSE]
        [] m.valid /\ i # 0 ->
             [m EXCEPT !.cast[i] = Merged(@, patch.facts, patch.relations),
                       !.changed = @ \cup {i}]

\* Mutant: the change is not noted.
MergeRelationshipsUnnoted(m, change) ==
  LET i == CharacterIndex(m.cast, change.name)
  IN  CASE ~m.valid -> m
        [] m.valid /\ i = 0 -> [m EXCEPT !.valid = FALSE]
        [] m.valid /\ i # 0 -> [m EXCEPT !.cast[i] = Merged(@, {}, change.relations)]

\* One entry of relationship_change.
MergeRelationships(m, change) ==
  LET i == CharacterIndex(m.cast, change.name)
  IN  CASE ~m.valid -> m
        [] m.valid /\ i = 0 -> [m EXCEPT !.valid = FALSE]
        [] m.valid /\ i # 0 ->
             [m EXCEPT !.cast[i] = Merged(@, {}, change.relations), !.changed = @ \cup {i}]

MergeCast(memory, effects) ==
  FoldLeft(MergeRelationships, FoldLeft(MergeCharacterState, Merging(memory.cast), effects.states),
           effects.relations)

EffectsValid(memory, effects) == MergeCast(memory, effects).valid

\* A character that the effects changed, once or more, gets one new version.
Bumped(m) ==
  [i \in DOMAIN m.cast |->
     IF i \in m.changed THEN [m.cast[i] EXCEPT !.version = @ + 1] ELSE m.cast[i]]

ApplyChoiceEffects(memory, effects) ==
  [memory EXCEPT
     !.threads = @ \cup effects.threads,
     !.clues   = @ \cup effects.clues,
     !.cast    = Bumped(MergeCast(memory, effects)),
     !.version = @ + 1]

-----------------------------------------------------------------------------
\* update_rolling_summary; the answer holds visible text.
ApplyRollup(memory, summary) == [memory EXCEPT !.summary = summary, !.version = @ + 1]
=============================================================================
