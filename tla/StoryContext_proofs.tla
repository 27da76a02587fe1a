------------------------ MODULE StoryContext_proofs ------------------------
(***************************************************************************)
(* The memory of a branch and the contexts built from it, for any Bible,   *)
(* any answers of the model, any effects, summaries, lengths and budget:   *)
(* types, what a choice does to the cast, and what the context builder may *)
(* drop.                                                                   *)
(*                                                                         *)
(* The lists of the model are merged by folds; FoldFacts has the           *)
(* induction. The three loops of the builder stop at the first round at    *)
(* which the layers fit (FirstStop), which gives the minimality that is    *)
(* claimed.                                                                *)
(***************************************************************************)
EXTENDS StoryContext, FiniteSetTheorems, SequenceTheorems, WellFoundedInduction, TLAPS

Clues == INSTANCE FoldFacts WITH Op <- TrackClue
States == INSTANCE FoldFacts WITH Op <- MergeCharacterState
Changes == INSTANCE FoldFacts WITH Op <- MergeRelationships

-----------------------------------------------------------------------------
(* Optional values *)

\* Given returns the value if there is one.
LEMMA GivenType ==
  ASSUME NEW S, NEW option \in Optional(S), NEW default \in S
  PROVE  Given(option, default) \in S
BY DEF Given, Optional

\* A present value is what Given returns.
LEMMA GivenOne ==
  ASSUME NEW x, NEW default
  PROVE  Given({x}, default) = x
BY DEF Given

-----------------------------------------------------------------------------
(* Merging *)

\* The index of a name, if it is not 0, is that of a character of that name;
\* if it is 0 there is none.
LEMMA IndexOfName ==
  ASSUME NEW cast \in Seq(Character), NEW name
  PROVE  LET i == CharacterIndex(cast, name)
         IN  /\ i \in 0 .. Len(cast)
             /\ i # 0 => i \in DOMAIN cast
             /\ i = 0 => \A j \in DOMAIN cast : ~SameName(cast[j].name, name)
<1> DEFINE found == {j \in 1 .. Len(cast) : SameName(cast[j].name, name)}
<1>1. CharacterIndex(cast, name) = IF found # {} THEN Min(found) ELSE 0
  BY Zenon DEF CharacterIndex, SelectInSeq
<1>2. CASE found = {}
  BY <1>1, <1>2
<1>3. CASE found # {}
  <2>1. found \in SUBSET Nat
    OBVIOUS
  <2>2. PICK n \in found : \A m \in found : n <= m
    BY <1>3, <2>1, Clues!SmallestOf
  <2>3. Min(found) \in found
    BY <2>2 DEF Min
  <2> QED
    BY <1>1, <1>3, <2>3
<1> QED
  BY <1>2, <1>3

\* Finite sets of texts, or of names, are closed under union.
LEMMA FiniteUnion ==
  ASSUME NEW S, NEW T \in Finite(S), NEW U \in Finite(S)
  PROVE  T \cup U \in Finite(S)
BY FS_Union DEF Finite

\* dict.update of relations gives relations, of at least the old names.
LEMMA UpdatedType ==
  ASSUME NEW old \in Relations, NEW new \in Relations
  PROVE  /\ Updated(old, new) \in Relations
         /\ DOMAIN Updated(old, new) = DOMAIN old \cup DOMAIN new
<1>1. PICK A \in Finite(Names) : old \in [A -> Texts]
  BY DEF Relations
<1>2. PICK B \in Finite(Names) : new \in [B -> Texts]
  BY DEF Relations
<1>3. A \cup B \in Finite(Names)
  BY FiniteUnion
<1>4. Updated(old, new) \in [A \cup B -> Texts]
  BY <1>1, <1>2 DEF Updated
<1> QED
  BY <1>1, <1>2, <1>3, <1>4 DEF Relations

\* What a merge leaves of a character, and what it only extends.
LEMMA MergedKeeps ==
  ASSUME NEW c \in Character, NEW facts \in Finite(Texts), NEW relations \in Relations
  PROVE  LET d == Merged(c, facts, relations)
         IN  /\ d \in Character
             /\ d.name = c.name /\ d.version = c.version
             /\ c.facts \subseteq d.facts
             /\ DOMAIN c.relations \subseteq DOMAIN d.relations
<1>1. c.facts \cup facts \in Finite(Texts)
  BY FiniteUnion DEF Character
<1>2. /\ Updated(c.relations, relations) \in Relations
      /\ DOMAIN c.relations \subseteq DOMAIN Updated(c.relations, relations)
  BY UpdatedType DEF Character
<1> QED
  BY <1>1, <1>2 DEF Merged, Character

MergingStates == [cast : Seq(Character), changed : SUBSET Nat, valid : BOOLEAN]

\* m comes from the cast start by merging: characters keep their places, names
\* and versions, those not noted as changed are as before, and the new ones have
\* names of their own.
Grown(start, m) ==
  /\ m.changed \subseteq DOMAIN m.cast
  /\ Len(m.cast) >= Len(start)
  /\ \A i \in DOMAIN start :
       /\ m.cast[i].name = start[i].name
       /\ m.cast[i].version = start[i].version
       /\ start[i].facts \subseteq m.cast[i].facts
       /\ DOMAIN start[i].relations \subseteq DOMAIN m.cast[i].relations
       /\ i \notin m.changed => m.cast[i] = start[i]
  /\ \A i, j \in DOMAIN m.cast :
       i < j /\ j > Len(start) => ~SameName(m.cast[i].name, m.cast[j].name)

\* A merge that has changed nothing yet has only grown.
LEMMA GrownFromStart ==
  ASSUME NEW start \in Seq(Character)
  PROVE  Merging(start) \in MergingStates /\ Grown(start, Merging(start))
BY DEF Merging, MergingStates, Grown

\* A merge into a known character keeps what Grown says.
LEMMA MergeIntoKeepsGrown ==
  ASSUME NEW start \in Seq(Character), NEW m \in MergingStates, Grown(start, m),
         NEW i \in DOMAIN m.cast, NEW facts \in Finite(Texts), NEW relations \in Relations
  PROVE  LET n == [m EXCEPT !.cast[i] = Merged(@, facts, relations), !.changed = @ \cup {i}]
         IN  n \in MergingStates /\ Grown(start, n)
<1> DEFINE n == [m EXCEPT !.cast[i] = Merged(@, facts, relations), !.changed = @ \cup {i}]
           d == Merged(m.cast[i], facts, relations)
<1>1. m.cast \in Seq(Character) /\ m.cast[i] \in Character /\ m.changed \subseteq Nat /\ i \in Nat
  BY DEF MergingStates
<1>2. /\ d \in Character
      /\ d.name = m.cast[i].name /\ d.version = m.cast[i].version
      /\ m.cast[i].facts \subseteq d.facts
      /\ DOMAIN m.cast[i].relations \subseteq DOMAIN d.relations
  BY <1>1, MergedKeeps
<1> HIDE DEF d
<1>4. n.cast = [m.cast EXCEPT ![i] = d] /\ n.changed = m.changed \cup {i} /\ n.valid = m.valid
  BY DEF MergingStates, d
<1>5. n.cast \in Seq(Character) /\ DOMAIN n.cast = DOMAIN m.cast /\ Len(n.cast) = Len(m.cast)
  BY <1>1, <1>2, <1>4
<1>6. n \in MergingStates
  BY <1>1, <1>4, <1>5 DEF MergingStates
<1>7. \A j \in DOMAIN m.cast : n.cast[j] = IF j = i THEN d ELSE m.cast[j]
  BY <1>1, <1>4
<1> HIDE DEF n
<1>8. \A j \in DOMAIN m.cast : n.cast[j].name = m.cast[j].name
  BY <1>2, <1>7
<1>9. ASSUME NEW j \in DOMAIN start
      PROVE  /\ n.cast[j].name = start[j].name
             /\ n.cast[j].version = start[j].version
             /\ start[j].facts \subseteq n.cast[j].facts
             /\ DOMAIN start[j].relations \subseteq DOMAIN n.cast[j].relations
             /\ j \notin n.changed => n.cast[j] = start[j]
  <2>1. j \in DOMAIN m.cast
    BY <1>1 DEF Grown
  <2> QED
    BY <1>2, <1>4, <1>7, <2>1 DEF Grown
<1>10. Grown(start, n)
  BY <1>1, <1>4, <1>5, <1>8, <1>9 DEF Grown
<1> QED
  BY <1>6, <1>10 DEF n

\* A newcomer whose name nobody has keeps what Grown says.
LEMMA NewcomerKeepsGrown ==
  ASSUME NEW start \in Seq(Character), NEW m \in MergingStates, Grown(start, m),
         NEW c \in Character, \A j \in DOMAIN m.cast : ~SameName(m.cast[j].name, c.name)
  PROVE  LET n == [m EXCEPT !.cast = Append(@, c)]
         IN  n \in MergingStates /\ Grown(start, n)
<1> DEFINE n == [m EXCEPT !.cast = Append(@, c)]
<1>1. m.cast \in Seq(Character) /\ m.changed \subseteq Nat
  BY DEF MergingStates
<1>2. n.cast = Append(m.cast, c) /\ n.changed = m.changed /\ n.valid = m.valid
  BY DEF MergingStates
<1>3. /\ n.cast \in Seq(Character) /\ Len(n.cast) = Len(m.cast) + 1
      /\ DOMAIN n.cast = 1 .. Len(m.cast) + 1 /\ DOMAIN m.cast = 1 .. Len(m.cast)
      /\ Len(m.cast) \in Nat
  BY <1>1, <1>2
<1>4. n \in MergingStates
  BY <1>1, <1>2, <1>3 DEF MergingStates
<1>5. \A j \in DOMAIN m.cast : n.cast[j] = m.cast[j]
  BY <1>1, <1>2
<1>6. n.cast[Len(m.cast) + 1] = c
  BY <1>1, <1>2
<1> HIDE DEF n
<1>7. Len(start) \in Nat /\ DOMAIN start = 1 .. Len(start) /\ DOMAIN start \subseteq DOMAIN m.cast
  BY <1>3 DEF Grown
<1>8. ASSUME NEW i \in DOMAIN n.cast, NEW j \in DOMAIN n.cast, i < j, j > Len(start)
      PROVE  ~SameName(n.cast[i].name, n.cast[j].name)
  <2>1. i \in DOMAIN m.cast
    BY <1>3, <1>8
  <2>2. CASE j = Len(m.cast) + 1
    BY <1>5, <1>6, <2>1, <2>2
  <2>3. CASE j # Len(m.cast) + 1
    <3>1. j \in DOMAIN m.cast
      BY <1>3, <2>3
    <3> QED
      BY <1>5, <1>8, <2>1, <3>1 DEF Grown
  <2> QED
    BY <2>2, <2>3
<1>9. Grown(start, n)
  <2>1. n.changed \subseteq DOMAIN n.cast /\ Len(n.cast) >= Len(start)
    BY <1>2, <1>3, <1>7 DEF Grown
  <2>2. \A i \in DOMAIN start : n.cast[i] = m.cast[i]
    BY <1>5, <1>7
  <2> QED
    BY <1>2, <1>8, <2>1, <2>2 DEF Grown
<1> QED
  BY <1>4, <1>9 DEF n

\* A merge that is given up keeps the cast.
LEMMA GivingUpKeepsGrown ==
  ASSUME NEW start, NEW m \in MergingStates, Grown(start, m)
  PROVE  LET n == [m EXCEPT !.valid = FALSE] IN n \in MergingStates /\ Grown(start, n)
BY DEF MergingStates, Grown

\* The states that merging can reach from a cast.
GrownStates(start) == {m \in MergingStates : Grown(start, m)}

Patches == [name : Names, facts : Finite(Texts), relations : Relations, hasRole : BOOLEAN]

\* An entry of character_state keeps a merge grown.
LEMMA CharacterStateKeepsGrown ==
  ASSUME NEW start \in Seq(Character), NEW m \in GrownStates(start), NEW patch \in Patches
  PROVE  MergeCharacterState(m, patch) \in GrownStates(start)
<1> DEFINE i == CharacterIndex(m.cast, patch.name)
           created == [name |-> patch.name, facts |-> patch.facts,
                       relations |-> patch.relations, version |-> 1]
<1>1. m \in MergingStates /\ Grown(start, m) /\ m.cast \in Seq(Character) /\ m.valid \in BOOLEAN
  BY DEF GrownStates, MergingStates
<1>2. /\ i # 0 => i \in DOMAIN m.cast
      /\ i = 0 => \A j \in DOMAIN m.cast : ~SameName(m.cast[j].name, patch.name)
  BY <1>1, IndexOfName
<1>3. /\ patch.facts \in Finite(Texts) /\ patch.relations \in Relations
      /\ created \in Character /\ created.name = patch.name
  BY DEF Patches, Character
<1>4. MergeCharacterState(m, patch) =
        CASE ~m.valid -> m
          [] m.valid /\ i = 0 -> IF patch.hasRole THEN [m EXCEPT !.cast = Append(@, created)]
                                                  ELSE [m EXCEPT !.valid = FALSE]
          [] m.valid /\ i # 0 ->
               [m EXCEPT !.cast[i] = Merged(@, patch.facts, patch.relations),
                         !.changed = @ \cup {i}]
  BY Zenon DEF MergeCharacterState
<1> HIDE DEF i, created
<1>5. CASE ~m.valid
  BY <1>4, <1>5
<1>6. CASE m.valid /\ i = 0 /\ patch.hasRole
  <2>1. MergeCharacterState(m, patch) = [m EXCEPT !.cast = Append(@, created)]
    BY <1>4, <1>6
  <2> QED
    BY <1>1, <1>2, <1>3, <1>6, <2>1, NewcomerKeepsGrown DEF GrownStates
<1>7. CASE m.valid /\ i = 0 /\ ~patch.hasRole
  <2>1. MergeCharacterState(m, patch) = [m EXCEPT !.valid = FALSE]
    BY <1>4, <1>7
  <2> QED
    BY <1>1, <2>1, GivingUpKeepsGrown DEF GrownStates
<1>8. CASE m.valid /\ i # 0
  <2> DEFINE n == [m EXCEPT !.cast[i] = Merged(@, patch.facts, patch.relations),
                            !.changed = @ \cup {i}]
  <2>1. MergeCharacterState(m, patch) = n
    BY <1>4, <1>8
  <2>2. i \in DOMAIN m.cast
    BY <1>2, <1>8
  <2>3. n \in MergingStates /\ Grown(start, n)
    BY <1>1, <1>3, <2>2, MergeIntoKeepsGrown, Zenon
  <2> QED
    BY <2>1, <2>3, Zenon DEF GrownStates
<1> QED
  BY <1>5, <1>6, <1>7, <1>8

RelationChanges == [name : Names, relations : Relations]

\* So does an entry of relationship_change.
LEMMA RelationshipsKeepGrown ==
  ASSUME NEW start \in Seq(Character), NEW m \in GrownStates(start), NEW change \in RelationChanges
  PROVE  MergeRelationships(m, change) \in GrownStates(start)
<1> DEFINE i == CharacterIndex(m.cast, change.name)
<1>1. m \in MergingStates /\ Grown(start, m) /\ m.cast \in Seq(Character) /\ m.valid \in BOOLEAN
  BY DEF GrownStates, MergingStates
<1>2. i # 0 => i \in DOMAIN m.cast
  BY <1>1, IndexOfName
<1>3. {} \in Finite(Texts) /\ change.relations \in Relations
  BY FS_EmptySet DEF RelationChanges, Finite
<1>4. MergeRelationships(m, change) =
        CASE ~m.valid -> m
          [] m.valid /\ i = 0 -> [m EXCEPT !.valid = FALSE]
          [] m.valid /\ i # 0 ->
               [m EXCEPT !.cast[i] = Merged(@, {}, change.relations), !.changed = @ \cup {i}]
  BY Zenon DEF MergeRelationships
<1> HIDE DEF i
<1>5. CASE ~m.valid
  BY <1>4, <1>5
<1>6. CASE m.valid /\ i = 0
  <2>1. MergeRelationships(m, change) = [m EXCEPT !.valid = FALSE]
    BY <1>4, <1>6
  <2> QED
    BY <1>1, <2>1, GivingUpKeepsGrown DEF GrownStates
<1>7. CASE m.valid /\ i # 0
  <2> DEFINE n == [m EXCEPT !.cast[i] = Merged(@, {}, change.relations), !.changed = @ \cup {i}]
  <2>1. MergeRelationships(m, change) = n
    BY <1>4, <1>7
  <2>2. i \in DOMAIN m.cast
    BY <1>2, <1>7
  <2>3. n \in MergingStates /\ Grown(start, n)
    BY <1>1, <1>3, <2>2, MergeIntoKeepsGrown, Zenon
  <2> QED
    BY <2>1, <2>3, Zenon DEF GrownStates
<1> QED
  BY <1>5, <1>6, <1>7

\* So do all entries one after the other, in both folds.
LEMMA MergeCastGrows ==
  ASSUME NEW m \in Memory, NEW effects \in Effects
  PROVE  MergeCast(m, effects) \in GrownStates(m.cast)
<1> DEFINE S == GrownStates(m.cast)
           afterStates == FoldLeft(MergeCharacterState, Merging(m.cast), effects.states)
<1>1. m.cast \in Seq(Character) /\ effects.states \in Seq(Patches)
      /\ effects.relations \in Seq(RelationChanges)
  BY DEF Memory, Effects, Patches, RelationChanges
<1>2. Merging(m.cast) \in S
  BY <1>1, GrownFromStart DEF GrownStates
<1>3. afterStates \in S
  <2>1. \A x \in S : \A k \in DOMAIN effects.states : MergeCharacterState(x, effects.states[k]) \in S
    <3> SUFFICES ASSUME NEW x \in S, NEW k \in DOMAIN effects.states
                 PROVE  MergeCharacterState(x, effects.states[k]) \in S
      OBVIOUS
    <3>1. effects.states[k] \in Patches
      BY <1>1
    <3> QED
      BY <1>1, <3>1, CharacterStateKeepsGrown
  <2>2. States!Keeps(S, effects.states)
    BY <2>1, Zenon DEF States!Keeps
  <2>3. States!Fold(Merging(m.cast), effects.states) \in S
    <3> HIDE DEF S
    <3> QED
      BY <1>1, <1>2, <2>2, States!FoldKeeps, Zenon
  <2>4. States!Fold(Merging(m.cast), effects.states) = afterStates
    BY Zenon DEF States!Fold, States!FoldLeft, States!MapThenFoldSet, States!Max,
                 FoldLeft, MapThenFoldSet, Max
  <2> QED
    BY <2>3, <2>4, Zenon
<1> HIDE DEF afterStates
<1>4. FoldLeft(MergeRelationships, afterStates, effects.relations) \in S
  <2>1. \A x \in S : \A k \in DOMAIN effects.relations : MergeRelationships(x, effects.relations[k]) \in S
    <3> SUFFICES ASSUME NEW x \in S, NEW k \in DOMAIN effects.relations
                 PROVE  MergeRelationships(x, effects.relations[k]) \in S
      OBVIOUS
    <3>1. effects.relations[k] \in RelationChanges
      BY <1>1
    <3> QED
      BY <1>1, <3>1, RelationshipsKeepGrown
  <2>2. Changes!Keeps(S, effects.relations)
    BY <2>1, Zenon DEF Changes!Keeps
  <2>3. Changes!Fold(afterStates, effects.relations) \in S
    <3> HIDE DEF S
    <3> QED
      BY <1>1, <1>3, <2>2, Changes!FoldKeeps, Zenon
  <2>4. Changes!Fold(afterStates, effects.relations)
          = FoldLeft(MergeRelationships, afterStates, effects.relations)
    BY Zenon DEF Changes!Fold, Changes!FoldLeft, Changes!MapThenFoldSet, Changes!Max,
                 FoldLeft, MapThenFoldSet, Max
  <2> QED
    BY <2>3, <2>4, Zenon
<1> QED
  BY <1>4 DEF MergeCast, afterStates

\* A new version is a new version of the same character.
LEMMA NewVersion ==
  ASSUME NEW c \in Character
  PROVE  LET d == [c EXCEPT !.version = @ + 1]
         IN  /\ d \in Character
             /\ d.name = c.name /\ d.facts = c.facts /\ d.relations = c.relations
             /\ d.version = c.version + 1
BY DEF Character

\* What Bumped does to what merging made of a cast.
LEMMA BumpedGrown ==
  ASSUME NEW start \in Seq(Character), NEW m \in GrownStates(start)
  PROVE  LET cast == Bumped(m)
         IN  /\ cast \in Seq(Character) /\ Len(cast) >= Len(start)
             /\ \A i \in DOMAIN start :
                  /\ cast[i].name = start[i].name
                  /\ start[i].facts \subseteq cast[i].facts
                  /\ DOMAIN start[i].relations \subseteq DOMAIN cast[i].relations
                  /\ cast[i] = start[i] \/ cast[i].version = start[i].version + 1
             /\ Duplicates(cast) = Duplicates(start)
<1> DEFINE cast == Bumped(m)
<1>1. /\ m.cast \in Seq(Character) /\ Len(m.cast) \in Nat /\ DOMAIN m.cast = 1 .. Len(m.cast)
      /\ Len(start) \in Nat /\ DOMAIN start = 1 .. Len(start)
      /\ Grown(start, m)
  BY DEF GrownStates, MergingStates
<1>2. DOMAIN start \subseteq DOMAIN m.cast
  BY <1>1 DEF Grown
<1>3. \A i \in DOMAIN m.cast :
        cast[i] = IF i \in m.changed THEN [m.cast[i] EXCEPT !.version = @ + 1] ELSE m.cast[i]
  BY DEF Bumped
<1>4. DOMAIN cast = 1 .. Len(m.cast) /\ cast = [i \in 1 .. Len(m.cast) |-> cast[i]]
  BY <1>1 DEF Bumped
<1> HIDE DEF cast
<1>5. ASSUME NEW i \in DOMAIN m.cast
      PROVE  /\ cast[i] \in Character
             /\ cast[i].name = m.cast[i].name /\ cast[i].facts = m.cast[i].facts
             /\ cast[i].relations = m.cast[i].relations
             /\ cast[i].version = IF i \in m.changed THEN m.cast[i].version + 1
                                                     ELSE m.cast[i].version
  <2>1. m.cast[i] \in Character
    BY <1>1
  <2>2. CASE i \in m.changed
    <3>1. cast[i] = [m.cast[i] EXCEPT !.version = @ + 1]
      BY <1>3, <2>2
    <3> QED
      BY <2>1, <2>2, <3>1, NewVersion
  <2>3. CASE i \notin m.changed
    BY <1>3, <2>1, <2>3
  <2> QED
    BY <2>2, <2>3
<1>6. cast \in Seq(Character) /\ Len(cast) = Len(m.cast)
  <2>1. cast \in [1 .. Len(m.cast) -> Character]
    BY <1>1, <1>4, <1>5
  <2> QED
    BY <1>1, <2>1, SeqDef
<1>7. Len(cast) >= Len(start)
  BY <1>1, <1>6 DEF Grown
<1>8. ASSUME NEW i \in DOMAIN start
      PROVE  /\ cast[i].name = start[i].name
             /\ start[i].facts \subseteq cast[i].facts
             /\ DOMAIN start[i].relations \subseteq DOMAIN cast[i].relations
             /\ cast[i] = start[i] \/ cast[i].version = start[i].version + 1
  <2>1. i \in DOMAIN m.cast
    BY <1>2
  <2>2. /\ m.cast[i].name = start[i].name
        /\ m.cast[i].version = start[i].version
        /\ start[i].facts \subseteq m.cast[i].facts
        /\ DOMAIN start[i].relations \subseteq DOMAIN m.cast[i].relations
        /\ i \notin m.changed => m.cast[i] = start[i]
    BY <1>1 DEF Grown
  <2> QED
    BY <1>3, <1>5, <2>1, <2>2
<1>9. Duplicates(cast) = Duplicates(start)
  <2>1. \A i \in DOMAIN cast : cast[i].name = m.cast[i].name
    BY <1>1, <1>4, <1>5
  <2>2. \A i \in DOMAIN start : cast[i].name = start[i].name
    BY <1>8
  <2>3. ASSUME NEW i \in DOMAIN cast, NEW j \in DOMAIN cast, i < j,
               SameName(cast[i].name, cast[j].name)
        PROVE  i \in DOMAIN start /\ j \in DOMAIN start
    <3>1. ~(j > Len(start))
      BY <1>1, <1>4, <2>1, <2>3 DEF Grown
    <3> QED
      BY <1>1, <1>4, <2>3, <3>1
  <2>4. ASSUME NEW i, NEW j
        PROVE  <<i, j>> \in Duplicates(cast) <=> <<i, j>> \in Duplicates(start)
    BY <1>1, <1>2, <1>4, <2>2, <2>3 DEF Duplicates
  <2> QED
    BY <2>4 DEF Duplicates
<1> QED
  BY <1>6, <1>7, <1>8, <1>9 DEF cast

\* What a choice does to the memory.
LEMMA ChoiceEffectsOnMemory ==
  ASSUME NEW m \in Memory, NEW effects \in Effects
  PROVE  LET n == ApplyChoiceEffects(m, effects)
         IN  /\ n \in Memory
             /\ m.threads \subseteq n.threads /\ m.clues \subseteq n.clues
             /\ n.summary = m.summary
             /\ n.cast = Bumped(MergeCast(m, effects))
<1> DEFINE cast == Bumped(MergeCast(m, effects))
<1>1. m.cast \in Seq(Character) /\ m.clues \cup effects.clues \in Finite(Texts)
  BY FiniteUnion DEF Memory, Effects
<1>2. cast \in Seq(Character)
  BY <1>1, MergeCastGrows, BumpedGrown
<1> HIDE DEF cast
<1>3. ApplyChoiceEffects(m, effects) =
        [m EXCEPT !.threads = @ \cup effects.threads, !.clues = @ \cup effects.clues,
                  !.cast = cast, !.version = @ + 1]
  BY DEF ApplyChoiceEffects, cast
<1> DEFINE n == ApplyChoiceEffects(m, effects)
<1>4. /\ n.cast = cast /\ n.threads = m.threads \cup effects.threads
      /\ n.clues = m.clues \cup effects.clues /\ n.summary = m.summary
      /\ n.version = m.version + 1
  BY <1>3 DEF Memory
<1>5. /\ n.cast \in Seq(Character) /\ n.threads \in SUBSET Texts /\ n.clues \in Finite(Texts)
      /\ n.summary \in Summary /\ n.version \in Nat
  BY <1>1, <1>2, <1>4 DEF Memory, Effects
<1>6. n \in Memory
  <2>1. n = [cast |-> n.cast, threads |-> n.threads, clues |-> n.clues, summary |-> n.summary,
             version |-> n.version]
    BY <1>3 DEF Memory
  <2> HIDE DEF n
  <2> QED
    BY <1>5, <2>1 DEF Memory
<1> QED
  BY <1>4, <1>6 DEF cast

-----------------------------------------------------------------------------
(* Type correctness *)

\* The memory that a story starts with is a memory.
LEMMA EmptyMemoryType ==
  ASSUME NEW cast \in Seq(Character), NEW version \in Nat
  PROVE  EmptyMemory(cast, version) \in Memory
<1>1. {} \in Finite(Texts)
  BY FS_EmptySet DEF Finite
<1> QED
  BY <1>1 DEF EmptyMemory, Memory, Summary

ClueChanges == [id : Texts, open : BOOLEAN]

\* Planting and resolving clues one after the other leaves finitely many.
LEMMA CluesType ==
  ASSUME NEW clues \in Finite(Texts), NEW changes \in Seq(ClueChanges)
  PROVE  FoldLeft(TrackClue, clues, changes) \in Finite(Texts)
<1>1. \A x \in Finite(Texts) : \A k \in DOMAIN changes : TrackClue(x, changes[k]) \in Finite(Texts)
  <2> SUFFICES ASSUME NEW x \in Finite(Texts), NEW k \in DOMAIN changes
               PROVE  TrackClue(x, changes[k]) \in Finite(Texts)
    OBVIOUS
  <2>1. changes[k] \in ClueChanges
    OBVIOUS
  <2>2. IsFiniteSet(x \cup {changes[k].id}) /\ IsFiniteSet(x \ {changes[k].id})
    BY FS_AddElement, FS_RemoveElement DEF Finite
  <2> QED
    BY <2>1, <2>2 DEF TrackClue, Finite, ClueChanges
<1>2. Clues!Keeps(Finite(Texts), changes)
  BY <1>1, Zenon DEF Clues!Keeps
<1>3. Clues!Fold(clues, changes) \in Finite(Texts)
  BY <1>2, Clues!FoldKeeps, Zenon
<1>4. Clues!Fold(clues, changes) = FoldLeft(TrackClue, clues, changes)
  BY Zenon DEF Clues!Fold, Clues!FoldLeft, Clues!MapThenFoldSet, Clues!Max,
               FoldLeft, MapThenFoldSet, Max
<1> QED
  BY <1>3, <1>4, Zenon

\* An update of a memory is a memory.
LEMMA ApplyUpdateType ==
  ASSUME NEW m \in Memory, NEW update \in Update
  PROVE  ApplyUpdate(m, update) \in Memory
<1>1. Given(update.cast, m.cast) \in Seq(Character)
  BY GivenType DEF Memory, Update
<1>2. Given(update.threads, m.threads) \in SUBSET Texts
  BY GivenType DEF Memory, Update
<1>3. FoldLeft(TrackClue, m.clues, Given(update.clues, <<>>)) \in Finite(Texts)
  <2>1. <<>> \in Seq(ClueChanges)
    OBVIOUS
  <2>2. Given(update.clues, <<>>) \in Seq(ClueChanges)
    BY <2>1, GivenType DEF Update, ClueChanges
  <2> QED
    BY <2>2, CluesType DEF Memory
<1>4. Given(update.summary, m.summary) \in Summary
  BY GivenType DEF Memory, Update
<1> DEFINE clues == FoldLeft(TrackClue, m.clues, Given(update.clues, <<>>))
<1>5. ApplyUpdate(m, update) =
        [m EXCEPT !.cast = Given(update.cast, m.cast), !.threads = Given(update.threads, m.threads),
                  !.clues = clues, !.summary = Given(update.summary, m.summary), !.version = @ + 1]
  BY Zenon DEF ApplyUpdate
<1> HIDE DEF clues
<1>6. clues \in Finite(Texts)
  BY <1>3, Zenon DEF clues
<1> DEFINE n == ApplyUpdate(m, update)
<1>7. /\ n.cast \in Seq(Character) /\ n.threads \in SUBSET Texts /\ n.clues \in Finite(Texts)
      /\ n.summary \in Summary /\ n.version \in Nat
  BY <1>1, <1>2, <1>4, <1>5, <1>6 DEF Memory
<1>8. n = [cast |-> n.cast, threads |-> n.threads, clues |-> n.clues, summary |-> n.summary,
           version |-> n.version]
  BY <1>5 DEF Memory
<1> HIDE DEF n
<1>9. n \in Memory
  BY <1>7, <1>8 DEF Memory
<1> QED
  BY <1>9 DEF n

\* So is one with a new rolling summary.
LEMMA ApplyRollupType ==
  ASSUME NEW m \in Memory, NEW summary \in Summary
  PROVE  ApplyRollup(m, summary) \in Memory
<1> DEFINE n == ApplyRollup(m, summary)
<1>0. n = [m EXCEPT !.summary = summary, !.version = @ + 1]
  BY Zenon DEF ApplyRollup
<1>1. /\ n.cast \in Seq(Character) /\ n.threads \in SUBSET Texts /\ n.clues \in Finite(Texts)
      /\ n.summary \in Summary /\ n.version \in Nat
  BY <1>0 DEF Memory
<1>2. n = [cast |-> n.cast, threads |-> n.threads, clues |-> n.clues, summary |-> n.summary,
           version |-> n.version]
  BY <1>0 DEF Memory
<1> HIDE DEF n
<1>3. n \in Memory
  BY <1>1, <1>2 DEF Memory
<1> QED
  BY <1>3 DEF n

\* The latest snapshot alone is an optional memory.
LEMMA SingleType ==
  ASSUME NEW S, NEW x \in S
  PROVE  {x} \in Optional(S)
BY DEF Optional

\* The scene of an open choice is not one of those whose choice was made.
ChoicesAtScenes == open => chosen < scenes

\* The initial state is well typed.
LEMMA InitTyped == Init => TypeOK /\ ChoicesAtScenes
<1>1. EmptyMemory(<<>>, 0) \in Memory
  <2>1. <<>> \in Seq(Character)
    OBVIOUS
  <2> QED
    BY <2>1, EmptyMemoryType
<1>2. {} \in Optional(Memory)
  BY DEF Optional
<1>3. Init => ChoicesAtScenes
  BY Zenon DEF Init, ChoicesAtScenes
<1>4. Init => TypeOK
  <2>1. Init => open \in BOOLEAN
    BY Zenon DEF Init
  <2> QED
    BY <1>1, <1>2, <2>1 DEF Init, TypeOK
<1> QED
  BY <1>3, <1>4

\* Every step keeps the types, and a choice at a scene of its own: the inductive
\* invariant.
LEMMA NextTyped == TypeOK /\ ChoicesAtScenes /\ [Next]_vars => TypeOK' /\ ChoicesAtScenes'
<1> SUFFICES ASSUME TypeOK, ChoicesAtScenes, [Next]_vars PROVE TypeOK' /\ ChoicesAtScenes'
  OBVIOUS
<1> USE DEF TypeOK, ChoicesAtScenes
<1>e. EmptyMemory(<<>>, 0) \in Memory /\ EmptyMemory(<<>>, 1) \in Memory
  <2>1. <<>> \in Seq(Character)
    OBVIOUS
  <2> QED
    BY <2>1, EmptyMemoryType
<1>r. EmptyMemory(Roster, 0) \in Memory /\ EmptyMemory(Roster, 1) \in Memory
  BY EmptyMemoryType, InputAssumption
<1>n. ASSUME NEW saved \in Optional(Memory), NextUpdate(saved)
      PROVE  task' \in {"idle", "update", "rollup"} /\ base' \in Memory
  BY <1>e, <1>n, GivenType DEF NextUpdate, RollupBase
<1>1. ASSUME NEW choice \in BOOLEAN, CommitScene(choice) PROVE TypeOK' /\ ChoicesAtScenes'
  <2>1. Given(memory, EmptyMemory(Roster, 1)) \in Memory
    BY <1>r, GivenType
  <2> QED
    BY <1>1, <2>1 DEF CommitScene
<1>2. ASSUME NEW update \in SceneUpdates, SceneUpdated(update) PROVE TypeOK' /\ ChoicesAtScenes'
  <2>1. memory' \in Optional(Memory)
    BY <1>2, InputAssumption, ApplyUpdateType, SingleType DEF SceneUpdated
  <2>2. task' \in {"idle", "update", "rollup"} /\ base' \in Memory
    BY <1>2, <1>n, <2>1 DEF SceneUpdated
  <2> QED
    BY <1>2, <2>1, <2>2 DEF SceneUpdated
<1>3. ASSUME SceneUpdateFails PROVE TypeOK' /\ ChoicesAtScenes'
  <2>1. task' \in {"idle", "update", "rollup"} /\ base' \in Memory
    BY <1>3, <1>n DEF SceneUpdateFails
  <2> QED
    BY <1>3, <2>1 DEF SceneUpdateFails
<1>4. ASSUME NEW summary \in Summaries, RolledUp(summary) PROVE TypeOK' /\ ChoicesAtScenes'
  <2>1. memory' \in Optional(Memory)
    BY <1>4, InputAssumption, ApplyRollupType, SingleType DEF RolledUp
  <2> QED
    BY <1>4, <1>e, <2>1 DEF RolledUp, EndTask
<1>5. ASSUME RollupFails PROVE TypeOK' /\ ChoicesAtScenes'
  BY <1>5, <1>e DEF RollupFails, EndTask
<1>6. ASSUME NEW effects \in ChoiceEffects, SelectChoice(effects) PROVE TypeOK' /\ ChoicesAtScenes'
  <2> DEFINE current == Given(memory, EmptyMemory(Roster, 0))
  <2>1. current \in Memory /\ effects \in Effects
    BY <1>r, GivenType, InputAssumption
  <2> HIDE DEF current
  <2>2. memory' = {ApplyChoiceEffects(current, effects)}
    BY <1>6 DEF SelectChoice, current
  <2>3. memory' \in Optional(Memory)
    BY <2>1, <2>2, ChoiceEffectsOnMemory, SingleType
  <2>4. open /\ open' = FALSE /\ chosen' = chosen + 1 /\ UNCHANGED <<scenes, task, base>>
    BY <1>6 DEF SelectChoice
  <2>5. open' \in BOOLEAN /\ ChoicesAtScenes'
    BY <2>4, Zenon
  <2>6. chosen' \in 0 .. scenes'
    BY <2>4
  <2> QED
    BY <2>3, <2>4, <2>5, <2>6
<1>7. ASSUME UNCHANGED vars PROVE TypeOK' /\ ChoicesAtScenes'
  BY <1>7 DEF vars
<1> QED
  BY <1>1, <1>2, <1>3, <1>4, <1>5, <1>6, <1>7 DEF Next

\* The memory has its type whatever the model answers within the formats that
\* are validated, and no scene gets two choices.
THEOREM MemoryTypeCorrect == Spec => []TypeOK
<1>1. Init => TypeOK /\ ChoicesAtScenes
  BY InitTyped
<1>2. TypeOK /\ ChoicesAtScenes /\ [Next]_vars => TypeOK' /\ ChoicesAtScenes'
  BY NextTyped
<1> QED
  BY <1>1, <1>2, PTL DEF Spec

-----------------------------------------------------------------------------
(* Choices *)

\* A choice applies its effects to the memory that the next context would show.
LEMMA ChoiceChangesShown ==
  ASSUME TypeOK, [Next]_vars, chosen' # chosen
  PROVE  \E m \in Memory, effects \in Effects :
           Shown = m /\ Shown' = ApplyChoiceEffects(m, effects)
<1>1. PICK effects \in ChoiceEffects : SelectChoice(effects)
  <2>1. ~UNCHANGED vars
    BY DEF vars
  <2>2. \A choice \in BOOLEAN : ~CommitScene(choice)
    BY DEF CommitScene
  <2>3. \A update \in SceneUpdates : ~SceneUpdated(update)
    BY DEF SceneUpdated
  <2>4. ~SceneUpdateFails
    BY DEF SceneUpdateFails
  <2>5. \A summary \in Summaries : ~RolledUp(summary)
    BY DEF RolledUp
  <2>6. ~RollupFails
    BY DEF RollupFails
  <2> QED
    BY <2>1, <2>2, <2>3, <2>4, <2>5, <2>6 DEF Next
<1> DEFINE m == Given(memory, EmptyMemory(Roster, 0))
<1>2. m \in Memory /\ effects \in Effects
  BY EmptyMemoryType, GivenType, InputAssumption DEF TypeOK
<1>3. memory' = {ApplyChoiceEffects(m, effects)}
  BY <1>1, Zenon DEF SelectChoice
<1>4. Shown = m
  BY Zenon DEF Shown
<1> HIDE DEF m
<1>5. Shown' = ApplyChoiceEffects(m, effects)
  <2>1. Shown' = Given(memory', EmptyMemory(Roster, 0))
    BY Zenon DEF Shown
  <2> QED
    BY <1>3, <2>1, GivenOne, Zenon
<1> QED
  BY <1>2, <1>4, <1>5

\* What the effects of a choice do to the memory shown.
LEMMA ChoiceGrowsShown ==
  ASSUME TypeOK, [Next]_vars, chosen' # chosen
  PROVE  /\ Len(Shown'.cast) >= Len(Shown.cast)
         /\ \A i \in DOMAIN Shown.cast :
              /\ Shown'.cast[i].name = Shown.cast[i].name
              /\ Shown.cast[i].facts \subseteq Shown'.cast[i].facts
              /\ DOMAIN Shown.cast[i].relations \subseteq DOMAIN Shown'.cast[i].relations
              /\ \/ Shown'.cast[i] = Shown.cast[i]
                 \/ Shown'.cast[i].version = Shown.cast[i].version + 1
         /\ Duplicates(Shown'.cast) = Duplicates(Shown.cast)
         /\ Shown.threads \subseteq Shown'.threads
         /\ Shown.clues \subseteq Shown'.clues
         /\ Shown'.summary = Shown.summary
<1>1. PICK m \in Memory, effects \in Effects :
        Shown = m /\ Shown' = ApplyChoiceEffects(m, effects)
  BY ChoiceChangesShown
<1> DEFINE n == ApplyChoiceEffects(m, effects)
           merged == MergeCast(m, effects)
<1>2. /\ m.threads \subseteq n.threads /\ m.clues \subseteq n.clues
      /\ n.summary = m.summary /\ n.cast = Bumped(merged)
  BY ChoiceEffectsOnMemory
<1>3. m.cast \in Seq(Character) /\ merged \in GrownStates(m.cast)
  BY MergeCastGrows DEF Memory
<1> HIDE DEF n, merged
<1>4. /\ Len(n.cast) >= Len(m.cast)
      /\ \A i \in DOMAIN m.cast :
           /\ n.cast[i].name = m.cast[i].name
           /\ m.cast[i].facts \subseteq n.cast[i].facts
           /\ DOMAIN m.cast[i].relations \subseteq DOMAIN n.cast[i].relations
           /\ n.cast[i] = m.cast[i] \/ n.cast[i].version = m.cast[i].version + 1
      /\ Duplicates(n.cast) = Duplicates(m.cast)
  BY <1>2, <1>3, BumpedGrown
<1>5. Shown = m /\ Shown' = n
  BY <1>1, Zenon DEF n
<1> QED
  BY <1>2, <1>4, <1>5, Zenon

\* A choice never adds a second character of a name, however the names in its
\* effects are spelt (memory.py:419, 486, 498-507).
THEOREM ChoicesNeverAddADouble == Spec => ChoiceAddsNoDouble
<1>1. TypeOK /\ [Next]_vars
        => [chosen' # chosen => Duplicates(Shown'.cast) = Duplicates(Shown.cast)]_vars
  BY ChoiceGrowsShown, Zenon
<1> QED
  BY <1>1, MemoryTypeCorrect, PTL DEF Spec, ChoiceAddsNoDouble

\* A choice only adds to the memory (memory.py:160-188, repositories.py:787-834).
THEOREM ChoicesOnlyAdd == Spec => ChoiceOnlyAdds
<1>1. TypeOK /\ [Next]_vars
        => [chosen' # chosen =>
              /\ Len(Shown'.cast) >= Len(Shown.cast)
              /\ \A i \in DOMAIN Shown.cast :
                   /\ Shown'.cast[i].name = Shown.cast[i].name
                   /\ Shown.cast[i].facts \subseteq Shown'.cast[i].facts
                   /\ DOMAIN Shown.cast[i].relations \subseteq DOMAIN Shown'.cast[i].relations
              /\ Shown.threads \subseteq Shown'.threads
              /\ Shown.clues \subseteq Shown'.clues
              /\ Shown'.summary = Shown.summary]_vars
  BY ChoiceGrowsShown, Zenon
<1> QED
  BY <1>1, MemoryTypeCorrect, PTL DEF Spec, ChoiceOnlyAdds

\* A character that a choice changes gets one new version, however many of its
\* effects speak of it (memory.py:182-186).
THEOREM VersionsAlwaysCountChoices == Spec => VersionsCountChoices
<1>1. TypeOK /\ [Next]_vars
        => [chosen' # chosen =>
              \A i \in DOMAIN Shown.cast :
                LET before == Shown.cast[i]
                    after  == Shown'.cast[i]
                IN  after = before \/ after.version = before.version + 1]_vars
  BY ChoiceGrowsShown, Zenon
<1> QED
  BY <1>1, MemoryTypeCorrect, PTL DEF Spec, VersionsCountChoices

-----------------------------------------------------------------------------
(* Lengths *)

AddSize(sum, item) == sum + item.size
AddLength(sum, n) == sum + n
KeepRelated(kept, c) == IF c.related THEN Append(kept, c) ELSE kept

SizeSums == INSTANCE FoldFacts WITH Op <- AddSize
LengthSums == INSTANCE FoldFacts WITH Op <- AddLength
RelatedOnes == INSTANCE FoldFacts WITH Op <- KeepRelated

\* The sums and the filter of the builder are folds, so that FoldFacts applies.
LEMMA SizesIsFold == \A items : Sizes(items) = SizeSums!Fold(0, items)
BY Zenon DEF Sizes, SizeSums!Fold, SizeSums!FoldLeft, SizeSums!MapThenFoldSet, SizeSums!Max,
             AddSize, FoldLeft, MapThenFoldSet, Max

\* ... the lengths of the words
LEMMA TotalIsFold == \A lengths : Total(lengths) = LengthSums!Fold(0, lengths)
BY Zenon DEF Total, LengthSums!Fold, LengthSums!FoldLeft, LengthSums!MapThenFoldSet,
             LengthSums!Max, AddLength, FoldLeft, MapThenFoldSet, Max

\* ... and the related characters.
LEMMA RelatedOnlyIsFold == \A cast : RelatedOnly(cast) = RelatedOnes!Fold(<<>>, cast)
BY Zenon DEF RelatedOnly, RelatedOnes!Fold, RelatedOnes!FoldLeft, RelatedOnes!MapThenFoldSet,
             RelatedOnes!Max, KeepRelated, FoldLeft, MapThenFoldSet, Max

\* Nothing has no size.
LEMMA SizesOfNone == Sizes(<<>>) = 0
BY SizesIsFold, SizeSums!FoldEmpty, Zenon

\* One more item adds its size.
LEMMA SizesOfOneMore ==
  ASSUME NEW T, NEW items \in Seq(T), NEW item \in T
  PROVE  Sizes(Append(items, item)) = Sizes(items) + item.size
<1>1. SizeSums!Fold(0, Append(items, item)) = AddSize(SizeSums!Fold(0, items), item)
  <2>1. SizeSums!LastIsFolded(0, items, item)
    BY SizeSums!FoldAppend, Zenon
  <2> QED
    BY <2>1, Zenon DEF SizeSums!LastIsFolded
<1> QED
  BY <1>1, SizesIsFold, Zenon DEF AddSize

\* Sizes are numbers.
LEMMA SizesType ==
  ASSUME NEW T, \A item \in T : item.size \in Nat, NEW items \in Seq(T)
  PROVE  Sizes(items) \in Nat
<1>1. \A x \in Nat : \A k \in DOMAIN items : AddSize(x, items[k]) \in Nat
  <2> SUFFICES ASSUME NEW x \in Nat, NEW k \in DOMAIN items PROVE AddSize(x, items[k]) \in Nat
    OBVIOUS
  <2>1. items[k] \in T
    OBVIOUS
  <2> QED
    BY <2>1 DEF AddSize
<1>2. SizeSums!Keeps(Nat, items)
  BY <1>1, Zenon DEF SizeSums!Keeps
<1>3. 0 \in Nat
  OBVIOUS
<1>4. SizeSums!Fold(0, items) \in Nat
  BY <1>2, <1>3, SizeSums!FoldKeeps, Zenon
<1> QED
  BY <1>4, SizesIsFold, Zenon

\* The total of lengths is a number.
LEMMA TotalType ==
  ASSUME NEW lengths \in Seq(Nat)
  PROVE  Total(lengths) \in Nat
<1>1. \A x \in Nat : \A k \in DOMAIN lengths : AddLength(x, lengths[k]) \in Nat
  <2> SUFFICES ASSUME NEW x \in Nat, NEW k \in DOMAIN lengths PROVE AddLength(x, lengths[k]) \in Nat
    OBVIOUS
  <2>1. lengths[k] \in Nat
    OBVIOUS
  <2> QED
    BY <2>1 DEF AddLength
<1>2. LengthSums!Keeps(Nat, lengths)
  BY <1>1, Zenon DEF LengthSums!Keeps
<1>3. 0 \in Nat
  OBVIOUS
<1>4. LengthSums!Fold(0, lengths) \in Nat
  BY <1>2, <1>3, LengthSums!FoldKeeps, Zenon
<1> QED
  BY <1>4, TotalIsFold, Zenon

\* Without words there is none.
LEMMA TotalOfNone == Total(<<>>) = 0
BY TotalIsFold, LengthSums!FoldEmpty, Zenon

\* Nobody is related to nothing.
LEMMA RelatedOfNone == RelatedOnly(<<>>) = <<>>
BY RelatedOnlyIsFold, RelatedOnes!FoldEmpty, Zenon

\* One more character is kept if it is related.
LEMMA RelatedOfOneMore ==
  ASSUME NEW T, NEW cast \in Seq(T), NEW c \in T
  PROVE  RelatedOnly(Append(cast, c)) =
           IF c.related THEN Append(RelatedOnly(cast), c) ELSE RelatedOnly(cast)
<1>1. RelatedOnes!Fold(<<>>, Append(cast, c)) = KeepRelated(RelatedOnes!Fold(<<>>, cast), c)
  <2>1. RelatedOnes!LastIsFolded(<<>>, cast, c)
    BY RelatedOnes!FoldAppend, Zenon
  <2> QED
    BY <2>1, Zenon DEF RelatedOnes!LastIsFolded
<1> QED
  BY <1>1, RelatedOnlyIsFold, Zenon DEF KeepRelated

-----------------------------------------------------------------------------
(* The cast without its first unrelated characters *)

Rank(K, k) == Cardinality({j \in K : j <= k})

\* The members of a cast at the positions K, in order.
Picked(cast, K) ==
  [i \in 1 .. Cardinality(K) |-> cast[CHOOSE k \in K : Rank(K, k) = i]]

UnrelatedUpTo(cast, k) == {j \in 1 .. k : ~cast[j].related}

DroppedFrom(cast, n) ==
  {i \in DOMAIN cast : ~cast[i].related /\ Cardinality(UnrelatedUpTo(cast, i)) <= n}

RelatedIn(cast) == {i \in DOMAIN cast : cast[i].related}

\* What is left of the cast are the members at the positions that are not dropped.
LEMMA WithoutUnrelatedIsPicked ==
  ASSUME NEW cast, NEW n
  PROVE  WithoutUnrelated(cast, n) = Picked(cast, DOMAIN cast \ DroppedFrom(cast, n))
<1> DEFINE kept == {i \in DOMAIN cast : ~(/\ ~cast[i].related
                                          /\ Cardinality({j \in 1 .. i : ~cast[j].related}) <= n)}
<1>1. WithoutUnrelated(cast, n) =
        [i \in 1 .. Cardinality(kept) |->
           cast[CHOOSE k \in kept : Cardinality({j \in kept : j <= k}) = i]]
  BY Zenon DEF WithoutUnrelated
<1>2. kept = DOMAIN cast \ DroppedFrom(cast, n)
  BY Zenon DEF DroppedFrom, UnrelatedUpTo
<1> HIDE DEF kept
<1> QED
  BY <1>1, <1>2, Zenon DEF Picked, Rank

\* Positions can be counted.
LEMMA PositionsFinite ==
  ASSUME NEW n \in Nat, NEW K \in SUBSET (1 .. n)
  PROVE  /\ IsFiniteSet(K) /\ Cardinality(K) \in Nat /\ Cardinality(K) <= n
         /\ \A k : /\ IsFiniteSet({j \in K : j <= k}) /\ Rank(K, k) \in Nat
                   /\ Rank(K, k) <= Cardinality(K)
<1>1. IsFiniteSet(1 .. n) /\ Cardinality(1 .. n) = n
  BY FS_Interval
<1>2. IsFiniteSet(K) /\ Cardinality(K) \in Nat /\ Cardinality(K) <= n
  BY <1>1, FS_Subset, FS_CardinalityType
<1>3. ASSUME NEW k
      PROVE  /\ IsFiniteSet({j \in K : j <= k}) /\ Rank(K, k) \in Nat
             /\ Rank(K, k) <= Cardinality(K)
  <2>1. {j \in K : j <= k} \in SUBSET K
    OBVIOUS
  <2> QED
    BY <1>2, <2>1, FS_Subset, FS_CardinalityType DEF Rank
<1> QED
  BY <1>2, <1>3

\* One more position, behind the others, appends its character.
LEMMA PickedOneMore ==
  ASSUME NEW T, NEW cast \in Seq(T), NEW n \in Nat, n + 1 \in DOMAIN cast,
         NEW K \in SUBSET (1 .. n), Picked(cast, K) \in Seq(T)
  PROVE  Picked(cast, K \cup {n + 1}) = Append(Picked(cast, K), cast[n + 1])
<1> DEFINE L == K \cup {n + 1}
           size == Cardinality(K)
<1>1. IsFiniteSet(K) /\ size \in Nat /\ n + 1 \notin K
  BY PositionsFinite
<1>2. Cardinality(L) = size + 1
  BY <1>1, FS_AddElement
<1>3. \A k \in K : Rank(L, k) = Rank(K, k)
  <2> SUFFICES ASSUME NEW k \in K PROVE Rank(L, k) = Rank(K, k)
    OBVIOUS
  <2>1. {j \in L : j <= k} = {j \in K : j <= k}
    OBVIOUS
  <2> QED
    BY <2>1 DEF Rank
<1>4. Rank(L, n + 1) = size + 1
  <2>0. \A j \in L : j <= n + 1
    OBVIOUS
  <2>1. {j \in L : j <= n + 1} = L
    BY <2>0, Zenon
  <2> QED
    BY <1>2, <2>1 DEF Rank
<1>5. \A k \in K : Rank(K, k) \in Nat /\ Rank(K, k) <= size
  BY PositionsFinite
<1> HIDE DEF size
<1>6. ASSUME NEW i \in 1 .. size
      PROVE  (CHOOSE k \in L : Rank(L, k) = i) = (CHOOSE k \in K : Rank(K, k) = i)
  <2>1. ASSUME NEW k PROVE k \in L /\ Rank(L, k) = i <=> k \in K /\ Rank(K, k) = i
    <3>1. k \in L <=> k \in K \/ k = n + 1
      BY Zenon
    <3>2. i # size + 1
      BY <1>1
    <3> QED
      BY <1>1, <1>3, <1>4, <3>1, <3>2, Zenon
  <2> HIDE DEF L
  <2> QED
    BY <2>1
<1>7. (CHOOSE k \in L : Rank(L, k) = size + 1) = n + 1
  <2>1. ASSUME NEW k \in L, Rank(L, k) = size + 1 PROVE k = n + 1
    BY <1>1, <1>3, <1>5, <2>1
  <2>2. n + 1 \in L
    OBVIOUS
  <2> HIDE DEF L
  <2> QED
    BY <1>4, <2>1, <2>2
<1> HIDE DEF L
<1> DEFINE s == Picked(cast, K)
           t == Picked(cast, L)
<1>8. t = [i \in 1 .. size + 1 |-> cast[CHOOSE k \in L : Rank(L, k) = i]]
  BY <1>2, Zenon DEF Picked
<1>9. s = [i \in 1 .. size |-> cast[CHOOSE k \in K : Rank(K, k) = i]]
  BY Zenon DEF Picked, size
<1>10. s \in Seq(T) /\ Len(s) = size
  <2>1. s \in Seq(T)
    OBVIOUS
  <2>2. DOMAIN s = 1 .. size
    BY <1>9
  <2> HIDE DEF s
  <2> QED
    BY <1>1, <2>1, <2>2
<1> DEFINE a == Append(s, cast[n + 1])
<1>11. /\ a = [i \in 1 .. size + 1 |-> a[i]]
       /\ \A i \in 1 .. size : a[i] = s[i]
       /\ a[size + 1] = cast[n + 1]
  <2>1. cast[n + 1] \in T
    OBVIOUS
  <2> HIDE DEF s
  <2>2. a \in Seq(T) /\ Len(a) = size + 1 /\ DOMAIN a = 1 .. size + 1
    BY <1>10, <2>1
  <2> QED
    BY <1>1, <1>10, <2>1, <2>2
<1>12. ASSUME NEW i \in 1 .. size + 1 PROVE t[i] = a[i]
  <2>1. CASE i = size + 1
    BY <1>7, <1>8, <1>11, <2>1
  <2>2. CASE i # size + 1
    <3>1. i \in 1 .. size
      BY <1>1, <2>2
    <3>2. t[i] = cast[CHOOSE k \in L : Rank(L, k) = i]
      BY <1>8
    <3>3. s[i] = cast[CHOOSE k \in K : Rank(K, k) = i]
      BY <1>9, <3>1
    <3> HIDE DEF a, s, t
    <3> QED
      BY <1>6, <1>11, <3>1, <3>2, <3>3, Zenon
  <2> QED
    BY <2>1, <2>2
<1> HIDE DEF a, s, t
<1>13. t = [i \in 1 .. size + 1 |-> t[i]]
  BY <1>8
<1>14. t = a
  BY <1>11, <1>12, <1>13
<1> QED
  BY <1>14 DEF t, a, s, L

\* To pick every position is to keep the cast.
LEMMA PickedAll ==
  ASSUME NEW T, NEW cast \in Seq(T)
  PROVE  Picked(cast, DOMAIN cast) = cast
<1> DEFINE n == Len(cast)
<1>1. n \in Nat /\ DOMAIN cast = 1 .. n
  OBVIOUS
<1>2. cast = [i \in 1 .. n |-> cast[i]]
  OBVIOUS
<1> HIDE DEF n
<1>3. Cardinality(1 .. n) = n
  BY <1>1, FS_Interval
<1>4. ASSUME NEW k \in 1 .. n PROVE Rank(1 .. n, k) = k
  <2>1. {j \in 1 .. n : j <= k} = 1 .. k
    BY <1>1
  <2>2. Cardinality(1 .. k) = k
    BY <1>1, FS_Interval
  <2> QED
    BY <2>1, <2>2, Zenon DEF Rank
<1>5. ASSUME NEW i \in 1 .. n PROVE (CHOOSE k \in 1 .. n : Rank(1 .. n, k) = i) = i
  BY <1>4
<1>6. Picked(cast, 1 .. n) = [i \in 1 .. n |-> cast[i]]
  <2>1. Picked(cast, 1 .. n) = [i \in 1 .. n |-> cast[CHOOSE k \in 1 .. n : Rank(1 .. n, k) = i]]
    BY <1>3, Zenon DEF Picked
  <2> QED
    BY <1>5, <2>1, Zenon
<1> QED
  BY <1>1, <1>2, <1>6

RelatedItems(T) == {c \in T : c.related}

\* The first k + 1 members are the first k and one more.
LEMMA OneMoreMember ==
  ASSUME NEW T, NEW seq \in Seq(T), NEW k \in 0 .. Len(seq) - 1
  PROVE  /\ SubSeq(seq, 1, k) \in Seq(T)
         /\ k + 1 \in DOMAIN seq /\ seq[k + 1] \in T
         /\ SubSeq(seq, 1, k + 1) = Append(SubSeq(seq, 1, k), seq[k + 1])
<1>1. k \in Nat /\ Len(seq) \in Nat /\ k + 1 \in 1 .. Len(seq)
  OBVIOUS
<1> DEFINE s == SubSeq(seq, 1, k)
           t == SubSeq(seq, 1, k + 1)
           a == Append(s, seq[k + 1])
<1>2. s \in Seq(T) /\ Len(s) = k /\ \A i \in 1 .. k : s[i] = seq[i]
  BY <1>1
<1>3. t \in Seq(T) /\ Len(t) = k + 1 /\ \A i \in 1 .. k + 1 : t[i] = seq[i]
  BY <1>1
<1>4. seq[k + 1] \in T
  BY <1>1
<1> HIDE DEF s, t
<1>5. a \in Seq(T) /\ Len(a) = k + 1
  BY <1>1, <1>2, <1>4
<1>6. \A i \in 1 .. k + 1 : a[i] = seq[i]
  BY <1>1, <1>2, <1>4
<1> HIDE DEF a
<1>7. t = a
  BY <1>3, <1>5, <1>6
<1> QED
  BY <1>1, <1>2, <1>4, <1>7 DEF s, t, a

\* What is kept besides the related characters only adds to their size.
LEMMA PickedAroundRelated ==
  ASSUME NEW T, \A c \in T : c.size \in Nat, NEW cast \in Seq(T),
         NEW K \in SUBSET DOMAIN cast, RelatedIn(cast) \subseteq K
  PROVE  /\ Picked(cast, K) \in Seq(T)
         /\ RelatedOnly(cast) \in Seq(RelatedItems(T))
         /\ Sizes(RelatedOnly(cast)) <= Sizes(Picked(cast, K))
         /\ K = RelatedIn(cast) => Picked(cast, K) = RelatedOnly(cast)
<1> DEFINE n == Len(cast)
           P(k) == Picked(cast, K \cap (1 .. k))
           R(k) == RelatedOnly(SubSeq(cast, 1, k))
           good == {k \in 0 .. n : /\ P(k) \in Seq(T)
                                   /\ R(k) \in Seq(RelatedItems(T))
                                   /\ Sizes(R(k)) <= Sizes(P(k))
                                   /\ K = RelatedIn(cast) => P(k) = R(k)}
<1>1. n \in Nat /\ DOMAIN cast = 1 .. n
  OBVIOUS
<1>2. 0 \in good
  <2>1. P(0) = <<>>
    <3>1. K \cap (1 .. 0) = {}
      OBVIOUS
    <3>2. Picked(cast, {}) = <<>>
      BY FS_EmptySet DEF Picked
    <3> QED
      BY <3>1, <3>2, Zenon
  <2>2. R(0) = <<>>
    <3>1. SubSeq(cast, 1, 0) = <<>>
      OBVIOUS
    <3> QED
      BY <3>1, RelatedOfNone, Zenon
  <2>3. Sizes(P(0)) = 0 /\ Sizes(R(0)) = 0
    BY <2>1, <2>2, SizesOfNone, Zenon
  <2>4. P(0) \in Seq(T) /\ R(0) \in Seq(RelatedItems(T)) /\ P(0) = R(0)
    <3>1. <<>> \in Seq(T) /\ <<>> \in Seq(RelatedItems(T))
      OBVIOUS
    <3> QED
      BY <2>1, <2>2, <3>1, Zenon
  <2> HIDE DEF P, R
  <2> QED
    BY <1>1, <2>3, <2>4
<1>3. ASSUME NEW k \in 0 .. n - 1, k \in good PROVE k + 1 \in good
  <2>1. k \in Nat /\ k + 1 \in 0 .. n
    BY <1>1
  <2>2. /\ SubSeq(cast, 1, k) \in Seq(T)
        /\ k + 1 \in DOMAIN cast /\ cast[k + 1] \in T
        /\ SubSeq(cast, 1, k + 1) = Append(SubSeq(cast, 1, k), cast[k + 1])
    BY OneMoreMember
  <2>3. /\ P(k) \in Seq(T) /\ R(k) \in Seq(RelatedItems(T)) /\ Sizes(R(k)) <= Sizes(P(k))
        /\ K = RelatedIn(cast) => P(k) = R(k)
    BY <1>3
  <2> DEFINE c == cast[k + 1]
  <2>4. R(k + 1) = IF c.related THEN Append(R(k), c) ELSE R(k)
    BY <2>2, RelatedOfOneMore, Zenon
  <2>5. P(k + 1) = IF k + 1 \in K THEN Append(P(k), c) ELSE P(k)
    <3>1. CASE k + 1 \in K
      <4>1. K \cap (1 .. k + 1) = (K \cap (1 .. k)) \cup {k + 1}
        BY <2>1, <3>1
      <4>2. K \cap (1 .. k) \in SUBSET (1 .. k)
        OBVIOUS
      <4>3. Picked(cast, (K \cap (1 .. k)) \cup {k + 1}) = Append(Picked(cast, K \cap (1 .. k)), cast[k + 1])
        BY <2>1, <2>2, <2>3, <4>2, PickedOneMore
      <4> QED
        BY <3>1, <4>1, <4>3, Zenon
    <3>2. CASE k + 1 \notin K
      <4>1. K \cap (1 .. k + 1) = K \cap (1 .. k)
        BY <2>1, <3>2
      <4> QED
        BY <3>2, <4>1, Zenon
    <3> QED
      BY <3>1, <3>2
  <2>6. R(k) \in Seq(T) /\ (c.related => Append(R(k), c) \in Seq(RelatedItems(T)))
    <3>1. R(k) \in Seq(RelatedItems(T)) /\ c \in T
      BY <2>2, <2>3
    <3> HIDE DEF R, c
    <3> QED
      BY <3>1 DEF RelatedItems
  <2>7. Sizes(P(k)) \in Nat /\ Sizes(R(k)) \in Nat /\ c.size \in Nat
    BY <2>2, <2>3, <2>6, SizesType
  <2>8. /\ Sizes(Append(P(k), c)) = Sizes(P(k)) + c.size
        /\ Sizes(Append(R(k), c)) = Sizes(R(k)) + c.size
    BY <2>2, <2>3, <2>6, SizesOfOneMore, Zenon
  <2>9. c.related <=> k + 1 \in RelatedIn(cast)
    BY <2>2 DEF RelatedIn
  <2>10. P(k + 1) \in Seq(T) /\ c \in T
    <3>1. P(k) \in Seq(T) /\ c \in T
      BY <2>2, <2>3
    <3> HIDE DEF P, c
    <3>2. Append(P(k), c) \in Seq(T)
      BY <3>1
    <3> QED
      BY <2>5, <3>1, <3>2, Zenon
  <2> HIDE DEF P, R, c
  <2>11. R(k + 1) \in Seq(RelatedItems(T))
    BY <2>3, <2>4, <2>6
  <2>12. Sizes(R(k + 1)) <= Sizes(P(k + 1))
    <3>1. CASE c.related
      <4>1. k + 1 \in K
        BY <2>9, <3>1
      <4>2. R(k + 1) = Append(R(k), c) /\ P(k + 1) = Append(P(k), c)
        BY <2>4, <2>5, <3>1, <4>1, Zenon
      <4>3. /\ Sizes(R(k + 1)) = Sizes(R(k)) + c.size
            /\ Sizes(P(k + 1)) = Sizes(P(k)) + c.size
        BY <2>8, <4>2, Zenon
      <4> QED
        BY <2>3, <2>7, <4>3
    <3>2. CASE ~c.related
      BY <2>3, <2>4, <2>5, <2>7, <2>8, <3>2
    <3> QED
      BY <3>1, <3>2
  <2>13. K = RelatedIn(cast) => P(k + 1) = R(k + 1)
    BY <2>3, <2>4, <2>5, <2>9
  <2> QED
    BY <2>1, <2>10, <2>11, <2>12, <2>13
<1>4. n \in good
  <2> HIDE DEF good
  <2>1. 0 .. n \subseteq good
    BY <1>1, <1>2, <1>3, Clues!CountTo
  <2> QED
    BY <1>1, <2>1
<1>5. P(n) = Picked(cast, K) /\ R(n) = RelatedOnly(cast)
  <2>1. K \cap (1 .. n) = K /\ SubSeq(cast, 1, n) = cast
    BY <1>1
  <2> QED
    BY <2>1, Zenon
<1> QED
  BY <1>4, <1>5

\* Of the first k characters, the first n unrelated ones are dropped.
LEMMA DroppedUpTo ==
  ASSUME NEW cast, NEW size \in Nat, DOMAIN cast = 1 .. size, NEW n \in Nat
  PROVE  /\ UnrelatedCount(cast) \in Nat
         /\ Cardinality(DroppedFrom(cast, n)) =
              IF UnrelatedCount(cast) <= n THEN UnrelatedCount(cast) ELSE n
         /\ UnrelatedCount(cast) <= n =>
              DOMAIN cast \ DroppedFrom(cast, n) = RelatedIn(cast)
<1> DEFINE U(k) == UnrelatedUpTo(cast, k)
           D(k) == {i \in 1 .. k : ~cast[i].related /\ Cardinality(U(i)) <= n}
           good == {k \in 0 .. size :
                      Cardinality(D(k)) = IF Cardinality(U(k)) <= n THEN Cardinality(U(k)) ELSE n}
<1>1. ASSUME NEW k \in 0 .. size
      PROVE  /\ U(k) \in SUBSET (1 .. k) /\ IsFiniteSet(U(k)) /\ Cardinality(U(k)) \in Nat
             /\ D(k) \in SUBSET (1 .. k) /\ IsFiniteSet(D(k)) /\ Cardinality(D(k)) \in Nat
  <2>1. U(k) \in SUBSET (1 .. k) /\ D(k) \in SUBSET (1 .. k) /\ k \in Nat
    BY DEF UnrelatedUpTo
  <2> HIDE DEF U, D
  <2> QED
    BY <2>1, PositionsFinite
<1>2. 0 \in good
  <2>1. U(0) = {} /\ D(0) = {}
    BY DEF UnrelatedUpTo
  <2> HIDE DEF U, D
  <2> QED
    BY <2>1, FS_EmptySet
<1>3. ASSUME NEW k \in 0 .. size - 1, k \in good PROVE k + 1 \in good
  <2>1. k \in 0 .. size /\ k + 1 \in 0 .. size /\ k + 1 \in 1 .. k + 1 /\ k + 1 \notin 1 .. k
        /\ 1 .. k + 1 = (1 .. k) \cup {k + 1}
    OBVIOUS
  <2>2. CASE cast[k + 1].related
    <3>1. U(k + 1) = U(k) /\ D(k + 1) = D(k)
      BY <2>1, <2>2 DEF UnrelatedUpTo
    <3> HIDE DEF U, D
    <3> QED
      BY <1>3, <2>1, <3>1
  <2>3. CASE ~cast[k + 1].related
    <3>1. U(k + 1) = U(k) \cup {k + 1} /\ k + 1 \notin U(k)
      BY <2>1, <2>3 DEF UnrelatedUpTo
    <3>2. D(k + 1) = IF Cardinality(U(k + 1)) <= n THEN D(k) \cup {k + 1} ELSE D(k)
      <4> HIDE DEF U
      <4> QED
        BY <2>1, <2>3, Zenon
    <3>3. k + 1 \notin D(k)
      BY <2>1
    <3> HIDE DEF U, D
    <3>4. Cardinality(U(k + 1)) = Cardinality(U(k)) + 1
      BY <1>1, <2>1, <3>1, FS_AddElement
    <3>5. Cardinality(D(k) \cup {k + 1}) = Cardinality(D(k)) + 1
      BY <1>1, <2>1, <3>3, FS_AddElement
    <3> QED
      BY <1>1, <1>3, <2>1, <3>2, <3>4, <3>5
  <2> QED
    BY <2>2, <2>3
<1>4. size \in good
  <2> HIDE DEF good
  <2>1. 0 .. size \subseteq good
    BY <1>2, <1>3, Clues!CountTo
  <2> QED
    BY <2>1
<1>5. U(size) = {i \in DOMAIN cast : ~cast[i].related} /\ D(size) = DroppedFrom(cast, n)
  BY DEF UnrelatedUpTo, DroppedFrom
<1>6. UnrelatedCount(cast) = Cardinality(U(size))
  BY <1>5, Zenon DEF UnrelatedCount
<1>7. ASSUME UnrelatedCount(cast) <= n, NEW i \in DOMAIN cast, ~cast[i].related
      PROVE  i \in DroppedFrom(cast, n)
  <2>1. i \in 0 .. size /\ size \in 0 .. size
    OBVIOUS
  <2>2. U(i) \in SUBSET U(size)
    BY DEF UnrelatedUpTo
  <2> HIDE DEF U
  <2>3. Cardinality(U(i)) <= Cardinality(U(size))
    BY <1>1, <2>1, <2>2, FS_Subset
  <2>4. Cardinality(U(i)) \in Nat /\ Cardinality(U(size)) \in Nat
    <3> HIDE DEF D
    <3> QED
      BY <1>1, <2>1
  <2>5. Cardinality(U(size)) <= n
    BY <1>6, <1>7, Zenon
  <2>6. Cardinality(U(i)) <= n
    <3> HIDE DEF D, good
    <3> QED
      BY <2>3, <2>4, <2>5
  <2> QED
    BY <1>7, <2>6, Zenon DEF DroppedFrom, U
<1>8. UnrelatedCount(cast) <= n => DOMAIN cast \ DroppedFrom(cast, n) = RelatedIn(cast)
  BY <1>7 DEF DroppedFrom, RelatedIn
<1>9. Cardinality(U(size)) \in Nat
  <2>1. size \in 0 .. size
    OBVIOUS
  <2> HIDE DEF U, D
  <2> QED
    BY <1>1, <2>1
<1> QED
  BY <1>4, <1>5, <1>6, <1>8, <1>9

\* What is left without the first n unrelated characters.
LEMMA WithoutUnrelatedFacts ==
  ASSUME NEW T, \A c \in T : c.size \in Nat, NEW cast \in Seq(T), NEW n \in Nat
  PROVE  /\ WithoutUnrelated(cast, n) \in Seq(T)
         /\ RelatedOnly(cast) \in Seq(RelatedItems(T))
         /\ Sizes(RelatedOnly(cast)) <= Sizes(WithoutUnrelated(cast, n))
         /\ UnrelatedCount(cast) \in Nat
         /\ n = 0 => WithoutUnrelated(cast, n) = cast
         /\ UnrelatedCount(cast) <= n => WithoutUnrelated(cast, n) = RelatedOnly(cast)
         /\ n <= UnrelatedCount(cast) => Len(WithoutUnrelated(cast, n)) = Len(cast) - n
<1> DEFINE size == Len(cast)
           D == DroppedFrom(cast, n)
           K == DOMAIN cast \ D
           w == WithoutUnrelated(cast, n)
<1>1. size \in Nat /\ DOMAIN cast = 1 .. size
  OBVIOUS
<1>2. w = Picked(cast, K)
  BY WithoutUnrelatedIsPicked, Zenon
<1>3. K \in SUBSET DOMAIN cast /\ RelatedIn(cast) \subseteq K /\ D \in SUBSET (1 .. size)
  BY <1>1 DEF RelatedIn, DroppedFrom
<1>4. /\ UnrelatedCount(cast) \in Nat
      /\ Cardinality(D) = IF UnrelatedCount(cast) <= n THEN UnrelatedCount(cast) ELSE n
      /\ UnrelatedCount(cast) <= n => K = RelatedIn(cast)
  <2> HIDE DEF size
  <2> QED
    BY <1>1, DroppedUpTo
<1>5. /\ Picked(cast, K) \in Seq(T)
      /\ RelatedOnly(cast) \in Seq(RelatedItems(T))
      /\ Sizes(RelatedOnly(cast)) <= Sizes(Picked(cast, K))
      /\ K = RelatedIn(cast) => Picked(cast, K) = RelatedOnly(cast)
  <2> HIDE DEF K
  <2> QED
    BY <1>3, PickedAroundRelated
<1>6. IsFiniteSet(1 .. size) /\ Cardinality(1 .. size) = size /\ IsFiniteSet(D)
  <2> HIDE DEF size, D
  <2>1. IsFiniteSet(1 .. size) /\ Cardinality(1 .. size) = size
    BY <1>1, FS_Interval
  <2> QED
    BY <1>3, <2>1, FS_Subset
<1>7. n = 0 => w = cast
  <2> SUFFICES ASSUME n = 0 PROVE w = cast
    OBVIOUS
  <2>1. Cardinality(D) = 0
    BY <1>4
  <2>2. D = {}
    <3> HIDE DEF D
    <3> QED
      BY <1>6, <2>1, FS_EmptySet
  <2>3. K = DOMAIN cast
    <3> HIDE DEF D
    <3> QED
      BY <2>2
  <2> HIDE DEF w, K
  <2> QED
    BY <1>2, <2>3, PickedAll
<1>8. n <= UnrelatedCount(cast) => Len(w) = size - n
  <2> SUFFICES ASSUME n <= UnrelatedCount(cast) PROVE Len(w) = size - n
    OBVIOUS
  <2>1. Cardinality(D) = n
    BY <1>4
  <2>2. Cardinality(K) = size - n
    <3>1. D \cap (1 .. size) = D
      BY <1>3
    <3> HIDE DEF size, D
    <3>2. Cardinality((1 .. size) \ D) = size - Cardinality((1 .. size) \cap D)
      BY <1>1, <1>6, FS_Difference
    <3>3. (1 .. size) \cap D = D /\ K = (1 .. size) \ D
      BY <1>1, <3>1
    <3> HIDE DEF K
    <3> QED
      BY <2>1, <3>2, <3>3
  <2>3. DOMAIN w = 1 .. Cardinality(K)
    BY <1>2, Zenon DEF Picked
  <2>4. w \in Seq(T) /\ size - n \in Nat
    <3>1. w \in Seq(T)
      BY <1>2, <1>5, Zenon
    <3>2. Cardinality(K) \in Nat
      <4> HIDE DEF K, size
      <4>1. IsFiniteSet(K)
        <5> HIDE DEF D
        <5>1. K \in SUBSET (1 .. size)
          BY <1>1, <1>3
        <5> QED
          BY <1>6, <5>1, FS_Subset
      <4> QED
        BY <4>1, FS_CardinalityType
    <3> HIDE DEF w, K, size
    <3> QED
      BY <2>2, <3>1, <3>2
  <2> HIDE DEF w, K, size
  <2> QED
    BY <2>2, <2>3, <2>4
<1> HIDE DEF w, K
<1> QED
  BY <1>2, <1>4, <1>5, <1>7, <1>8 DEF w

-----------------------------------------------------------------------------
(* The stages of the builder *)

Items == [scene : Int, size : Nat]
People == [size : Nat, related : BOOLEAN]
Layers == [older : Seq(Items), cast : Seq(People), words : Seq(Nat), blanks : Nat, rest : Nat]

\* The layers after n rounds of each loop.
AfterSummaries(l, n) == [l EXCEPT !.older = SubSeq(@, 1, Len(@) - n)]
AfterUnrelated(l, n) == [l EXCEPT !.cast = WithoutUnrelated(@, n)]
AfterWords(l, n) ==
  IF n = 0 THEN l
  ELSE [l EXCEPT !.words = SubSeq(@, n + 1, Len(l.words)),
                 !.blanks = IF n >= Len(l.words) THEN 0 ELSE Len(l.words) - n - 1]

LastWord(l) == IF Len(l.words) = 0 THEN 1 ELSE Len(l.words)

\* The first of the rounds S among 0 .. last.
FirstIn(last, S) == CHOOSE n \in 0 .. last : n \in S /\ \A m \in 0 .. last : m \in S => n <= m

\* A loop that stops at its last round has a first round at which it stops.
LEMMA FirstStop ==
  ASSUME NEW last \in Nat, NEW S, last \in S
  PROVE  /\ FirstIn(last, S) \in 0 .. last
         /\ FirstIn(last, S) \in S
         /\ \A m \in 0 .. FirstIn(last, S) - 1 : m \notin S
<1>1. (0 .. last) \cap S \in SUBSET Nat /\ last \in (0 .. last) \cap S
  OBVIOUS
<1>2. PICK n \in (0 .. last) \cap S : \A m \in (0 .. last) \cap S : n <= m
  BY <1>1, Clues!SmallestOf
<1>3. \E k \in 0 .. last : k \in S /\ \A m \in 0 .. last : m \in S => k <= m
  BY <1>2
<1>4. /\ FirstIn(last, S) \in 0 .. last
      /\ FirstIn(last, S) \in S
      /\ \A m \in 0 .. last : m \in S => FirstIn(last, S) <= m
  BY <1>3, Zenon DEF FirstIn
<1> DEFINE f == FirstIn(last, S)
<1> HIDE DEF f
<1>5. f \in 0 .. last /\ f \in S /\ \A m \in 0 .. last : m \in S => f <= m
  BY <1>4, Zenon DEF f
<1>6. \A m \in 0 .. f - 1 : m \notin S
  BY <1>5
<1> QED
  BY <1>5, <1>6, Zenon DEF f

\* The summaries dropped are the fewest after which the layers fit, or all.
LEMMA SummariesStage ==
  ASSUME NEW l, Len(l.older) \in Nat
  PROVE  \E n \in 0 .. Len(l.older) :
           /\ DropSummaries(l) = AfterSummaries(l, n)
           /\ Fits(AfterSummaries(l, n)) \/ n = Len(l.older)
           /\ \A m \in 0 .. n - 1 : ~Fits(AfterSummaries(l, m))
<1> DEFINE last == Len(l.older)
           S == {n \in 0 .. last : Fits(AfterSummaries(l, n)) \/ n = last}
           f == FirstIn(last, S)
<1>1. last \in Nat /\ last \in S
  OBVIOUS
<1>2. DropSummaries(l) =
        AfterSummaries(l, CHOOSE n \in 0 .. last :
                            /\ Fits(AfterSummaries(l, n)) \/ n = last
                            /\ \A m \in 0 .. last : Fits(AfterSummaries(l, m)) \/ m = last => n <= m)
  BY Zenon DEF DropSummaries, AfterSummaries, FirstRound
<1>3. (CHOOSE n \in 0 .. last :
         /\ Fits(AfterSummaries(l, n)) \/ n = last
         /\ \A m \in 0 .. last : Fits(AfterSummaries(l, m)) \/ m = last => n <= m) = f
  BY Zenon DEF FirstIn
<1> HIDE DEF last
<1>4. f \in 0 .. last /\ f \in S /\ \A m \in 0 .. f - 1 : m \notin S
  <2> HIDE DEF S
  <2> QED
    BY <1>1, FirstStop, Zenon
<1>5. Fits(AfterSummaries(l, f)) \/ f = last
  <2> HIDE DEF f
  <2> QED
    BY <1>4
<1>6. \A m \in 0 .. f - 1 : ~Fits(AfterSummaries(l, m))
  <2> HIDE DEF f
  <2>1. \A m \in 0 .. f - 1 : m \in 0 .. last
    BY <1>1, <1>4
  <2> QED
    BY <1>4, <2>1
<1> HIDE DEF f
<1> QED
  BY <1>2, <1>3, <1>4, <1>5, <1>6, Zenon DEF last

\* The unrelated characters dropped are the fewest after which they fit, or all.
LEMMA UnrelatedStage ==
  ASSUME NEW l, UnrelatedCount(l.cast) \in Nat
  PROVE  \E n \in 0 .. UnrelatedCount(l.cast) :
           /\ DropUnrelated(l) = AfterUnrelated(l, n)
           /\ Fits(AfterUnrelated(l, n)) \/ n = UnrelatedCount(l.cast)
           /\ \A m \in 0 .. n - 1 : ~Fits(AfterUnrelated(l, m))
<1> DEFINE last == UnrelatedCount(l.cast)
           S == {n \in 0 .. last : Fits(AfterUnrelated(l, n)) \/ n = last}
           f == FirstIn(last, S)
<1>1. last \in Nat /\ last \in S
  OBVIOUS
<1>2. DropUnrelated(l) =
        AfterUnrelated(l, CHOOSE n \in 0 .. last :
                            /\ Fits(AfterUnrelated(l, n)) \/ n = last
                            /\ \A m \in 0 .. last : Fits(AfterUnrelated(l, m)) \/ m = last => n <= m)
  BY Zenon DEF DropUnrelated, AfterUnrelated, FirstRound
<1>3. (CHOOSE n \in 0 .. last :
         /\ Fits(AfterUnrelated(l, n)) \/ n = last
         /\ \A m \in 0 .. last : Fits(AfterUnrelated(l, m)) \/ m = last => n <= m) = f
  BY Zenon DEF FirstIn
<1> HIDE DEF last
<1>4. f \in 0 .. last /\ f \in S /\ \A m \in 0 .. f - 1 : m \notin S
  <2> HIDE DEF S
  <2> QED
    BY <1>1, FirstStop, Zenon
<1>5. Fits(AfterUnrelated(l, f)) \/ f = last
  <2> HIDE DEF f
  <2> QED
    BY <1>4
<1>6. \A m \in 0 .. f - 1 : ~Fits(AfterUnrelated(l, m))
  <2> HIDE DEF f
  <2>1. \A m \in 0 .. f - 1 : m \in 0 .. last
    BY <1>1, <1>4
  <2> QED
    BY <1>4, <2>1
<1> HIDE DEF f
<1> QED
  BY <1>2, <1>3, <1>4, <1>5, <1>6, Zenon DEF last

\* The words dropped are the fewest after which they fit, or all.
LEMMA WordsStage ==
  ASSUME NEW l, Len(l.words) \in Nat
  PROVE  \E n \in 0 .. LastWord(l) :
           /\ DropWords(l) = AfterWords(l, n)
           /\ Fits(AfterWords(l, n)) \/ n = LastWord(l)
           /\ \A m \in 0 .. n - 1 : ~Fits(AfterWords(l, m))
<1> DEFINE last == LastWord(l)
           S == {n \in 0 .. last : Fits(AfterWords(l, n)) \/ n = last}
           f == FirstIn(last, S)
<1>1. last \in Nat /\ last \in S
  BY DEF LastWord
<1>2. DropWords(l) =
        AfterWords(l, CHOOSE n \in 0 .. last :
                            /\ Fits(AfterWords(l, n)) \/ n = last
                            /\ \A m \in 0 .. last : Fits(AfterWords(l, m)) \/ m = last => n <= m)
  BY Zenon DEF DropWords, AfterWords, FirstRound, LastWord
<1>3. (CHOOSE n \in 0 .. last :
         /\ Fits(AfterWords(l, n)) \/ n = last
         /\ \A m \in 0 .. last : Fits(AfterWords(l, m)) \/ m = last => n <= m) = f
  BY Zenon DEF FirstIn
<1> HIDE DEF last
<1>4. f \in 0 .. last /\ f \in S /\ \A m \in 0 .. f - 1 : m \notin S
  <2> HIDE DEF S
  <2> QED
    BY <1>1, FirstStop, Zenon
<1>5. Fits(AfterWords(l, f)) \/ f = last
  <2> HIDE DEF f
  <2> QED
    BY <1>4
<1>6. \A m \in 0 .. f - 1 : ~Fits(AfterWords(l, m))
  <2> HIDE DEF f
  <2>1. \A m \in 0 .. f - 1 : m \in 0 .. last
    BY <1>1, <1>4
  <2> QED
    BY <1>4, <2>1
<1> HIDE DEF f
<1> QED
  BY <1>2, <1>3, <1>4, <1>5, <1>6, Zenon DEF last

\* A length fits if it is at most four times the budget.
LEMMA TokensFit ==
  ASSUME NEW length \in Nat
  PROVE  EstimateTokens(length) <= Budget <=> length <= 4 * Budget
BY BudgetAssumption DEF EstimateTokens

\* The length of layers is a number.
LEMMA LengthType ==
  ASSUME NEW l \in Layers
  PROVE  /\ Length(l) \in Nat
         /\ Fits(l) <=> Length(l) <= 4 * Budget
         /\ Sizes(l.older) \in Nat /\ Sizes(l.cast) \in Nat /\ Total(l.words) \in Nat
         /\ Length(l) = l.rest + Sizes(l.older) + Sizes(l.cast) + Total(l.words) + l.blanks
<1>1. /\ l.older \in Seq(Items) /\ l.cast \in Seq(People) /\ l.words \in Seq(Nat)
      /\ l.blanks \in Nat /\ l.rest \in Nat
  BY DEF Layers
<1>2. (\A item \in Items : item.size \in Nat) /\ (\A c \in People : c.size \in Nat)
  BY DEF Items, People
<1>3. Sizes(l.older) \in Nat /\ Sizes(l.cast) \in Nat /\ Total(l.words) \in Nat
  BY <1>1, <1>2, SizesType, TotalType
<1>4. Length(l) = l.rest + Sizes(l.older) + Sizes(l.cast) + Total(l.words) + l.blanks
  BY Zenon DEF Length
<1>5. Length(l) \in Nat
  BY <1>1, <1>3, <1>4
<1> QED
  BY <1>3, <1>4, <1>5, TokensFit DEF Fits

\* A round of dropping summaries changes only the summaries.
LEMMA AfterSummariesFacts ==
  ASSUME NEW l \in Layers, NEW n \in 0 .. Len(l.older)
  PROVE  LET a == AfterSummaries(l, n)
         IN  /\ a \in Layers
             /\ a.older = SubSeq(l.older, 1, Len(l.older) - n)
             /\ a.cast = l.cast /\ a.words = l.words /\ a.blanks = l.blanks /\ a.rest = l.rest
             /\ n = Len(l.older) => a.older = <<>>
             /\ n = 0 => a = l
<1> DEFINE s == SubSeq(l.older, 1, Len(l.older) - n)
           a == [l EXCEPT !.older = s]
<1>1. l.older \in Seq(Items) /\ Len(l.older) \in Nat /\ Len(l.older) - n \in 0 .. Len(l.older)
  BY DEF Layers
<1>2. s \in Seq(Items)
  BY <1>1
<1>3. n = Len(l.older) => s = <<>>
  BY <1>1
<1>4. n = 0 => s = l.older
  BY <1>1
<1>5. AfterSummaries(l, n) = a
  BY Zenon DEF AfterSummaries
<1> HIDE DEF s
<1>6. /\ a \in Layers
      /\ a.older = s
      /\ a.cast = l.cast /\ a.words = l.words /\ a.blanks = l.blanks /\ a.rest = l.rest
  BY <1>2 DEF Layers
<1>7. n = 0 => a = l
  BY <1>4 DEF Layers
<1> HIDE DEF a
<1> QED
  BY <1>3, <1>5, <1>6, <1>7, Zenon DEF s

\* A round of dropping characters changes only the cast, and keeps the related.
LEMMA AfterUnrelatedFacts ==
  ASSUME NEW l \in Layers, NEW n \in Nat
  PROVE  LET b == AfterUnrelated(l, n)
         IN  /\ b \in Layers
             /\ b.cast = WithoutUnrelated(l.cast, n)
             /\ b.older = l.older /\ b.words = l.words /\ b.blanks = l.blanks /\ b.rest = l.rest
             /\ RelatedOnly(l.cast) \in Seq(RelatedItems(People))
             /\ Sizes(RelatedOnly(l.cast)) <= Sizes(b.cast)
             /\ UnrelatedCount(l.cast) \in Nat
             /\ UnrelatedCount(l.cast) <= n => b.cast = RelatedOnly(l.cast)
             /\ n <= UnrelatedCount(l.cast) => Len(b.cast) = Len(l.cast) - n
             /\ n = 0 => b = l
<1> DEFINE w == WithoutUnrelated(l.cast, n)
           b == [l EXCEPT !.cast = w]
<1>1. l.cast \in Seq(People) /\ \A c \in People : c.size \in Nat
  BY DEF Layers, People
<1>2. /\ w \in Seq(People)
      /\ RelatedOnly(l.cast) \in Seq(RelatedItems(People))
      /\ Sizes(RelatedOnly(l.cast)) <= Sizes(w)
      /\ UnrelatedCount(l.cast) \in Nat
      /\ n = 0 => w = l.cast
      /\ UnrelatedCount(l.cast) <= n => w = RelatedOnly(l.cast)
      /\ n <= UnrelatedCount(l.cast) => Len(w) = Len(l.cast) - n
  BY <1>1, WithoutUnrelatedFacts
<1>3. AfterUnrelated(l, n) = b
  BY Zenon DEF AfterUnrelated
<1> HIDE DEF w
<1>4. /\ b \in Layers
      /\ b.cast = w
      /\ b.older = l.older /\ b.words = l.words /\ b.blanks = l.blanks /\ b.rest = l.rest
  BY <1>2 DEF Layers
<1>5. n = 0 => b = l
  BY <1>2 DEF Layers
<1> HIDE DEF b
<1> QED
  BY <1>2, <1>3, <1>4, <1>5, Zenon DEF w

\* A round of dropping words changes only the rolling summary.
LEMMA AfterWordsFacts ==
  ASSUME NEW l \in Layers, NEW n \in 0 .. LastWord(l)
  PROVE  LET d == AfterWords(l, n)
         IN  /\ d \in Layers
             /\ d.older = l.older /\ d.cast = l.cast /\ d.rest = l.rest
             /\ n = 0 => d = l
             /\ n > 0 => /\ Len(l.words) - Len(d.words) = IF Len(l.words) = 0 THEN 0 ELSE n
                         /\ n = LastWord(l) => d.words = <<>> /\ d.blanks = 0
<1> DEFINE count == Len(l.words)
           s == SubSeq(l.words, n + 1, count)
           k == IF n >= count THEN 0 ELSE count - n - 1
           d == [l EXCEPT !.words = s, !.blanks = k]
<1>1. l.words \in Seq(Nat) /\ count \in Nat /\ n \in Nat /\ (n <= count \/ count = 0)
  BY DEF Layers, LastWord
<1>2. s \in Seq(Nat)
  BY <1>1
<1>3. count # 0 => Len(s) = count - n
  BY <1>1
<1>4. n > 0 /\ count = 0 => s = <<>>
  BY <1>1
<1>5. n = LastWord(l) => s = <<>> /\ k = 0
  <2> SUFFICES ASSUME n = LastWord(l) PROVE s = <<>> /\ k = 0
    OBVIOUS
  <2>1. n >= count /\ n + 1 > count
    BY <1>1 DEF LastWord
  <2>2. k = 0
    BY <2>1
  <2>3. Len(s) = 0
    <3>1. IF n + 1 <= count THEN FALSE ELSE TRUE
      BY <1>1, <2>1
    <3> HIDE DEF count
    <3> QED
      BY <1>1, <2>1, <3>1
  <2>4. s = <<>>
    <3> HIDE DEF s
    <3> QED
      BY <1>2, <2>3
  <2> QED
    BY <2>2, <2>4
<1>6. k \in Nat
  BY <1>1
<1>7. AfterWords(l, n) = IF n = 0 THEN l ELSE d
  BY Zenon DEF AfterWords
<1> HIDE DEF s, k
<1>8. /\ d \in Layers
      /\ d.words = s /\ d.blanks = k
      /\ d.older = l.older /\ d.cast = l.cast /\ d.rest = l.rest
  BY <1>2, <1>6 DEF Layers
<1> HIDE DEF d
<1>9. CASE n = 0
  BY <1>7, <1>9
<1>10. CASE n # 0
  <2>1. AfterWords(l, n) = d
    BY <1>7, <1>10
  <2>2. count - Len(d.words) = IF count = 0 THEN 0 ELSE n
    <3>1. CASE count = 0
      <4>1. d.words = <<>>
        BY <1>1, <1>4, <1>8, <1>10, <3>1
      <4>2. Len(d.words) = 0
        BY <4>1
      <4> QED
        BY <3>1, <4>2
    <3>2. CASE count # 0
      BY <1>1, <1>3, <1>8, <3>2
    <3> QED
      BY <3>1, <3>2
  <2> HIDE DEF count
  <2> QED
    BY <1>5, <1>8, <1>10, <2>1, <2>2, Zenon DEF count
<1> QED
  BY <1>9, <1>10

\* The three loops one after the other: each stops as early as it can, and a
\* later one drops something only when the earlier ones have dropped all.
LEMMA BuildStages ==
  ASSUME NEW l \in Layers
  PROVE  \E n1 \in 0 .. Len(l.older), n2 \in 0 .. UnrelatedCount(l.cast), n3 \in 0 .. LastWord(l) :
           LET a == AfterSummaries(l, n1)
               b == AfterUnrelated(a, n2)
           IN  /\ Build(l) = AfterWords(b, n3)
               /\ \A m \in 0 .. n1 - 1 : ~Fits(AfterSummaries(l, m))
               /\ \A m \in 0 .. n2 - 1 : ~Fits(AfterUnrelated(a, m))
               /\ \A m \in 0 .. n3 - 1 : ~Fits(AfterWords(b, m))
               /\ n2 > 0 => n1 = Len(l.older)
               /\ n3 > 0 => n1 = Len(l.older) /\ n2 = UnrelatedCount(l.cast)
               /\ \/ Fits(AfterWords(b, n3))
                  \/ n1 = Len(l.older) /\ n2 = UnrelatedCount(l.cast) /\ n3 = LastWord(l)
<1>1. Len(l.older) \in Nat
  BY DEF Layers
<1>2. PICK n1 \in 0 .. Len(l.older) :
        /\ DropSummaries(l) = AfterSummaries(l, n1)
        /\ Fits(AfterSummaries(l, n1)) \/ n1 = Len(l.older)
        /\ \A m \in 0 .. n1 - 1 : ~Fits(AfterSummaries(l, m))
  BY <1>1, SummariesStage
<1> DEFINE a == AfterSummaries(l, n1)
<1>3. a \in Layers /\ a.cast = l.cast /\ a.words = l.words
  BY AfterSummariesFacts
<1>4. UnrelatedCount(l.cast) \in Nat
  <2>1. 0 \in Nat
    OBVIOUS
  <2> QED
    BY <2>1, AfterUnrelatedFacts
<1> HIDE DEF a
<1>5. PICK n2 \in 0 .. UnrelatedCount(l.cast) :
        /\ DropUnrelated(a) = AfterUnrelated(a, n2)
        /\ Fits(AfterUnrelated(a, n2)) \/ n2 = UnrelatedCount(l.cast)
        /\ \A m \in 0 .. n2 - 1 : ~Fits(AfterUnrelated(a, m))
  <2>1. UnrelatedCount(a.cast) = UnrelatedCount(l.cast)
    BY <1>3, Zenon
  <2>2. \E n \in 0 .. UnrelatedCount(a.cast) :
           /\ DropUnrelated(a) = AfterUnrelated(a, n)
           /\ Fits(AfterUnrelated(a, n)) \/ n = UnrelatedCount(a.cast)
           /\ \A m \in 0 .. n - 1 : ~Fits(AfterUnrelated(a, m))
    BY <1>4, <2>1, UnrelatedStage
  <2> QED
    BY <2>1, <2>2, Zenon
<1>6. n2 \in Nat
  BY <1>4
<1> DEFINE b == AfterUnrelated(a, n2)
<1>7. b \in Layers /\ b.words = a.words /\ (n2 = 0 => b = a)
  BY <1>3, <1>6, AfterUnrelatedFacts
<1> HIDE DEF b
<1>8. LastWord(b) = LastWord(l) /\ Len(b.words) \in Nat
  BY <1>3, <1>7 DEF LastWord, Layers
<1>9. PICK n3 \in 0 .. LastWord(l) :
        /\ DropWords(b) = AfterWords(b, n3)
        /\ Fits(AfterWords(b, n3)) \/ n3 = LastWord(l)
        /\ \A m \in 0 .. n3 - 1 : ~Fits(AfterWords(b, m))
  BY <1>8, WordsStage
<1>10. Build(l) = AfterWords(b, n3)
  BY <1>2, <1>5, <1>9, Zenon DEF Build, a, b
<1>11. AfterUnrelated(a, 0) = a
  <2>1. 0 \in Nat
    OBVIOUS
  <2> QED
    BY <1>3, <2>1, AfterUnrelatedFacts
<1>12. AfterWords(b, 0) = b
  BY Zenon DEF AfterWords
<1>13. n2 > 0 => ~Fits(a) /\ n1 = Len(l.older)
  <2> SUFFICES ASSUME n2 > 0 PROVE ~Fits(a) /\ n1 = Len(l.older)
    OBVIOUS
  <2>1. 0 \in 0 .. n2 - 1
    BY <1>6
  <2>2. ~Fits(a)
    BY <1>5, <1>11, <2>1, Zenon
  <2> QED
    BY <1>2, <2>2, Zenon DEF a
<1>14. ~Fits(b) => n1 = Len(l.older) /\ n2 = UnrelatedCount(l.cast)
  <2> SUFFICES ASSUME ~Fits(b) PROVE n1 = Len(l.older) /\ n2 = UnrelatedCount(l.cast)
    OBVIOUS
  <2>1. n2 = UnrelatedCount(l.cast)
    BY <1>5, Zenon DEF b
  <2>2. n1 = Len(l.older)
    <3>1. CASE n2 = 0
      BY <1>2, <1>7, <3>1, Zenon DEF a
    <3>2. CASE n2 # 0
      BY <1>6, <1>13, <3>2
    <3> QED
      BY <3>1, <3>2
  <2> QED
    BY <2>1, <2>2
<1>15. n3 > 0 => ~Fits(b)
  <2> SUFFICES ASSUME n3 > 0 PROVE ~Fits(b)
    OBVIOUS
  <2>1. 0 \in 0 .. n3 - 1
    BY <1>8 DEF LastWord
  <2> QED
    BY <1>9, <1>12, <2>1, Zenon
<1>16. \/ Fits(AfterWords(b, n3))
       \/ n1 = Len(l.older) /\ n2 = UnrelatedCount(l.cast) /\ n3 = LastWord(l)
  <2> SUFFICES ASSUME ~Fits(AfterWords(b, n3))
               PROVE  n1 = Len(l.older) /\ n2 = UnrelatedCount(l.cast) /\ n3 = LastWord(l)
    BY Zenon
  <2>1. n3 = LastWord(l)
    BY <1>9, Zenon
  <2>2. n3 > 0
    BY <1>8, <2>1 DEF LastWord
  <2> QED
    BY <1>14, <1>15, <2>1, <2>2, Zenon
<1> QED
  BY <1>2, <1>5, <1>9, <1>10, <1>13, <1>14, <1>15, <1>16, Zenon DEF a, b

\* Build finds a context exactly if what may not be dropped fits.
LEMMA BuildFits ==
  ASSUME NEW l \in Layers
  PROVE  FitsIfPossible(l, Build(l))
<1>1. PICK n1 \in 0 .. Len(l.older), n2 \in 0 .. UnrelatedCount(l.cast), n3 \in 0 .. LastWord(l) :
        LET a == AfterSummaries(l, n1)
            b == AfterUnrelated(a, n2)
        IN  /\ Build(l) = AfterWords(b, n3)
            /\ \/ Fits(AfterWords(b, n3))
               \/ n1 = Len(l.older) /\ n2 = UnrelatedCount(l.cast) /\ n3 = LastWord(l)
  BY BuildStages
<1> DEFINE a == AfterSummaries(l, n1)
           b == AfterUnrelated(a, n2)
           d == AfterWords(b, n3)
           related == Sizes(RelatedOnly(l.cast))
<1>2. /\ a \in Layers /\ a.cast = l.cast /\ a.words = l.words /\ a.rest = l.rest
      /\ n1 = Len(l.older) => a.older = <<>>
  BY AfterSummariesFacts
<1> HIDE DEF a
<1>3. UnrelatedCount(l.cast) \in Nat
  <2>1. 0 \in Nat
    OBVIOUS
  <2> QED
    BY <2>1, AfterUnrelatedFacts
<1>4. /\ b \in Layers /\ b.older = a.older /\ b.words = l.words /\ b.rest = l.rest
      /\ RelatedOnly(l.cast) \in Seq(RelatedItems(People))
      /\ related <= Sizes(b.cast)
      /\ n2 = UnrelatedCount(l.cast) => b.cast = RelatedOnly(l.cast)
  <2>1. n2 \in Nat
    BY <1>3
  <2>2. /\ b \in Layers /\ b.older = a.older /\ b.words = a.words /\ b.rest = a.rest
        /\ RelatedOnly(a.cast) \in Seq(RelatedItems(People))
        /\ Sizes(RelatedOnly(a.cast)) <= Sizes(b.cast)
        /\ UnrelatedCount(a.cast) <= n2 => b.cast = RelatedOnly(a.cast)
    BY <1>2, <2>1, AfterUnrelatedFacts
  <2>3. n2 = UnrelatedCount(l.cast) => UnrelatedCount(l.cast) <= n2
    BY <1>3
  <2> HIDE DEF b
  <2> QED
    BY <1>2, <2>2, <2>3, Zenon
<1> HIDE DEF b
<1>5. LastWord(b) = LastWord(l) /\ LastWord(l) \in Nat \ {0}
  BY <1>4 DEF LastWord, Layers
<1>6. /\ d \in Layers /\ d.older = b.older /\ d.cast = b.cast /\ d.rest = l.rest
      /\ n3 = LastWord(l) => d.words = <<>> /\ d.blanks = 0
  <2>1. n3 \in 0 .. LastWord(b)
    BY <1>5
  <2>2. n3 = LastWord(l) => n3 > 0
    BY <1>5
  <2> QED
    BY <1>4, <1>5, <2>1, <2>2, AfterWordsFacts
<1> HIDE DEF d
<1>7. d.rest \in Nat /\ d.blanks \in Nat
  BY <1>6 DEF Layers
<1>8. related \in Nat
  <2>1. \A c \in RelatedItems(People) : c.size \in Nat
    BY DEF RelatedItems, People
  <2> QED
    BY <1>4, <2>1, SizesType
<1> HIDE DEF related
<1>9. /\ Length(d) \in Nat
      /\ Fits(d) <=> Length(d) <= 4 * Budget
      /\ Sizes(d.older) \in Nat /\ Sizes(d.cast) \in Nat /\ Total(d.words) \in Nat
      /\ Length(d) = d.rest + Sizes(d.older) + Sizes(d.cast) + Total(d.words) + d.blanks
  BY <1>6, LengthType
<1>10. EstimateTokens(l.rest + related) <= Budget <=> l.rest + related <= 4 * Budget
  <2>1. l.rest + related \in Nat
    BY <1>6, <1>7, <1>8
  <2> QED
    BY <2>1, TokensFit
<1>11. Fits(d) => l.rest + related <= 4 * Budget
  <2>1. l.rest + related <= Length(d)
    BY <1>4, <1>6, <1>7, <1>8, <1>9
  <2>2. 4 * Budget \in Nat
    BY BudgetAssumption
  <2> QED
    BY <1>6, <1>7, <1>8, <1>9, <2>1, <2>2
<1>12. l.rest + related <= 4 * Budget => Fits(d)
  <2> SUFFICES ASSUME l.rest + related <= 4 * Budget, ~Fits(d) PROVE FALSE
    OBVIOUS
  <2>1. n1 = Len(l.older) /\ n2 = UnrelatedCount(l.cast) /\ n3 = LastWord(l)
    BY <1>1, Zenon DEF a, b, d
  <2>2. d.older = <<>> /\ d.cast = RelatedOnly(l.cast) /\ d.words = <<>> /\ d.blanks = 0
    BY <1>2, <1>4, <1>6, <2>1, Zenon
  <2>3. Sizes(d.older) = 0 /\ Sizes(d.cast) = related /\ Total(d.words) = 0
    BY <2>2, SizesOfNone, TotalOfNone, Zenon DEF related
  <2>4. Length(d) = l.rest + related
    BY <1>6, <1>7, <1>8, <1>9, <2>2, <2>3
  <2> QED
    BY <1>9, <2>4
<1>13. d = Build(l)
  BY <1>1, Zenon DEF a, b, d
<1> QED
  BY <1>10, <1>11, <1>12, <1>13, Zenon DEF FitsIfPossible, related

\* Summaries of older scenes stand before those of still older ones.
Descending(older) == \A i, j \in DOMAIN older : i < j => older[j].scene < older[i].scene

\* Build drops in the right order and no more than it must.
LEMMA BuildDrops ==
  ASSUME NEW l \in Layers, Descending(l.older)
  PROVE  DropsByNeed(l, Build(l))
<1>1. PICK n1 \in 0 .. Len(l.older), n2 \in 0 .. UnrelatedCount(l.cast), n3 \in 0 .. LastWord(l) :
        LET a == AfterSummaries(l, n1)
            b == AfterUnrelated(a, n2)
        IN  /\ Build(l) = AfterWords(b, n3)
            /\ \A m \in 0 .. n1 - 1 : ~Fits(AfterSummaries(l, m))
            /\ \A m \in 0 .. n2 - 1 : ~Fits(AfterUnrelated(a, m))
            /\ \A m \in 0 .. n3 - 1 : ~Fits(AfterWords(b, m))
            /\ n2 > 0 => n1 = Len(l.older)
            /\ n3 > 0 => n1 = Len(l.older) /\ n2 = UnrelatedCount(l.cast)
  BY BuildStages
<1> DEFINE count == Len(l.older)
           size == Len(l.words)
           unrelated == UnrelatedCount(l.cast)
           a == AfterSummaries(l, n1)
           b == AfterUnrelated(a, n2)
           d == AfterWords(b, n3)
           noOlder == [l EXCEPT !.older = <<>>]
           noCast == [noOlder EXCEPT !.cast = RelatedOnly(@)]
<1>2. /\ l.older \in Seq(Items) /\ count \in Nat /\ DOMAIN l.older = 1 .. count
      /\ l.words \in Seq(Nat) /\ size \in Nat
      /\ l.cast \in Seq(People) /\ Len(l.cast) \in Nat
  BY DEF Layers
<1>3. /\ a \in Layers /\ a.cast = l.cast /\ a.words = l.words
      /\ a.older = SubSeq(l.older, 1, count - n1)
      /\ n1 = count => a.older = <<>>
  BY AfterSummariesFacts
<1>4. n1 = count => a = noOlder
  <2> SUFFICES ASSUME n1 = count PROVE a = noOlder
    OBVIOUS
  <2>1. SubSeq(l.older, 1, count - n1) = <<>>
    BY <1>3
  <2> QED
    BY <2>1, Zenon DEF AfterSummaries
<1> HIDE DEF a
<1>5. unrelated \in Nat /\ n2 \in Nat /\ n2 <= unrelated
  <2>1. 0 \in Nat
    OBVIOUS
  <2>2. unrelated \in Nat
    BY <2>1, AfterUnrelatedFacts
  <2> QED
    BY <2>2
<1>6. /\ b \in Layers /\ b.older = a.older /\ b.words = l.words
      /\ b.cast = WithoutUnrelated(l.cast, n2)
      /\ RelatedOnly(l.cast) \in Seq(RelatedItems(People))
      /\ Len(b.cast) = Len(l.cast) - n2
      /\ n2 = unrelated => b.cast = RelatedOnly(l.cast)
  <2>1. /\ b \in Layers /\ b.older = a.older /\ b.words = a.words
        /\ b.cast = WithoutUnrelated(a.cast, n2)
        /\ RelatedOnly(a.cast) \in Seq(RelatedItems(People))
        /\ UnrelatedCount(a.cast) <= n2 => b.cast = RelatedOnly(a.cast)
        /\ n2 <= UnrelatedCount(a.cast) => Len(b.cast) = Len(a.cast) - n2
    BY <1>3, <1>5, AfterUnrelatedFacts
  <2>2. n2 = unrelated => unrelated <= n2
    BY <1>5
  <2> HIDE DEF b
  <2> QED
    BY <1>3, <1>5, <2>1, <2>2, Zenon
<1>7. n1 = count /\ n2 = unrelated => b = noCast
  <2> SUFFICES ASSUME n1 = count, n2 = unrelated PROVE b = noCast
    OBVIOUS
  <2>1. b = [a EXCEPT !.cast = WithoutUnrelated(l.cast, n2)]
    BY <1>3, Zenon DEF AfterUnrelated, b
  <2>2. b = [a EXCEPT !.cast = RelatedOnly(l.cast)]
    BY <1>6, <2>1, Zenon
  <2>3. noCast = [noOlder EXCEPT !.cast = RelatedOnly(l.cast)]
    BY <1>3, <1>4, Zenon
  <2> QED
    BY <1>4, <2>2, <2>3, Zenon
<1> HIDE DEF b
<1>8. /\ LastWord(b) = LastWord(l) /\ n3 \in 0 .. LastWord(b)
      /\ LastWord(l) = IF size = 0 THEN 1 ELSE size
  BY <1>6 DEF LastWord
<1>9. /\ d \in Layers /\ d.older = b.older /\ d.cast = b.cast
      /\ n3 = 0 => d.words = l.words
      /\ n3 > 0 => size - Len(d.words) = IF size = 0 THEN 0 ELSE n3
  <2>1. /\ d \in Layers /\ d.older = b.older /\ d.cast = b.cast
        /\ n3 = 0 => d = b
        /\ n3 > 0 => Len(b.words) - Len(d.words) = IF Len(b.words) = 0 THEN 0 ELSE n3
    BY <1>6, <1>8, AfterWordsFacts
  <2> HIDE DEF d
  <2> QED
    BY <1>6, <2>1, Zenon
<1> HIDE DEF d
<1>10. n3 \in Nat
  BY <1>2, <1>8
<1>11. d = Build(l)
  BY <1>1, Zenon DEF a, b, d
<1>12. Len(d.older) = count - n1 /\ DOMAIN d.older = 1 .. count - n1 /\ count - n1 \in 0 .. count
       /\ \A i \in 1 .. count - n1 : d.older[i] = l.older[i]
  <2>1. count - n1 \in 0 .. count
    BY <1>2
  <2>2. d.older = SubSeq(l.older, 1, count - n1)
    BY <1>3, <1>6, <1>9, Zenon
  <2> QED
    BY <1>2, <2>1, <2>2
<1>13. \A i \in DOMAIN l.older : \A j \in DOMAIN d.older :
         l.older[i] \in ToSet(d.older) \/ l.older[i].scene < d.older[j].scene
  <2> SUFFICES ASSUME NEW i \in DOMAIN l.older, NEW j \in DOMAIN d.older,
                      l.older[i] \notin ToSet(d.older)
               PROVE  l.older[i].scene < d.older[j].scene
    OBVIOUS
  <2>1. i \notin DOMAIN d.older
    <3> SUFFICES ASSUME i \in DOMAIN d.older PROVE l.older[i] \in ToSet(d.older)
      OBVIOUS
    <3>1. d.older[i] = l.older[i]
      BY <1>12
    <3> QED
      BY <3>1 DEF ToSet
  <2>2. i \in Nat /\ j \in Nat /\ j < i /\ j \in DOMAIN l.older /\ d.older[j] = l.older[j]
    BY <1>2, <1>12, <2>1
  <2> QED
    BY <2>2 DEF Descending
<1>14. Len(d.older) < count => ~Fits([l EXCEPT !.older = SubSeq(@, 1, Len(d.older) + 1)])
  <2> SUFFICES ASSUME Len(d.older) < count
               PROVE  ~Fits([l EXCEPT !.older = SubSeq(@, 1, Len(d.older) + 1)])
    OBVIOUS
  <2>1. n1 - 1 \in 0 .. n1 - 1 /\ count - (n1 - 1) = Len(d.older) + 1
    BY <1>2, <1>12
  <2>2. ~Fits(AfterSummaries(l, n1 - 1))
    BY <1>1, <2>1, Zenon
  <2>3. AfterSummaries(l, n1 - 1) = [l EXCEPT !.older = SubSeq(@, 1, Len(d.older) + 1)]
    BY <2>1, Zenon DEF AfterSummaries
  <2> QED
    BY <2>2, <2>3, Zenon
<1>15. Len(l.cast) - Len(d.cast) = n2
  <2>1. Len(d.cast) = Len(l.cast) - n2
    BY <1>6, <1>9, Zenon
  <2> HIDE DEF count, size, unrelated, noOlder, noCast
  <2> QED
    BY <1>2, <1>5, <2>1
<1>16. n1 = count => Len(d.older) = 0
  BY <1>2, <1>12
<1>17. n2 > 0 => /\ Len(d.older) = 0
                 /\ ~Fits([noOlder EXCEPT !.cast = WithoutUnrelated(@, n2 - 1)])
  <2> SUFFICES ASSUME n2 > 0
               PROVE  /\ Len(d.older) = 0
                      /\ ~Fits([noOlder EXCEPT !.cast = WithoutUnrelated(@, n2 - 1)])
    OBVIOUS
  <2>1. n1 = count /\ n2 - 1 \in 0 .. n2 - 1
    BY <1>1, <1>5
  <2>2. ~Fits(AfterUnrelated(a, n2 - 1))
    BY <1>1, <2>1, Zenon DEF a
  <2>3. AfterUnrelated(a, n2 - 1) = [noOlder EXCEPT !.cast = WithoutUnrelated(@, n2 - 1)]
    BY <1>4, <2>1, Zenon DEF AfterUnrelated
  <2> QED
    BY <1>16, <2>1, <2>2, <2>3, Zenon
<1> DEFINE silent == size - Len(d.words)
<1>18. silent > 0 => silent = n3 /\ size # 0
  <2>1. CASE n3 = 0
    <3>1. silent = size - size
      BY <1>9, <2>1, Zenon
    <3> HIDE DEF size, silent
    <3> QED
      BY <1>2, <3>1
  <2>2. CASE n3 # 0
    <3>0. n3 > 0
      BY <1>10, <2>2
    <3>1. silent = IF size = 0 THEN 0 ELSE n3
      BY <1>9, <3>0, Zenon
    <3> HIDE DEF size, silent
    <3> QED
      BY <1>10, <3>1
  <2> QED
    BY <2>1, <2>2
<1>22. silent \in Int
  <2>1. Len(d.words) \in Nat
    BY <1>9 DEF Layers
  <2> HIDE DEF size
  <2> QED
    BY <1>2, <2>1
<1> HIDE DEF silent
<1>19. silent > 0 => /\ Len(d.older) = 0
                     /\ \A i \in DOMAIN d.cast : d.cast[i].related
                     /\ ~Fits(noCast)
  <2> SUFFICES ASSUME silent > 0
               PROVE  /\ Len(d.older) = 0
                      /\ \A i \in DOMAIN d.cast : d.cast[i].related
                      /\ ~Fits(noCast)
    OBVIOUS
  <2>1. n3 > 0 /\ 0 \in 0 .. n3 - 1
    <3> HIDE DEF size
    <3> QED
      BY <1>10, <1>18
  <2>2. n1 = count /\ n2 = unrelated
    BY <1>1, <2>1, Zenon
  <2>3. ~Fits(AfterWords(b, 0))
    BY <1>1, <2>1, Zenon DEF a, b
  <2>4. AfterWords(b, 0) = noCast
    BY <1>7, <2>2, Zenon DEF AfterWords
  <2>5. d.cast \in Seq(RelatedItems(People))
    BY <1>6, <1>9, <2>2, Zenon
  <2>6. \A i \in DOMAIN d.cast : d.cast[i] \in RelatedItems(People)
    BY <2>5
  <2> QED
    BY <1>16, <2>2, <2>3, <2>4, <2>6, Zenon DEF RelatedItems
<1>20. silent > 1 => ~Fits([noCast EXCEPT !.words = SubSeq(@, silent, Len(@)), !.blanks = size - silent])
  <2> SUFFICES ASSUME silent > 1
               PROVE  ~Fits([noCast EXCEPT !.words = SubSeq(@, silent, Len(@)), !.blanks = size - silent])
    OBVIOUS
  <2>1. silent = n3 /\ size # 0 /\ n3 > 1
    <3> HIDE DEF size
    <3> QED
      BY <1>10, <1>18, <1>22
  <2>2. n1 = count /\ n2 = unrelated
    BY <1>1, <1>10, <2>1
  <2>3. b = noCast
    BY <1>7, <2>2, Zenon
  <2>4. n3 - 1 \in 0 .. n3 - 1 /\ n3 - 1 # 0
    BY <1>10, <2>1
  <2>5. ~Fits(AfterWords(b, n3 - 1))
    BY <1>1, <2>4, Zenon DEF a, b
  <2>6. Len(b.words) = size /\ noCast.words = b.words
    BY <1>6, <2>3, Zenon
  <2>7. (n3 - 1) + 1 = silent /\ ~(n3 - 1 >= size) /\ size - (n3 - 1) - 1 = size - silent
    <3> HIDE DEF size
    <3>1. n3 <= size
      BY <1>2, <1>8, <2>1
    <3> QED
      BY <1>2, <1>10, <2>1, <3>1
  <2> HIDE DEF size, silent, noCast
  <2>8. AfterWords(b, n3 - 1) =
          [b EXCEPT !.words = SubSeq(@, (n3 - 1) + 1, Len(b.words)),
                    !.blanks = IF n3 - 1 >= Len(b.words) THEN 0 ELSE Len(b.words) - (n3 - 1) - 1]
    BY <2>4, Zenon DEF AfterWords
  <2>9. AfterWords(b, n3 - 1) =
          [noCast EXCEPT !.words = SubSeq(@, silent, Len(@)), !.blanks = size - silent]
    BY <2>3, <2>6, <2>7, <2>8, Zenon
  <2> QED
    BY <2>5, <2>9, Zenon
<1>21. DropsByNeed(l, d)
  <2> HIDE DEF a, b
  <2> USE DEF silent
  <2> QED
    BY <1>13, <1>14, <1>15, <1>17, <1>19, <1>20, Zenon DEF DropsByNeed
<1> QED
  BY <1>11, <1>21, Zenon

-----------------------------------------------------------------------------
(* The context of a scene *)

\* What the builder is given in a reachable state: lengths are numbers, and the
\* summaries of the older scenes stand the newest first.
LEMMA LayeredMemoryType ==
  ASSUME TypeOK, NEW unrelated
  PROVE  LayeredMemory(unrelated) \in Layers /\ Descending(LayeredMemory(unrelated).older)
<1> DEFINE recent == IF scenes < 2 THEN scenes ELSE 2
           Size(c) == CharacterLength
                        + FactLength * (Cardinality(c.facts) + Cardinality(DOMAIN c.relations))
           older == [i \in 1 .. scenes - recent |-> [scene |-> scenes - recent + 1 - i,
                                                     size |-> SummaryLength]]
           cast == [i \in DOMAIN Shown.cast |-> [size |-> Size(Shown.cast[i]),
                                                 related |-> i \notin unrelated]]
           rest == FixedLength + SceneLength * recent + ChoiceLength * chosen
                     + ClueLength * Cardinality(Shown.clues)
<1>1. /\ FixedLength \in Nat /\ SceneLength \in Nat /\ SummaryLength \in Nat /\ ChoiceLength \in Nat
      /\ ClueLength \in Nat /\ CharacterLength \in Nat /\ FactLength \in Nat
  BY LengthAssumption
<1>2. scenes \in Nat /\ recent \in Nat /\ scenes - recent \in Nat /\ chosen \in Nat
  BY DEF TypeOK
<1>3. Shown \in Memory
  <2>1. EmptyMemory(Roster, 0) \in Memory
    BY InputAssumption, EmptyMemoryType
  <2> QED
    BY <2>1, GivenType DEF Shown, TypeOK
<1>4. /\ Shown.cast \in Seq(Character) /\ IsFiniteSet(Shown.clues)
      /\ Shown.summary.words \in Seq(Nat) /\ Shown.summary.blanks \in Nat
  BY <1>3 DEF Memory, Summary, Finite
<1>5. Cardinality(Shown.clues) \in Nat
  BY <1>4, FS_CardinalityType
<1>6. \A m, n \in Nat : m * n \in Nat
  OBVIOUS
<1>7. rest \in Nat
  <2>1. /\ SceneLength * recent \in Nat /\ ChoiceLength * chosen \in Nat
        /\ ClueLength * Cardinality(Shown.clues) \in Nat
    <3> HIDE DEF recent
    <3> QED
      BY <1>1, <1>2, <1>5, <1>6
  <2> HIDE DEF recent
  <2> QED
    BY <1>1, <2>1
<1> HIDE DEF recent
<1>8. older \in Seq(Items) /\ Descending(older)
  <2>1. \A i \in 1 .. scenes - recent :
          [scene |-> scenes - recent + 1 - i, size |-> SummaryLength] \in Items
    BY <1>1, <1>2 DEF Items
  <2>2. older \in [1 .. scenes - recent -> Items]
    BY <2>1
  <2>3. older \in Seq(Items)
    BY <1>2, <2>2, SeqDef
  <2>4. DOMAIN older = 1 .. scenes - recent
    OBVIOUS
  <2>5. \A i \in 1 .. scenes - recent : older[i].scene = scenes - recent + 1 - i
    OBVIOUS
  <2> HIDE DEF older
  <2>6. \A i, j \in DOMAIN older : i < j => older[j].scene < older[i].scene
    BY <1>2, <2>4, <2>5
  <2> QED
    BY <2>3, <2>6 DEF Descending
<1>9. cast \in Seq(People)
  <2>1. Len(Shown.cast) \in Nat /\ DOMAIN Shown.cast = 1 .. Len(Shown.cast)
    BY <1>4
  <2>2. ASSUME NEW c \in Character PROVE Size(c) \in Nat
    <3>1. IsFiniteSet(c.facts)
      BY DEF Character, Finite
    <3>2. IsFiniteSet(DOMAIN c.relations)
      <4>1. c.relations \in Relations
        BY DEF Character
      <4>2. PICK names \in Finite(Names) : c.relations \in [names -> Texts]
        BY <4>1 DEF Relations
      <4> QED
        BY <4>2 DEF Finite
    <3>3. Cardinality(c.facts) \in Nat /\ Cardinality(DOMAIN c.relations) \in Nat
      BY <3>1, <3>2, FS_CardinalityType
    <3>4. Cardinality(c.facts) + Cardinality(DOMAIN c.relations) \in Nat
      BY <3>3
    <3>5. FactLength * (Cardinality(c.facts) + Cardinality(DOMAIN c.relations)) \in Nat
      BY <1>1, <1>6, <3>4
    <3> QED
      BY <1>1, <3>5
  <2> HIDE DEF Size
  <2>3. \A i \in DOMAIN Shown.cast :
          [size |-> Size(Shown.cast[i]), related |-> i \notin unrelated] \in People
    <3> SUFFICES ASSUME NEW i \in DOMAIN Shown.cast
                 PROVE  [size |-> Size(Shown.cast[i]), related |-> i \notin unrelated] \in People
      OBVIOUS
    <3>1. Shown.cast[i] \in Character
      BY <1>4
    <3>2. Size(Shown.cast[i]) \in Nat
      BY <2>2, <3>1
    <3> QED
      BY <3>2 DEF People
  <2>4. cast \in [1 .. Len(Shown.cast) -> People]
    BY <2>1, <2>3, Zenon
  <2> QED
    BY <2>1, <2>4, SeqDef
<1>10. LayeredMemory(unrelated) =
         [older |-> older, cast |-> cast, words |-> Shown.summary.words,
          blanks |-> Shown.summary.blanks, rest |-> rest]
  BY Zenon DEF LayeredMemory, recent
<1> HIDE DEF older, cast, rest
<1> QED
  BY <1>4, <1>7, <1>8, <1>9, <1>10 DEF Layers

\* The minimal context is used only when what may not be dropped exceeds the
\* budget by itself, whatever the memory has become.
THEOREM MinimalContextOnlyWhenForced == Spec => []MinimalOnlyWhenForced
<1>1. TypeOK => MinimalOnlyWhenForced
  <2> SUFFICES ASSUME TypeOK, NEW unrelated \in SUBSET DOMAIN Shown.cast
               PROVE  FitsIfPossible(LayeredMemory(unrelated), Build(LayeredMemory(unrelated)))
    BY Zenon DEF MinimalOnlyWhenForced, ForEveryContext
  <2> QED
    BY LayeredMemoryType, BuildFits
<1> QED
  BY <1>1, MemoryTypeCorrect, PTL

\* In every context of a scene the builder drops the old before the new,
\* summaries before characters before words, and nothing there was room for.
THEOREM ContextDropsByNeed == Spec => []NothingDroppedInVain
<1>1. TypeOK => NothingDroppedInVain
  <2> SUFFICES ASSUME TypeOK, NEW unrelated \in SUBSET DOMAIN Shown.cast
               PROVE  DropsByNeed(LayeredMemory(unrelated), Build(LayeredMemory(unrelated)))
    BY Zenon DEF NothingDroppedInVain, ForEveryContext
  <2> QED
    BY LayeredMemoryType, BuildDrops
<1> QED
  BY <1>1, MemoryTypeCorrect, PTL
=============================================================================
