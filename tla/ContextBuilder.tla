--------------------------- MODULE ContextBuilder ---------------------------
(***************************************************************************)
(* The selection of context layers for a token budget:                     *)
(* src/src/storyflow/services/context_builder.py.                          *)
(*                                                                         *)
(* A text is its length.  Layers hold what the loops can drop, and the     *)
(* total length of what they cannot (fixed memory, arc, open clues,        *)
(* choices, the two latest scenes):                                        *)
(*   older    [scene, size] of older scenes' summaries, the newest first   *)
(*   cast     [size, related] of each character                            *)
(*   words    words of the rolling summary                                 *)
(*   blanks   white space between and around them                          *)
(*   rest     everything else                                              *)
(***************************************************************************)
EXTENDS Integers, SequencesExt

CONSTANT Budget  \* budget_tokens

ASSUME BudgetAssumption == Budget \in Nat

Total(lengths) == FoldLeft(LAMBDA sum, n : sum + n, 0, lengths)

Sizes(items) == FoldLeft(LAMBDA sum, item : sum + item.size, 0, items)

Length(layers) ==
  layers.rest + Sizes(layers.older) + Sizes(layers.cast) + Total(layers.words)
    + layers.blanks

\* Four characters to a token, rounded up.
EstimateTokens(length) == (length + 3) \div 4

Fits(layers) == EstimateTokens(Length(layers)) <= Budget

\* A while loop: the first round at which it stops.
FirstRound(rounds, Stops(_)) == CHOOSE n \in rounds : Stops(n) /\ \A m \in rounds : Stops(m) => n <= m

-----------------------------------------------------------------------------
\* Mutant: the newest of the older summaries go first.
DropSummariesNewestFirst(layers) ==
  LET After(n) == [layers EXCEPT !.older = SubSeq(@, n + 1, Len(@))]
      count == Len(layers.older)
  IN  After(FirstRound(0 .. count, LAMBDA n : Fits(After(n)) \/ n = count))

\* The oldest scene's summary goes first.
DropSummaries(layers) ==
  LET After(n) == [layers EXCEPT !.older = SubSeq(@, 1, Len(@) - n)]
      count == Len(layers.older)
  IN  After(FirstRound(0 .. count, LAMBDA n : Fits(After(n)) \/ n = count))

\* The cast without its first n unrelated characters.
WithoutUnrelated(cast, n) ==
  LET Dropped(i) == ~cast[i].related /\ Cardinality({j \in 1 .. i : ~cast[j].related}) <= n
      kept == {i \in DOMAIN cast : ~Dropped(i)}
  IN  [i \in 1 .. Cardinality(kept) |-> cast[CHOOSE k \in kept : Cardinality({j \in kept : j <= k}) = i]]

UnrelatedCount(cast) == Cardinality({i \in DOMAIN cast : ~cast[i].related})

DropUnrelated(layers) ==
  LET After(n) == [layers EXCEPT !.cast = WithoutUnrelated(@, n)]
      count == UnrelatedCount(layers.cast)
  IN  After(FirstRound(0 .. count, LAMBDA n : Fits(After(n)) \/ n = count))

\* Mutant: a summary without words stays.
DropWordsOnly(layers) ==
  LET count == Len(layers.words)
      After(n) == IF n = 0 THEN layers
                  ELSE [layers EXCEPT !.words = SubSeq(@, n + 1, count),
                                      !.blanks = IF n = count THEN 0 ELSE count - n - 1]
  IN  After(FirstRound(0 .. count, LAMBDA n : Fits(After(n)) \/ n = count))

\* Words go from the front, the others are joined by single blanks; a summary
\* without any word is cleared.
DropWords(layers) ==
  LET count == Len(layers.words)
      After(n) == IF n = 0 THEN layers
                  ELSE [layers EXCEPT !.words = SubSeq(@, n + 1, count),
                                      !.blanks = IF n >= count THEN 0 ELSE count - n - 1]
      last == IF count = 0 THEN 1 ELSE count
  IN  After(FirstRound(0 .. last, LAMBDA n : Fits(After(n)) \/ n = last))

\* Layers that do not fit when everything was dropped are a ContextBudgetError.
Build(layers) == DropWords(DropUnrelated(DropSummaries(layers)))
=============================================================================
