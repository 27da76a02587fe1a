---------------------------- MODULE ChoicePolicy ----------------------------
(***************************************************************************)
(* When a scene may end with a choice: the deterministic rule that is      *)
(* applied to the Director's suggestion.                                   *)
(* src/src/storyflow/services/choice_policy.py                             *)
(***************************************************************************)
EXTENDS Naturals

Frequencies == {"FEW", "MEDIUM", "MANY"}

Decisions == {"continue", "accept", "force", "pause"}

\* The scene-distance bounds of one configured frequency.
MinInterval(frequency) ==
  CASE frequency = "FEW" -> 4 [] frequency = "MEDIUM" -> 2 [] frequency = "MANY" -> 1

MaxInterval(frequency) ==
  CASE frequency = "FEW" -> 5 [] frequency = "MEDIUM" -> 3 [] frequency = "MANY" -> 2

(***************************************************************************)
(* distance: completed scenes of the branch after its latest choice.       *)
(* valid: the plan suggests a choice with a reason and three distinct      *)
(* options that have effects.                                              *)
(***************************************************************************)
EvaluatePolicy(frequency, distance, valid) ==
  CASE distance < MinInterval(frequency)  -> "continue"
    [] /\ distance >= MinInterval(frequency)
       /\ distance < MaxInterval(frequency) -> IF valid THEN "accept" ELSE "continue"
    [] distance >= MaxInterval(frequency) -> IF valid THEN "force" ELSE "pause"

=============================================================================
