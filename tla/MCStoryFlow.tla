---------------------------- MODULE MCStoryFlow ----------------------------
(* Instances of StoryFlow, and the schema it writes to, for TLC. *)
EXTENDS StoryFlow, Schema, TLC

Symmetry == Permutations(Keys) \cup Permutations(Tasks)
=============================================================================
