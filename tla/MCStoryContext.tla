--------------------------- MODULE MCStoryContext ---------------------------
(* An instance of StoryContext for TLC: An, who may be spelt AN, and Bo. *)
EXTENDS StoryContext

MCNames == {"An", "AN", "Bo"}
MCTexts == {"past", "secret", "friend", "search", "key"}
MCFolded(n) == IF n = "Bo" THEN "bo" ELSE "an"

Nobody == <<>>
Befriends(name) == name :> "friend"

Someone(name, facts, version) ==
  [name |-> name, facts |-> facts, relations |-> Nobody, version |-> version]

MCRoster == <<Someone("An", {"past"}, 1)>>

Plants == [id |-> "key", open |-> TRUE]
Resolves == [id |-> "key", open |-> FALSE]

NoUpdate == [cast |-> {}, threads |-> {}, clues |-> {}, summary |-> {}]

\* The model adds Bo, lists An twice, resolves what it plants, or answers with
\* a blank summary.
MCSceneUpdates ==
  {[NoUpdate EXCEPT !.cast = {<<Someone("An", {}, 2), Someone("Bo", {}, 1)>>},
                    !.clues = {<<Plants>>}],
   [NoUpdate EXCEPT !.cast = {<<Someone("AN", {"past"}, 1), Someone("An", {}, 1)>>}],
   [NoUpdate EXCEPT !.clues = {<<Plants, Resolves>>}, !.threads = {{}}],
   [NoUpdate EXCEPT !.summary = {[words |-> <<>>, blanks |-> 9]}]}

Patch(name, hasRole) ==
  [name |-> name, facts |-> {"secret"}, relations |-> Nobody, hasRole |-> hasRole]

Change(name, relations) == [name |-> name, relations |-> relations]

NoEffects == [threads |-> {}, clues |-> {}, states |-> <<>>, relations |-> <<>>]

\* A route; a clue; a patch; a newcomer who is related at once; the same
\* character under two spellings and twice; a relation of one who may be unknown.
MCChoiceEffects ==
  {[NoEffects EXCEPT !.threads = {"search"}],
   [NoEffects EXCEPT !.clues = {"key"}, !.states = <<Patch("AN", FALSE)>>],
   [NoEffects EXCEPT !.states = <<Patch("Bo", TRUE)>>,
                     !.relations = <<Change("Bo", Befriends("An"))>>],
   [NoEffects EXCEPT !.states = <<Patch("AN", TRUE), Patch("An", TRUE)>>,
                     !.relations = <<Change("AN", Nobody)>>],
   [NoEffects EXCEPT !.relations = <<Change("Bo", Befriends("AN"))>>]}

MCSummaries == {[words |-> <<4, 6>>, blanks |-> 1], [words |-> <<9>>, blanks |-> 2]}

=============================================================================
