--------------------------- MODULE BibleResponse ---------------------------
(***************************************************************************)
(* generate_validated_bible of services/bible.py: two attempts at an       *)
(* answer of the model, and, when neither is valid, a last resort that     *)
(* makes the bundle from the last answer and the story's settings.         *)
(*                                                                         *)
(* An answer is a JSON object.  text is one of the texts that it must      *)
(* bring: world_rules, tone_rules or protagonist_core, or goal or conflict *)
(* of first_arc.  aliases tells which kinds of other names have a text:    *)
(*   shared      known to both parts: world_setting, tone, protagonist,    *)
(*               initial_arc, arc_goal, main_conflict ...                  *)
(*   normalised  known to _normalize_bible_response only: worldRules,      *)
(*               toneRules, protagonistCore, opening_arc, arcGoal ...      *)
(*   fallback    known to _lenient_bible_fallback only: style, hero,       *)
(*               and Chinese names                                         *)
(* rest says whether every other field has the type that is asked for; the *)
(* repairs of optional fields are left out.                                *)
(***************************************************************************)
EXTENDS Naturals

VARIABLES
  attempt,       \* attempts that have been answered
  lastRaw,       \* last_raw, the last answer that could be parsed
  outcome        \* what generate_validated_bible returns or raises

responseVars == <<attempt, lastRaw, outcome>>

Values == {"absent", "blank", "text", "other"}

Aliases == {"shared", "normalised", "fallback"}

\* A character has a name and a role in text, alone or with known facts, secrets,
\* relationships or a death, a name that is no string, no name, a name or role of
\* blanks, or is no object at all.  No list of characters is like an empty one; the
\* fallback's other name for the list is left out.
Entries == {"named", "detailed", "odd", "unnamed", "blank", "stray"}

Answers == [text : Values, aliases : SUBSET Aliases, characters : SUBSET Entries, rest : BOOLEAN]

Nothing == [text |-> "absent", aliases |-> {}, characters |-> {}, rest |-> TRUE]

\* The result is a bundle, with where its text comes from and its characters, or
\* "waiting", "request" (the model client's error) or "raised" (a ValidationError).
Without(result) == [result |-> result, text |-> "none", characters |-> {}]

Bundle(text, characters) == [result |-> "bundle", text |-> text, characters |-> characters]

ResponseInit ==
  /\ attempt = 0
  /\ lastRaw = Nothing
  /\ outcome = Without("waiting")

-----------------------------------------------------------------------------
\* _normalize_bible_response: an alias counts where the field itself is missing.
Normalized(answer) ==
  [answer EXCEPT !.text = IF @ = "absent" /\ answer.aliases \cap {"shared", "normalised"} # {}
                          THEN "text" ELSE @,
                 !.characters = @ \ {"stray"}]

\* GeneratedBiblePayload.model_validate
Valid(answer) ==
  /\ answer.text = "text"
  /\ answer.characters # {} /\ answer.characters \subseteq {"named", "detailed"}
  /\ answer.rest

\* _lenient_bible_fallback looks at the answer as it came.  It takes blanks for a
\* name, which GeneratedCharacter refuses, and of a character only its name, role,
\* location and motivation.
Fallback(answer) ==
  LET text == IF answer.text = "text" \/ answer.aliases \cap {"shared", "fallback"} # {}
              THEN "answer" ELSE "settings"
      usable == (answer.characters \cap {"named", "odd"})
                  \cup (IF "detailed" \in answer.characters THEN {"named"} ELSE {})
  IN  IF "blank" \in answer.characters THEN Without("raised")
      ELSE Bundle(text, IF usable = {} THEN {"protagonist"} ELSE usable)

-----------------------------------------------------------------------------
Asking == outcome = Without("waiting") /\ attempt < 2

AnswerArrives(answer) ==
  /\ Asking
  /\ attempt' = attempt + 1
  /\ lastRaw' = answer
  /\ outcome' = IF Valid(Normalized(answer)) THEN Bundle("answer", Normalized(answer).characters)
                ELSE outcome

\* No JSON object: the answer before, if any, stays last_raw.
Unparsable ==
  /\ Asking
  /\ attempt' = attempt + 1
  /\ UNCHANGED <<lastRaw, outcome>>

RequestFails ==
  /\ Asking
  /\ outcome' = Without("request")
  /\ UNCHANGED <<attempt, lastRaw>>

LastResort ==
  /\ outcome = Without("waiting") /\ attempt = 2
  /\ outcome' = Fallback(lastRaw)
  /\ UNCHANGED <<attempt, lastRaw>>

ResponseNext ==
  \/ \E answer \in Answers : AnswerArrives(answer)
  \/ Unparsable
  \/ RequestFails
  \/ LastResort

ResponseSpec == ResponseInit /\ [][ResponseNext]_responseVars

-----------------------------------------------------------------------------
\* The bundle is made of whatever can be extracted from the answer (bible.py:222):
\* a text that validation would have taken does not give way to the settings, and a
\* character that it would have taken is stored as it came.  It is not so: the two
\* parts know different aliases, and the fallback reduces every character.
AnswerIsKept ==
  outcome.result = "bundle" =>
    /\ Normalized(lastRaw).text = "text" => outcome.text = "answer"
    /\ lastRaw.characters \cap {"named", "detailed"} \subseteq outcome.characters

=============================================================================
