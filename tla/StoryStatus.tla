---------------------------- MODULE StoryStatus ----------------------------
(***************************************************************************)
(* The status of a story and the table of legal status changes.            *)
(* src/src/storyflow/domain/enums.py, domain/state_machine.py              *)
(***************************************************************************)
EXTENDS Naturals, Sequences

StoryStatus == {"DRAFT", "IDLE", "PLANNING", "STREAMING", "COMMITTING",
                "WAITING_CHOICE", "PAUSED", "ERROR"}

\* Statuses a story has while a scene is being produced.
ActiveStatuses == {"PLANNING", "STREAMING", "COMMITTING"}

ValidTransitions ==
  [DRAFT          |-> {"IDLE"},
   IDLE           |-> {"PLANNING", "PAUSED", "ERROR"},
   PLANNING       |-> {"STREAMING", "ERROR", "PAUSED"},
   STREAMING      |-> {"COMMITTING", "ERROR", "PAUSED"},
   COMMITTING     |-> {"IDLE", "WAITING_CHOICE", "ERROR", "PAUSED"},
   WAITING_CHOICE |-> {"IDLE", "PAUSED", "ERROR"},
   PAUSED         |-> {"IDLE", "ERROR"},
   ERROR          |-> {"IDLE", "PAUSED"}]

CanTransition(current, target) == target \in ValidTransitions[current]

\* A list of statuses that the transition table allows one after the other.
LegalSequence(statuses) ==
  \A i \in 1 .. Len(statuses) - 1 : CanTransition(statuses[i], statuses[i + 1])

=============================================================================
