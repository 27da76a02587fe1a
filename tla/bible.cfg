CONSTANTS
  Requests = {r1, r2, r3}
  Confirmations = {c1, c2}
  MaxVersion = 6
  MaxBundles = 4
SPECIFICATION DbSpec
INVARIANTS DbTypeOK OneBundle ReadyStoryIsComplete ConfirmationStands
PROPERTIES AcceptedBibleStands HandlersAreSteps
