CONSTANTS
  Names <- MCNames
  Folded <- MCFolded
  Texts <- MCTexts
  Roster <- MCRoster
  SceneUpdates <- MCSceneUpdates
  ChoiceEffects <- MCChoiceEffects
  Summaries <- MCSummaries
  RollingInterval = 2
  MaxScenes = 2
  Budget = 15
  FixedLength = 10
  SceneLength = 8
  SummaryLength = 5
  ChoiceLength = 6
  ClueLength = 4
  CharacterLength = 7
  FactLength = 3
SPECIFICATION Spec
PROPERTY RollupKeepsCast
CHECK_DEADLOCK FALSE
