CONSTANTS
  Names <- MCNames
  Folded <- MCFolded
  Texts <- MCTexts
  Roster <- MCRoster
  SceneUpdates <- MCSceneUpdates
  ChoiceEffects <- MCChoiceEffects
  Summaries <- MCSummaries
  RollingInterval = 2
  MaxScenes = 4
  Budget = 15
  FixedLength = 10
  SceneLength = 8
  SummaryLength = 5
  ChoiceLength = 6
  ClueLength = 4
  CharacterLength = 7
  FactLength = 3
SPECIFICATION Spec
INVARIANTS TypeOK MinimalOnlyWhenForced NothingDroppedInVain
PROPERTIES ChoiceAddsNoDouble ChoiceOnlyAdds VersionsCountChoices
CHECK_DEADLOCK FALSE
