SPECIFICATION FairSpec
CONSTANTS
  Projects <- MCProjects
  Toolboxes <- MCToolboxes
  RunInit = TRUE
  MaxStarts = 2
INVARIANTS TypeOK ValidIsTrueOfTheProject
PROPERTIES EveryValidationEnds
