SPECIFICATION Spec
CONSTANTS
  Modes <- AllModes
  ModuleCount = 2
  MaxTags = 2
  MaxOverdue = 1
  MaxKills = 1
INVARIANTS TypeOK LeavesNothing TagsAreTheModules OverlapsAreOverdue LatePollsAreFew
PROPERTIES HeardSignalEnds EveryModuleIsPolled LeftoverIsRefused
CHECK_DEADLOCK FALSE
