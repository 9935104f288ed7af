SPECIFICATION Spec
CONSTANTS
  Selects <- SomeSelects
  Modes = {0, 2, 3}
  Regions = {0, 1, 6}
  Powers <- SomePowers
  FactorySelect <- SomeFactorySelect
  FactoryPower <- SomeFactoryPower
  QueryWords <- SomeQueryWords
  Masks = {"a", "b"}
  ModuleErrors = {21}
  MaxCalls = 3
INVARIANTS TypeOK CallersKnow SettingsAreLegal QueryReadsBack
CHECK_DEADLOCK FALSE
