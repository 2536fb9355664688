SPECIFICATION FairSpec
CONSTANT MaxGeneration = 5
INVARIANTS OneWorker EmulatorIsCurrent
  OverridesAreCurrent SaveErrorsAreShown NothingRunsAfterClose
PROPERTIES RestartsComplete CloseCompletes
CHECK_DEADLOCK FALSE
