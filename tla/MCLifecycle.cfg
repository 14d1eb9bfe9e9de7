SPECIFICATION LifeSpec
CONSTANTS
  NumMigrations = 7
  Requires <- MCRequires
  MaxFaults = 2
  Handlers = {h1, h2}
  MaxSent = 2
  MaxSignals = 1
  MaxErrors = 1
INVARIANTS
  LifeTypeOK
  SkippedOnlyByFaults
  NothingClosedInUse
  CommittedWasHandled
  CrashRepeatsOne
PROPERTIES
  NothingRunsTwice
  StartsInTheEnd
  StopsInTheEnd
  HandledInTheEnd
CHECK_DEADLOCK FALSE
