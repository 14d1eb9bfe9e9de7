SPECIFICATION Spec
CONSTANTS
  NumMigrations = 7
  Requires <- MCRequires
  MaxFaults = 2
INVARIANTS
  ServesWholeSchema
