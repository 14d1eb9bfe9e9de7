SPECIFICATION Spec
CONSTANTS
  Emails = {m1, m2}
  Secrets = {s1, s2}
  Names = {n1, n2}
  Malformed = Malformed
  Calls = {c1, c2, c3, c4, c5}
  None = None
  Faults <- SessionFaultKinds
  MaxFaults = 2
SYMMETRY Interchangeable
INVARIANTS
  TypeOK
  ActsForItsMember
PROPERTIES
  LoggedOutStaysOut
  RenamedByItsOwner
  ImplementsMembership
CHECK_DEADLOCK FALSE
