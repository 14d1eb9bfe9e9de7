SPECIFICATION Spec
CONSTANTS
  alice = alice
  bob = bob
  e1 = e1
  first = first
  second = second
  NoEvent = NoEvent
  NoText = NoText
  EventIds = {e1}
  Users = {alice, bob}
  Texts <- MCTexts
  Calls <- MCCalls
  EsEnabled = TRUE
  Faults = {}
  MaxFaults = 1
INVARIANTS
  CapacityNeverExceeded
CHECK_DEADLOCK FALSE
