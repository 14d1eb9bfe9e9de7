SPECIFICATION HistorySpec
CONSTANTS
  alice = alice
  bob = bob
  t1 = t1
  t2 = t2
  wa = wa
  wb = wb
  Users = {alice, bob}
  Wallets = {wa}
  WalletIds = {wa}
  Owner <- AliceOwns
  Price <- MCPrice
  Amounts = {1}
  SeatPrice = 1
  Tickets = {t1}
  TicketIds = {t1}
  Requests <- ThreeForOne
  CancelCalls <- AliceCancels
  MaxCash = 1
  KafkaEnabled = TRUE
  NumPartitions = 1
  PartitionOf <- OnePartition
  Faults <- FaultKinds
  MaxFaults = 2
INVARIANTS
  ConfirmedSeatIsHeld
  NoMoneyCreated
  GateExclusive
PROPERTIES
  OverwrittenOnlyBlindly
  RechargedOnlyByRedelivery
CHECK_DEADLOCK FALSE
