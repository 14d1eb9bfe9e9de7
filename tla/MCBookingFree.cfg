SPECIFICATION Spec
CONSTANTS
  alice = alice
  bob = bob
  t1 = t1
  t2 = t2
  wa = wa
  wb = wb
  Users = {alice, bob}
  Wallets = {wa, wb}
  WalletIds = {wa, wb}
  Owner <- MCOwner
  Price <- MCPrice
  Amounts = {1}
  SeatPrice = 0
  Tickets = {t1}
  TicketIds = {t1}
  Requests <- RaceRequests
  CancelCalls <- AliceCancels
  MaxCash = 1
  KafkaEnabled = TRUE
  NumPartitions = 1
  PartitionOf <- OnePartition
  Faults = {}
  MaxFaults = 1
PROPERTIES
  RefusedMeansShort
CHECK_DEADLOCK FALSE
