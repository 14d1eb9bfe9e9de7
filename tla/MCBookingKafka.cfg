SPECIFICATION Spec
CONSTANTS
  alice = alice
  bob = bob
  t1 = t1
  t2 = t2
  wa = wa
  wb = wb
  Users = {alice, bob}
  Wallets = {wa, wb}
  WalletIds = {wa, wb}
  Owner <- MCOwner
  Price <- MCPrice
  Amounts = {1}
  SeatPrice = 1
  Tickets = {t1, t2}
  TicketIds = {t1, t2}
  Requests <- AllRequests
  CancelCalls <- AliceCancels
  MaxCash = 1
  KafkaEnabled = TRUE
  NumPartitions = 1
  PartitionOf <- OnePartition
  Faults <- SafeFaults
  MaxFaults = 2
INVARIANTS
  TypeOK
  SoldMeansConfirmed
  MoneyConserved
  RejectedNeverCharged
  PendingIsCarried
PROPERTIES
  ConfirmedNeverFails
  ImplementsSale
CHECK_DEADLOCK FALSE
