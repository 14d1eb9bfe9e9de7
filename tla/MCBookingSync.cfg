SPECIFICATION Spec
CONSTANTS
  alice = alice
  bob = bob
  t1 = t1
  t2 = t2
  wa = wa
  wb = wb
  Users = {alice, bob}
  Wallets = {wa, wb}
  WalletIds = {wa, wb}
  Owner <- MCOwner
  Price <- MCPrice
  Amounts = {1}
  SeatPrice = 1
  Tickets = {t1}
  TicketIds = {t1, t2}
  Requests <- BadRequests
  CancelCalls <- TwoCancels
  MaxCash = 1
  KafkaEnabled = FALSE
  NumPartitions = 1
  PartitionOf <- OnePartition
  Faults = {"crash", "redisError", "readError", "txError", "statusError"}
  MaxFaults = 2
INVARIANTS
  SoldMeansConfirmed
  MoneyConserved
  RejectedNeverCharged
CHECK_DEADLOCK FALSE
