---------------------------- MODULE BookingData ----------------------------
(***************************************************************************)
(* The data of the booking subsystem: the rows that exist before a run,    *)
(* the calls that clients make during it, and the events the environment   *)
(* may interfere with.                                                     *)
(*                                                                         *)
(* A POST /api/bookings call is a record of its arguments; the same record *)
(* names the bookings row the call creates (the row keeps exactly these    *)
(* arguments, and its auto-increment id is opaque) and is the Kafka        *)
(* message that carries it (bookingMessage has the same four fields).      *)
(***************************************************************************)
EXTENDS Integers, Sequences, FiniteSets

CONSTANTS
  Users,          \* members; the caller of a request is one of them
  Tickets,        \* ids that have a row in table tickets
  TicketIds,      \* ids a client may name, with or without a row
  Wallets,        \* ids that have a row in table wallets
  WalletIds,      \* ids a client may name, with or without a row
  Owner,          \* wallets.user_id
  Price,          \* tickets.price, never updated by any operation
  Requests,       \* the POST /api/bookings calls of the run
  CancelCalls,    \* the DELETE /api/bookings/{id} calls of the run
  Amounts,        \* amounts of wallet deposits and withdrawals
  MaxCash,        \* bound on the money a wallet is ever topped up to
  KafkaEnabled,   \* FALSE: the service was built with a nil Kafka writer
  NumPartitions,  \* partitions of the booking topic
  PartitionOf,    \* the writer's hash balancer: ticket id -> partition
  Faults,         \* the environment events this run admits
  MaxFaults       \* bound on how many of them happen

(***************************************************************************)
(* What the environment can do to the service.  "expire" is the TTL of a   *)
(* claim running out, which is not bounded by MaxFaults.                   *)
(***************************************************************************)
FaultKinds ==
  { "expire",       \* a 30s claim elapses before its holder is done
    "crash",        \* the process stops and restarts
    "rejoin",       \* the consumer group re-forms, reading resumes from the
                    \* committed offset while the process lives on
    "commitError",  \* CommitMessages returns an error
    "writeError",   \* WriteMessages returns an error, nothing is stored
    "writeGhost",   \* WriteMessages returns an error, the message is stored
    "writeLost",    \* WriteMessages returns nil, nothing is stored
    "redisError",   \* a Redis command fails
    "readError",    \* a SELECT fails; FindByID reports "does not exist"
    "txError",      \* an INSERT or a transaction fails and is rolled back
    "answerLost",   \* one is carried out, but reported as failed
    "statusError" } \* an UpdateStatus outside a transaction fails

Partitions == 0..(NumPartitions - 1)

RequestCalls ==
  [id : Nat, user : Users, ticket : TicketIds, wallet : WalletIds]

ASSUME DataAssumption ==
  /\ Tickets \subseteq TicketIds
  /\ Wallets \subseteq WalletIds
  /\ Owner \in [Wallets -> Users]
  /\ Price \in [Tickets -> Nat]
  /\ Requests \subseteq RequestCalls
  /\ CancelCalls \subseteq [id : Nat, user : Users, booking : Requests]
  /\ Amounts \subseteq Nat \ {0}
  /\ MaxCash \in Nat
  /\ KafkaEnabled \in BOOLEAN
  /\ NumPartitions \in Nat \ {0}
  /\ PartitionOf \in [TicketIds -> Partitions]
  /\ Faults \subseteq FaultKinds
  /\ MaxFaults \in Nat
=============================================================================
