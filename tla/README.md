# A TLA+ model of simple-web-app

`simple-web-app` is a Go service that sells concert tickets. Members keep wallets,
organizers publish events and put tickets on sale, and members book tickets through a
Redis gate, a Kafka topic and a MySQL transaction. This directory models the parts of it
where the order of things matters, checks them with TLC on small instances, and proves the
main invariants with TLAPS for every instance.

Names of files below are relative to `src/`, unless they end in `.tla` or `.cfg`.

## 1. Inventory

| component | state | operations | talks to |
|---|---|---|---|
| booking service (`internal/booking`) | table `bookings`; while a request runs, its local variables | `Queue`, `Cancel`, `processBooking`/`fail`, reads | ticket and wallet repositories in one MySQL transaction, Redis, Kafka |
| booking consumer (`booking/consumer.go`) | the message in hand | `Run`: fetch, process, commit | Kafka reader, booking service |
| claim gate (Redis) | key `ticket:claim:{id}`: absent, with a 30s TTL, or permanent | SETNX, PERSIST, DEL, expiry | used by `Queue`, `Cancel`, `processBooking`, `fail` |
| booking topic (Kafka) | a log per partition, the group's committed offsets, the reader's position | write, fetch, commit, rejoin | written by `Queue`, read by the consumer |
| wallet (`internal/wallet`) | table `wallets` | create, deposit, withdraw, reads | charged and refunded by the booking transactions |
| ticket (`internal/ticket`) | table `tickets` | `BatchCreate`, `MarkSold`, `MarkAvailable`, reads | reads events; written by the booking transactions |
| event (`internal/event`) | table `events` | create, update, delete, search | MySQL, then Elasticsearch |
| search index (Elasticsearch) | a document per event | index, remove, search | event service only |
| user and session (`internal/user`) | table `users`, Redis keys `session:{token}` | register, login, authenticate, logout, rename | every protected route |
| migrations (`internal/infra/migrate.go`, `migrations/`) | the schema, `schema_migrations` (version, dirty) | up, force | MySQL, once per start |
| process (`cmd/main/main.go`) | the goroutines of one process | start, serve, graceful stop | everything |
| handlers, routes | none | decode, call one service method, encode | the services |

What is hard here:

- **Interleaving.** Handlers run concurrently with one another and with the consumer. Each
  makes several calls to Redis, MySQL and Kafka, with no lock across them.
- **Checks that go stale.** `Queue` reads the ticket and the balance long before the
  transaction uses them. `BatchCreate` counts, compares and inserts. `Update` writes back
  the whole row it has read.
- **Crash and redelivery.** The consumer commits its offset after its work, so a crash or a
  rebalance shows it a message again whose booking is confirmed, cancelled or failed by now.
- **A claim with a TTL** that may run out under its holder, and a `DEL` that removes
  whatever claim is there.
- **Dual writes without a transaction**: MySQL and Redis, MySQL and Kafka, MySQL and
  Elasticsearch.
- **Errors that read as data.** `FindByID` reports every error as "does not exist",
  `CountByEvent` reports it as 0; `UpdateStatus`, `Delete`, `UpdateName` and the `DEL` of a
  logout are not checked at all.
- **One context for two goroutines, and a time limit on one of them.** A signal cancels the
  HTTP server and the consumer together, main waits eight seconds for the consumer and then
  closes the Kafka reader and writer under it.

What makes each component correct:

- booking: a ticket is sold exactly when one booking of it is confirmed; wallets hold what
  was put in less what confirmed bookings cost; an accepted booking is never lost; a
  rejected one is never charged; redelivery is harmless;
- gate: one request per ticket behind it, and no lock-out of a ticket that is on sale;
- tickets: never more than the event's capacity;
- events: the search shows what the table holds, and a deleted event is gone;
- start-up: no statement runs twice, none is skipped, and the process serves in the end;
- shutdown: nothing is closed in use, no message is acknowledged unprocessed, and the
  process ends however long the consumer takes;
- session: a request acts for the member whose password opened the session it presented,
  and a logged-out token is of no use.

The hazards are listed, with their lines and the properties that watch them, in
`PROJECT.json`.

## 2. Modules

| module | models | state |
|---|---|---|
| `BookingData` | rows that exist before a run, the calls of the run, kinds of faults | constants |
| `BookingStore` | tables `tickets`, `wallets`, `bookings`, the repository methods and the two transactions | `ticket`, `balance`, `booking` |
| `ClaimGate` | the Redis keys | `claim` |
| `BookingTopic` | the Kafka topic with its consumer group | `log`, `committed`, `position` |
| `BookingService` | `Queue`, `Cancel`, the consumer, wallet calls, crash and rejoin; composes the three above | adds `pc`, `cancel`, `consumer`, ghosts `cash`, `faults` |
| `TicketSale` | abstract specification: deals struck and undone in one step | `deals`, `balance` |
| `BookingProperties` | properties and refinement mapping of the booking service | |
| `BookingHistory` | the service with a memory of redelivered messages, requests that went on after an error, and expired claims, and the properties that need it | adds history `redelivered`, `disowned`, `lapsed` |
| `BookingProofs`, `BookingMoneyProofs`, `BookingQueueProofs`, `BookingGateProofs` | its inductive invariants and theorems: rows and seats; money; topic and redelivery; claims | |
| `EventCatalog` | event service, its index, `BatchCreate` | `events`, `index`, `seats`, `call`, ghosts |
| `CatalogProperties`, `CatalogProofs` | its properties; its inductive invariants and theorems | |
| `Startup`, `StartupProofs` | start, migrations, stop and restart of the process; its theorems | `applied`, `version`, `dirty`, `boot`, ghost `faults` |
| `Lifecycle`, `LifecycleProofs` | the serving process, its consumer and its shutdown; extends `Startup` with the steps of its `Shutdown` | adds `proc`, `sent`, `committed`, ghosts `handled`, `signals`, `errors` |
| `Membership` | abstract specification: accounts and sessions without calls to MySQL and Redis | `accounts`, `session`, `fresh`, `acting` |
| `Session`, `SessionProofs` | members, sessions, the Auth middleware and the routes behind it; its inductive invariants and theorems | `accounts`, `session`, `call`, ghosts `revoked`, `faults` |
| `MCBooking`, `MCBookingHistory`, `MCCatalog`, `MCStartup`, `MCLifecycle`, `MCSession` | the instances for TLC | |

Definitions headed "Faulty variant" are what the action beside them would be with a plausible
bug; no action uses them. Putting one in place of its action makes the property it
belongs to fail, which shows that the property depends on that code (`"mutants"` in
`PROJECT.json`).

### Booking

A `POST /api/bookings` call is a record of its arguments. The same record names the row it
creates and is the message it sends: the row and `bookingMessage` hold these arguments and
an opaque id. A step is one call to Redis, MySQL or Kafka, and the transactions `BookTx` and
`CancelTx` are one step each. That is sound because each begins with the conditional UPDATE
that decides it, InnoDB keeps the rows it touched locked until the commit, and an error
inside it rolls everything back. An error of the COMMIT itself leaves open what MySQL has
done: `txError` is the outcome that nothing was, `answerLost` the one that everything was.
The same two outcomes stand for the INSERT of `Queue`. The calls whose errors the code ignores
(`UpdateStatus` outside a transaction, PERSIST, DEL, the offset commit) need no second outcome:
one that was carried out and reported as failed goes on like one that succeeded.

| `Queue` (`service.go:126`) | step (`pc`) |
|---|---|
| SETNX | `QueueClaim` (idle) |
| ticket lookup and status | `QueueReadTicket` (ticket) |
| wallet lookup, owner, balance | `QueueReadWallet` (wallet) |
| INSERT of the pending row | `QueueSave` (save) |
| `WriteMessages`, with Kafka | `QueueWrite` (write) |
| the transaction and PERSIST, without Kafka | `QueueBookTx`, `QueuePersist` (tx, persist) |
| UpdateStatus "failed" | `QueueMarkFailed` (markFailed) |
| deferred DEL | `QueueRelease` (release) |

`Cancel` is `CancelRead`, `CancelBookTx`, `CancelRelease`. The consumer is `ConsumerFetch`,
`ConsumerCheck`, `ConsumerLookup`, `ConsumerBookTx`, `ConsumerPersist` or (`ConsumerFail`,
`ConsumerRelease`), then `ConsumerCommit`. `WalletDeposit` and `WalletWithdraw` move the same
balances meanwhile.

Three details of the code decide much of the behaviour and are modelled as they are:

- `bookings.ticket_id` is UNIQUE, whatever the status of the row, so a ticket has one
  booking row for ever;
- `Withdraw` is ok only if `RowsAffected > 0`, and the driver counts changed rows, so a
  withdrawal of 0 is not ok;
- the idempotency check skips a message only while its booking is `confirmed`.

Faults (`FaultKinds` in `BookingData`) are each an alternative of the action they hit:
`expire`, `crash`, `rejoin`, `commitError`, `writeError`, `writeGhost` (an error although
stored), `writeLost` (no error although lost: the writer's `RequiredAcks` is zero),
`redisError`, `readError`, `txError`, `answerLost`, `statusError`. A claim may expire any
number of times; of the others there are `MaxFaults`.

`BookingHistory` conjoins `Remember` to each step: it restricts no step and writes down which
messages the reader has gone back over (`redelivered`), which requests took effect although
their carrier was told of an error (`disowned`: a message stored, or a booking committed, after
all) and which claims have run out (`lapsed`).

### Catalogue

`EventCatalog` has a step per call to MySQL or Elasticsearch of `Create`, `Update`, `Delete`
and `BatchCreate`. A call's `row` is what it has read and edited. `Put` is gorm's `Save`: an
UPDATE and, if that changes no row, an INSERT with ON DUPLICATE KEY UPDATE, so afterwards
the row is there even if it had been deleted. The searched fields (name, description, start)
are one value. `Search` is what `GET /api/events` may show of an event, its MySQL fallback included.

The ghosts `published` and `highest` remember what the table has held, `shared` which calls
of one event overlapped, `blind` for which events a count was lost.

### Start-up

`Startup` models `main` up to serving, with the steps of the migration library (read from
how `infra/migrate.go` uses it): mark the next version dirty, run its statement, mark it
clean. `ForceVersion` is the code's answer to a dirty table. A fatal error or a crash is
followed by `Restart`, as `docker-compose.yml` says (`restart: on-failure`). The second `Up`,
after the force, is the same action as the first: it can only meet a dirty table if the
process stopped in between.

### Life of the process

`Lifecycle` puts in place of `Startup`'s one step `Shutdown` what happens in `main` while it
serves. `proc` is what the process holds: the context, where `router.Run` and `main` are,
the requests in hand, the consumer loop, the reader's position, which of the Kafka clients
are open. It is `Fresh(committed)` again when the process ends, by `Exit` or by `Die`.

| `main.go`, `booking/consumer.go` | action |
|---|---|
| SIGINT, SIGTERM (`main.go:55`) | `Signal` |
| `router.Run` returns: requests answered, given up, or listener failed (`:71`) | `Drain`, `GiveUpDraining`, `ListenFails` |
| a request in hand is answered, after writing a message or not | `Accept`, `HandlerStep` |
| FetchMessage, processBooking, CommitMessages (`consumer.go:27`) | `Fetch`, `Process`, `Commit` |
| `select` on the consumer and eight seconds (`:76`) | `Wait` |
| deferred `stop` and `kafkaReader.Close` (`:56`, `:41`) | `CloseReader` |
| deferred `kafkaWriter.Close` (`:40`) | `CloseWriter` |
| return | `Exit` |

The processing of a message, and a request, are one step each here: `BookingService` has their
inside. `Commit` with a cancelled context, or on a closed reader, may fail with nobody to
notice. Two simplifications: the listener takes no request once the context is cancelled (the
framework may take a few more, and then answers or gives up on them like on the others), and
`stop` is one step with the reader's closing, since the context matters to the consumer only.

### Session

A step of `Session` is one call to MySQL or Redis. `Register` inserts a row or is refused by
the unique index on `email`. `Login` is `LoginFind` (SELECT) and `LoginSet` (SET with a
TTL). The middleware is `AuthGet` (GET) and `AuthFind` (SELECT), and behind it are `Logout`,
`UpdateName` and `SearchUsers`, the last of which stands for all routes that change no member.
`Expire` is the end of a key's 24 hours, `Crash` cuts all calls short. The id of a member is
the call that registered it, a token the call that drew it: auto-increment ids and UUIDs are
opaque and new, which is all the code uses. A field is well-formed or `Malformed`.

## 3. Properties

Booking (`BookingProperties`):

- `SoldMeansConfirmed`: a ticket is sold exactly when a booking of it is confirmed.
- `MoneyConserved`: balance + price of confirmed bookings = deposits - withdrawals, per wallet.
- `RejectedNeverCharged`: after `Queue` has answered with an error the booking is not confirmed.
- `ConfirmedNeverFails`: a confirmed booking only becomes cancelled.
- `PendingIsCarried`: a pending booking is in the hands of its handler, or has a message that
  is not yet committed, or its handler died before sending one. Nothing else leaves a booking
  pending for ever.
- `ConfirmedSeatIsHeld`, `NoMoneyCreated`: what is left of the first two under all faults.
- `RechargedOnlyByRedelivery`: a refunded booking is charged again by the consumer only, from
  a message that the reader has gone back over. It bounds what `booking_recharge` finds: no
  handler and no undisturbed reader ever does it, however much else fails.
- `OverwrittenOnlyBlindly`: a confirmed booking is overwritten with "failed" only by somebody
  who did not know of it: the consumer of a redelivered message, or whoever was told that the
  message was not stored or the transaction not committed.
- `GateExclusive`: one request per ticket behind the gate, unless the ticket is excused: its
  claim ran out, a message for it was redelivered, or a request for it is `disowned`. The code
  needs all three excuses, although `booking/service.go:131` and `README.md:165` promise the
  gate without them: when the message of a failed booking is delivered again, `fail` deletes
  the claim of whoever holds it by then (`service.go:267`), and the next request passes the gate
  beside that one. The UNIQUE index and the transaction keep rows and money together even so,
  which `SoldMeansConfirmed` and `MoneyConserved` say.
- `KeptClaimIsTended`: a claim without a TTL on a ticket that is on sale has somebody on the
  way to delete it (a request that will be refused, a committed cancellation), or the process
  died over it.
- `AcceptedResolves`, `GateReopens`: liveness. `KeptClaimIsTended` is the safety half of
  `GateReopens`.
- `ImplementsSale`: refinement of `TicketSale`, with the confirmed requests as deals.

What confirmed bookings cost a wallet (`PaidFrom`) is the number of coins they took from it,
one coin per unit of the price: a cardinality can be proved about, a recursive sum cannot.

Catalogue (`CatalogProperties`): `CapacityKept`, `SearchShowsPublished`, `SearchAgrees`,
`DeletedStaysDeleted`.

Start-up (`Startup`): `NothingRunsTwice`, `SkippedOnlyByFaults`, `StartsInTheEnd`.

Process (`Lifecycle`):

- `NothingClosedInUse`: the reader is closed under a consumer, and the writer under a request,
  only after the eight seconds, or after the server gave up or failed.
- `CommittedWasHandled`: no message is acknowledged before it has been processed.
- `CrashRepeatsOne`: a process that dies in full service repeats at most the message in hand
  and one for each commit that failed.
- `StopsInTheEnd`: a signal, or a failing listener, ends the process.
- `HandledInTheEnd`: every message is processed, across stops, crashes and restarts, unless
  the service is down.

Session (`Session`):

- `ActsForItsMember`: a handler behind Auth acts for the member whose e-mail and password were
  given when its token was drawn.
- `LoggedOutStaysOut`: a request that comes after a token's logout does not get past the check.
- `RenamedByItsOwner`: a member's row changes in its name only, by a request of that member.
- `ImplementsMembership`: refinement of `Membership`: an e-mail belongs to one account, a token
  opens a session once and never again after its end, and a request acts, and logs out, for
  the member whose session was open when the middleware asked Redis.

Each component has one type invariant, `TypeOK` (`LifeTypeOK` for the process).

Which faults and interleavings a property excludes, and why:

| property | does not hold under | because |
|---|---|---|
| `SoldMeansConfirmed`, `ConfirmedNeverFails`, `MoneyConserved` | `readError`, with Kafka | a failed SELECT reads as "not confirmed"; the refused second transaction marks a confirmed booking failed, seat and money gone |
| the same and `RejectedNeverCharged` | `writeGhost`, `answerLost` | the caller is told of an error and the stored message is processed; a lost answer to the COMMIT makes `fail` overwrite a confirmed booking |
| `ImplementsSale` | the same three | proved without them; a confirmed booking that is overwritten is a deal undone without a refund |
| `AcceptedResolves`, `PendingIsCarried` | `statusError`, `writeLost` | the only trace of the outcome, or of the request, is lost |
| `PendingIsCarried` | `answerLost` | an INSERT that was carried out after all leaves a pending row that nobody sends a message for |
| `KeptClaimIsTended`, `GateReopens` | `redisError`; `answerLost` | the errors of `DEL` are ignored; a cancellation that believes it was rolled back deletes no claim |
| `GateExclusive` | an expired claim, a redelivered message, a request that took effect after an error | excuses of the property itself: nobody renews a claim or checks that it still holds it before deleting it |
| `OverwrittenOnlyBlindly` | a redelivered message, a request that took effect after an error | excuses of the property itself; `ConfirmedNeverFails` is the same without excuse |
| `CapacityKept` | overlapping `BatchCreate`, a failed COUNT | conditions of the property itself |
| `SearchAgrees` | overlapping writers, any fault | conditions of the property itself: nothing repairs a document |
| `DeletedStaysDeleted` | overlapping writers | condition of the property itself: gorm's `Save` in `Update` inserts the row it once read |
| `LoggedOutStaysOut` | a failed `DEL`; a request already checked | conditions of the property itself |
| `HandledInTheEnd` | a failed listener, or a signal, after which nobody starts the service | condition of the property itself: status 0 is not restarted |

Without Kafka there is no redelivery, so a failed read cannot reach the consumer's check and
`booking_sync` admits `readError`.

## 4. Runs

| run | what it asks | answer |
|---|---|---|
| `booking_kafka` | three requests (two for one seat, two on one wallet) and a cancellation, claims that expire, two of crash, rejoin, refused write | all safety properties and the refinement hold |
| `booking_faults` | three requests for one seat (two of one member, one of another on her wallet) and a cancel call, with Kafka, claims that expire, any two of the other eleven faults | a confirmed seat is still held alone, no money is created; the gate opens twice, a refunded booking is charged again, or a confirmed one overwritten, only with its excuse |
| `booking_sync` | no Kafka writer; a missing ticket, a stranger's wallet, two cancellations of one booking; Redis, MySQL and process failures | seats and money agree, and nobody is charged after an error |
| `booking_live` | weak fairness, crashes, rejoins and errors | every accepted booking resolves, a claim without a TTL is tended and the gate reopens |
| `catalog` | seven calls on one event and one failure of any kind | capacity, search and deletion properties hold |
| `lifecycle` | seven migrations, two requests, two messages, a signal, a failing listener or commit, two crashes | no double migration, no unexplained skip, nothing closed in use or acknowledged unprocessed; it serves, and it stops, in the end; every message is processed |
| `session` | five calls on two e-mails, passwords and names, expiring keys, any two faults | each request acts for its member, a logout is final, and the calls implement `Membership` |
| `booking_recharge` | `README.md:172`: a message handled before is skipped and not charged again | violated: confirm, cancel, crash, redelivery confirms and charges again |
| `booking_resale` | `booking/service.go:121`: a cancelled ticket can be grabbed again | violated: the UNIQUE index refuses every later row |
| `booking_free` | `wallet/repo/mysql.go:51`: not ok means insufficient balance | violated: a price of 0 |
| `catalog_capacity` | `ticket/service.go:26`: never more tickets than the capacity | violated: two overlapping calls |
| `startup_dirty` | `infra/migrate.go:40`: force and run again | violated: the forced version is skipped |

The violated runs use the same modules as the passing ones and admit no fault, except one
crash in `booking_recharge` and up to two faults in `startup_dirty`.

### Bounds

- *Booking.* Two members with a wallet each (but in `booking_faults`), one or two tickets of
  price 1, two or three requests, one or two cancel calls, one partition, at most `MaxCash` (1
  or 2) per wallet, one or two faults. The conflicts are between two requests for a ticket, two
  charges of a wallet, a cancellation and a redelivery, and each has its two parties. A message
  is redelivered twice with two faults. `booking_faults` has three requests for one seat: the
  first fails, the second holds the claim that the redelivered failure of the first deletes,
  the third passes the gate. Without any one of the three excuses `GateExclusive` is violated
  there, and `OverwrittenOnlyBlindly` without either of its two. The three requests name one
  wallet, which keeps that run at 0.6 million states; two wallets meet in `booking_kafka`. One
  partition is the worst case, since messages of one ticket share one, and a second would only
  be drained by the same goroutine. Requests are not repeated: a second request of the same
  member is a record of its own.
- *Catalogue.* One event (events share nothing), seven calls, one fault. Two updates, a
  deletion and an intruder overlap in every way; capacity 2 and later 1, batches of 1 and 2.
- *Process.* All seven migrations; two faults let a crash hit the recovery from a crash. Two
  requests: one drains while another is cut. Two messages: one in hand, one behind it. One signal
  (a second one changes nothing once the context is cancelled) and one `errors` event.
- *Session.* Five calls: two registrations and a login can be followed by two requests with
  the same token, or two of them with a login each. Two e-mails, passwords and names let a
  member be taken for another. Calls, e-mails, passwords and names are interchangeable: no
  definition names one, so symmetry is sound, and the run checks no liveness.

`CHECK_DEADLOCK FALSE` stands in all configurations that pass, because a run has finitely many
calls, messages and signals, and stops when they are done.

### Fairness

`FairSpec` of `BookingService` asks for weak fairness of each handler that has begun
(`QueueStep(r)`, `CancelStep(c)`: a goroutine runs to its end), of the consumer
(`ConsumerStep`: its loop ends only with the process, and after a crash the restarted process
resumes it) and of `ClaimExpires(t)` (Redis drops a key when its TTL is over). None is asked
of callers, of deposits or of faults: no client has to call, and nothing has to fail.
`Lifecycle` asks for weak fairness of the boot steps, restart included, which
`restart: on-failure` provides, of each request in hand, of the consumer loop and of `MainStep`
(goroutines that run to their end; the eight seconds pass). A stopped process need not be
started, no signal need come, and the server need not give up on a request: `Drain` is only
possible when no request is in hand, and fairness of the requests brings that about.

## 5. Proofs

The proofs are for all values of the constants that satisfy the named assumptions of the
modules: `DataAssumption` (types; known tickets and wallets are among the ids a client may
name), `CatalogAssumption` (types; an auto-increment id is given to one row),
`StartupAssumption` (types; a migration alters only tables of earlier ones),
`LifecycleAssumption` (types), `SessionAssumption` and `AccountAssumption` (types; "none" and
"malformed" are no e-mails, passwords or rows). TLC evaluates them in the passing runs. Where a theorem assumes the
absence of a fault, its statement says so by name. The inductive invariants are defined in the
modules of the proofs; TLC checks them, too, when an instance of a run extends such a module
and names them as invariants.

`BookingProofs`

- `TypeCorrect` (`TypeOK`) and `SeatHeld` (`ConfirmedSeatIsHeld`), under every fault. The
  inductive invariant is `CoreInv`: types, rows of bookings well formed, one row per ticket,
  what `Queue` has checked by each `pc`, messages only of inserted rows, the consumer holds
  a message. `TypeOK` alone is not inductive: that a refund goes to a wallet that exists
  follows from the row having passed `WalletCanPay`, which only `ChecksDone` remembers.
- `SoldExactlyWhenConfirmed` (`SoldMeansConfirmed`), `RejectedUncharged`
  (`RejectedNeverCharged`) and `ConfirmedIsSafe` (`ConfirmedNeverFails`) under `NoPhantoms`
  (no `answerLost`, and no Kafka or neither `readError` nor
  `writeGhost`). The invariant adds `StrictInv`: there is one way to
  confirm a booking (consumer or handler), an unsent request is unconfirmed, and between the
  idempotency check and its end the booking in the consumer's hand is unconfirmed. The
  last part needs the first two: nobody else can confirm it meanwhile.
- `Refinement` (`ImplementsSale`) under `NoPhantoms`. First every step is one of a few kinds on the store
  (`StepsOnStore`), then each kind is a step or a stutter of `TicketSale` (`StepsOnSale`).
  `OneRowPerTicket` gives `Sell` its guard and the row's well-formedness its wallet.

`BookingMoneyProofs`: `NoMoneyIsCreated` (`NoMoneyCreated`) under every fault, and
`MoneyIsConserved` (`MoneyConserved`) under `NoPhantoms`. Two bookings never share a coin
(`CoinsApart`), so that confirming one adds exactly its price to `PaidFrom` of its wallet and
of no other (`OneMore`), and cancelling it takes as much away (`OneLess`). Each step then
moves a wallet by what it moves `PaidFrom` and `cash` (`MoneyMoves`), with one exception: a
confirmed booking that is marked failed stays charged, which `NoMoneyCreated` allows and
`NoPhantoms` excludes.

`BookingQueueProofs`: `NothingIsForgotten` (`PendingIsCarried`) under `NothingForgotten`
(none of `statusError`, `writeLost` and `answerLost`). The invariant `CarryInv` says that
everything before
the committed offset has its outcome, and so has everything the reader has handed out but the
message in hand; that even after a rejoin the message in hand follows settled ones only; and
where the handler of a pending booking is. The property alone is not inductive: that a commit
skips nothing needs the second part, and that it may commit at all the third.

In the same module, over `HistorySpec`, `RechargedByRedelivery` (`RechargedOnlyByRedelivery`)
and `OverwrittenBlindly` (`OverwrittenOnlyBlindly`) under every fault, and
`CancelledStaysUncharged` (`CancelledNeverChargedAgain`) without Kafka, or without `crash` and
`rejoin`. They rest on `HistoryInv`: each request has at most one message in the log, and as
long as the reader has not gone back over it and its carrier was told the truth, its booking is
uncharged while a handler has it, while its message waits, and while the consumer is on the way
to its transaction or to marking it failed. A handler never charges twice because an unsent
booking is uncharged, which no fault disturbs.
`PricedRefusals` (`RefusedMeansShort`) assumes that every price is positive. With
`UndisturbedServesWhole` below these theorems say of three of the violated statements exactly
what it takes to violate them: redelivery, a free ticket, and a failed or cut-short start.

`BookingGateProofs`: `GateIsExclusive` (`GateExclusive`), with and without Kafka and under every
fault, from `HistorySpec` alone. The invariant `GateInv` names everybody who may remove the claim
of a ticket: a request in the flow, the message it has sent while that waits or is worked on,
and a cancellation whose refund is committed. Each finds the claim set and is alone with the
ticket, unless the ticket is excused. That a request is in one of these places only, and so is
not deleted for by two, is what `HistoryInv` says of a request that is neither redelivered nor
disowned. TLC checks the property with Kafka, as `main.go` runs the service; without Kafka it
rests on the proof.

`KeptClaimsAreTended` (`KeptClaimIsTended`) assumes only that Redis answers, and MySQL to a
COMMIT (`CallsAnswered`). The property says
nothing while the PERSIST is still to come, so `TendInv` speaks of it, too: whether a claim is
permanent or about to be made so, the ticket's one booking row is settled, and if the ticket is
on sale and the claim there, somebody tends it. A request never leaves the ticket untended
without deleting the claim, since it would have to insert a second row to get past its checks.

`CatalogProofs`: `CatalogInvariant`, and from it `CatalogTypeCorrect`, `CapacityIsKept`
(`CapacityKept`) and `SearchIsPublished` (`SearchShowsPublished`). The invariant says that
what is in the table, in the index, or on its way to the index has been published, that the
capacity a `BatchCreate` compares with is one the event has had, and that the count of a
lone `BatchCreate` still holds when it inserts. There is a lemma per action. On top of it,
`WriterInvariant` gives `SearchFollows` (`SearchAgrees`) and `DeletionIsFinal`
(`DeletedStaysDeleted`): a lone update saves over a row that is there, and the document equals
the row unless the only writer is about to make it so.

`StartupProofs`: `StartupInvariant`, `StartupTypeCorrect`, `RunsOnce` (`NothingRunsTwice`),
`SkippedByFaults` (`SkippedOnlyByFaults`). The invariant counts `Lost` instead of `Skipped`:
a migration is lost already when the process that had it in hand stops, before the force
makes it skipped, and each loss is paid for by one fault. `UndisturbedServesWhole`: as long as
nothing has failed, `ServesWholeSchema` holds; every migration up to the version is there but
the one in hand (`Orderly`), so a statement always finds the tables it alters.

`LifecycleProofs`: by construction each step is one of `Startup` or leaves its variables alone
(`StepOfStartup`), so that `SkippedOnlyByFaults` and `NothingRunsTwice` carry over
(`LifeSkippedByFaults`, `LifeRunsOnce`). `LifeInvariant` gives `LifeTypeCorrect`,
`ClosedLast` (`NothingClosedInUse`), `AtLeastOnce` (`CommittedWasHandled`) and `OneRepeated`
(`CrashRepeatsOne`). It says what has been closed when main is where it is, that of the messages handed
out only the one in hand is unprocessed, and how far the position may be ahead of the
committed offset; the last counts the message in hand by the consumer's step.

`SessionProofs`: `SessionInvariant` gives `SessionTypeCorrect`, `ActsForItself`
(`ActsForItsMember`), `LogoutIsFinal` (`LoggedOutStaysOut`) and `RenamesOnlyItself`
(`RenamedByItsOwner`), under every fault. A call that has not begun has left nothing behind,
so its row, or key, is new; whoever is logged in, half checked or let in holds a member that
its password opened; and a revoked key is gone for ever, because only the login that drew a
token sets its key, and it has been answered. `SessionImplementsMembership`
(`ImplementsMembership`) maps each call to MySQL or Redis to a step of `Membership` or to
nothing. It needs one more invariant, `EmailsApart`: that a logout ends a session of the member
it acts for follows from the password being looked up by an e-mail that one account has.

Only model-checked: the liveness properties (`AcceptedResolves`, `GateReopens`,
`StartsInTheEnd`, `StopsInTheEnd`, `HandledInTheEnd`), which are out of the prover's reach.
Every invariant, action property and refinement of a passing run is a theorem. A lost
answer to the COMMIT of `Queue` without Kafka (`QueueBookTx`) is in the model and in the proofs
that name no fault, but in no run's faults: `booking_sync` checks equalities that fail under it.

## 6. What is not modelled

- The authentication of the booking, wallet and event calls is not composed with `Session`:
  there a caller is who the request says, which `ActsForItsMember` justifies.
- A Redis restart that brings back an older snapshot of its keys; a second signal; a signal
  before `main` asks for signals, which is a crash. Hashing of passwords and the exact lengths
  of fields.
- What the HTTP framework does between the signal and the return of `router.Run`, beyond that
  it answers the requests in hand or gives up on them.
- Creation of wallets, amounts other than small integers (balances are DECIMAL in MySQL
  and float64 in Go).
- The reads (`GetByID`, `List...`): they change nothing. Query building of the search.
- More than one process of the application, and more than one consumer in the group: the
  compose file starts one.
- Deadlocks and lock time-outs of MySQL appear as `txError` only. Lost answers of MySQL are in
  the booking model (`answerLost`). The wallet calls and the catalogue have none: there one
  leaves the tables and the index as a step that succeeds and a crash after it do, which are in
  the model, and differs in what the client is told.
- What nothing in the code repairs or notices is in the model, but no property forbids it:
  a status update or a message that is lost, an index or a count that failed, writers of an
  event that overlap, a session whose `DEL` failed. `PROJECT.json` lists these hazards with a
  note in place of a property.
- Kafka retention, topic creation and `CleanTopic` (tests only).
- Tickets of deleted events in the booking model: bookings do not read events.
- `down` migrations, which no code runs.

## 7. Plan

Done, in this order: the booking service with its parts and abstract specification; its
properties, runs and proofs; the catalogue; start-up; sessions; the life of the process with
its shutdown; the proofs about queue, gate, search and deletion; those about money,
redelivery, permanent claims and the refinement of `Membership`; the history variables, with
the gate under Kafka and every fault, and lost answers of MySQL.

Next:

1. Several processes in one consumer group, each with its own position, and a rebalance
   that moves a partition between them while a message is in hand.
2. Amounts: charge and refund in DECIMAL(…, 2) against comparisons in float64; creation of
   wallets while bookings run.
3. Composition of `Session` with the booking calls, to show that a booking is charged to the
   member whose password opened the session.
