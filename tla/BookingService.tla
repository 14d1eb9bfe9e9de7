--------------------------- MODULE BookingService --------------------------
(***************************************************************************)
(* The booking service as one application process runs it: HTTP handlers   *)
(* that execute Queue and Cancel, the handlers of the wallet service that  *)
(* move the same balances, and the goroutine that runs the Kafka consumer. *)
(* Every step is one call to Redis, MySQL or Kafka, so any two handlers    *)
(* and the consumer interleave between the calls.                          *)
(***************************************************************************)
EXTENDS BookingStore, ClaimGate, BookingTopic

VARIABLES
  pc,        \* request -> where Queue is, or how it answered
  cancel,    \* cancel call -> where Cancel is, or how it answered
  consumer,  \* what BookingConsumer.Run is doing, and with which message
  cash,      \* ghost: deposits minus withdrawals of the wallet's owner
  faults     \* ghost: environment events so far

vars == <<storeVars, claim, topicVars, pc, cancel, consumer, cash, faults>>

QueueSteps == {"ticket", "wallet", "save", "write", "tx", "persist", "markFailed", "release"}
QueuePC == QueueSteps \cup {"idle", "accepted", "rejected", "dead"}
CancelSteps == {"tx", "release"}
CancelPC == CancelSteps \cup
  {"idle", "cancelled", "conflict", "notFound", "forbidden", "error", "dead"}
ConsumerSteps == {"check", "lookup", "tx", "persist", "fail", "release", "commit"}

TypeOK ==
  /\ StoreTypeOK
  /\ GateTypeOK
  /\ TopicTypeOK
  /\ pc \in [Requests -> QueuePC]
  /\ cancel \in [CancelCalls -> CancelPC]
  /\ consumer \in
       [step : ConsumerSteps \cup {"fetch"}, part : Partitions, idx : Nat]
  /\ cash \in [Wallets -> Int]
  /\ faults \in Nat

Fetching == [step |-> "fetch", part |-> 0, idx |-> 0]

Init ==
  /\ StoreInit
  /\ GateInit
  /\ TopicInit
  /\ pc = [r \in Requests |-> "idle"]
  /\ cancel = [c \in CancelCalls |-> "idle"]
  /\ consumer = Fetching
  /\ cash = [w \in Wallets |-> 0]
  /\ faults = 0

Fault(kind) ==
  /\ kind \in Faults
  /\ faults < MaxFaults
  /\ faults' = faults + 1

NoFault == UNCHANGED faults

-----------------------------------------------------------------------------
(* Queue: POST /api/bookings *)

Goto(r, label) == pc' = [pc EXCEPT ![r] = label]

\* An error of SETNX leaves open whether Redis has set the key.
QueueClaim(r) ==
  /\ pc[r] = "idle"
  /\ \/ SetNX(r.ticket) /\ Goto(r, "ticket") /\ NoFault
     \/ claim[r.ticket] # "free" /\ Goto(r, "rejected") /\ NoFault /\ UNCHANGED claim
     \/ /\ Fault("redisError")
        /\ Goto(r, "rejected")
        /\ SetNX(r.ticket) \/ UNCHANGED claim
  /\ UNCHANGED <<storeVars, topicVars, cancel, consumer, cash>>

TicketOnSale(t) == t \in Tickets /\ ticket[t] = "available"

QueueReadTicket(r) ==
  /\ pc[r] = "ticket"
  /\ \/ TicketOnSale(r.ticket) /\ Goto(r, "wallet") /\ NoFault
     \/ ~TicketOnSale(r.ticket) /\ Goto(r, "release") /\ NoFault
     \/ Fault("readError") /\ Goto(r, "release")
  /\ UNCHANGED <<storeVars, claim, topicVars, cancel, consumer, cash>>

WalletCanPay(r) ==
  /\ r.wallet \in Wallets
  /\ Owner[r.wallet] = r.user
  /\ balance[r.wallet] >= Price[r.ticket]

QueueReadWallet(r) ==
  /\ pc[r] = "wallet"
  /\ \/ WalletCanPay(r) /\ Goto(r, "save") /\ NoFault
     \/ ~WalletCanPay(r) /\ Goto(r, "release") /\ NoFault
     \/ Fault("readError") /\ Goto(r, "release")
  /\ UNCHANGED <<storeVars, claim, topicVars, cancel, consumer, cash>>

QueueSave(r) ==
  /\ pc[r] = "save"
  /\ \/ Save(r) /\ Goto(r, IF KafkaEnabled THEN "write" ELSE "tx") /\ NoFault
     \/ TicketHasRow(r.ticket) /\ Goto(r, "release") /\ NoFault /\ UNCHANGED booking
     \/ Fault("txError") /\ Goto(r, "release") /\ UNCHANGED booking
     \/ Fault("answerLost") /\ Save(r) /\ Goto(r, "release")
  /\ UNCHANGED <<ticket, balance, claim, topicVars, cancel, consumer, cash>>

\* Faulty variant: a handler that lost its claim rejects the request it has sent.
QueueWriteRecheck(r) ==
  /\ pc[r] = "write"
  /\ AppendMessage(r)
  /\ Goto(r, IF claim[r.ticket] = "free" THEN "markFailed" ELSE "accepted")
  /\ UNCHANGED <<storeVars, claim, committed, position, cancel, consumer, cash, faults>>

QueueWrite(r) ==
  /\ pc[r] = "write"
  /\ \/ AppendMessage(r) /\ Goto(r, "accepted") /\ NoFault
     \/ Fault("writeLost") /\ Goto(r, "accepted") /\ UNCHANGED log
     \/ Fault("writeError") /\ Goto(r, "markFailed") /\ UNCHANGED log
     \/ Fault("writeGhost") /\ AppendMessage(r) /\ Goto(r, "markFailed")
  /\ UNCHANGED <<storeVars, claim, committed, position, cancel, consumer, cash>>

\* Without a Kafka writer the handler runs the transaction itself.
QueueBookTx(r) ==
  /\ pc[r] = "tx"
  /\ \/ BookTx(r) /\ Goto(r, "persist") /\ NoFault
     \/ ~BookTxOk(r) /\ Goto(r, "markFailed") /\ NoFault /\ UNCHANGED storeVars
     \/ Fault("txError") /\ Goto(r, "markFailed") /\ UNCHANGED storeVars
     \/ Fault("answerLost") /\ BookTx(r) /\ Goto(r, "markFailed")
  /\ UNCHANGED <<claim, topicVars, cancel, consumer, cash>>

\* Faulty variant: an error of PERSIST is returned to the caller.
QueuePersistStrict(r) ==
  /\ pc[r] = "persist"
  /\ \/ Persist(r.ticket) /\ Goto(r, "accepted") /\ NoFault
     \/ Fault("redisError") /\ Goto(r, "release") /\ UNCHANGED claim
  /\ UNCHANGED <<storeVars, topicVars, cancel, consumer, cash>>

QueuePersist(r) ==
  /\ pc[r] = "persist"
  /\ Goto(r, "accepted")
  /\ \/ Persist(r.ticket) /\ NoFault
     \/ Fault("redisError") /\ UNCHANGED claim
  /\ UNCHANGED <<storeVars, topicVars, cancel, consumer, cash>>

QueueMarkFailed(r) ==
  /\ pc[r] = "markFailed"
  /\ Goto(r, "release")
  /\ \/ UpdateStatus(r, "failed") /\ NoFault
     \/ Fault("statusError") /\ UNCHANGED booking
  /\ UNCHANGED <<ticket, balance, claim, topicVars, cancel, consumer, cash>>

\* The deferred Del runs before Queue returns its error; its own is ignored.
QueueRelease(r) ==
  /\ pc[r] = "release"
  /\ Goto(r, "rejected")
  /\ \/ Del(r.ticket) /\ NoFault
     \/ Fault("redisError") /\ UNCHANGED claim
  /\ UNCHANGED <<storeVars, topicVars, cancel, consumer, cash>>

QueueStep(r) ==
  \/ QueueReadTicket(r)
  \/ QueueReadWallet(r)
  \/ QueueSave(r)
  \/ QueueWrite(r)
  \/ QueueBookTx(r)
  \/ QueuePersist(r)
  \/ QueueMarkFailed(r)
  \/ QueueRelease(r)

-----------------------------------------------------------------------------
(* Cancel: DELETE /api/bookings/{id} *)

CancelGoto(c, label) == cancel' = [cancel EXCEPT ![c] = label]

CancelAnswer(c) ==
  LET status == booking[c.booking] IN
  CASE status = "none" -> "notFound"
    [] status # "none" /\ c.booking.user # c.user -> "forbidden"
    [] status = "cancelled" /\ c.booking.user = c.user -> "conflict"
    [] OTHER -> "tx"

\* The ticket row is read too; its price never changes and no operation
\* deletes it, so the read adds only its own failure.
CancelRead(c) ==
  /\ cancel[c] = "idle"
  /\ \/ CancelGoto(c, CancelAnswer(c)) /\ NoFault
     \/ Fault("readError") /\ CancelGoto(c, "notFound")
  /\ UNCHANGED <<storeVars, claim, topicVars, pc, consumer, cash>>

CancelBookTx(c) ==
  /\ cancel[c] = "tx"
  /\ \/ CancelTx(c.booking) /\ CancelGoto(c, "release") /\ NoFault
     \/ /\ booking[c.booking] # "confirmed"
        /\ CancelGoto(c, "conflict") /\ NoFault /\ UNCHANGED storeVars
     \/ Fault("txError") /\ CancelGoto(c, "error") /\ UNCHANGED storeVars
     \/ Fault("answerLost") /\ CancelTx(c.booking) /\ CancelGoto(c, "error")
  /\ UNCHANGED <<claim, topicVars, pc, consumer, cash>>

\* Faulty variant: the claim is left behind.
CancelKeepsClaim(c) ==
  /\ cancel[c] = "release"
  /\ CancelGoto(c, "cancelled")
  /\ UNCHANGED <<storeVars, claim, topicVars, pc, consumer, cash, faults>>

CancelRelease(c) ==
  /\ cancel[c] = "release"
  /\ CancelGoto(c, "cancelled")
  /\ \/ Del(c.booking.ticket) /\ NoFault
     \/ Fault("redisError") /\ UNCHANGED claim
  /\ UNCHANGED <<storeVars, topicVars, pc, consumer, cash>>

CancelStep(c) == CancelBookTx(c) \/ CancelRelease(c)

-----------------------------------------------------------------------------
(* BookingConsumer.Run and processBooking *)

Message == log[consumer.part][consumer.idx]

ConsumerGoto(label) == consumer' = [consumer EXCEPT !.step = label]

\* Faulty variant: ReadMessage, which commits the offset as it fetches.
ConsumerRead(p) ==
  /\ consumer.step = "fetch"
  /\ FetchMessage(p)
  /\ consumer' = [step |-> "check", part |-> p, idx |-> position[p] + 1]
  /\ CommitMessages(p, position[p] + 1)
  /\ UNCHANGED <<storeVars, claim, log, pc, cancel, cash, faults>>

ConsumerFetch(p) ==
  /\ consumer.step = "fetch"
  /\ FetchMessage(p)
  /\ consumer' = [step |-> "check", part |-> p, idx |-> position[p] + 1]
  /\ UNCHANGED <<storeVars, claim, log, committed, pc, cancel, cash, faults>>

\* Faulty variant: no idempotency check.
ConsumerCheckSkipped ==
  /\ consumer.step = "check"
  /\ ConsumerGoto("lookup")
  /\ UNCHANGED <<storeVars, claim, topicVars, pc, cancel, cash, faults>>

\* A booking that cannot be read counts as not yet confirmed.
ConsumerCheck ==
  /\ consumer.step = "check"
  /\ \/ booking[Message] = "confirmed" /\ ConsumerGoto("commit") /\ NoFault
     \/ booking[Message] # "confirmed" /\ ConsumerGoto("lookup") /\ NoFault
     \/ Fault("readError") /\ ConsumerGoto("lookup")
  /\ UNCHANGED <<storeVars, claim, topicVars, pc, cancel, cash>>

ConsumerLookup ==
  /\ consumer.step = "lookup"
  /\ \/ ConsumerGoto("tx") /\ NoFault
     \/ Fault("readError") /\ ConsumerGoto("fail")
  /\ UNCHANGED <<storeVars, claim, topicVars, pc, cancel, cash>>

ConsumerBookTx ==
  /\ consumer.step = "tx"
  /\ \/ BookTx(Message) /\ ConsumerGoto("persist") /\ NoFault
     \/ ~BookTxOk(Message) /\ ConsumerGoto("fail") /\ NoFault /\ UNCHANGED storeVars
     \/ Fault("txError") /\ ConsumerGoto("fail") /\ UNCHANGED storeVars
     \/ Fault("answerLost") /\ BookTx(Message) /\ ConsumerGoto("fail")
  /\ UNCHANGED <<claim, topicVars, pc, cancel, cash>>

\* Faulty variant: an error of PERSIST fails the booking.
ConsumerPersistStrict ==
  /\ consumer.step = "persist"
  /\ \/ Persist(Message.ticket) /\ ConsumerGoto("commit") /\ NoFault
     \/ Fault("redisError") /\ ConsumerGoto("fail") /\ UNCHANGED claim
  /\ UNCHANGED <<storeVars, topicVars, pc, cancel, cash>>

ConsumerPersist ==
  /\ consumer.step = "persist"
  /\ ConsumerGoto("commit")
  /\ \/ Persist(Message.ticket) /\ NoFault
     \/ Fault("redisError") /\ UNCHANGED claim
  /\ UNCHANGED <<storeVars, topicVars, pc, cancel, cash>>

\* Faulty variant: a refused booking is dropped without a status.
ConsumerDrop ==
  /\ consumer.step = "fail"
  /\ ConsumerGoto("release")
  /\ UNCHANGED <<storeVars, claim, topicVars, pc, cancel, cash, faults>>

ConsumerFail ==
  /\ consumer.step = "fail"
  /\ ConsumerGoto("release")
  /\ \/ UpdateStatus(Message, "failed") /\ NoFault
     \/ Fault("statusError") /\ UNCHANGED booking
  /\ UNCHANGED <<ticket, balance, claim, topicVars, pc, cancel, cash>>

ConsumerRelease ==
  /\ consumer.step = "release"
  /\ ConsumerGoto("commit")
  /\ \/ Del(Message.ticket) /\ NoFault
     \/ Fault("redisError") /\ UNCHANGED claim
  /\ UNCHANGED <<storeVars, topicVars, pc, cancel, cash>>

ConsumerCommit ==
  /\ consumer.step = "commit"
  /\ consumer' = Fetching
  /\ \/ CommitMessages(consumer.part, consumer.idx) /\ NoFault
     \/ Fault("commitError") /\ UNCHANGED committed
  /\ UNCHANGED <<storeVars, claim, log, position, pc, cancel, cash>>

ConsumerStep ==
  \/ \E p \in Partitions : ConsumerFetch(p)
  \/ ConsumerCheck
  \/ ConsumerLookup
  \/ ConsumerBookTx
  \/ ConsumerPersist
  \/ ConsumerFail
  \/ ConsumerRelease
  \/ ConsumerCommit

-----------------------------------------------------------------------------
(* The wallet service, on behalf of the wallet's owner *)

WalletDeposit(w, amount) ==
  /\ cash[w] + amount <= MaxCash
  /\ Deposit(w, amount)
  /\ cash' = [cash EXCEPT ![w] = @ + amount]
  /\ UNCHANGED <<ticket, booking, claim, topicVars, pc, cancel, consumer, faults>>

WalletWithdraw(w, amount) ==
  /\ Withdraw(w, amount)
  /\ cash' = [cash EXCEPT ![w] = @ - amount]
  /\ UNCHANGED <<ticket, booking, claim, topicVars, pc, cancel, consumer, faults>>

WalletCall(w, amount) == WalletDeposit(w, amount) \/ WalletWithdraw(w, amount)

-----------------------------------------------------------------------------
(* The environment *)

ClaimExpires(t) ==
  /\ "expire" \in Faults
  /\ Expire(t)
  /\ UNCHANGED <<storeVars, topicVars, pc, cancel, consumer, cash, faults>>

\* MySQL, Redis and Kafka keep what they hold; every handler is cut short.
Crash ==
  /\ Fault("crash")
  /\ pc' = [r \in Requests |-> IF pc[r] \in QueueSteps THEN "dead" ELSE pc[r]]
  /\ cancel' =
       [c \in CancelCalls |-> IF cancel[c] \in CancelSteps THEN "dead" ELSE cancel[c]]
  /\ consumer' = Fetching
  /\ ResumeFromCommitted
  /\ UNCHANGED <<storeVars, claim, log, committed, cash>>

\* The message in hand is processed to its end; it will be fetched again.
Rejoin ==
  /\ Fault("rejoin")
  /\ ResumeFromCommitted
  /\ UNCHANGED <<storeVars, claim, log, committed, pc, cancel, consumer, cash>>

Next ==
  \/ \E r \in Requests : QueueClaim(r) \/ QueueStep(r)
  \/ \E c \in CancelCalls : CancelRead(c) \/ CancelStep(c)
  \/ ConsumerStep
  \/ \E w \in Wallets, amount \in Amounts : WalletCall(w, amount)
  \/ \E t \in TicketIds : ClaimExpires(t)
  \/ Crash
  \/ Rejoin

Spec == Init /\ [][Next]_vars

\* A handler that has started runs to its end and the consumer loop never
\* stops; Redis drops a key whose TTL is over.  Nobody has to call, and
\* nothing has to fail.
FairSpec ==
  /\ Spec
  /\ \A r \in Requests : WF_vars(QueueStep(r))
  /\ \A c \in CancelCalls : WF_vars(CancelStep(c))
  /\ WF_vars(ConsumerStep)
  /\ \A t \in TicketIds : WF_vars(ClaimExpires(t))
=============================================================================
