--------------------------- MODULE BookingProofs ---------------------------
(***************************************************************************)
(* Proofs about the booking service, for every set of users, tickets,      *)
(* wallets, calls and faults.                                              *)
(***************************************************************************)
EXTENDS BookingProperties, TLAPS

(* The inductive invariant behind the safety properties.  Its first half    *)
(* holds under every fault.                                                 *)

WellFormed(r) ==
  r.ticket \in Tickets /\ r.wallet \in Wallets /\ Owner[r.wallet] = r.user

RowsAreWellFormed == \A r \in Requests : booking[r] # "none" => WellFormed(r)

OneRowPerTicket ==
  \A r, q \in Requests :
    booking[r] # "none" /\ booking[q] # "none" /\ r.ticket = q.ticket => r = q

StoreInv == StoreTypeOK /\ RowsAreWellFormed /\ OneRowPerTicket

\* What Queue has looked up before it inserts the row, and the row after.
ChecksDone ==
  \A r \in Requests :
    /\ pc[r] = "wallet" => r.ticket \in Tickets
    /\ pc[r] = "save" => WellFormed(r)
    /\ pc[r] \in {"write", "tx"} => booking[r] # "none"

SentHasRow == \A r \in Requests : Sent(r) => booking[r] # "none"

ConsumerHoldsMessage ==
  consumer.step # "fetch" => consumer.idx \in 1..Len(log[consumer.part])

CoreInv == TypeOK /\ StoreInv /\ ChecksDone /\ SentHasRow /\ ConsumerHoldsMessage

(* The second half needs a COMMIT whose answer arrives and, with Kafka,     *)
(* reads that do not lie and a writer that stores nothing when it reports   *)
(* an error.                                                                *)
NoPhantoms ==
  /\ "answerLost" \notin Faults
  /\ ~KafkaEnabled \/ Faults \cap {"readError", "writeGhost"} = {}

\* Only one of the two ways to confirm a booking is in use.
OneWayToConfirm ==
  IF KafkaEnabled
    THEN \A r \in Requests : pc[r] # "tx"
    ELSE /\ \A r \in Requests : pc[r] # "write"
         /\ \A p \in Partitions : log[p] = <<>>

NotYetSent == {"idle", "ticket", "wallet", "save", "write", "markFailed", "release", "rejected"}

\* Until Queue has sent its request nobody else can confirm it.
UnsentUnconfirmed ==
  \A r \in Requests :
    /\ pc[r] \in {"idle", "ticket", "wallet", "save"} => booking[r] = "none"
    /\ pc[r] \in NotYetSent => ~Sent(r)
    /\ pc[r] \in NotYetSent \cup {"tx"} => ~Confirmed(r)

\* Past the idempotency check only the consumer itself can confirm the booking.
HandledUnconfirmed ==
  consumer.step \in {"lookup", "tx", "fail"} => ~Confirmed(Message)

StrictInv ==
  SoldMeansConfirmed /\ OneWayToConfirm /\ UnsentUnconfirmed /\ HandledUnconfirmed

-----------------------------------------------------------------------------
(* The tables: every repository operation preserves StoreInv.              *)

LEMMA StoreInvStable ==
  ASSUME StoreInv, UNCHANGED storeVars
  PROVE  StoreInv'
BY DEF StoreInv, StoreTypeOK, RowsAreWellFormed, OneRowPerTicket, WellFormed, storeVars

LEMMA SaveKeepsStore ==
  ASSUME StoreInv, NEW r \in Requests, WellFormed(r), Save(r),
         UNCHANGED <<ticket, balance>>
  PROVE  StoreInv'
<1>1. StoreTypeOK'
  BY DEF StoreInv, StoreTypeOK, Save, BookingStatuses
<1>2. RowsAreWellFormed'
  BY DEF StoreInv, StoreTypeOK, RowsAreWellFormed, WellFormed, Save
<1>3. OneRowPerTicket'
  BY DEF StoreInv, StoreTypeOK, OneRowPerTicket, Save, TicketHasRow
<1> QED
  BY <1>1, <1>2, <1>3 DEF StoreInv

LEMMA UpdateStatusKeepsStore ==
  ASSUME StoreInv, NEW r \in Requests, NEW s \in BookingStatuses \ {"none"},
         UpdateStatus(r, s), UNCHANGED <<ticket, balance>>
  PROVE  StoreInv'
<1>1. StoreTypeOK'
  BY DEF StoreInv, StoreTypeOK, UpdateStatus
<1>2. \A q \in Requests : booking'[q] # "none" => booking[q] # "none"
  BY DEF StoreInv, StoreTypeOK, UpdateStatus
<1> QED
  BY <1>1, <1>2 DEF StoreInv, RowsAreWellFormed, OneRowPerTicket, WellFormed

LEMMA BookTxKeepsStore ==
  ASSUME StoreInv, NEW r \in Requests, booking[r] # "none", BookTx(r)
  PROVE  StoreInv'
<1> USE DataAssumption DEF StoreInv, StoreTypeOK
<1>1. WellFormed(r) /\ Price[r.ticket] \in Nat
  BY DEF RowsAreWellFormed, WellFormed
<1>2. ticket' \in [Tickets -> TicketStatuses]
  BY <1>1 DEF BookTx, MarkSold, TicketStatuses
<1>3. balance' \in [Wallets -> Nat]
  BY <1>1 DEF BookTx, Withdraw, WithdrawOk
<1>4. booking' \in [Requests -> BookingStatuses]
  BY DEF BookTx, UpdateStatus, BookingStatuses
<1>5. \A q \in Requests : booking'[q] # "none" => booking[q] # "none"
  BY DEF BookTx, UpdateStatus
<1> QED
  BY <1>2, <1>3, <1>4, <1>5 DEF RowsAreWellFormed, OneRowPerTicket, WellFormed

LEMMA CancelTxKeepsStore ==
  ASSUME StoreInv, NEW r \in Requests, CancelTx(r)
  PROVE  StoreInv'
<1> USE DataAssumption DEF StoreInv, StoreTypeOK
<1>1. WellFormed(r) /\ Price[r.ticket] \in Nat
  BY DEF RowsAreWellFormed, WellFormed, CancelTx, CancelBooking
<1>2. ticket' \in [Tickets -> TicketStatuses]
  BY DEF CancelTx, MarkAvailable, TicketStatuses
<1>3. balance' \in [Wallets -> Nat]
  BY <1>1 DEF CancelTx, Deposit, WellFormed
<1>4. booking' \in [Requests -> BookingStatuses]
  BY DEF CancelTx, CancelBooking, BookingStatuses
<1>5. \A q \in Requests : booking'[q] # "none" => booking[q] # "none"
  BY DEF CancelTx, CancelBooking
<1> QED
  BY <1>2, <1>3, <1>4, <1>5 DEF RowsAreWellFormed, OneRowPerTicket, WellFormed

LEMMA OwnerMovesKeepStore ==
  ASSUME StoreInv, NEW w \in Wallets, NEW amount \in Amounts,
         Deposit(w, amount) \/ Withdraw(w, amount),
         UNCHANGED <<ticket, booking>>
  PROVE  StoreInv'
<1> USE DataAssumption DEF StoreInv, StoreTypeOK
<1>1. balance' \in [Wallets -> Nat]
  BY DEF Deposit, Withdraw, WithdrawOk
<1> QED
  BY <1>1 DEF RowsAreWellFormed, OneRowPerTicket, WellFormed

-----------------------------------------------------------------------------
(* The gate and the topic.                                                 *)

LEMMA GateOpsKeepType ==
  ASSUME GateTypeOK, NEW t \in TicketIds,
         SetNX(t) \/ Persist(t) \/ Del(t) \/ Expire(t) \/ UNCHANGED claim
  PROVE  GateTypeOK'
BY DEF GateTypeOK, SetNX, Persist, Del, Expire, ClaimStates

LEMMA RequestFields ==
  ASSUME NEW r \in Requests
  PROVE  r.ticket \in TicketIds /\ PartitionOf[r.ticket] \in Partitions
BY DataAssumption DEF RequestCalls

LEMMA CancelFields ==
  ASSUME NEW c \in CancelCalls
  PROVE  c.booking \in Requests /\ c.booking.ticket \in TicketIds
BY DataAssumption, RequestFields

(* Appending keeps every earlier message in its place and adds no other.   *)
LEMMA AppendSends ==
  ASSUME TopicTypeOK, NEW r \in Requests, AppendMessage(r), UNCHANGED <<committed, position>>
  PROVE  /\ TopicTypeOK'
         /\ \A q \in Requests : Sent(q)' => Sent(q) \/ q = r
         /\ \A p \in Partitions :
              /\ Len(log[p]) <= Len(log'[p])
              /\ \A i \in 1..Len(log[p]) : log'[p][i] = log[p][i]
<1> DEFINE pr == PartitionOf[r.ticket]
<1>1. pr \in Partitions
  BY RequestFields
<1>2. \A p \in Partitions \ {pr} : log'[p] = log[p]
  BY DEF TopicTypeOK, AppendMessage
<1>3. log[pr] \in Seq(Requests)
  BY <1>1 DEF TopicTypeOK
<1>4. log'[pr] = Append(log[pr], r)
  BY <1>1 DEF TopicTypeOK, AppendMessage
<1>5. /\ log'[pr] \in Seq(Requests)
      /\ Len(log[pr]) <= Len(log'[pr])
      /\ \A i \in 1..Len(log[pr]) : log'[pr][i] = log[pr][i]
      /\ \A i \in 1..Len(log'[pr]) : i \in 1..Len(log[pr]) \/ log'[pr][i] = r
  BY <1>3, <1>4
<1>6. log' \in [Partitions -> Seq(Requests)]
  BY <1>1, <1>5 DEF TopicTypeOK, AppendMessage
<1>7. ASSUME NEW q \in Requests, Sent(q)', q # r
      PROVE  Sent(q)
  <2>1. PICK p \in Partitions : \E i \in 1..Len(log'[p]) : log'[p][i] = q
    BY <1>7 DEF Sent
  <2>2. CASE p = pr
    BY <1>1, <1>5, <1>7, <2>1, <2>2 DEF Sent
  <2>3. CASE p # pr
    BY <1>2, <2>1, <2>3 DEF Sent
  <2> QED
    BY <2>2, <2>3
<1> HIDE DEF pr
<1>8. \A p \in Partitions :
        /\ Len(log[p]) <= Len(log'[p])
        /\ \A i \in 1..Len(log[p]) : log'[p][i] = log[p][i]
  <2> TAKE p \in Partitions
  <2>1. CASE p = pr
    BY <1>5, <2>1
  <2>2. CASE p # pr
    <3>1. log[p] \in Seq(Requests) /\ log'[p] = log[p]
      BY <1>2, <2>2 DEF TopicTypeOK
    <3> QED
      BY <3>1
  <2> QED
    BY <2>1, <2>2
<1> QED
  BY <1>6, <1>7, <1>8 DEF TopicTypeOK

LEMMA MessageInRequests ==
  ASSUME CoreInv, consumer.step # "fetch"
  PROVE  Message \in Requests /\ booking[Message] # "none" /\ Sent(Message)
<1>1. consumer.part \in Partitions /\ consumer.idx \in 1..Len(log[consumer.part])
  BY DEF CoreInv, TypeOK, ConsumerHoldsMessage
<1>2. log[consumer.part] \in Seq(Requests)
  BY <1>1 DEF CoreInv, TypeOK, TopicTypeOK
<1>3. Message \in Requests /\ Sent(Message)
  BY <1>1, <1>2 DEF Message, Sent
<1> QED
  BY <1>3 DEF CoreInv, SentHasRow

-----------------------------------------------------------------------------
(* CoreInv: an inductive invariant under every fault.                      *)

LEMMA FaultsCount ==
  ASSUME faults \in Nat, NEW kind, Fault(kind) \/ NoFault
  PROVE  faults' \in Nat
BY DEF Fault, NoFault

LEMMA CoreInit == Init => CoreInv
<1> SUFFICES ASSUME Init PROVE CoreInv
  OBVIOUS
<1> USE DataAssumption
<1>1. StoreInv /\ StoreTypeOK
  BY DEF Init, StoreInit, StoreInv, StoreTypeOK, TicketStatuses, BookingStatuses,
         RowsAreWellFormed, OneRowPerTicket
<1>2. GateTypeOK /\ TopicTypeOK
  BY DEF Init, GateInit, GateTypeOK, ClaimStates, TopicInit, TopicTypeOK
<1>3. 0 \in Partitions
  BY DEF Partitions
<1>4. TypeOK
  BY <1>1, <1>2, <1>3 DEF Init, TypeOK, QueuePC, CancelPC, Fetching
<1>5. ChecksDone /\ ConsumerHoldsMessage
  BY DEF Init, ChecksDone, ConsumerHoldsMessage, Fetching
<1>6. SentHasRow
  BY DEF Init, TopicInit, SentHasRow, Sent
<1> QED
  BY <1>1, <1>4, <1>5, <1>6 DEF CoreInv

(* What is left to show when an action sends nothing and moves neither the  *)
(* owner's money nor a row out of the table.                                *)
LEMMA QuietStep ==
  ASSUME CoreInv, StoreInv', GateTypeOK', UNCHANGED <<log, cash>>,
         committed' \in [Partitions -> Nat], position' \in [Partitions -> Nat],
         pc' \in [Requests -> QueuePC], cancel' \in [CancelCalls -> CancelPC],
         consumer' \in [step : ConsumerSteps \cup {"fetch"}, part : Partitions, idx : Nat],
         faults' \in Nat,
         \A r \in Requests : booking[r] # "none" => booking'[r] # "none",
         ChecksDone', ConsumerHoldsMessage'
  PROVE  CoreInv'
<1>1. TypeOK'
  BY DEF CoreInv, TypeOK, StoreInv, TopicTypeOK
<1>2. SentHasRow'
  BY DEF CoreInv, SentHasRow, Sent
<1> QED
  BY <1>1, <1>2 DEF CoreInv

LEMMA QuietQueueStep ==
  ASSUME CoreInv, StoreInv', GateTypeOK', UNCHANGED <<topicVars, cash, cancel, consumer>>,
         NEW r \in Requests, NEW label \in QueuePC, Goto(r, label), faults' \in Nat,
         \A q \in Requests : booking[q] # "none" => booking'[q] # "none",
         label = "wallet" => r.ticket \in Tickets,
         label = "save" => WellFormed(r),
         label \in {"write", "tx"} => booking'[r] # "none"
  PROVE  CoreInv'
<1>1. pc' \in [Requests -> QueuePC]
  BY DEF Goto, CoreInv, TypeOK
<1>2. ChecksDone'
  BY DEF Goto, CoreInv, TypeOK, ChecksDone, WellFormed
<1>3. ConsumerHoldsMessage'
  BY DEF CoreInv, ConsumerHoldsMessage, topicVars
<1>4. /\ committed' \in [Partitions -> Nat]
      /\ position' \in [Partitions -> Nat]
      /\ cancel' \in [CancelCalls -> CancelPC]
      /\ consumer' \in [step : ConsumerSteps \cup {"fetch"}, part : Partitions, idx : Nat]
      /\ UNCHANGED <<log, cash>>
  BY DEF CoreInv, TypeOK, TopicTypeOK, topicVars
<1> QED
  BY <1>1, <1>2, <1>3, <1>4, QuietStep

LEMMA QueueKeepsCore ==
  ASSUME CoreInv, NEW r \in Requests, QueueClaim(r) \/ QueueStep(r)
  PROVE  CoreInv'
<1> USE DEF QueuePC, QueueSteps
<1>0. /\ StoreInv /\ GateTypeOK /\ faults \in Nat /\ r.ticket \in TicketIds
      /\ TopicTypeOK /\ booking \in [Requests -> BookingStatuses]
  BY RequestFields DEF CoreInv, TypeOK, StoreInv, StoreTypeOK
<1>1. CASE QueueClaim(r)
  <2>1. StoreInv' /\ UNCHANGED booking
    BY <1>0, <1>1, StoreInvStable DEF QueueClaim, storeVars
  <2>2. GateTypeOK'
    BY <1>0, <1>1, GateOpsKeepType DEF QueueClaim
  <2>3. faults' \in Nat
    BY <1>0, <1>1 DEF QueueClaim, Fault, NoFault
  <2>4. Goto(r, "ticket") \/ Goto(r, "rejected")
    BY <1>1 DEF QueueClaim
  <2> QED
    BY <1>1, <2>1, <2>2, <2>3, <2>4, QuietQueueStep DEF QueueClaim
<1>2. CASE QueueReadTicket(r)
  <2>1. StoreInv' /\ GateTypeOK' /\ UNCHANGED booking
    BY <1>0, <1>2, StoreInvStable DEF QueueReadTicket, storeVars, GateTypeOK
  <2>2. faults' \in Nat
    BY <1>0, <1>2 DEF QueueReadTicket, Fault, NoFault
  <2>3. (Goto(r, "wallet") /\ r.ticket \in Tickets) \/ Goto(r, "release")
    BY <1>2 DEF QueueReadTicket, TicketOnSale
  <2> QED
    BY <1>2, <2>1, <2>2, <2>3, QuietQueueStep DEF QueueReadTicket
<1>3. CASE QueueReadWallet(r)
  <2>1. StoreInv' /\ GateTypeOK' /\ UNCHANGED booking
    BY <1>0, <1>3, StoreInvStable DEF QueueReadWallet, storeVars, GateTypeOK
  <2>2. faults' \in Nat
    BY <1>0, <1>3 DEF QueueReadWallet, Fault, NoFault
  <2>3. r.ticket \in Tickets
    BY <1>3 DEF QueueReadWallet, CoreInv, ChecksDone
  <2>4. (Goto(r, "save") /\ WellFormed(r)) \/ Goto(r, "release")
    BY <1>3, <2>3 DEF QueueReadWallet, WalletCanPay, WellFormed
  <2> QED
    BY <1>3, <2>1, <2>2, <2>4, QuietQueueStep DEF QueueReadWallet
<1>4. CASE QueueSave(r)
  <2>1. WellFormed(r)
    BY <1>4 DEF QueueSave, CoreInv, ChecksDone
  <2>2. StoreInv'
    BY <1>0, <1>4, <2>1, StoreInvStable, SaveKeepsStore DEF QueueSave, storeVars
  <2>3. \A q \in Requests : booking[q] # "none" => booking'[q] # "none"
    BY <1>0, <1>4 DEF QueueSave, Save
  <2>4. GateTypeOK' /\ faults' \in Nat
    BY <1>0, <1>4 DEF QueueSave, Fault, NoFault, GateTypeOK
  <2>5. \/ (Goto(r, "write") \/ Goto(r, "tx")) /\ booking'[r] # "none"
        \/ Goto(r, "release")
    BY <1>0, <1>4 DEF QueueSave, Save
  <2> QED
    BY <1>4, <2>2, <2>3, <2>4, <2>5, QuietQueueStep DEF QueueSave
<1>5. CASE QueueWrite(r)
  <2>1. StoreInv' /\ GateTypeOK' /\ faults' \in Nat /\ UNCHANGED booking
    BY <1>0, <1>5, StoreInvStable DEF QueueWrite, storeVars, GateTypeOK, Fault, NoFault
  <2>2. Goto(r, "accepted") \/ Goto(r, "markFailed")
    BY <1>5 DEF QueueWrite
  <2>3. CASE UNCHANGED log
    BY <1>5, <2>1, <2>2, <2>3, QuietQueueStep DEF QueueWrite, topicVars
  <2>4. CASE AppendMessage(r)
    <3>1. /\ TopicTypeOK'
          /\ \A q \in Requests : Sent(q)' => Sent(q) \/ q = r
          /\ \A p \in Partitions : Len(log[p]) <= Len(log'[p])
      BY <1>0, <1>5, <2>4, AppendSends DEF QueueWrite
    <3>2. booking[r] # "none"
      BY <1>5 DEF QueueWrite, CoreInv, ChecksDone
    <3>3. SentHasRow'
      BY <2>1, <3>1, <3>2 DEF SentHasRow, CoreInv
    <3>4. TypeOK'
      BY <1>5, <2>1, <2>2, <3>1 DEF QueueWrite, Goto, CoreInv, TypeOK, StoreInv
    <3>5. ChecksDone'
      BY <1>5, <2>1, <2>2 DEF QueueWrite, Goto, CoreInv, TypeOK, ChecksDone, WellFormed
    <3>6. ConsumerHoldsMessage'
      <4>1. consumer.part \in Partitions /\ consumer.idx \in Nat
        BY DEF CoreInv, TypeOK
      <4>2. Len(log[consumer.part]) \in Nat /\ Len(log'[consumer.part]) \in Nat
        BY <1>0, <3>1, <4>1 DEF TopicTypeOK
      <4> QED
        BY <1>5, <3>1, <4>1, <4>2 DEF QueueWrite, CoreInv, ConsumerHoldsMessage
    <3> QED
      BY <2>1, <3>3, <3>4, <3>5, <3>6 DEF CoreInv
  <2> QED
    BY <1>5, <2>3, <2>4 DEF QueueWrite
<1>6. CASE QueueBookTx(r)
  <2>1. booking[r] # "none"
    BY <1>6 DEF QueueBookTx, CoreInv, ChecksDone
  <2>2. StoreInv'
    BY <1>0, <1>6, <2>1, StoreInvStable, BookTxKeepsStore DEF QueueBookTx
  <2>3. \A q \in Requests : booking[q] # "none" => booking'[q] # "none"
    BY <1>0, <1>6 DEF QueueBookTx, BookTx, UpdateStatus, storeVars
  <2>4. GateTypeOK' /\ faults' \in Nat
    BY <1>0, <1>6 DEF QueueBookTx, Fault, NoFault, GateTypeOK
  <2>5. Goto(r, "persist") \/ Goto(r, "markFailed")
    BY <1>6 DEF QueueBookTx
  <2> QED
    BY <1>6, <2>2, <2>3, <2>4, <2>5, QuietQueueStep DEF QueueBookTx
<1>7. CASE QueuePersist(r)
  <2>1. StoreInv' /\ UNCHANGED booking
    BY <1>0, <1>7, StoreInvStable DEF QueuePersist, storeVars
  <2>2. GateTypeOK' /\ faults' \in Nat
    BY <1>0, <1>7, GateOpsKeepType DEF QueuePersist, Fault, NoFault
  <2> QED
    BY <1>7, <2>1, <2>2, QuietQueueStep DEF QueuePersist
<1>8. CASE QueueMarkFailed(r)
  <2>1. StoreInv'
    BY <1>0, <1>8, StoreInvStable, UpdateStatusKeepsStore
       DEF QueueMarkFailed, storeVars, BookingStatuses
  <2>2. \A q \in Requests : booking[q] # "none" => booking'[q] # "none"
    BY <1>0, <1>8 DEF QueueMarkFailed, UpdateStatus
  <2>3. GateTypeOK' /\ faults' \in Nat
    BY <1>0, <1>8 DEF QueueMarkFailed, Fault, NoFault, GateTypeOK
  <2> QED
    BY <1>8, <2>1, <2>2, <2>3, QuietQueueStep DEF QueueMarkFailed
<1>9. CASE QueueRelease(r)
  <2>1. StoreInv' /\ UNCHANGED booking
    BY <1>0, <1>9, StoreInvStable DEF QueueRelease, storeVars
  <2>2. GateTypeOK' /\ faults' \in Nat
    BY <1>0, <1>9, GateOpsKeepType DEF QueueRelease, Fault, NoFault
  <2> QED
    BY <1>9, <2>1, <2>2, QuietQueueStep DEF QueueRelease
<1> QED
  BY <1>1, <1>2, <1>3, <1>4, <1>5, <1>6, <1>7, <1>8, <1>9 DEF QueueStep

(* A step that leaves Queue's handlers alone keeps what they have checked.  *)
LEMMA OtherStepKeepsChecks ==
  ASSUME CoreInv, UNCHANGED pc,
         \A r \in Requests : booking[r] # "none" => booking'[r] # "none"
  PROVE  ChecksDone'
BY DEF CoreInv, ChecksDone, WellFormed

LEMMA CancelKeepsCore ==
  ASSUME CoreInv, NEW c \in CancelCalls, CancelRead(c) \/ CancelStep(c)
  PROVE  CoreInv'
<1>0. /\ StoreInv /\ GateTypeOK /\ faults \in Nat
      /\ booking \in [Requests -> BookingStatuses]
      /\ c.booking \in Requests /\ c.booking.ticket \in TicketIds
  BY CancelFields DEF CoreInv, TypeOK, StoreInv, StoreTypeOK
<1>1. /\ UNCHANGED <<topicVars, pc, consumer, cash>>
      /\ faults' \in Nat
  BY <1>0 DEF CancelRead, CancelStep, CancelBookTx, CancelRelease, Fault, NoFault
<1>2. StoreInv'
  <2>1. CASE UNCHANGED storeVars
    BY <1>0, <2>1, StoreInvStable
  <2>2. CASE CancelTx(c.booking)
    BY <1>0, <2>2, CancelTxKeepsStore
  <2> QED
    BY <2>1, <2>2 DEF CancelRead, CancelStep, CancelBookTx, CancelRelease
<1>3. \A r \in Requests : booking[r] # "none" => booking'[r] # "none"
  BY <1>0 DEF CancelRead, CancelStep, CancelBookTx, CancelRelease, storeVars,
              CancelTx, CancelBooking
<1>4. GateTypeOK'
  <2>1. Del(c.booking.ticket) \/ UNCHANGED claim
    BY DEF CancelRead, CancelStep, CancelBookTx, CancelRelease
  <2> QED
    BY <1>0, <2>1, GateOpsKeepType
<1>5. cancel' \in [CancelCalls -> CancelPC]
  <2>1. PICK label \in CancelPC : CancelGoto(c, label)
    BY DEF CancelRead, CancelStep, CancelBookTx, CancelRelease, CancelAnswer,
           CancelPC, CancelSteps
  <2> QED
    BY <2>1 DEF CancelGoto, CoreInv, TypeOK
<1>6. ChecksDone'
  BY <1>1, <1>3, OtherStepKeepsChecks
<1>7. ConsumerHoldsMessage'
  BY <1>1 DEF CoreInv, ConsumerHoldsMessage, topicVars
<1>8. /\ pc' \in [Requests -> QueuePC]
      /\ committed' \in [Partitions -> Nat] /\ position' \in [Partitions -> Nat]
      /\ consumer' \in [step : ConsumerSteps \cup {"fetch"}, part : Partitions, idx : Nat]
      /\ UNCHANGED <<log, cash>>
  BY <1>1 DEF CoreInv, TypeOK, TopicTypeOK, topicVars
<1> QED
  BY <1>1, <1>2, <1>3, <1>4, <1>5, <1>6, <1>7, <1>8, QuietStep

(* A step of processBooking: the consumer goes on with the same message.    *)
LEMMA ConsumerWorks ==
  ASSUME CoreInv, consumer.step # "fetch", NEW label \in ConsumerSteps, ConsumerGoto(label),
         StoreInv', GateTypeOK', faults' \in Nat,
         UNCHANGED <<topicVars, pc, cancel, cash>>,
         \A r \in Requests : booking[r] # "none" => booking'[r] # "none"
  PROVE  CoreInv'
<1>1. /\ consumer' \in [step : ConsumerSteps \cup {"fetch"}, part : Partitions, idx : Nat]
      /\ consumer'.part = consumer.part /\ consumer'.idx = consumer.idx
  BY DEF ConsumerGoto, CoreInv, TypeOK
<1>2. ConsumerHoldsMessage'
  BY <1>1 DEF CoreInv, ConsumerHoldsMessage, topicVars
<1>3. ChecksDone'
  BY OtherStepKeepsChecks
<1>4. /\ pc' \in [Requests -> QueuePC] /\ cancel' \in [CancelCalls -> CancelPC]
      /\ committed' \in [Partitions -> Nat] /\ position' \in [Partitions -> Nat]
      /\ UNCHANGED <<log, cash>>
  BY DEF CoreInv, TypeOK, TopicTypeOK, topicVars
<1> QED
  BY <1>1, <1>2, <1>3, <1>4, QuietStep

LEMMA ConsumerKeepsCore ==
  ASSUME CoreInv, ConsumerStep
  PROVE  CoreInv'
<1> USE DEF ConsumerSteps
<1>0. /\ StoreInv /\ GateTypeOK /\ faults \in Nat /\ TopicTypeOK
      /\ booking \in [Requests -> BookingStatuses]
      /\ consumer.part \in Partitions /\ consumer.idx \in Nat
  BY DEF CoreInv, TypeOK, StoreInv, StoreTypeOK
<1>0a. consumer.step # "fetch" =>
         Message \in Requests /\ booking[Message] # "none" /\ Message.ticket \in TicketIds
  BY MessageInRequests, RequestFields
<1>1. ASSUME NEW p \in Partitions, ConsumerFetch(p)
      PROVE  CoreInv'
  <2>1. StoreInv' /\ GateTypeOK' /\ faults' \in Nat /\ UNCHANGED <<booking, log, cash>>
    BY <1>0, <1>1, StoreInvStable DEF ConsumerFetch, storeVars, GateTypeOK
  <2>2. /\ consumer' = [step |-> "check", part |-> p, idx |-> position[p] + 1]
        /\ position[p] \in Nat /\ Len(log[p]) \in Nat /\ position[p] < Len(log[p])
        /\ position' \in [Partitions -> Nat]
    BY <1>0, <1>1 DEF ConsumerFetch, FetchMessage, TopicTypeOK
  <2>3. ConsumerHoldsMessage'
    BY <2>1, <2>2 DEF ConsumerHoldsMessage
  <2>4. ChecksDone'
    BY <1>1, <2>1, OtherStepKeepsChecks DEF ConsumerFetch
  <2>5. /\ pc' \in [Requests -> QueuePC] /\ cancel' \in [CancelCalls -> CancelPC]
        /\ committed' \in [Partitions -> Nat]
    BY <1>1 DEF ConsumerFetch, CoreInv, TypeOK, TopicTypeOK
  <2>6. consumer' \in [step : ConsumerSteps \cup {"fetch"}, part : Partitions, idx : Nat]
    BY <2>2
  <2> QED
    BY <2>1, <2>2, <2>3, <2>4, <2>5, <2>6, QuietStep
<1>2. CASE ConsumerCheck \/ ConsumerLookup
  <2>1. StoreInv' /\ GateTypeOK' /\ faults' \in Nat /\ UNCHANGED booking
    BY <1>0, <1>2, StoreInvStable
       DEF ConsumerCheck, ConsumerLookup, storeVars, GateTypeOK, Fault, NoFault
  <2>2. \E label \in ConsumerSteps : ConsumerGoto(label)
    BY <1>2 DEF ConsumerCheck, ConsumerLookup
  <2> QED
    BY <1>2, <2>1, <2>2, ConsumerWorks DEF ConsumerCheck, ConsumerLookup
<1>3. CASE ConsumerBookTx
  <2>1. StoreInv'
    BY <1>0, <1>0a, <1>3, StoreInvStable, BookTxKeepsStore DEF ConsumerBookTx
  <2>2. \A r \in Requests : booking[r] # "none" => booking'[r] # "none"
    BY <1>0, <1>3 DEF ConsumerBookTx, BookTx, UpdateStatus, storeVars
  <2>3. GateTypeOK' /\ faults' \in Nat
    BY <1>0, <1>3 DEF ConsumerBookTx, GateTypeOK, Fault, NoFault
  <2>4. ConsumerGoto("persist") \/ ConsumerGoto("fail")
    BY <1>3 DEF ConsumerBookTx
  <2> QED
    BY <1>3, <2>1, <2>2, <2>3, <2>4, ConsumerWorks DEF ConsumerBookTx
<1>4. CASE ConsumerPersist
  <2>1. StoreInv' /\ UNCHANGED booking
    BY <1>0, <1>4, StoreInvStable DEF ConsumerPersist, storeVars
  <2>2. GateTypeOK' /\ faults' \in Nat
    BY <1>0, <1>0a, <1>4, GateOpsKeepType DEF ConsumerPersist, Fault, NoFault
  <2> QED
    BY <1>4, <2>1, <2>2, ConsumerWorks DEF ConsumerPersist
<1>5. CASE ConsumerFail
  <2>1. StoreInv'
    BY <1>0, <1>0a, <1>5, StoreInvStable, UpdateStatusKeepsStore
       DEF ConsumerFail, storeVars, BookingStatuses
  <2>2. \A r \in Requests : booking[r] # "none" => booking'[r] # "none"
    BY <1>0, <1>5 DEF ConsumerFail, UpdateStatus
  <2>3. GateTypeOK' /\ faults' \in Nat
    BY <1>0, <1>5 DEF ConsumerFail, GateTypeOK, Fault, NoFault
  <2> QED
    BY <1>5, <2>1, <2>2, <2>3, ConsumerWorks DEF ConsumerFail
<1>6. CASE ConsumerRelease
  <2>1. StoreInv' /\ UNCHANGED booking
    BY <1>0, <1>6, StoreInvStable DEF ConsumerRelease, storeVars
  <2>2. GateTypeOK' /\ faults' \in Nat
    BY <1>0, <1>0a, <1>6, GateOpsKeepType DEF ConsumerRelease, Fault, NoFault
  <2> QED
    BY <1>6, <2>1, <2>2, ConsumerWorks DEF ConsumerRelease
<1>7. CASE ConsumerCommit
  <2>1. StoreInv' /\ GateTypeOK' /\ faults' \in Nat /\ UNCHANGED <<booking, log, cash>>
    BY <1>0, <1>7, StoreInvStable
       DEF ConsumerCommit, storeVars, GateTypeOK, Fault, NoFault
  <2>2. committed' \in [Partitions -> Nat] /\ position' \in [Partitions -> Nat]
    BY <1>0, <1>7 DEF ConsumerCommit, CommitMessages, TopicTypeOK
  <2>3. ChecksDone'
    BY <1>7, <2>1, OtherStepKeepsChecks DEF ConsumerCommit
  <2>4. 0 \in Partitions
    BY DataAssumption DEF Partitions
  <2>5. /\ consumer' \in [step : ConsumerSteps \cup {"fetch"}, part : Partitions, idx : Nat]
        /\ ConsumerHoldsMessage'
    BY <1>7, <2>4 DEF ConsumerCommit, Fetching, ConsumerHoldsMessage
  <2>6. pc' \in [Requests -> QueuePC] /\ cancel' \in [CancelCalls -> CancelPC]
    BY <1>7 DEF ConsumerCommit, CoreInv, TypeOK
  <2> QED
    BY <2>1, <2>2, <2>3, <2>5, <2>6, QuietStep
<1> QED
  BY <1>1, <1>2, <1>3, <1>4, <1>5, <1>6, <1>7 DEF ConsumerStep

LEMMA OwnerKeepsCore ==
  ASSUME CoreInv, NEW w \in Wallets, NEW amount \in Amounts,
         WalletDeposit(w, amount) \/ WalletWithdraw(w, amount)
  PROVE  CoreInv'
<1>1. StoreInv'
  BY OwnerMovesKeepStore DEF WalletDeposit, WalletWithdraw, CoreInv
<1>2. cash' \in [Wallets -> Int]
  BY DataAssumption DEF WalletDeposit, WalletWithdraw, CoreInv, TypeOK
<1>3. UNCHANGED <<ticket, booking, claim, topicVars, pc, cancel, consumer, faults>>
  BY DEF WalletDeposit, WalletWithdraw
<1>4. TypeOK'
  BY <1>1, <1>2, <1>3 DEF CoreInv, TypeOK, StoreInv, GateTypeOK, TopicTypeOK, topicVars
<1>5. ChecksDone' /\ SentHasRow' /\ ConsumerHoldsMessage'
  BY <1>3 DEF CoreInv, ChecksDone, WellFormed, SentHasRow, Sent, ConsumerHoldsMessage,
              topicVars
<1> QED
  BY <1>1, <1>4, <1>5 DEF CoreInv

LEMMA EnvironmentKeepsCore ==
  ASSUME CoreInv, (\E t \in TicketIds : ClaimExpires(t)) \/ Crash \/ Rejoin
  PROVE  CoreInv'
<1>0. StoreInv /\ GateTypeOK /\ TopicTypeOK /\ faults \in Nat
  BY DEF CoreInv, TypeOK
<1>1. /\ StoreInv' /\ UNCHANGED <<booking, log, cash>>
  BY <1>0, StoreInvStable DEF ClaimExpires, Crash, Rejoin, storeVars, topicVars
<1>2. GateTypeOK' /\ faults' \in Nat
  BY <1>0, GateOpsKeepType DEF ClaimExpires, Crash, Rejoin, Fault, GateTypeOK
<1>3. committed' \in [Partitions -> Nat] /\ position' \in [Partitions -> Nat]
  BY <1>0 DEF ClaimExpires, Crash, Rejoin, ResumeFromCommitted, TopicTypeOK, topicVars
<1>4. /\ consumer' \in [step : ConsumerSteps \cup {"fetch"}, part : Partitions, idx : Nat]
      /\ ConsumerHoldsMessage'
  <2>1. 0 \in Partitions
    BY DataAssumption DEF Partitions
  <2>2. consumer' = consumer \/ consumer' = Fetching
    BY DEF ClaimExpires, Crash, Rejoin
  <2> QED
    BY <1>1, <2>1, <2>2 DEF CoreInv, TypeOK, Fetching, ConsumerHoldsMessage
<1>5. pc' \in [Requests -> QueuePC] /\ cancel' \in [CancelCalls -> CancelPC]
  BY DEF ClaimExpires, Crash, Rejoin, CoreInv, TypeOK, QueuePC, CancelPC
<1>6. \A r \in Requests : pc'[r] = pc[r] \/ pc'[r] = "dead"
  BY DEF ClaimExpires, Crash, Rejoin
<1>7. ChecksDone'
  BY <1>1, <1>6 DEF CoreInv, ChecksDone, WellFormed
<1> QED
  BY <1>1, <1>2, <1>3, <1>4, <1>5, <1>7, QuietStep

LEMMA CoreStep == CoreInv /\ [Next]_vars => CoreInv'
<1> SUFFICES ASSUME CoreInv, [Next]_vars PROVE CoreInv'
  OBVIOUS
<1>1. CASE UNCHANGED vars
  <2>1. StoreInv'
    BY <1>1, StoreInvStable DEF CoreInv, vars
  <2>2. UNCHANGED <<claim, topicVars, pc, cancel, consumer, cash, faults, booking>>
    BY <1>1 DEF vars, storeVars
  <2>3. TypeOK'
    BY <2>1, <2>2 DEF CoreInv, TypeOK, StoreInv, GateTypeOK, TopicTypeOK, topicVars
  <2>4. ChecksDone' /\ SentHasRow' /\ ConsumerHoldsMessage'
    BY <2>2 DEF CoreInv, ChecksDone, WellFormed, SentHasRow, Sent, ConsumerHoldsMessage,
                topicVars
  <2> QED
    BY <2>1, <2>3, <2>4 DEF CoreInv
<1>2. CASE Next
  BY <1>2, QueueKeepsCore, CancelKeepsCore, ConsumerKeepsCore, OwnerKeepsCore,
     EnvironmentKeepsCore DEF Next, WalletCall
<1> QED
  BY <1>1, <1>2

(* Every reachable state is well typed, under every combination of faults.  *)
THEOREM TypeCorrect == Spec => []TypeOK
<1>1. CoreInv => TypeOK
  BY DEF CoreInv
<1> QED
  BY <1>1, CoreInit, CoreStep, PTL DEF Spec

-----------------------------------------------------------------------------
(* What a step of the service is to the tables.  The status update outside  *)
(* a transaction is the one that could hit a confirmed row.                 *)

OwnerMove ==
  /\ \E w \in Wallets, amount \in Amounts :
       \/ Deposit(w, amount) /\ cash' = [cash EXCEPT ![w] = @ + amount]
       \/ Withdraw(w, amount) /\ cash' = [cash EXCEPT ![w] = @ - amount]
  /\ UNCHANGED <<ticket, booking>>

MarkFailed(r) ==
  /\ UpdateStatus(r, "failed")
  /\ StrictInv => ~Confirmed(r)
  /\ UNCHANGED <<ticket, balance>>

StoreStep ==
  \/ OwnerMove
  \/ /\ \/ UNCHANGED storeVars
        \/ \E r \in Requests : Save(r) /\ WellFormed(r) /\ UNCHANGED <<ticket, balance>>
        \/ \E r \in Requests : MarkFailed(r)
        \/ \E r \in Requests : booking[r] # "none" /\ BookTx(r)
        \/ \E r \in Requests : CancelTx(r)
     /\ UNCHANGED cash

LEMMA StepsOnStore == CoreInv /\ [Next]_vars => StoreStep
<1> SUFFICES ASSUME CoreInv, [Next]_vars PROVE StoreStep
  OBVIOUS
<1>1. ASSUME NEW r \in Requests, QueueClaim(r) \/ QueueStep(r)
      PROVE  StoreStep
  <2>1. CASE QueueSave(r)
    BY <2>1 DEF QueueSave, StoreStep, storeVars, CoreInv, ChecksDone
  <2>2. CASE QueueBookTx(r)
    BY <2>2 DEF QueueBookTx, StoreStep, CoreInv, ChecksDone
  <2>3. CASE QueueMarkFailed(r)
    BY <2>3 DEF QueueMarkFailed, StoreStep, MarkFailed, storeVars, StrictInv,
                UnsentUnconfirmed, NotYetSent
  <2>4. CASE \/ QueueClaim(r) \/ QueueReadTicket(r) \/ QueueReadWallet(r)
             \/ QueueWrite(r) \/ QueuePersist(r) \/ QueueRelease(r)
    BY <2>4 DEF QueueClaim, QueueReadTicket, QueueReadWallet, QueueWrite, QueuePersist,
                QueueRelease, StoreStep
  <2> QED
    BY <1>1, <2>1, <2>2, <2>3, <2>4 DEF QueueStep
<1>2. ASSUME NEW c \in CancelCalls, CancelRead(c) \/ CancelStep(c)
      PROVE  StoreStep
  BY <1>2, CancelFields DEF CancelRead, CancelStep, CancelBookTx, CancelRelease, StoreStep
<1>3. CASE ConsumerStep
  <2>1. CASE ConsumerBookTx
    BY <2>1, MessageInRequests DEF ConsumerBookTx, StoreStep
  <2>2. CASE ConsumerFail
    BY <2>2, MessageInRequests DEF ConsumerFail, StoreStep, MarkFailed, storeVars, StrictInv,
                                   HandledUnconfirmed
  <2>3. CASE \/ (\E p \in Partitions : ConsumerFetch(p)) \/ ConsumerCheck \/ ConsumerLookup
             \/ ConsumerPersist \/ ConsumerRelease \/ ConsumerCommit
    BY <2>3 DEF ConsumerFetch, ConsumerCheck, ConsumerLookup, ConsumerPersist,
                ConsumerRelease, ConsumerCommit, StoreStep
  <2> QED
    BY <1>3, <2>1, <2>2, <2>3 DEF ConsumerStep
<1>4. ASSUME NEW w \in Wallets, NEW amount \in Amounts,
             WalletDeposit(w, amount) \/ WalletWithdraw(w, amount)
      PROVE  StoreStep
  BY <1>4 DEF WalletDeposit, WalletWithdraw, StoreStep, OwnerMove
<1>5. CASE (\E t \in TicketIds : ClaimExpires(t)) \/ Crash \/ Rejoin \/ UNCHANGED vars
  BY <1>5 DEF ClaimExpires, Crash, Rejoin, vars, StoreStep
<1> QED
  BY <1>1, <1>2, <1>3, <1>4, <1>5 DEF Next, WalletCall

(* A confirmed booking holds its seat alone, under every fault.             *)
LEMMA SeatStep == CoreInv /\ ConfirmedSeatIsHeld /\ [Next]_vars => ConfirmedSeatIsHeld'
<1> SUFFICES ASSUME CoreInv, ConfirmedSeatIsHeld, [Next]_vars PROVE ConfirmedSeatIsHeld'
  OBVIOUS
<1>0. /\ ticket \in [Tickets -> TicketStatuses]
      /\ booking \in [Requests -> BookingStatuses]
      /\ OneRowPerTicket /\ RowsAreWellFormed
  BY DEF CoreInv, StoreInv, StoreTypeOK
<1> USE DEF ConfirmedSeatIsHeld, Confirmed
<1>1. CASE UNCHANGED storeVars \/ OwnerMove
  BY <1>1 DEF storeVars, OwnerMove
<1>2. ASSUME NEW r \in Requests, Save(r), UNCHANGED <<ticket, balance>>
      PROVE  ConfirmedSeatIsHeld'
  BY <1>0, <1>2 DEF Save
<1>3. ASSUME NEW r \in Requests, MarkFailed(r)
      PROVE  ConfirmedSeatIsHeld'
  BY <1>0, <1>3 DEF MarkFailed, UpdateStatus
<1>4. ASSUME NEW r \in Requests, booking[r] # "none", BookTx(r)
      PROVE  ConfirmedSeatIsHeld'
  <2>1. r.ticket \in Tickets
    BY <1>0, <1>4 DEF RowsAreWellFormed, WellFormed
  <2>2. ticket'[r.ticket] = "sold" /\ \A t \in Tickets : ticket[t] = "sold" => ticket'[t] = "sold"
    BY <1>0, <1>4, <2>1 DEF BookTx, MarkSold
  <2>3. \A q \in Requests : booking'[q] = "confirmed" => booking[q] = "confirmed" \/ q = r
    BY <1>0, <1>4 DEF BookTx, UpdateStatus
  <2>4. \A q \in Requests : booking[q] = "confirmed" => q.ticket \in Tickets
    BY <1>0 DEF RowsAreWellFormed, WellFormed
  <2> QED
    BY <1>0, <1>4, <2>2, <2>3, <2>4 DEF OneRowPerTicket
<1>5. ASSUME NEW r \in Requests, CancelTx(r)
      PROVE  ConfirmedSeatIsHeld'
  <2>1. booking[r] = "confirmed"
    BY <1>5 DEF CancelTx, CancelBooking
  <2>2. \A q \in Requests : booking'[q] = "confirmed" => booking[q] = "confirmed" /\ q # r
    BY <1>0, <1>5 DEF CancelTx, CancelBooking
  <2>3. \A q \in Requests : booking[q] = "confirmed" => q.ticket \in Tickets
    BY <1>0 DEF RowsAreWellFormed, WellFormed
  <2>4. \A t \in Tickets : t # r.ticket => ticket'[t] = ticket[t]
    BY <1>0, <1>5 DEF CancelTx, MarkAvailable
  <2> QED
    BY <2>1, <2>2, <2>3, <2>4
<1> QED
  BY <1>1, <1>2, <1>3, <1>4, <1>5, StepsOnStore DEF StoreStep

THEOREM SeatHeld == Spec => []ConfirmedSeatIsHeld
<1>1. Init => ConfirmedSeatIsHeld
  BY DEF Init, StoreInit, ConfirmedSeatIsHeld, Confirmed
<1> QED
  BY <1>1, CoreInit, CoreStep, SeatStep, PTL DEF Spec

-----------------------------------------------------------------------------
(* The strict half of the invariant: reads do not lie and a writer that     *)
(* reports an error has stored nothing.                                     *)

LEMMA StrictInit == Init => StrictInv
<1> SUFFICES ASSUME Init PROVE StrictInv
  OBVIOUS
<1>1. SoldMeansConfirmed
  BY DEF Init, StoreInit, SoldMeansConfirmed, Confirmed
<1>2. OneWayToConfirm
  BY DEF Init, TopicInit, OneWayToConfirm
<1>3. UnsentUnconfirmed
  BY DEF Init, StoreInit, TopicInit, UnsentUnconfirmed, Sent, Confirmed
<1>4. HandledUnconfirmed
  BY DEF Init, Fetching, HandledUnconfirmed
<1> QED
  BY <1>1, <1>2, <1>3, <1>4 DEF StrictInv

LEMMA SoldStep ==
  ASSUME CoreInv, StrictInv, [Next]_vars
  PROVE  SoldMeansConfirmed'
<1>0. /\ ticket \in [Tickets -> TicketStatuses]
      /\ booking \in [Requests -> BookingStatuses]
      /\ OneRowPerTicket /\ RowsAreWellFormed /\ SoldMeansConfirmed
  BY DEF CoreInv, StoreInv, StoreTypeOK, StrictInv
<1> USE DEF SoldMeansConfirmed, Confirmed
<1>1. CASE UNCHANGED storeVars \/ OwnerMove
  BY <1>0, <1>1 DEF storeVars, OwnerMove
<1>2. ASSUME NEW r \in Requests, Save(r), UNCHANGED <<ticket, balance>>
      PROVE  SoldMeansConfirmed'
  <2>1. \A q \in Requests : booking'[q] = "confirmed" <=> booking[q] = "confirmed"
    BY <1>0, <1>2 DEF Save, TicketHasRow
  <2> QED
    BY <1>0, <1>2, <2>1
<1>3. ASSUME NEW r \in Requests, MarkFailed(r)
      PROVE  SoldMeansConfirmed'
  <2>1. \A q \in Requests : booking'[q] = "confirmed" <=> booking[q] = "confirmed"
    BY <1>0, <1>3 DEF MarkFailed, UpdateStatus
  <2> QED
    BY <1>0, <1>3, <2>1 DEF MarkFailed
<1>4. ASSUME NEW r \in Requests, booking[r] # "none", BookTx(r)
      PROVE  SoldMeansConfirmed'
  <2>1. r.ticket \in Tickets /\ booking'[r] = "confirmed"
    BY <1>0, <1>4 DEF RowsAreWellFormed, WellFormed, BookTx, UpdateStatus
  <2>2. /\ ticket'[r.ticket] = "sold"
        /\ \A t \in Tickets \ {r.ticket} : ticket'[t] = ticket[t]
    BY <1>0, <1>4, <2>1 DEF BookTx, MarkSold
  <2>3. \A q \in Requests \ {r} : booking'[q] = booking[q]
    BY <1>0, <1>4 DEF BookTx, UpdateStatus
  <2> QED
    BY <1>0, <2>1, <2>2, <2>3
<1>5. ASSUME NEW r \in Requests, CancelTx(r)
      PROVE  SoldMeansConfirmed'
  <2>1. booking[r] = "confirmed" /\ booking'[r] = "cancelled" /\ r.ticket \in Tickets
    BY <1>0, <1>5 DEF CancelTx, CancelBooking, RowsAreWellFormed, WellFormed
  <2>2. \A q \in Requests \ {r} : booking'[q] = booking[q]
    BY <1>0, <1>5 DEF CancelTx, CancelBooking
  <2>3. /\ ticket'[r.ticket] = "available"
        /\ \A t \in Tickets \ {r.ticket} : ticket'[t] = ticket[t]
    BY <1>0, <1>5, <2>1 DEF CancelTx, MarkAvailable
  <2>4. \A q \in Requests \ {r} : q.ticket = r.ticket => booking[q] = "none"
    BY <1>0, <2>1 DEF OneRowPerTicket
  <2> QED
    BY <1>0, <2>1, <2>2, <2>3, <2>4
<1> QED
  BY <1>1, <1>2, <1>3, <1>4, <1>5, StepsOnStore DEF StoreStep

(* Rows become confirmed by a booking transaction only, and it is run by    *)
(* the handler in step "tx" or by the consumer for the message in hand.     *)
LEMMA WhoConfirms ==
  ASSUME CoreInv, [Next]_vars, NEW r \in Requests, ~Confirmed(r), Confirmed(r)'
  PROVE  \/ /\ pc[r] = "tx"
            /\ pc'[r] = "persist" \/ (pc'[r] = "markFailed" /\ Fault("answerLost"))
            /\ UNCHANGED <<topicVars, consumer>>
         \/ /\ consumer.step = "tx" /\ r = Message
            /\ consumer'.step = "persist" \/ (consumer'.step = "fail" /\ Fault("answerLost"))
            /\ UNCHANGED <<topicVars, pc>>
<1> USE DEF Confirmed
<1>0. booking \in [Requests -> BookingStatuses] /\ pc \in [Requests -> QueuePC]
  BY DEF CoreInv, TypeOK, StoreTypeOK
<1>1. ASSUME NEW q \in Requests, QueueBookTx(q)
      PROVE  /\ pc[r] = "tx"
             /\ pc'[r] = "persist" \/ (pc'[r] = "markFailed" /\ Fault("answerLost"))
             /\ UNCHANGED <<topicVars, consumer>>
  BY <1>0, <1>1 DEF QueueBookTx, BookTx, UpdateStatus, Goto, storeVars
<1>2. CASE ConsumerBookTx
  BY <1>0, <1>2 DEF ConsumerBookTx, BookTx, UpdateStatus, ConsumerGoto, storeVars, CoreInv, TypeOK
<1>3. CASE /\ ~ConsumerBookTx
           /\ \A q \in Requests : ~QueueBookTx(q)
  <2>1. \A q \in Requests : QueueClaim(q) \/ QueueStep(q) => booking'[r] # "confirmed"
    BY <1>0, <1>3 DEF QueueStep, QueueClaim, QueueReadTicket, QueueReadWallet, QueueSave, Save,
          QueueWrite, QueuePersist, QueueMarkFailed, UpdateStatus, QueueRelease, storeVars
  <2>2. \A c \in CancelCalls : CancelRead(c) \/ CancelStep(c) => booking'[r] # "confirmed"
    BY <1>0, <1>3 DEF CancelRead, CancelStep, CancelBookTx, CancelRelease, CancelTx,
          CancelBooking, storeVars
  <2>3. ConsumerStep => booking'[r] # "confirmed"
    BY <1>0, <1>3 DEF ConsumerStep, ConsumerFetch, ConsumerCheck, ConsumerLookup,
          ConsumerPersist, ConsumerFail, UpdateStatus, ConsumerRelease, ConsumerCommit, storeVars
  <2>4. \A w \in Wallets, amount \in Amounts :
          WalletDeposit(w, amount) \/ WalletWithdraw(w, amount) => booking'[r] # "confirmed"
    BY DEF WalletDeposit, WalletWithdraw
  <2>5. (\E t \in TicketIds : ClaimExpires(t)) \/ Crash \/ Rejoin \/ UNCHANGED vars
           => booking'[r] # "confirmed"
    BY DEF ClaimExpires, Crash, Rejoin, storeVars, vars
  <2> QED
    BY <2>1, <2>2, <2>3, <2>4, <2>5 DEF Next, WalletCall
<1> QED
  BY <1>1, <1>2, <1>3

(* Where Queue goes, and when it sends.                                     *)
LEMMA SendsOnlyInWrite ==
  ASSUME CoreInv, [Next]_vars
  PROVE  \/ UNCHANGED log
         \/ \E r \in Requests :
              /\ pc[r] = "write"
              /\ AppendMessage(r)
              /\ \/ pc' = [pc EXCEPT ![r] = "accepted"]
                 \/ pc' = [pc EXCEPT ![r] = "markFailed"] /\ Fault("writeGhost")
              /\ UNCHANGED <<storeVars, committed, position, consumer>>
<1>1. ASSUME NEW r \in Requests, QueueWrite(r)
      PROVE  \/ UNCHANGED log
             \/ /\ pc[r] = "write"
                /\ AppendMessage(r)
                /\ \/ pc' = [pc EXCEPT ![r] = "accepted"]
                   \/ pc' = [pc EXCEPT ![r] = "markFailed"] /\ Fault("writeGhost")
                /\ UNCHANGED <<storeVars, committed, position, consumer>>
  BY <1>1 DEF QueueWrite, Goto
<1>2. ASSUME NEW r \in Requests, (QueueClaim(r) \/ QueueStep(r)), ~QueueWrite(r)
      PROVE  UNCHANGED log
  BY <1>2 DEF QueueStep, QueueClaim, QueueReadTicket, QueueReadWallet, QueueSave, QueueBookTx,
              QueuePersist, QueueMarkFailed, QueueRelease, topicVars
<1>3. ASSUME NEW c \in CancelCalls, CancelRead(c) \/ CancelStep(c)
      PROVE  UNCHANGED log
  BY <1>3 DEF CancelRead, CancelStep, CancelBookTx, CancelRelease, topicVars
<1>4. ConsumerStep => UNCHANGED log
  BY DEF ConsumerStep, ConsumerFetch, ConsumerCheck, ConsumerLookup, ConsumerBookTx,
         ConsumerPersist, ConsumerFail, ConsumerRelease, ConsumerCommit, topicVars
<1>5. ASSUME NEW w \in Wallets, NEW amount \in Amounts,
             WalletDeposit(w, amount) \/ WalletWithdraw(w, amount)
      PROVE  UNCHANGED log
  BY <1>5 DEF WalletDeposit, WalletWithdraw, topicVars
<1>6. (\E t \in TicketIds : ClaimExpires(t)) \/ Crash \/ Rejoin \/ UNCHANGED vars
        => UNCHANGED log
  BY DEF ClaimExpires, Crash, Rejoin, vars, topicVars
<1> QED
  BY <1>1, <1>2, <1>3, <1>4, <1>5, <1>6 DEF Next, WalletCall

(* Who moves what: Queue's place changes in its own steps, Cancel's in its  *)
(* own, the consumer's in its own, and all of them in a crash.              *)
LEMMA WhoMovesQueue ==
  ASSUME [Next]_vars
  PROVE  UNCHANGED pc \/ Crash \/ \E r \in Requests : QueueClaim(r) \/ QueueStep(r)
<1>1. ASSUME NEW c \in CancelCalls, CancelRead(c) \/ CancelStep(c)
      PROVE  UNCHANGED pc
  BY <1>1 DEF CancelRead, CancelStep, CancelBookTx, CancelRelease
<1>2. ConsumerStep => UNCHANGED pc
  BY DEF ConsumerStep, ConsumerFetch, ConsumerCheck, ConsumerLookup, ConsumerBookTx,
         ConsumerPersist, ConsumerFail, ConsumerRelease, ConsumerCommit
<1>3. ASSUME NEW w \in Wallets, NEW amount \in Amounts, WalletCall(w, amount)
      PROVE  UNCHANGED pc
  BY <1>3 DEF WalletCall, WalletDeposit, WalletWithdraw
<1>4. (\E t \in TicketIds : ClaimExpires(t)) \/ Rejoin \/ UNCHANGED vars => UNCHANGED pc
  BY DEF ClaimExpires, Rejoin, vars
<1> QED
  BY <1>1, <1>2, <1>3, <1>4 DEF Next

LEMMA WhoMovesCancel ==
  ASSUME [Next]_vars
  PROVE  UNCHANGED cancel \/ Crash \/ \E c \in CancelCalls : CancelRead(c) \/ CancelStep(c)
<1>1. ASSUME NEW r \in Requests, QueueClaim(r) \/ QueueStep(r)
      PROVE  UNCHANGED cancel
  BY <1>1 DEF QueueClaim, QueueStep, QueueReadTicket, QueueReadWallet, QueueSave, QueueWrite,
     QueueBookTx, QueuePersist, QueueMarkFailed, QueueRelease
<1>2. ConsumerStep => UNCHANGED cancel
  BY DEF ConsumerStep, ConsumerFetch, ConsumerCheck, ConsumerLookup, ConsumerBookTx,
         ConsumerPersist, ConsumerFail, ConsumerRelease, ConsumerCommit
<1>3. ASSUME NEW w \in Wallets, NEW amount \in Amounts, WalletCall(w, amount)
      PROVE  UNCHANGED cancel
  BY <1>3 DEF WalletCall, WalletDeposit, WalletWithdraw
<1>4. (\E t \in TicketIds : ClaimExpires(t)) \/ Rejoin \/ UNCHANGED vars => UNCHANGED cancel
  BY DEF ClaimExpires, Rejoin, vars
<1> QED
  BY <1>1, <1>2, <1>3, <1>4 DEF Next

LEMMA WhoMovesConsumer ==
  ASSUME [Next]_vars
  PROVE  UNCHANGED consumer \/ Crash \/ ConsumerStep
<1>1. ASSUME NEW r \in Requests, QueueClaim(r) \/ QueueStep(r)
      PROVE  UNCHANGED consumer
  BY <1>1 DEF QueueClaim, QueueStep, QueueReadTicket, QueueReadWallet, QueueSave, QueueWrite,
     QueueBookTx, QueuePersist, QueueMarkFailed, QueueRelease
<1>2. ASSUME NEW c \in CancelCalls, CancelRead(c) \/ CancelStep(c)
      PROVE  UNCHANGED consumer
  BY <1>2 DEF CancelRead, CancelStep, CancelBookTx, CancelRelease
<1>3. ASSUME NEW w \in Wallets, NEW amount \in Amounts, WalletCall(w, amount)
      PROVE  UNCHANGED consumer
  BY <1>3 DEF WalletCall, WalletDeposit, WalletWithdraw
<1>4. (\E t \in TicketIds : ClaimExpires(t)) \/ Rejoin \/ UNCHANGED vars => UNCHANGED consumer
  BY DEF ClaimExpires, Rejoin, vars
<1> QED
  BY <1>1, <1>2, <1>3, <1>4 DEF Next

LEMMA WhereQueueGoes ==
  ASSUME CoreInv, [Next]_vars, NEW r \in Requests, pc'[r] # pc[r]
  PROVE  \/ pc[r] = "idle" /\ pc'[r] \in {"ticket", "rejected"} /\ UNCHANGED <<booking, log>>
         \/ pc[r] = "ticket" /\ pc'[r] \in {"wallet", "release"} /\ UNCHANGED <<booking, log>>
         \/ pc[r] = "wallet" /\ pc'[r] \in {"save", "release"} /\ UNCHANGED <<booking, log>>
         \/ /\ pc[r] = "save" /\ pc'[r] = "release" /\ UNCHANGED log
            /\ UNCHANGED booking \/ booking' = [booking EXCEPT ![r] = "pending"]
         \/ /\ pc[r] = "save" /\ pc'[r] = IF KafkaEnabled THEN "write" ELSE "tx"
            /\ booking' = [booking EXCEPT ![r] = "pending"] /\ UNCHANGED log
         \/ pc[r] = "write" /\ pc'[r] = "accepted"
         \/ pc[r] = "write" /\ pc'[r] = "markFailed"
              /\ (UNCHANGED <<booking, log>> \/ Fault("writeGhost"))
         \/ pc[r] = "tx" /\ pc'[r] = "persist"
         \/ /\ pc[r] = "tx" /\ pc'[r] = "markFailed" /\ UNCHANGED log
            /\ UNCHANGED booking \/ Fault("answerLost")
         \/ pc[r] = "persist" /\ pc'[r] = "accepted"
         \/ pc[r] = "markFailed" /\ pc'[r] = "release"
         \/ pc[r] = "release" /\ pc'[r] = "rejected"
         \/ pc[r] \in QueueSteps /\ pc'[r] = "dead"
<1>0. pc \in [Requests -> QueuePC]
  BY DEF CoreInv, TypeOK
<1>1. CASE QueueClaim(r) \/ QueueStep(r)
  BY <1>0, <1>1 DEF QueueClaim, QueueStep, QueueReadTicket, QueueReadWallet, QueueSave, Save,
     QueueWrite, QueueBookTx, QueuePersist, QueueMarkFailed, QueueRelease, Goto, topicVars, storeVars
<1>2. ASSUME NEW q \in Requests, QueueClaim(q) \/ QueueStep(q), q # r
      PROVE  FALSE
  BY <1>0, <1>2 DEF QueueClaim, QueueStep, QueueReadTicket, QueueReadWallet, QueueSave,
     QueueWrite, QueueBookTx, QueuePersist, QueueMarkFailed, QueueRelease, Goto
<1>3. CASE Crash
  BY <1>0, <1>3 DEF Crash
<1> QED
  BY <1>1, <1>2, <1>3, WhoMovesQueue

LEMMA NoGhostFault ==
  ASSUME NoPhantoms
  PROVE  /\ ~Fault("answerLost")
         /\ KafkaEnabled => ~Fault("readError") /\ ~Fault("writeGhost")
BY DEF NoPhantoms, Fault

(* A request becomes sent in the step that accepts it.                      *)
LEMMA SentStep ==
  ASSUME CoreInv, OneWayToConfirm, NoPhantoms, [Next]_vars,
         NEW r \in Requests, Sent(r)', ~Sent(r)
  PROVE  pc[r] = "write" /\ pc'[r] = "accepted"
<1>0. pc \in [Requests -> QueuePC] /\ TopicTypeOK
  BY DEF CoreInv, TypeOK
<1>1. CASE UNCHANGED log
  BY <1>1 DEF Sent
<1>2. ASSUME NEW q \in Requests, pc[q] = "write", AppendMessage(q),
             pc' = [pc EXCEPT ![q] = "accepted"], UNCHANGED <<committed, position>>
      PROVE  pc[r] = "write" /\ pc'[r] = "accepted"
  <2>1. r = q
    BY <1>0, <1>2, AppendSends
  <2> QED
    BY <1>0, <1>2, <2>1
<1>3. ~KafkaEnabled => UNCHANGED log
  BY SendsOnlyInWrite DEF OneWayToConfirm
<1> QED
  BY <1>1, <1>2, <1>3, SendsOnlyInWrite, NoGhostFault

LEMMA OneWayStep ==
  ASSUME CoreInv, OneWayToConfirm, [Next]_vars
  PROVE  OneWayToConfirm'
<1>1. CASE KafkaEnabled
  <2>1. ASSUME NEW r \in Requests
        PROVE  pc'[r] # "tx"
    BY <1>1, WhereQueueGoes DEF OneWayToConfirm
  <2> QED
    BY <1>1, <2>1 DEF OneWayToConfirm
<1>2. CASE ~KafkaEnabled
  <2>1. ASSUME NEW r \in Requests
        PROVE  pc'[r] # "write"
    BY <1>2, WhereQueueGoes DEF OneWayToConfirm
  <2>2. UNCHANGED log
    BY <1>2, SendsOnlyInWrite DEF OneWayToConfirm
  <2> QED
    BY <1>2, <2>1, <2>2 DEF OneWayToConfirm
<1> QED
  BY <1>1, <1>2

(* Without Kafka there is never a message for the consumer.                *)
LEMMA ConsumerRests ==
  ASSUME CoreInv, OneWayToConfirm, ~KafkaEnabled
  PROVE  consumer.step = "fetch"
BY DEF CoreInv, TypeOK, ConsumerHoldsMessage, OneWayToConfirm

(* The insert of a row is the step of its own request.                      *)
LEMMA SaveMovesOn ==
  ASSUME CoreInv, [Next]_vars, NEW r \in Requests, booking[r] = "none", booking'[r] # "none"
  PROVE  pc'[r] \in {"write", "tx"} \/ (pc'[r] = "release" /\ Fault("answerLost"))
<1>0. /\ booking \in [Requests -> BookingStatuses] /\ pc \in [Requests -> QueuePC]
  BY DEF CoreInv, TypeOK, StoreTypeOK
<1>1. ASSUME NEW q \in Requests, QueueClaim(q) \/ QueueStep(q)
      PROVE  pc'[r] \in {"write", "tx"} \/ (pc'[r] = "release" /\ Fault("answerLost"))
  <2>1. CASE QueueSave(q)
    BY <1>0, <2>1 DEF QueueSave, Save, Goto
  <2>2. CASE ~QueueSave(q)
    BY <1>0, <1>1, <2>2 DEF QueueStep, QueueClaim, QueueReadTicket, QueueReadWallet, QueueWrite,
       QueueBookTx, BookTx, QueuePersist, QueueMarkFailed, UpdateStatus, QueueRelease, storeVars
  <2> QED
    BY <2>1, <2>2
<1>2. ASSUME NEW c \in CancelCalls, CancelRead(c) \/ CancelStep(c)
      PROVE  FALSE
  BY <1>0, <1>2 DEF CancelRead, CancelStep, CancelBookTx, CancelRelease, CancelTx,
          CancelBooking, storeVars
<1>3. ~ConsumerStep
  BY <1>0 DEF ConsumerStep, ConsumerFetch, ConsumerCheck, ConsumerLookup, ConsumerBookTx, BookTx,
     ConsumerPersist, ConsumerFail, UpdateStatus, ConsumerRelease, ConsumerCommit, storeVars
<1>4. ~(\E w \in Wallets, amount \in Amounts :
          WalletDeposit(w, amount) \/ WalletWithdraw(w, amount))
  BY DEF WalletDeposit, WalletWithdraw
<1>5. ~((\E t \in TicketIds : ClaimExpires(t)) \/ Crash \/ Rejoin \/ UNCHANGED vars)
  BY DEF ClaimExpires, Crash, Rejoin, vars, storeVars
<1> QED
  BY <1>1, <1>2, <1>3, <1>4, <1>5 DEF Next, WalletCall

(* The consumer takes one message through its steps.                        *)
LEMMA ConsumerMoves ==
  ASSUME CoreInv, [Next]_vars, consumer'.step \in {"lookup", "tx", "fail"}, ~Fault("readError")
  PROVE  /\ consumer.step \in {"check", "lookup", "tx", "fail"}
         /\ consumer'.part = consumer.part /\ consumer'.idx = consumer.idx
         /\ consumer.step = "check" => ~Confirmed(Message) /\ UNCHANGED <<booking, log>>
<1>0. consumer \in [step : ConsumerSteps \cup {"fetch"}, part : Partitions, idx : Nat]
  BY DEF CoreInv, TypeOK
<1>1. CASE ConsumerStep
  BY <1>0, <1>1 DEF ConsumerStep, ConsumerFetch, ConsumerCheck, ConsumerLookup, ConsumerBookTx,
     ConsumerPersist, ConsumerFail, ConsumerRelease, ConsumerCommit, ConsumerGoto, Fetching,
     Confirmed, storeVars, topicVars
<1>2. CASE UNCHANGED consumer
  BY <1>0, <1>2
<1>3. ~Crash
  BY DEF Crash, Fetching
<1> QED
  BY <1>1, <1>2, <1>3, WhoMovesConsumer

(* The log is append-only, so the message in hand stays the same.           *)
LEMMA MessageKept ==
  ASSUME CoreInv, [Next]_vars, consumer.step # "fetch",
         consumer'.part = consumer.part, consumer'.idx = consumer.idx
  PROVE  Message' = Message
<1>0. /\ TopicTypeOK /\ consumer.part \in Partitions
      /\ consumer.idx \in 1..Len(log[consumer.part])
  BY DEF CoreInv, TypeOK, ConsumerHoldsMessage
<1>1. CASE UNCHANGED log
  BY <1>1 DEF Message
<1>2. ASSUME NEW q \in Requests, AppendMessage(q), UNCHANGED <<committed, position>>
      PROVE  Message' = Message
  <2>1. log'[consumer.part][consumer.idx] = log[consumer.part][consumer.idx]
    BY <1>0, <1>2, AppendSends
  <2> QED
    BY <2>1 DEF Message
<1> QED
  BY <1>1, <1>2, SendsOnlyInWrite

LEMMA UnsentStep ==
  ASSUME CoreInv, StrictInv, NoPhantoms, [Next]_vars
  PROVE  UnsentUnconfirmed'
<1> SUFFICES ASSUME NEW r \in Requests
             PROVE  /\ pc'[r] \in {"idle", "ticket", "wallet", "save"} => booking'[r] = "none"
                    /\ pc'[r] \in NotYetSent => ~Sent(r)'
                    /\ pc'[r] \in NotYetSent \cup {"tx"} => ~Confirmed(r)'
  BY DEF UnsentUnconfirmed
<1>0. /\ OneWayToConfirm
      /\ pc[r] \in {"idle", "ticket", "wallet", "save"} => booking[r] = "none"
      /\ pc[r] \in NotYetSent => ~Sent(r)
      /\ pc[r] \in NotYetSent \cup {"tx"} => ~Confirmed(r)
  BY DEF StrictInv, UnsentUnconfirmed
<1>1. booking \in [Requests -> BookingStatuses] /\ pc \in [Requests -> QueuePC]
  BY DEF CoreInv, TypeOK, StoreTypeOK
<1>2. pc'[r] \in {"idle", "ticket", "wallet", "save"} => booking'[r] = "none"
  <2>1. CASE pc'[r] = pc[r]
    <3> SUFFICES ASSUME booking[r] = "none", booking'[r] # "none",
                        pc[r] \in {"idle", "ticket", "wallet", "save"}
                 PROVE  FALSE
      BY <1>0, <2>1
    <3>1. ASSUME NEW q \in Requests, Save(q)
          PROVE  q = r
      BY <1>1, <3>1 DEF Save
    <3>2. \E q \in Requests : Save(q)
      BY <1>1, StepsOnStore DEF StoreStep, storeVars, OwnerMove, MarkFailed, UpdateStatus,
                                BookTx, CancelTx, CancelBooking
    <3>3. Save(r)
      BY <3>1, <3>2
    <3> QED
      BY <2>1, <3>3, SaveMovesOn
  <2>2. CASE pc'[r] # pc[r]
    BY <1>0, <2>2, WhereQueueGoes
  <2> QED
    BY <2>1, <2>2
<1>3. pc'[r] \in NotYetSent => ~Sent(r)'
  <2>1. pc'[r] \in NotYetSent =>
          pc[r] \in NotYetSent \/ (pc[r] = "tx" /\ pc'[r] = "markFailed")
    BY WhereQueueGoes DEF NotYetSent
  <2>2. pc[r] = "tx" => ~Sent(r)
    BY <1>0 DEF OneWayToConfirm, Sent
  <2>3. Sent(r)' => Sent(r) \/ pc'[r] = "accepted"
    BY <1>0, SentStep
  <2> QED
    BY <1>0, <2>1, <2>2, <2>3 DEF NotYetSent
<1>4. pc'[r] \in NotYetSent \cup {"tx"} => ~Confirmed(r)'
  <2>1. pc'[r] \in NotYetSent \cup {"tx"} => pc[r] \in NotYetSent \cup {"tx"}
    BY WhereQueueGoes DEF NotYetSent
  <2>2. CASE ~Confirmed(r) /\ Confirmed(r)'
    <3>1. CASE pc[r] = "tx" /\ pc'[r] = "persist"
      BY <3>1 DEF NotYetSent
    <3>2. CASE consumer.step = "tx" /\ r = Message /\ UNCHANGED pc
      <4>1. Sent(r)
        BY <3>2, MessageInRequests
      <4>2. KafkaEnabled
        BY <1>0, <4>1 DEF OneWayToConfirm, Sent
      <4> QED
        BY <1>0, <3>2, <4>1, <4>2 DEF OneWayToConfirm
    <3> QED
      BY <2>2, <3>1, <3>2, NoGhostFault, WhoConfirms
  <2> QED
    BY <1>0, <2>1, <2>2
<1> QED
  BY <1>2, <1>3, <1>4

LEMMA HandledStep ==
  ASSUME CoreInv, StrictInv, NoPhantoms, [Next]_vars
  PROVE  HandledUnconfirmed'
<1>0. /\ HandledUnconfirmed /\ OneWayToConfirm /\ TopicTypeOK
      /\ consumer \in [step : ConsumerSteps \cup {"fetch"}, part : Partitions, idx : Nat]
  BY DEF StrictInv, CoreInv, TypeOK
<1> SUFFICES ASSUME consumer'.step \in {"lookup", "tx", "fail"}
             PROVE  ~Confirmed(Message)'
  BY DEF HandledUnconfirmed
<1>1a. KafkaEnabled
  <2>1. CoreInv' /\ OneWayToConfirm'
    BY <1>0, CoreStep, OneWayStep
  <2>2. consumer'.part \in Partitions /\ consumer'.idx \in 1..Len(log'[consumer'.part])
    BY <2>1 DEF CoreInv, TypeOK, ConsumerHoldsMessage
  <2> QED
    BY <2>1, <2>2 DEF OneWayToConfirm
<1>1. /\ consumer.step \in {"check", "lookup", "tx", "fail"}
      /\ consumer'.part = consumer.part /\ consumer'.idx = consumer.idx
      /\ consumer.step = "check" => ~Confirmed(Message) /\ UNCHANGED <<booking, log>>
  BY <1>0, <1>1a, ConsumerMoves, NoGhostFault
<1>2. ~Confirmed(Message)
  BY <1>0, <1>1 DEF HandledUnconfirmed
<1>3. Message' = Message /\ Message \in Requests
  BY <1>0, <1>1, MessageKept, MessageInRequests
<1>4. CASE Confirmed(Message)'
  <2>1. pc[Message] = "tx"
    BY <1>1, <1>2, <1>3, <1>4, NoGhostFault, WhoConfirms DEF Confirmed
  <2>2. KafkaEnabled
    BY <1>0, <1>1, MessageInRequests DEF OneWayToConfirm, Sent
  <2> QED
    BY <1>0, <1>3, <2>1, <2>2 DEF OneWayToConfirm
<1> QED
  BY <1>4

LEMMA StrictStep == CoreInv /\ StrictInv /\ NoPhantoms /\ [Next]_vars => StrictInv'
<1> SUFFICES ASSUME CoreInv, StrictInv, NoPhantoms, [Next]_vars PROVE StrictInv'
  OBVIOUS
<1>1. OneWayToConfirm'
  BY OneWayStep DEF StrictInv
<1> QED
  BY <1>1, SoldStep, UnsentStep, HandledStep DEF StrictInv

(* When the answers of COMMIT arrive and, with Kafka, reads do not lie and   *)
(* the writer's errors mean that nothing was stored, tickets and bookings   *)
(* never drift apart.                                                       *)
THEOREM SoldExactlyWhenConfirmed ==
  ASSUME NoPhantoms
  PROVE  Spec => []SoldMeansConfirmed
<1>1. StrictInv => SoldMeansConfirmed
  BY DEF StrictInv
<1>2. CoreInv /\ StrictInv /\ [Next]_vars => StrictInv'
  BY StrictStep
<1> QED
  BY <1>1, <1>2, CoreInit, CoreStep, StrictInit, PTL DEF Spec

(* Under the same assumption a caller who got an error is never charged.    *)
THEOREM RejectedUncharged ==
  ASSUME NoPhantoms
  PROVE  Spec => []RejectedNeverCharged
<1>1. StrictInv => RejectedNeverCharged
  BY DEF StrictInv, UnsentUnconfirmed, NotYetSent, RejectedNeverCharged
<1>2. CoreInv /\ StrictInv /\ [Next]_vars => StrictInv'
  BY StrictStep
<1> QED
  BY <1>1, <1>2, CoreInit, CoreStep, StrictInit, PTL DEF Spec

(* Redelivery never turns a confirmed booking into a failed one.            *)
THEOREM ConfirmedIsSafe ==
  ASSUME NoPhantoms
  PROVE  Spec => ConfirmedNeverFails
<1>1. ASSUME CoreInv, StrictInv, [Next]_vars, NEW r \in Requests, Confirmed(r)
      PROVE  booking'[r] \in {"confirmed", "cancelled"}
  <2>1. booking \in [Requests -> BookingStatuses]
    BY <1>1 DEF CoreInv, TypeOK, StoreTypeOK
  <2> QED
    BY <1>1, <2>1, StepsOnStore DEF Confirmed, StoreStep, storeVars, OwnerMove, Save,
       TicketHasRow, MarkFailed, UpdateStatus, BookTx, CancelTx, CancelBooking
<1>2. CoreInv /\ StrictInv /\ [Next]_vars
        => [\A r \in Requests : Confirmed(r) => booking'[r] \in {"confirmed", "cancelled"}]_vars
  BY <1>1
<1>3. CoreInv /\ StrictInv /\ [Next]_vars => StrictInv'
  BY StrictStep
<1> QED
  BY <1>2, <1>3, CoreInit, CoreStep, StrictInit, PTL DEF Spec, ConfirmedNeverFails

-----------------------------------------------------------------------------
(* The refinement of the abstract sale.                                     *)

ConfirmedSet == {r \in Requests : Confirmed(r)}

LEMMA BookTxSells ==
  ASSUME CoreInv, StrictInv, NEW r \in Requests, booking[r] # "none", BookTx(r)
  PROVE  Sale!Sell(r)
<1> USE DEF Confirmed
<1>0. /\ booking \in [Requests -> BookingStatuses]
      /\ r.ticket \in Tickets /\ r.wallet \in Wallets /\ Owner[r.wallet] = r.user
  BY DEF CoreInv, StoreInv, StoreTypeOK, RowsAreWellFormed, WellFormed
<1>1. \A e \in ConfirmedSet : e.ticket # r.ticket
  BY <1>0 DEF ConfirmedSet, StrictInv, SoldMeansConfirmed, BookTx, MarkSold
<1>2. ConfirmedSet' = ConfirmedSet \cup {r}
  BY <1>0 DEF ConfirmedSet, BookTx, UpdateStatus
<1>3. /\ balance[r.wallet] >= Price[r.ticket]
      /\ balance' = [balance EXCEPT ![r.wallet] = @ - Price[r.ticket]]
  BY DEF BookTx, Withdraw, WithdrawOk
<1> QED
  BY <1>0, <1>1, <1>2, <1>3 DEF Sale!Sell, ConfirmedSet

LEMMA CancelTxRefunds ==
  ASSUME CoreInv, NEW r \in Requests, CancelTx(r)
  PROVE  Sale!Refund(r)
<1> USE DEF Confirmed
<1>0. booking \in [Requests -> BookingStatuses]
  BY DEF CoreInv, StoreInv, StoreTypeOK
<1>1. r \in ConfirmedSet /\ ConfirmedSet' = ConfirmedSet \ {r}
  BY <1>0 DEF ConfirmedSet, CancelTx, CancelBooking
<1>2. balance' = [balance EXCEPT ![r.wallet] = @ + Price[r.ticket]]
  BY DEF CancelTx, Deposit
<1> QED
  BY <1>1, <1>2 DEF Sale!Refund, ConfirmedSet

LEMMA StepsOnSale ==
  ASSUME CoreInv, StrictInv, [Next]_vars
  PROVE  [Sale!Next]_Sale!saleVars
<1>0. booking \in [Requests -> BookingStatuses]
  BY DEF CoreInv, StoreInv, StoreTypeOK
<1>1. CASE UNCHANGED storeVars
  <2>1. ConfirmedSet' = ConfirmedSet /\ balance' = balance
    BY <1>1 DEF storeVars, ConfirmedSet, Confirmed
  <2> QED
    BY <2>1 DEF ConfirmedSet, Sale!saleVars
<1>2. CASE OwnerMove
  <2>1. PICK w \in Wallets, amount \in Amounts : Deposit(w, amount) \/ Withdraw(w, amount)
    BY <1>2 DEF OwnerMove
  <2>2. ConfirmedSet' = ConfirmedSet
    BY <1>2 DEF OwnerMove, ConfirmedSet, Confirmed
  <2>3. Sale!TopUp(w, amount) \/ Sale!Spend(w, amount)
    BY <2>1, <2>2 DEF Deposit, Withdraw, WithdrawOk, Sale!TopUp, Sale!Spend, ConfirmedSet
  <2> QED
    BY <2>3 DEF Sale!Next
<1>3. ASSUME NEW r \in Requests, Save(r) \/ MarkFailed(r), UNCHANGED <<ticket, balance>>
      PROVE  [Sale!Next]_Sale!saleVars
  <2>1. \A q \in Requests : Confirmed(q)' <=> Confirmed(q)
    BY <1>0, <1>3 DEF Save, TicketHasRow, MarkFailed, UpdateStatus, Confirmed
  <2>2. ConfirmedSet' = ConfirmedSet
    BY <2>1 DEF ConfirmedSet
  <2> QED
    BY <1>3, <2>2 DEF ConfirmedSet, Sale!saleVars
<1>4. ASSUME NEW r \in Requests, booking[r] # "none", BookTx(r)
      PROVE  [Sale!Next]_Sale!saleVars
  BY <1>4, BookTxSells DEF Sale!Next
<1>5. ASSUME NEW r \in Requests, CancelTx(r)
      PROVE  [Sale!Next]_Sale!saleVars
  BY <1>5, CancelTxRefunds DEF Sale!Next
<1> QED
  BY <1>1, <1>2, <1>3, <1>4, <1>5, StepsOnStore DEF StoreStep, MarkFailed

(* The service with its gate, queue, retries and crashes is a ticket sale.  *)
THEOREM Refinement ==
  ASSUME NoPhantoms
  PROVE  Spec => ImplementsSale
<1>1. Init => Sale!Init
  BY DEF Init, StoreInit, Sale!Init, Confirmed
<1>2. CoreInv /\ StrictInv /\ [Next]_vars => [Sale!Next]_Sale!saleVars
  BY StepsOnSale
<1>3. CoreInv /\ StrictInv /\ [Next]_vars => StrictInv'
  BY StrictStep
<1> QED
  BY <1>1, <1>2, <1>3, CoreInit, CoreStep, StrictInit, PTL DEF Spec, ImplementsSale, Sale!Spec
=============================================================================
