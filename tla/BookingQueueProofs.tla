------------------------ MODULE BookingQueueProofs -------------------------
(***************************************************************************)
(* Proofs about a booking on its way through the table, the topic and the  *)
(* committed offset, for every log, partitioning and interleaving of       *)
(* handlers, consumer, crashes and rejoins: it is not forgotten, and it    *)
(* takes effect twice only where the history says why.                     *)
(***************************************************************************)
EXTENDS BookingProofs, BookingHistory

(* The inductive invariant behind PendingIsCarried.  It needs a status      *)
(* update that succeeds, an INSERT whose answer arrives and a writer that   *)
(* does not lose what it has taken.                                         *)
NothingForgotten == Faults \cap {"statusError", "writeLost", "answerLost"} = {}

Settled(r) == booking[r] # "pending"
InHand(p, i) == consumer.step # "fetch" /\ consumer.part = p /\ consumer.idx = i

TicketsKeepTheirPartition ==
  \A p \in Partitions : \A i \in 1..Len(log[p]) : PartitionOf[log[p][i].ticket] = p

OffsetsInLog ==
  \A p \in Partitions : committed[p] <= Len(log[p]) /\ position[p] <= Len(log[p])

\* Everything before the committed offset has its outcome, and so has
\* everything the reader has handed out but the message in hand.
OffsetsSettled ==
  \A p \in Partitions :
    /\ \A i \in 1..committed[p] : Settled(log[p][i])
    /\ \A i \in 1..position[p] : Settled(log[p][i]) \/ InHand(p, i)

\* Even after a rejoin, the message in hand follows settled ones only.
HandSettled ==
  /\ consumer.step # "fetch" =>
       \A j \in 1..(consumer.idx - 1) : Settled(log[consumer.part][j])
  /\ consumer.step \in {"persist", "release", "commit"} => Settled(Message)

PendingWhere ==
  \A r \in Requests : booking[r] = "pending" =>
    pc[r] \in {"write", "tx", "markFailed", "dead"} \/ (pc[r] = "accepted" /\ Sent(r))

CarryInv ==
  TicketsKeepTheirPartition /\ OffsetsInLog /\ OffsetsSettled /\ HandSettled /\ PendingWhere

-----------------------------------------------------------------------------
(* The inductive invariant behind the properties of BookingHistory.  Its    *)
(* first part needs no history.                                             *)
NotYetCharged(r) == booking[r] \notin {"confirmed", "cancelled"}

\* Until Queue has sent its request or booked it itself nobody charges it.
UnsentUncharged ==
  \A r \in Requests :
    pc[r] \in {"idle", "ticket", "wallet", "save", "write", "tx"} =>
      NotYetCharged(r) /\ ~Sent(r)

OneMessageEach ==
  \A p \in Partitions : \A i, j \in 1..Len(log[p]) : log[p][i] = log[p][j] => i = j

SentInv ==
  OneWayToConfirm /\ TicketsKeepTheirPartition /\ UnsentUncharged /\ OneMessageEach

\* Messages the reader has not handed out have had no effect, except those
\* it has gone back over.
WaitingUncharged ==
  \A p \in Partitions : \A i \in (position[p] + 1)..Len(log[p]) :
    log[p][i] \notin redelivered => NotYetCharged(log[p][i])

\* Nor has the one in hand before its transaction, or after a refused one.
HandUncharged ==
  consumer.step # "fetch" /\ Message \notin redelivered =>
    /\ consumer.idx <= position[consumer.part]
    /\ consumer.step \in {"check", "lookup", "tx"} => NotYetCharged(Message)
    /\ consumer.step \in {"fail", "release"} =>
         Message \in disowned \/ NotYetCharged(Message)

\* A handler that has not been misled works on a request without effect.
FlowUncharged ==
  \A r \in Requests \ disowned : InFlow(r) => NotYetCharged(r) /\ ~Sent(r)

OnceInv == WaitingUncharged /\ HandUncharged /\ FlowUncharged

-----------------------------------------------------------------------------
LEMMA NoLossFault ==
  ASSUME NothingForgotten
  PROVE  ~Fault("statusError") /\ ~Fault("writeLost") /\ ~Fault("answerLost")
BY DEF NothingForgotten, Fault

-----------------------------------------------------------------------------
(* The log.                                                                *)

LEMMA LogEntry ==
  ASSUME CoreInv, NEW p \in Partitions, NEW i \in 1..Len(log[p])
  PROVE  log[p][i] \in Requests /\ Sent(log[p][i]) /\ booking[log[p][i]] # "none"
<1>1. log[p] \in Seq(Requests)
  BY DEF CoreInv, TypeOK, TopicTypeOK
<1>2. log[p][i] \in Requests /\ Sent(log[p][i])
  BY <1>1 DEF Sent
<1> QED
  BY <1>2 DEF CoreInv, SentHasRow

LEMMA LogGrows ==
  ASSUME CoreInv, [Next]_vars, NEW p \in Partitions
  PROVE  /\ Len(log[p]) \in Nat /\ Len(log'[p]) \in Nat
         /\ Len(log[p]) <= Len(log'[p])
         /\ \A i \in 1..Len(log[p]) : log'[p][i] = log[p][i]
<1>1. TopicTypeOK /\ TopicTypeOK'
  BY CoreStep DEF CoreInv, TypeOK
<1>2. Len(log[p]) \in Nat /\ Len(log'[p]) \in Nat
  BY <1>1 DEF TopicTypeOK
<1>3. CASE UNCHANGED log
  BY <1>2, <1>3
<1>4. CASE ~UNCHANGED log
  BY <1>1, <1>2, <1>4, SendsOnlyInWrite, AppendSends
<1> QED
  BY <1>2, <1>3, <1>4

(* A request is appended to the partition of its ticket, and it is there.   *)
LEMMA AppendPlaces ==
  ASSUME TopicTypeOK, NEW r \in Requests, AppendMessage(r)
  PROVE  /\ Sent(r)'
         /\ \A p \in Partitions : \A i \in 1..Len(log'[p]) :
              i \in 1..Len(log[p]) \/ (p = PartitionOf[r.ticket] /\ log'[p][i] = r)
<1> DEFINE pr == PartitionOf[r.ticket]
<1>1. pr \in Partitions
  BY RequestFields
<1>2. \A p \in Partitions \ {pr} : log'[p] = log[p]
  BY DEF TopicTypeOK, AppendMessage
<1>3. log[pr] \in Seq(Requests)
  BY <1>1 DEF TopicTypeOK
<1>4. log'[pr] = Append(log[pr], r)
  BY <1>1 DEF TopicTypeOK, AppendMessage
<1>5. /\ Len(log[pr]) + 1 \in 1..Len(log'[pr]) /\ log'[pr][Len(log[pr]) + 1] = r
      /\ \A i \in 1..Len(log'[pr]) : i \in 1..Len(log[pr]) \/ log'[pr][i] = r
  BY <1>3, <1>4
<1>6. Sent(r)'
  BY <1>1, <1>5 DEF Sent
<1> QED
  BY <1>2, <1>5, <1>6

LEMMA PartitionsInv ==
  ASSUME CoreInv, TicketsKeepTheirPartition, [Next]_vars
  PROVE  TicketsKeepTheirPartition'
<1>1. CASE UNCHANGED log
  BY <1>1 DEF TicketsKeepTheirPartition
<1>2. ASSUME NEW r \in Requests, AppendMessage(r)
      PROVE  TicketsKeepTheirPartition'
  <2>1. SUFFICES ASSUME NEW p \in Partitions, NEW i \in 1..Len(log'[p])
                 PROVE  PartitionOf[log'[p][i].ticket] = p
    BY DEF TicketsKeepTheirPartition
  <2>2. CASE i \in 1..Len(log[p])
    <3>1. log'[p][i] = log[p][i]
      BY <2>2, LogGrows
    <3> QED
      BY <2>2, <3>1 DEF TicketsKeepTheirPartition
  <2>3. CASE i \notin 1..Len(log[p])
    BY <1>2, <2>3, AppendPlaces DEF CoreInv, TypeOK
  <2> QED
    BY <2>2, <2>3
<1> QED
  BY <1>1, <1>2, SendsOnlyInWrite

-----------------------------------------------------------------------------
(* Outcomes are final: a row never becomes pending again.                  *)

LEMMA SettledStays ==
  ASSUME CoreInv, [Next]_vars, NEW r \in Requests, booking[r] # "none", Settled(r)
  PROVE  Settled(r)'
<1>1. booking \in [Requests -> BookingStatuses]
  BY DEF CoreInv, TypeOK, StoreTypeOK
<1> QED
  BY <1>1, StepsOnStore
     DEF StoreStep, storeVars, OwnerMove, Save, TicketHasRow, MarkFailed, UpdateStatus, BookTx,
         CancelTx, CancelBooking, Settled

LEMMA EntrySettled ==
  ASSUME CoreInv, [Next]_vars, NEW p \in Partitions, NEW i \in 1..Len(log[p]),
         Settled(log[p][i])
  PROVE  Settled(log[p][i])' /\ log'[p][i] = log[p][i]
<1>1. log[p][i] \in Requests /\ booking[log[p][i]] # "none" /\ log'[p][i] = log[p][i]
  BY LogEntry, LogGrows
<1> DEFINE r == log[p][i]
<1>2. booking'[r] # "pending"
  <2>1. r \in Requests /\ booking[r] # "none" /\ Settled(r)
    BY <1>1
  <2> HIDE DEF r
  <2> QED
    BY <2>1, SettledStays DEF Settled
<1> QED
  BY <1>1, <1>2 DEF Settled

(* What Queue does to its own row.                                          *)
LEMMA QueueSettles ==
  ASSUME CoreInv, NothingForgotten, [Next]_vars, NEW r \in Requests
  PROVE  /\ pc[r] = "write" /\ pc'[r] = "accepted" => Sent(r)'
         /\ pc[r] = "tx" /\ pc'[r] = "persist" => Settled(r)'
         /\ pc[r] = "markFailed" /\ pc'[r] = "release" => Settled(r)'
<1>0. /\ pc \in [Requests -> QueuePC] /\ booking \in [Requests -> BookingStatuses]
      /\ TopicTypeOK
  BY DEF CoreInv, TypeOK, StoreTypeOK
<1>1. CASE QueueWrite(r)
  BY <1>0, <1>1, NoLossFault, AppendPlaces DEF QueueWrite, Goto
<1>2. CASE QueueBookTx(r)
  BY <1>0, <1>2 DEF QueueBookTx, BookTx, UpdateStatus, Goto, Settled
<1>3. CASE QueueMarkFailed(r)
  BY <1>0, <1>3, NoLossFault DEF QueueMarkFailed, UpdateStatus, Goto, Settled
<1>4. CASE ~QueueWrite(r) /\ ~QueueBookTx(r) /\ ~QueueMarkFailed(r)
  <2>1. SUFFICES ASSUME pc[r] \in {"write", "tx", "markFailed"}, pc'[r] # "dead"
                 PROVE  pc'[r] = pc[r]
    OBVIOUS
  <2>2. ASSUME NEW q \in Requests, QueueClaim(q) \/ QueueStep(q)
        PROVE  pc'[r] = pc[r]
    BY <1>0, <1>4, <2>1, <2>2
    DEF QueueStep, QueueClaim, QueueReadTicket, QueueReadWallet, QueueSave, QueueWrite,
        QueueBookTx, QueuePersist, QueueMarkFailed, QueueRelease, Goto
  <2>3. Crash => pc'[r] = "dead"
    BY <2>1 DEF Crash, QueueSteps
  <2> QED
    BY <2>1, <2>2, <2>3, WhoMovesQueue
<1> QED
  BY <1>1, <1>2, <1>3, <1>4

LEMMA PendingWhereInv ==
  ASSUME CoreInv, PendingWhere, NothingForgotten, [Next]_vars
  PROVE  PendingWhere'
<1>1. SUFFICES ASSUME NEW r \in Requests, booking'[r] = "pending"
               PROVE  \/ pc'[r] \in {"write", "tx", "markFailed", "dead"}
                      \/ pc'[r] = "accepted" /\ Sent(r)'
  BY DEF PendingWhere
<1>2. CASE booking[r] = "none"
  BY <1>1, <1>2, NoLossFault, SaveMovesOn
<1>3. CASE booking[r] # "none"
  <2>1. booking[r] = "pending"
    BY <1>1, <1>3, SettledStays DEF Settled
  <2>2. \/ pc[r] \in {"write", "tx", "markFailed", "dead"}
        \/ pc[r] = "accepted" /\ Sent(r)
    BY <2>1 DEF PendingWhere
  <2>3. ~Settled(r)'
    BY <1>1 DEF Settled
  <2>4. CASE pc'[r] = pc[r]
    <3>1. Sent(r) => Sent(r)'
      BY LogGrows DEF Sent
    <3> QED
      BY <2>2, <2>4, <3>1
  <2>5. CASE pc'[r] # pc[r]
    BY <2>2, <2>3, <2>5, WhereQueueGoes, QueueSettles DEF QueueSteps
  <2> QED
    BY <2>4, <2>5
<1> QED
  BY <1>2, <1>3

-----------------------------------------------------------------------------
(* What a step does to the consumer and to the offsets.                    *)

Fetches(p) ==
  /\ consumer.step = "fetch" /\ FetchMessage(p)
  /\ consumer' = [step |-> "check", part |-> p, idx |-> position[p] + 1]
  /\ UNCHANGED committed

Works ==
  /\ consumer.step # "fetch" /\ consumer'.step \in ConsumerSteps
  /\ consumer'.part = consumer.part /\ consumer'.idx = consumer.idx
  /\ HandSettled /\ NothingForgotten /\ consumer'.step \in {"persist", "release", "commit"}
       => Settled(Message)'
  /\ UNCHANGED <<committed, position>>

Commits ==
  /\ consumer.step = "commit" /\ consumer' = Fetching
  /\ CommitMessages(consumer.part, consumer.idx) \/ UNCHANGED committed
  /\ UNCHANGED position

Resumes ==
  /\ Fault("crash") \/ Fault("rejoin")
  /\ ResumeFromCommitted /\ UNCHANGED committed
  /\ consumer' \in {consumer, Fetching}

OffsetStep ==
  \/ UNCHANGED <<committed, position, consumer>>
  \/ \E p \in Partitions : Fetches(p)
  \/ Works \/ Commits \/ Resumes

LEMMA StepsOnOffsets ==
  ASSUME CoreInv, [Next]_vars
  PROVE  OffsetStep
<1> USE DEF OffsetStep
<1>1. ASSUME NEW r \in Requests, QueueClaim(r) \/ QueueStep(r)
      PROVE  OffsetStep
  BY <1>1
  DEF QueueStep, QueueClaim, QueueReadTicket, QueueReadWallet, QueueSave, QueueWrite,
      QueueBookTx, QueuePersist, QueueMarkFailed, QueueRelease, topicVars
<1>2. ASSUME NEW c \in CancelCalls, CancelRead(c) \/ CancelStep(c)
      PROVE  OffsetStep
  BY <1>2 DEF CancelRead, CancelStep, CancelBookTx, CancelRelease, topicVars
<1>3. CASE \E p \in Partitions : ConsumerFetch(p)
  BY <1>3 DEF ConsumerFetch, Fetches
<1>4. CASE ConsumerCommit
  BY <1>4 DEF ConsumerCommit, Commits
<1>5. CASE ConsumerStep /\ ~ConsumerCommit /\ ~\E p \in Partitions : ConsumerFetch(p)
  <2>1. consumer \in [step : ConsumerSteps \cup {"fetch"}, part : Partitions, idx : Nat]
    BY DEF CoreInv, TypeOK
  <2>2. PICK label \in ConsumerSteps : consumer' = [consumer EXCEPT !.step = label]
    BY <1>5
    DEF ConsumerStep, ConsumerCheck, ConsumerLookup, ConsumerBookTx, ConsumerPersist,
        ConsumerFail, ConsumerRelease, ConsumerGoto, ConsumerSteps
  <2>3. /\ consumer.step # "fetch" /\ UNCHANGED topicVars
        /\ consumer'.part = consumer.part /\ consumer'.idx = consumer.idx
        /\ consumer'.step = label
    BY <1>5, <2>1, <2>2
    DEF ConsumerStep, ConsumerCheck, ConsumerLookup, ConsumerBookTx, ConsumerPersist,
        ConsumerFail, ConsumerRelease
  <2>4. /\ Message \in Requests /\ booking[Message] # "none" /\ Message' = Message
        /\ booking \in [Requests -> BookingStatuses]
    BY <2>3, MessageInRequests, MessageKept DEF CoreInv, TypeOK, StoreTypeOK
  <2>5. ASSUME HandSettled, NothingForgotten, label \in {"persist", "release", "commit"}
        PROVE  booking'[Message] # "pending"
    <3>1. CASE ConsumerCheck \/ ConsumerLookup
      BY <2>1, <2>2, <2>5, <3>1
      DEF ConsumerCheck, ConsumerLookup, ConsumerGoto, storeVars
    <3>2. CASE ConsumerBookTx
      BY <2>1, <2>2, <2>4, <2>5, <3>2 DEF ConsumerBookTx, ConsumerGoto, BookTx, UpdateStatus
    <3>3. CASE ConsumerFail
      BY <2>4, <2>5, <3>3, NoLossFault DEF ConsumerFail, UpdateStatus
    <3>4. CASE ConsumerPersist \/ ConsumerRelease
      BY <2>5, <3>4 DEF ConsumerPersist, ConsumerRelease, HandSettled, Settled, storeVars
    <3> QED
      BY <1>5, <3>1, <3>2, <3>3, <3>4 DEF ConsumerStep
  <2> QED
    BY <2>3, <2>4, <2>5 DEF Works, Settled, topicVars
<1>6. ASSUME NEW w \in Wallets, NEW amount \in Amounts, WalletCall(w, amount)
      PROVE  OffsetStep
  BY <1>6 DEF WalletCall, WalletDeposit, WalletWithdraw, topicVars
<1>7. CASE Crash \/ Rejoin
  BY <1>7 DEF Crash, Rejoin, Resumes
<1>8. CASE (\E t \in TicketIds : ClaimExpires(t)) \/ UNCHANGED vars
  BY <1>8 DEF ClaimExpires, vars, topicVars
<1> QED
  BY <1>1, <1>2, <1>3, <1>4, <1>5, <1>6, <1>7, <1>8 DEF Next

LEMMA OffsetsInLogInv ==
  ASSUME CoreInv, OffsetsInLog, OffsetStep, [Next]_vars
  PROVE  OffsetsInLog'
<1>0. /\ TopicTypeOK
      /\ consumer \in [step : ConsumerSteps \cup {"fetch"}, part : Partitions, idx : Nat]
  BY DEF CoreInv, TypeOK
<1>1. SUFFICES ASSUME NEW p \in Partitions
               PROVE  committed'[p] <= Len(log'[p]) /\ position'[p] <= Len(log'[p])
  BY DEF OffsetsInLog
<1>2. /\ Len(log[p]) \in Nat /\ Len(log'[p]) \in Nat /\ Len(log[p]) <= Len(log'[p])
      /\ committed[p] \in Nat /\ position[p] \in Nat
      /\ committed[p] <= Len(log[p]) /\ position[p] <= Len(log[p])
  BY <1>0, LogGrows DEF OffsetsInLog, TopicTypeOK
<1>3. committed'[p] <= Len(log[p])
  <2>1. ASSUME CommitMessages(consumer.part, consumer.idx), consumer.step = "commit"
        PROVE  committed'[p] <= Len(log[p])
    <3>1. consumer.idx <= Len(log[consumer.part])
      BY <2>1 DEF CoreInv, ConsumerHoldsMessage
    <3>2. committed'[p] = IF p = consumer.part THEN consumer.idx ELSE committed[p]
      BY <1>0, <2>1 DEF CommitMessages, TopicTypeOK
    <3> QED
      BY <1>2, <3>1, <3>2
  <2> QED
    BY <1>2, <2>1 DEF OffsetStep, Fetches, Works, Commits, Resumes
<1>4. position'[p] <= Len(log[p])
  <2>1. ASSUME NEW x \in Partitions, FetchMessage(x)
        PROVE  position'[p] <= Len(log[p])
    <3>1. position'[p] = IF p = x THEN position[p] + 1 ELSE position[p]
      BY <1>0, <2>1 DEF FetchMessage, TopicTypeOK
    <3> QED
      BY <1>2, <2>1, <3>1 DEF FetchMessage
  <2> QED
    BY <1>2, <2>1 DEF OffsetStep, Fetches, Works, Commits, Resumes, ResumeFromCommitted
<1>5. committed'[p] \in Nat /\ position'[p] \in Nat
  BY CoreStep DEF CoreInv, TypeOK, TopicTypeOK
<1> QED
  BY <1>2, <1>3, <1>4, <1>5

LEMMA OffsetsSettledInv ==
  ASSUME CoreInv, CarryInv, OffsetStep, [Next]_vars
  PROVE  OffsetsSettled'
<1>0. /\ TopicTypeOK /\ HandSettled /\ OffsetsSettled /\ OffsetsInLog
      /\ consumer \in [step : ConsumerSteps \cup {"fetch"}, part : Partitions, idx : Nat]
  BY DEF CoreInv, TypeOK, CarryInv
<1>1. SUFFICES ASSUME NEW p \in Partitions
               PROVE  /\ \A i \in 1..committed'[p] : Settled(log[p][i])'
                      /\ \A i \in 1..position'[p] : Settled(log[p][i])' \/ InHand(p, i)'
  BY DEF OffsetsSettled
<1>2. /\ committed[p] \in Nat /\ position[p] \in Nat /\ Len(log[p]) \in Nat
      /\ committed[p] <= Len(log[p]) /\ position[p] <= Len(log[p])
  BY <1>0 DEF OffsetsInLog, TopicTypeOK
<1>3. \A i \in 1..Len(log[p]) : Settled(log[p][i]) => Settled(log[p][i])'
  BY EntrySettled DEF Settled
<1>4. /\ \A i \in 1..committed[p] : Settled(log[p][i])'
      /\ \A i \in 1..position[p] : Settled(log[p][i])' \/ InHand(p, i)
  BY <1>0, <1>2, <1>3 DEF OffsetsSettled
<1>5. CASE UNCHANGED <<committed, position, consumer>>
  BY <1>4, <1>5 DEF InHand
<1>6. ASSUME NEW x \in Partitions, Fetches(x)
      PROVE  /\ \A i \in 1..committed'[p] : Settled(log[p][i])'
             /\ \A i \in 1..position'[p] : Settled(log[p][i])' \/ InHand(p, i)'
  <2>1. \A i \in 1..position[p] : Settled(log[p][i])'
    BY <1>4, <1>6 DEF Fetches, InHand
  <2>2. position'[p] = position[p] \/ (p = x /\ position'[p] = position[p] + 1)
    BY <1>0, <1>6 DEF Fetches, FetchMessage, TopicTypeOK
  <2>3. \A i \in Nat : p = x /\ i = position[p] + 1 => InHand(p, i)'
    BY <1>6 DEF Fetches, InHand
  <2>4. \A i \in 1..position'[p] : i \in 1..position[p] \/ (p = x /\ i = position[p] + 1)
    BY <1>2, <2>2
  <2> QED
    BY <1>2, <1>4, <1>6, <2>1, <2>2, <2>3, <2>4 DEF Fetches
<1>7. CASE Works
  <2>1. \A i \in Nat : InHand(p, i) => InHand(p, i)'
    BY <1>0, <1>7 DEF Works, InHand, ConsumerSteps
  <2> QED
    BY <1>2, <1>4, <1>7, <2>1 DEF Works
<1>8. CASE Commits
  <2>1. consumer.part = p =>
          /\ consumer.idx \in 1..Len(log[p])
          /\ \A j \in 1..consumer.idx : Settled(log[p][j])'
    <3>1. SUFFICES ASSUME consumer.part = p
                   PROVE  /\ consumer.idx \in 1..Len(log[p])
                          /\ \A j \in 1..consumer.idx : Settled(log[p][j])'
      OBVIOUS
    <3>2. consumer.idx \in 1..Len(log[p])
      BY <1>8, <3>1 DEF Commits, CoreInv, ConsumerHoldsMessage
    <3>3. /\ \A j \in 1..(consumer.idx - 1) : Settled(log[p][j])
          /\ Settled(log[p][consumer.idx])
      BY <1>0, <1>8, <3>1 DEF Commits, HandSettled, Message
    <3>4. \A j \in 1..consumer.idx : Settled(log[p][j])
      BY <1>2, <3>2, <3>3
    <3> QED
      BY <1>2, <1>3, <3>2, <3>4
  <2>2. \A i \in 1..committed'[p] : Settled(log[p][i])'
    BY <1>0, <1>4, <1>8, <2>1 DEF Commits, CommitMessages, TopicTypeOK
  <2>3. \A i \in 1..position[p] : Settled(log[p][i])'
    BY <1>2, <1>4, <2>1 DEF InHand
  <2> QED
    BY <1>8, <2>2, <2>3 DEF Commits
<1>9. CASE Resumes
  BY <1>4, <1>9 DEF Resumes, ResumeFromCommitted
<1> QED
  BY <1>5, <1>6, <1>7, <1>8, <1>9 DEF OffsetStep

LEMMA HandSettledInv ==
  ASSUME CoreInv, CarryInv, NothingForgotten, OffsetStep, [Next]_vars
  PROVE  HandSettled'
<1>0. /\ TopicTypeOK /\ HandSettled /\ OffsetsSettled /\ OffsetsInLog
      /\ consumer \in [step : ConsumerSteps \cup {"fetch"}, part : Partitions, idx : Nat]
  BY DEF CoreInv, TypeOK, CarryInv
<1>1. \A p \in Partitions : \A i \in 1..Len(log[p]) : Settled(log[p][i]) => Settled(log[p][i])'
  BY EntrySettled DEF Settled
<1>2. CASE Fetching = consumer' \/ consumer'.step = "fetch"
  BY <1>2 DEF Fetching, HandSettled
<1>3. ASSUME NEW p \in Partitions, Fetches(p)
      PROVE  HandSettled'
  <2>1. /\ position[p] \in Nat /\ Len(log[p]) \in Nat /\ position[p] <= Len(log[p])
        /\ consumer' = [step |-> "check", part |-> p, idx |-> position[p] + 1]
    BY <1>0, <1>3 DEF Fetches, OffsetsInLog, TopicTypeOK
  <2>2. \A j \in 1..position[p] : Settled(log[p][j])
    BY <1>0, <1>3 DEF Fetches, OffsetsSettled, InHand
  <2>3. \A j \in 1..position[p] : Settled(log[p][j])'
    BY <1>1, <2>1, <2>2
  <2> QED
    BY <2>1, <2>3 DEF HandSettled
<1>4. CASE /\ consumer.step # "fetch"
           /\ consumer'.part = consumer.part /\ consumer'.idx = consumer.idx
           /\ Works \/ UNCHANGED consumer
  <2>1. /\ consumer.idx \in 1..Len(log[consumer.part]) /\ consumer.part \in Partitions
        /\ Len(log[consumer.part]) \in Nat
    BY <1>0, <1>4 DEF CoreInv, ConsumerHoldsMessage, TopicTypeOK
  <2>2. \A j \in 1..(consumer.idx - 1) : Settled(log[consumer.part][j])
    BY <1>0, <1>4 DEF HandSettled
  <2>3. \A j \in 1..(consumer.idx - 1) : Settled(log[consumer.part][j])'
    <3>1. \A j \in 1..(consumer.idx - 1) : j \in 1..Len(log[consumer.part])
      BY <2>1
    <3>2. \A p \in Partitions : p = consumer.part =>
            \A j \in 1..(consumer.idx - 1) : Settled(log[p][j])'
      BY <1>1, <2>2, <3>1
    <3> QED
      BY <1>4, <2>1, <3>2
  <2>4. consumer'.step \in {"persist", "release", "commit"} => Settled(Message)'
    <3>1. CASE Works
      BY <1>0, <3>1 DEF Works
    <3>2. CASE UNCHANGED consumer
      <4>1. SUFFICES ASSUME consumer.step \in {"persist", "release", "commit"}
                     PROVE  Settled(Message)'
        BY <3>2
      <4>2. Settled(Message) /\ Message' = Message /\ Message \in Requests
            /\ booking[Message] # "none"
        BY <1>0, <1>4, <4>1, MessageKept, MessageInRequests DEF HandSettled
      <4> QED
        BY <4>2, SettledStays DEF Settled
    <3> QED
      BY <1>4, <3>1, <3>2
  <2> QED
    BY <1>4, <2>3, <2>4 DEF HandSettled
<1> QED
  BY <1>0, <1>2, <1>3, <1>4 DEF OffsetStep, Works, Commits, Resumes, ConsumerSteps

-----------------------------------------------------------------------------

LEMMA CarryInit == Init => CarryInv
<1> SUFFICES ASSUME Init PROVE CarryInv
  OBVIOUS
<1>1. TicketsKeepTheirPartition /\ OffsetsInLog /\ OffsetsSettled
  BY DEF Init, TopicInit, TicketsKeepTheirPartition, OffsetsInLog, OffsetsSettled
<1>2. HandSettled /\ PendingWhere
  BY DEF Init, StoreInit, Fetching, HandSettled, PendingWhere
<1> QED
  BY <1>1, <1>2 DEF CarryInv

(* When status updates succeed and the writer loses nothing, no interleaving *)
(* of handlers, redeliveries, rejoins, failed commits, crashes and expiring *)
(* claims leaves a pending booking behind, but a crash of its own handler.  *)
THEOREM NothingIsForgotten ==
  ASSUME NothingForgotten
  PROVE  Spec => []PendingIsCarried
<1>1. CoreInv /\ CarryInv /\ [Next]_vars => CarryInv'
  <2> SUFFICES ASSUME CoreInv, CarryInv, [Next]_vars PROVE CarryInv'
    OBVIOUS
  <2>1. OffsetStep
    BY StepsOnOffsets
  <2> QED
    BY <2>1, PartitionsInv, OffsetsInLogInv, OffsetsSettledInv, HandSettledInv, PendingWhereInv
    DEF CarryInv
<1>2. CoreInv /\ CarryInv => PendingIsCarried
  <2>1. SUFFICES ASSUME CoreInv, CarryInv, NEW r \in Requests, booking[r] = "pending", Sent(r)
                 PROVE  LET p == PartitionOf[r.ticket] IN
                        \E i \in (committed[p] + 1)..Len(log[p]) : log[p][i] = r
    BY DEF PendingIsCarried, CarryInv, PendingWhere
  <2>2. PICK p \in Partitions : \E i \in 1..Len(log[p]) : log[p][i] = r
    BY <2>1 DEF Sent
  <2>3. PICK i \in 1..Len(log[p]) : log[p][i] = r
    BY <2>2
  <2>4. PartitionOf[r.ticket] = p
    BY <2>1, <2>3 DEF CarryInv, TicketsKeepTheirPartition
  <2>5. i \notin 1..committed[p]
    BY <2>1, <2>3 DEF CarryInv, OffsetsSettled, Settled
  <2>6. committed[p] \in Nat /\ Len(log[p]) \in Nat
    BY <2>1 DEF CoreInv, TypeOK, TopicTypeOK
  <2> QED
    BY <2>3, <2>4, <2>5, <2>6
<1> QED
  BY <1>1, <1>2, CarryInit, CoreInit, CoreStep, PTL DEF Spec

-----------------------------------------------------------------------------
(* A request is sent once, and charged by its own handler or by the         *)
(* consumer that has its message in hand.                                   *)

LEMMA ChargedHow ==
  ASSUME CoreInv, OneWayToConfirm, [Next]_vars, NEW r \in Requests,
         NotYetCharged(r), ~NotYetCharged(r)'
  PROVE  /\ ~Confirmed(r) /\ Confirmed(r)'
         /\ \/ pc[r] = "tx" /\ pc'[r] \in {"persist", "markFailed"} /\ ~KafkaEnabled
            \/ /\ consumer.step = "tx" /\ consumer'.step \in {"persist", "fail"}
               /\ r = Message /\ UNCHANGED <<topicVars, pc>>
<1>1. booking \in [Requests -> BookingStatuses]
  BY DEF CoreInv, TypeOK, StoreTypeOK
<1>2. ~Confirmed(r) /\ Confirmed(r)'
  BY <1>1, StepsOnStore
     DEF StoreStep, storeVars, OwnerMove, Save, MarkFailed, UpdateStatus, BookTx, CancelTx,
         CancelBooking, NotYetCharged, Confirmed
<1> QED
  BY <1>2, WhoConfirms DEF OneWayToConfirm

(* What Queue sends, and that it sends nothing else.                        *)
LEMMA SendsOneRequest ==
  ASSUME CoreInv, OneWayToConfirm, [Next]_vars
  PROVE  \/ UNCHANGED log
         \/ \E r \in Requests :
              /\ pc[r] = "write" /\ pc'[r] \in {"accepted", "markFailed"} /\ KafkaEnabled
              /\ AppendMessage(r)
              /\ \A q \in Requests : Sent(q)' => Sent(q) \/ q = r
              /\ UNCHANGED <<storeVars, committed, position, consumer>>
<1>1. pc \in [Requests -> QueuePC] /\ TopicTypeOK
  BY DEF CoreInv, TypeOK
<1>2. ~KafkaEnabled => \A r \in Requests : pc[r] # "write"
  BY DEF OneWayToConfirm
<1>3. ASSUME NEW r \in Requests, AppendMessage(r), UNCHANGED <<committed, position>>
      PROVE  \A q \in Requests : Sent(q)' => Sent(q) \/ q = r
  BY <1>1, <1>3, AppendSends
<1> QED
  BY <1>1, <1>2, <1>3, SendsOnlyInWrite

(* The consumer never goes back to its transaction, or from its outcome to  *)
(* another, with one message.                                               *)
LEMMA ConsumerGoesOn ==
  ASSUME CoreInv, [Next]_vars, consumer.step # "fetch"
  PROVE  /\ consumer'.step \in {"check", "lookup", "tx"} =>
              consumer.step \in {"check", "lookup", "tx"}
         /\ consumer'.step \in {"fail", "release"} =>
              consumer.step \in {"check", "lookup", "tx", "fail", "release"}
<1>0. consumer \in [step : ConsumerSteps \cup {"fetch"}, part : Partitions, idx : Nat]
  BY DEF CoreInv, TypeOK
<1>1. CASE ConsumerStep
  BY <1>0, <1>1
  DEF ConsumerStep, ConsumerFetch, ConsumerCheck, ConsumerLookup, ConsumerBookTx,
      ConsumerPersist, ConsumerFail, ConsumerRelease, ConsumerCommit, ConsumerGoto, Fetching
<1>2. Crash => consumer'.step = "fetch"
  BY DEF Crash, Fetching
<1> QED
  BY <1>1, <1>2, WhoMovesConsumer

LEMMA UnsentUnchargedInv ==
  ASSUME CoreInv, OneWayToConfirm, UnsentUncharged, [Next]_vars
  PROVE  UnsentUncharged'
<1> DEFINE Before == {"idle", "ticket", "wallet", "save", "write", "tx"}
<1>1. SUFFICES ASSUME NEW r \in Requests, pc'[r] \in Before
               PROVE  NotYetCharged(r)' /\ ~Sent(r)'
  BY DEF UnsentUncharged
<1>2. pc[r] \in Before
  BY <1>1, WhereQueueGoes
<1>3. NotYetCharged(r) /\ ~Sent(r)
  BY <1>2 DEF UnsentUncharged
<1>4. NotYetCharged(r)'
  <2>1. SUFFICES ASSUME ~NotYetCharged(r)' PROVE FALSE
    OBVIOUS
  <2>2. r = Message /\ consumer.step = "tx"
    BY <1>1, <1>3, <2>1, ChargedHow
  <2> QED
    BY <1>3, <2>2, MessageInRequests
<1>5. ~Sent(r)'
  <2>1. UNCHANGED log => (Sent(r)' <=> Sent(r))
    BY DEF Sent
  <2> QED
    BY <1>1, <1>3, <2>1, SendsOneRequest
<1> QED
  BY <1>4, <1>5

LEMMA OneMessageInv ==
  ASSUME CoreInv, SentInv, [Next]_vars
  PROVE  OneMessageEach'
<1>1. CASE UNCHANGED log
  BY <1>1 DEF SentInv, OneMessageEach
<1>2. ASSUME NEW r \in Requests, AppendMessage(r), pc[r] = "write"
      PROVE  OneMessageEach'
  <2> DEFINE pr == PartitionOf[r.ticket]
  <2>1. pr \in Partitions /\ log[pr] \in Seq(Requests)
    BY RequestFields DEF CoreInv, TypeOK, TopicTypeOK
  <2>2. /\ log'[pr] = Append(log[pr], r)
        /\ \A p \in Partitions \ {pr} : log'[p] = log[p]
    BY <1>2, <2>1 DEF AppendMessage, CoreInv, TypeOK, TopicTypeOK
  <2>3. \A i \in 1..Len(log[pr]) : log[pr][i] # r
    BY <1>2, <2>1 DEF SentInv, UnsentUncharged, Sent
  <2>4. \A i, j \in 1..Len(log[pr]) : log[pr][i] = log[pr][j] => i = j
    BY <2>1 DEF SentInv, OneMessageEach
  <2> HIDE DEF pr
  <2>5. \A i, j \in 1..Len(log'[pr]) : log'[pr][i] = log'[pr][j] => i = j
    BY <2>1, <2>2, <2>3, <2>4
  <2> QED
    BY <2>2, <2>5 DEF SentInv, OneMessageEach
<1> QED
  BY <1>1, <1>2, SendsOneRequest DEF SentInv

LEMMA SentInit == Init => SentInv
BY DEF Init, StoreInit, TopicInit, SentInv, OneWayToConfirm, TicketsKeepTheirPartition,
       UnsentUncharged, NotYetCharged, Sent, OneMessageEach

LEMMA SentInvStep == CoreInv /\ SentInv /\ [Next]_vars => SentInv'
BY OneWayStep, PartitionsInv, UnsentUnchargedInv, OneMessageInv DEF SentInv

(* The message in hand is at one place of the log only.                     *)
LEMMA OnePlace ==
  ASSUME CoreInv, SentInv, consumer.step # "fetch",
         NEW p \in Partitions, NEW i \in 1..Len(log[p]), log[p][i] = Message
  PROVE  p = consumer.part /\ i = consumer.idx
<1>1. consumer.part \in Partitions /\ consumer.idx \in 1..Len(log[consumer.part])
  BY DEF CoreInv, TypeOK, ConsumerHoldsMessage
<1>2. p = consumer.part
  BY <1>1 DEF SentInv, TicketsKeepTheirPartition, Message
<1> QED
  BY <1>1, <1>2 DEF SentInv, OneMessageEach, Message

-----------------------------------------------------------------------------
(* The history.                                                             *)

HistoryStep == [HistoryNext]_<<vars, history>>

LEMMA Remembered ==
  ASSUME HistoryStep
  PROVE  /\ [Next]_vars
         /\ redelivered \subseteq redelivered' /\ disowned \subseteq disowned'
         /\ lapsed \subseteq lapsed'
         /\ \A r \in Requests : Disowns(r) => r \in disowned'
         /\ \A t \in TicketIds : Lapses(t) => t \in lapsed'
<1>1. CASE HistoryNext
  BY <1>1 DEF HistoryNext, Remember
<1>2. CASE UNCHANGED <<vars, history>>
  <2>1. UNCHANGED <<redelivered, disowned, lapsed, log, booking, claim>>
    BY <1>2 DEF vars, history, topicVars, storeVars
  <2> QED
    BY <1>2, <2>1 DEF Disowns, Lapses, Sent, Confirmed
<1> QED
  BY <1>1, <1>2 DEF HistoryStep

LEMMA SteppedBackOver ==
  ASSUME CoreInv, HistoryStep, NEW p \in Partitions,
         NEW i \in (position'[p] + 1)..position[p]
  PROVE  log[p][i] \in redelivered'
<1>0. position[p] \in Nat
  BY DEF CoreInv, TypeOK, TopicTypeOK
<1>1. CASE HistoryNext
  <2>1. log[p][i] \in SteppedBack(p)
    BY DEF SteppedBack
  <2> QED
    BY <1>1, <2>1 DEF HistoryNext, Remember
<1>2. ~UNCHANGED <<vars, history>>
  BY <1>0 DEF vars, topicVars
<1> QED
  BY <1>1, <1>2 DEF HistoryStep

LEMMA Positions ==
  ASSUME CoreInv, [Next]_vars, NEW p \in Partitions
  PROVE  position[p] \in Nat /\ position'[p] \in Nat /\ Len(log[p]) \in Nat
         /\ Len(log'[p]) \in Nat
<1>1. TopicTypeOK /\ TopicTypeOK'
  BY CoreStep DEF CoreInv, TypeOK
<1> QED
  BY <1>1 DEF TopicTypeOK

LEMMA WaitingUnchargedInv ==
  ASSUME CoreInv, SentInv, OnceInv, HistoryStep
  PROVE  WaitingUncharged'
<1>0. /\ [Next]_vars /\ WaitingUncharged /\ HandUncharged /\ TopicTypeOK /\ OneWayToConfirm
      /\ redelivered \subseteq redelivered'
  BY Remembered DEF CoreInv, TypeOK, OnceInv, SentInv
<1>1. SUFFICES ASSUME NEW p \in Partitions, NEW i \in (position'[p] + 1)..Len(log'[p]),
                      log'[p][i] \notin redelivered'
               PROVE  NotYetCharged(log[p][i])'
  BY DEF WaitingUncharged
<1>2. /\ position[p] \in Nat /\ position'[p] \in Nat
      /\ Len(log[p]) \in Nat /\ Len(log'[p]) \in Nat
  BY <1>0, Positions
<1>3. CASE i \in 1..Len(log[p])
  <2> DEFINE r == log[p][i]
  <2>1. r \in Requests /\ Sent(r) /\ log'[p][i] = r
    BY <1>0, <1>3, LogEntry, LogGrows
  <2>2. r \notin redelivered /\ i > position[p]
    <3>1. i \notin (position'[p] + 1)..position[p]
      BY <1>1, <2>1, SteppedBackOver
    <3> QED
      BY <1>0, <1>1, <1>2, <2>1, <3>1
  <2>3. NotYetCharged(r)
    BY <1>0, <1>2, <1>3, <2>2 DEF WaitingUncharged
  <2>4. ~(consumer.step = "tx" /\ r = Message)
    <3>1. SUFFICES ASSUME consumer.step = "tx", r = Message PROVE FALSE
      OBVIOUS
    <3>2. p = consumer.part /\ i = consumer.idx
      BY <1>3, <3>1, OnePlace
    <3>3. consumer.idx <= position[consumer.part]
      BY <1>0, <2>2, <3>1 DEF HandUncharged
    <3> QED
      BY <1>2, <2>2, <3>2, <3>3
  <2>5. pc[r] # "tx"
    BY <2>1 DEF SentInv, UnsentUncharged
  <2> HIDE DEF r
  <2>6. \A q \in Requests : q = r => NotYetCharged(q)'
    BY <1>0, <2>3, <2>4, <2>5, ChargedHow
  <2> QED
    BY <2>1, <2>6 DEF NotYetCharged, r
<1>4. CASE i \notin 1..Len(log[p])
  <2>1. ~UNCHANGED log
    BY <1>1, <1>2, <1>4
  <2>2. PICK r \in Requests : pc[r] = "write" /\ AppendMessage(r) /\ UNCHANGED storeVars
    BY <1>0, <2>1, SendsOneRequest
  <2>3. log'[p][i] = r
    BY <1>0, <1>1, <1>2, <1>4, <2>2, AppendPlaces
  <2> QED
    BY <2>2, <2>3 DEF SentInv, UnsentUncharged, NotYetCharged, storeVars
<1> QED
  BY <1>3, <1>4

(* The message in hand, when it has just been fetched.                      *)
LEMMA HandFetched ==
  ASSUME CoreInv, SentInv, OnceInv, HistoryStep, NEW p \in Partitions, Fetches(p)
  PROVE  HandUncharged'
<1>0. /\ [Next]_vars /\ WaitingUncharged /\ TopicTypeOK /\ OneWayToConfirm
      /\ redelivered \subseteq redelivered'
  BY Remembered DEF CoreInv, TypeOK, OnceInv, SentInv
<1>1. /\ position[p] \in Nat /\ Len(log[p]) \in Nat /\ position[p] < Len(log[p])
      /\ position'[p] = position[p] + 1
      /\ consumer.step = "fetch"
      /\ consumer' = [step |-> "check", part |-> p, idx |-> position[p] + 1]
  BY <1>0 DEF Fetches, FetchMessage, TopicTypeOK
<1> DEFINE i == position[p] + 1
           r == log[p][i]
<1>2. i \in 1..Len(log[p])
  BY <1>1
<1>3. r \in Requests /\ Sent(r) /\ Message' = r
  BY <1>0, <1>1, <1>2, LogEntry, LogGrows DEF Message
<1>4. SUFFICES ASSUME Message' \notin redelivered'
               PROVE  NotYetCharged(Message)'
  BY <1>1 DEF HandUncharged
<1>5. NotYetCharged(r) /\ pc[r] # "tx"
  <2>1. r \notin redelivered
    BY <1>0, <1>3, <1>4
  <2> QED
    BY <1>0, <1>1, <1>2, <1>3, <2>1 DEF WaitingUncharged, SentInv, UnsentUncharged
<1> HIDE DEF r, i
<1>6. \A q \in Requests : q = r => NotYetCharged(q)'
  BY <1>0, <1>1, <1>5, ChargedHow
<1> QED
  BY <1>3, <1>6 DEF NotYetCharged

(* The message in hand, when the consumer has gone on with it.              *)
LEMMA HandKept ==
  ASSUME CoreInv, SentInv, OnceInv, HistoryStep,
         consumer.step # "fetch", consumer'.step # "fetch",
         consumer'.part = consumer.part, consumer'.idx = consumer.idx
  PROVE  HandUncharged'
<1>0. /\ [Next]_vars /\ HandUncharged /\ OneWayToConfirm
      /\ consumer.part \in Partitions /\ consumer.idx \in 1..Len(log[consumer.part])
      /\ redelivered \subseteq redelivered' /\ disowned \subseteq disowned'
      /\ \A r \in Requests : Disowns(r) => r \in disowned'
  BY Remembered DEF CoreInv, TypeOK, ConsumerHoldsMessage, OnceInv, SentInv
<1>1. /\ Message' = Message /\ Message \in Requests /\ Sent(Message)
      /\ pc[Message] # "tx"
  BY <1>0, MessageKept, MessageInRequests DEF SentInv, UnsentUncharged
<1>2. SUFFICES ASSUME Message \notin redelivered'
               PROVE  /\ consumer.idx <= position'[consumer.part]
                      /\ consumer'.step \in {"check", "lookup", "tx"} => NotYetCharged(Message)'
                      /\ consumer'.step \in {"fail", "release"} =>
                           Message \in disowned' \/ NotYetCharged(Message)'
  BY <1>1 DEF HandUncharged
<1>3. /\ consumer.idx <= position[consumer.part]
      /\ consumer.step \in {"check", "lookup", "tx"} => NotYetCharged(Message)
      /\ consumer.step \in {"fail", "release"} => Message \in disowned \/ NotYetCharged(Message)
  BY <1>0, <1>2 DEF HandUncharged
<1>4. consumer.idx <= position'[consumer.part]
  <2>1. consumer.idx \notin (position'[consumer.part] + 1)..position[consumer.part]
    BY <1>0, <1>2, SteppedBackOver DEF Message
  <2>2. /\ position[consumer.part] \in Nat /\ position'[consumer.part] \in Nat
        /\ consumer.idx \in Nat
    BY <1>0, Positions
  <2> QED
    BY <1>3, <2>1, <2>2
<1>5. ASSUME NotYetCharged(Message)
      PROVE  NotYetCharged(Message)' \/ consumer'.step = "persist" \/ Message \in disowned'
  <2> DEFINE m == Message
  <2>1. m \in Requests /\ Message' = m /\ NotYetCharged(m) /\ pc[m] # "tx"
    BY <1>1, <1>5
  <2> HIDE DEF m
  <2>2. \A r \in Requests : r = m /\ ~NotYetCharged(r)' =>
          consumer'.step = "persist" \/ Disowns(r)
    BY <1>0, <2>1, ChargedHow DEF Disowns
  <2> QED
    BY <1>0, <2>1, <2>2 DEF m, NotYetCharged
<1>6. consumer'.step \in {"check", "lookup", "tx"} => NotYetCharged(Message)'
  <2>1. SUFFICES ASSUME consumer'.step \in {"check", "lookup", "tx"}
                 PROVE  NotYetCharged(Message)'
    OBVIOUS
  <2>2. NotYetCharged(Message)
    BY <1>0, <1>3, <2>1, ConsumerGoesOn
  <2> DEFINE m == Message
  <2>3. m \in Requests /\ Message' = m /\ NotYetCharged(m) /\ pc[m] # "tx"
    BY <1>1, <2>2
  <2> HIDE DEF m
  <2>4. \A r \in Requests : r = m => NotYetCharged(r)'
    BY <1>0, <2>1, <2>3, ChargedHow
  <2> QED
    BY <2>3, <2>4 DEF m, NotYetCharged
<1>7. ASSUME consumer'.step \in {"fail", "release"}
      PROVE  Message \in disowned' \/ NotYetCharged(Message)'
  <2>1. Message \in disowned \/ NotYetCharged(Message)
    BY <1>0, <1>3, <1>7, ConsumerGoesOn
  <2> QED
    BY <1>0, <1>5, <1>7, <2>1
<1> QED
  BY <1>4, <1>6, <1>7

LEMMA HandUnchargedInv ==
  ASSUME CoreInv, SentInv, OnceInv, HistoryStep
  PROVE  HandUncharged'
<1>0. /\ consumer \in [step : ConsumerSteps \cup {"fetch"}, part : Partitions, idx : Nat]
      /\ OffsetStep
  BY Remembered, StepsOnOffsets DEF CoreInv, TypeOK
<1>1. CASE consumer'.step = "fetch"
  BY <1>1 DEF HandUncharged
<1>2. CASE \E p \in Partitions : Fetches(p)
  BY <1>2, HandFetched
<1>3. CASE /\ consumer.step # "fetch" /\ consumer'.step # "fetch"
           /\ consumer'.part = consumer.part /\ consumer'.idx = consumer.idx
  BY <1>3, HandKept
<1> QED
  BY <1>0, <1>1, <1>2, <1>3 DEF OffsetStep, Works, Commits, Resumes, Fetching, ConsumerSteps

LEMMA FlowUnchargedInv ==
  ASSUME CoreInv, SentInv, OnceInv, HistoryStep
  PROVE  FlowUncharged'
<1>0. /\ [Next]_vars /\ FlowUncharged /\ OneWayToConfirm
      /\ disowned \subseteq disowned' /\ \A r \in Requests : Disowns(r) => r \in disowned'
  BY Remembered DEF OnceInv, SentInv
<1>1. SUFFICES ASSUME NEW r \in Requests, r \notin disowned', InFlow(r)'
               PROVE  NotYetCharged(r)' /\ ~Sent(r)'
  BY DEF FlowUncharged
<1>2. ~Disowns(r) /\ r \notin disowned
  BY <1>0, <1>1
<1>3. NotYetCharged(r) /\ ~Sent(r)
  <2>1. InFlow(r) \/ pc[r] = "idle"
    BY <1>0, <1>1, WhereQueueGoes DEF InFlow, QueueSteps
  <2> QED
    BY <1>0, <1>2, <2>1 DEF FlowUncharged, SentInv, UnsentUncharged
<1>4. pc'[r] # "persist" /\ pc'[r] # "accepted"
  BY <1>1 DEF InFlow, QueueSteps
<1>5. ~Sent(r)'
  BY <1>2, <1>3, <1>4 DEF Disowns
<1>6. NotYetCharged(r)'
  <2>1. SUFFICES ASSUME ~NotYetCharged(r)' PROVE FALSE
    OBVIOUS
  <2>2. ~Confirmed(r) /\ Confirmed(r)' /\ pc'[r] # "markFailed"
    BY <1>0, <1>2, <1>3, <2>1, ChargedHow DEF Disowns
  <2>3. consumer.step = "tx" /\ r = Message
    BY <1>0, <1>3, <1>4, <2>1, <2>2, ChargedHow
  <2> QED
    BY <1>3, <2>3, MessageInRequests
<1> QED
  BY <1>5, <1>6

LEMMA OnceInit == HistoryInit => OnceInv
BY DEF HistoryInit, Init, StoreInit, TopicInit, Fetching, OnceInv, WaitingUncharged,
       HandUncharged, FlowUncharged, InFlow, QueueSteps

HistoryInv == CoreInv /\ SentInv /\ OnceInv

LEMMA HistoryInvInit == HistoryInit => HistoryInv
BY CoreInit, SentInit, OnceInit DEF HistoryInit, HistoryInv

LEMMA HistoryInvStep == HistoryInv /\ HistoryStep => HistoryInv'
BY Remembered, CoreStep, SentInvStep, WaitingUnchargedInv, HandUnchargedInv, FlowUnchargedInv
DEF HistoryInv, OnceInv

LEMMA WhoRecharges ==
  ASSUME HistoryInv, [Next]_vars, NEW r \in Requests,
         booking[r] = "cancelled", Confirmed(r)'
  PROVE  consumer.step = "tx" /\ Message = r /\ r \in redelivered /\ KafkaEnabled
<1> USE DEF HistoryInv
<1>1. ~Confirmed(r) /\ ~NotYetCharged(r)
  BY DEF Confirmed, NotYetCharged
<1>2. pc[r] # "tx"
  BY <1>1 DEF SentInv, UnsentUncharged
<1>3. consumer.step = "tx" /\ r = Message
  BY <1>1, <1>2, WhoConfirms
<1>4. r \in redelivered
  BY <1>1, <1>3 DEF OnceInv, HandUncharged
<1>5. KafkaEnabled
  BY <1>3, ConsumerRests DEF SentInv
<1> QED
  BY <1>3, <1>4, <1>5

(* Whatever fails, a refunded booking is charged again by nobody but the    *)
(* consumer, and only from a message that the reader has gone back over: a  *)
(* handler never repeats its own transaction.                               *)
THEOREM RechargedByRedelivery == HistorySpec => RechargedOnlyByRedelivery
<1>1. HistoryInv /\ HistoryStep =>
        [\A r \in Requests : booking[r] = "cancelled" /\ Confirmed(r)' =>
            consumer.step = "tx" /\ Message = r /\ r \in redelivered]_<<vars, history>>
  BY Remembered, WhoRecharges
<1> QED
  BY <1>1, HistoryInvInit, HistoryInvStep, PTL
  DEF HistorySpec, HistoryStep, RechargedOnlyByRedelivery

(* Who sets a booking to failed.                                            *)
LEMMA WhoFails ==
  ASSUME CoreInv, [Next]_vars, NEW r \in Requests, Confirmed(r), booking'[r] = "failed"
  PROVE  pc[r] = "markFailed" \/ (consumer.step = "fail" /\ r = Message)
<1>0. booking \in [Requests -> BookingStatuses]
  BY DEF CoreInv, TypeOK, StoreTypeOK
<1> USE DEF Confirmed
<1>1. ASSUME NEW q \in Requests, QueueClaim(q) \/ QueueStep(q)
      PROVE  pc[r] = "markFailed"
  BY <1>0, <1>1
  DEF QueueClaim, QueueStep, QueueReadTicket, QueueReadWallet, QueueSave, Save, QueueWrite,
      QueueBookTx, BookTx, QueuePersist, QueueMarkFailed, UpdateStatus, QueueRelease, storeVars
<1>2. ASSUME NEW c \in CancelCalls, CancelRead(c) \/ CancelStep(c)
      PROVE  FALSE
  BY <1>0, <1>2, CancelFields
  DEF CancelRead, CancelStep, CancelBookTx, CancelTx, CancelBooking, CancelRelease, storeVars
<1>3. CASE ConsumerStep
  <2>1. consumer.step # "fetch" => Message \in Requests
    BY MessageInRequests
  <2> QED
    BY <1>0, <1>3, <2>1
    DEF ConsumerStep, ConsumerFetch, ConsumerCheck, ConsumerLookup, ConsumerBookTx, BookTx,
        UpdateStatus, ConsumerPersist, ConsumerFail, ConsumerRelease, ConsumerCommit, storeVars
<1>4. \A w \in Wallets, amount \in Amounts : ~WalletCall(w, amount)
  BY DEF WalletCall, WalletDeposit, WalletWithdraw
<1>5. ~((\E t \in TicketIds : ClaimExpires(t)) \/ Crash \/ Rejoin \/ UNCHANGED vars)
  BY DEF ClaimExpires, Crash, Rejoin, vars, storeVars
<1> QED
  BY <1>1, <1>2, <1>3, <1>4, <1>5 DEF Next

(* Whatever fails, a confirmed booking is overwritten with "failed" by the  *)
(* consumer of a message that the reader has gone back over, or by somebody *)
(* whose own call took effect and was reported as failed; never by a late,  *)
(* stale or overlapping step of a service whose calls told the truth.       *)
THEOREM OverwrittenBlindly == HistorySpec => OverwrittenOnlyBlindly
<1>1. ASSUME HistoryInv, [Next]_vars, NEW r \in Requests, Confirmed(r), booking'[r] = "failed"
      PROVE  r \in redelivered \cup disowned
  <2>1. ~NotYetCharged(r)
    BY <1>1 DEF Confirmed, NotYetCharged
  <2>2. CASE pc[r] = "markFailed"
    BY <1>1, <2>1, <2>2 DEF HistoryInv, OnceInv, FlowUncharged, InFlow, QueueSteps
  <2>3. CASE consumer.step = "fail" /\ r = Message
    BY <1>1, <2>1, <2>3 DEF HistoryInv, OnceInv, HandUncharged
  <2> QED
    BY <1>1, <2>2, <2>3, WhoFails DEF HistoryInv
<1>2. HistoryInv /\ HistoryStep =>
        [\A r \in Requests : Confirmed(r) /\ booking'[r] = "failed" =>
            r \in redelivered \cup disowned]_<<vars, history>>
  BY <1>1, Remembered
<1> QED
  BY <1>2, HistoryInvInit, HistoryInvStep, PTL
  DEF HistorySpec, HistoryStep, OverwrittenOnlyBlindly

(* The reader goes back only when it starts anew.                           *)
LEMMA OnlyResumesGoBack ==
  ASSUME CoreInv, HistoryStep, redelivered = {}, Faults \cap {"crash", "rejoin"} = {}
  PROVE  redelivered' = {}
<1>1. SUFFICES ASSUME HistoryNext
               PROVE  \A p \in Partitions : SteppedBack(p) = {}
  BY DEF HistoryStep, HistoryNext, Remember, history
<1>2. SUFFICES ASSUME NEW p \in Partitions, position'[p] < position[p]
               PROVE  FALSE
  <2>1. \A p \in Partitions : position[p] \in Nat /\ position'[p] \in Nat
    BY <1>1, Positions DEF HistoryNext
  <2> QED
    BY <1>2, <2>1 DEF SteppedBack
<1>3. OffsetStep /\ position \in [Partitions -> Nat]
  BY <1>1, StepsOnOffsets DEF HistoryNext, CoreInv, TypeOK, TopicTypeOK
<1>4. ~Resumes
  BY DEF Resumes, Fault
<1>5. PICK q \in Partitions : FetchMessage(q)
  BY <1>2, <1>3, <1>4 DEF OffsetStep, Fetches, Works, Commits
<1> QED
  BY <1>2, <1>3, <1>5 DEF FetchMessage

(* What README.md says of a message that was handled before does hold where *)
(* no message comes twice: without Kafka, or when the process does not      *)
(* crash and the consumer group does not re-form.                           *)
THEOREM CancelledStaysUncharged ==
  ASSUME ~KafkaEnabled \/ Faults \cap {"crash", "rejoin"} = {}
  PROVE  HistorySpec => CancelledNeverChargedAgain
<1> DEFINE Inv == HistoryInv /\ (KafkaEnabled => redelivered = {})
<1>1. HistoryInit => Inv
  BY HistoryInvInit DEF HistoryInit
<1>2. Inv /\ HistoryStep => Inv'
  BY HistoryInvStep, OnlyResumesGoBack DEF HistoryInv
<1>3. Inv /\ HistoryStep =>
        [\A r \in Requests : booking[r] = "cancelled" => ~Confirmed(r)']_vars
  BY Remembered, WhoRecharges
<1> QED
  BY <1>1, <1>2, <1>3, PTL DEF HistorySpec, HistoryStep, CancelledNeverChargedAgain

(* What wallet/repo/mysql.go says of ok=FALSE does hold as long as no       *)
(* ticket is free: the consumer then refuses an available ticket, when      *)
(* nothing fails, only to a wallet that cannot pay.                         *)
THEOREM PricedRefusals ==
  ASSUME \A t \in Tickets : Price[t] > 0
  PROVE  Spec => RefusedMeansShort
<1> DEFINE Refused == /\ consumer.step = "tx" /\ consumer'.step = "fail" /\ faults' = faults
                      /\ ticket[Message.ticket] = "available"
<1>1. CoreInv /\ [Next]_vars => [Refused => balance[Message.wallet] < Price[Message.ticket]]_vars
  <2> SUFFICES ASSUME CoreInv, [Next]_vars, Refused
               PROVE  balance[Message.wallet] < Price[Message.ticket]
    OBVIOUS
  <2>0. /\ consumer \in [step : ConsumerSteps \cup {"fetch"}, part : Partitions, idx : Nat]
        /\ faults \in Nat /\ balance \in [Wallets -> Nat]
    BY DEF CoreInv, TypeOK, StoreTypeOK
  <2>1. ~Crash /\ consumer' # consumer
    BY <2>0 DEF Crash, Fault
  <2>2. ConsumerStep
    BY <2>1, WhoMovesConsumer
  <2>3. ConsumerBookTx /\ ~BookTxOk(Message)
    BY <2>0, <2>2
    DEF ConsumerStep, ConsumerFetch, ConsumerCheck, ConsumerLookup, ConsumerBookTx, BookTx,
        ConsumerPersist, ConsumerFail, ConsumerRelease, ConsumerCommit, ConsumerGoto, Fault
  <2>4. Message \in Requests /\ WellFormed(Message)
    BY MessageInRequests DEF CoreInv, StoreInv, RowsAreWellFormed
  <2>5. /\ Price[Message.ticket] \in Nat /\ Price[Message.ticket] > 0
        /\ Message.wallet \in Wallets /\ balance[Message.wallet] \in Nat
    BY <2>0, <2>4, DataAssumption DEF WellFormed
  <2> QED
    BY <2>3, <2>5 DEF BookTxOk, WithdrawOk
<1> QED
  BY <1>1, CoreInit, CoreStep, PTL DEF Spec, RefusedMeansShort
=============================================================================
