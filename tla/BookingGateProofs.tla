------------------------- MODULE BookingGateProofs -------------------------
(***************************************************************************)
(* Proofs about the Redis gate: it admits one request per ticket, under    *)
(* every fault, to everybody the history does not excuse; and a claim that *)
(* was made permanent does not outlive its booking unattended.             *)
(***************************************************************************)
EXTENDS BookingQueueProofs

(* The inductive invariant behind GateExclusive.  A claim belongs to more   *)
(* than the handlers: to the message that waits or is being worked on, and  *)
(* to the booking that came of it.                                          *)

Cancelling(c) == cancel[c] = "release"

Waiting(r) ==
  \E p \in Partitions : \E i \in (position[p] + 1)..Len(log[p]) : log[p][i] = r

WorkedOn(r) ==
  consumer.step \in {"check", "lookup", "tx", "fail", "release"} /\ Message = r

Holds(r) == InFlow(r) \/ Waiting(r) \/ WorkedOn(r) \/ Confirmed(r)

\* Whoever may still remove the claim of a ticket finds it set, and is alone.
Guarded(t) ==
  /\ \A r \in Requests : r.ticket = t /\ Holds(r) => claim[t] # "free"
  /\ \A r, q \in Requests :
       r.ticket = t /\ q.ticket = t /\ Holds(r) /\ Holds(q) => r = q
  /\ \A c \in CancelCalls : c.booking.ticket = t /\ Cancelling(c) =>
       /\ claim[t] # "free"
       /\ \A r \in Requests : r.ticket = t => ~Holds(r)
       /\ \A d \in CancelCalls : d.booking.ticket = t /\ Cancelling(d) => d = c

GateInv == \A t \in TicketIds : ~Excused(t) => Guarded(t)

-----------------------------------------------------------------------------

LEMMA GateTypes ==
  ASSUME CoreInv
  PROVE  /\ claim \in [TicketIds -> ClaimStates] /\ pc \in [Requests -> QueuePC]
         /\ cancel \in [CancelCalls -> CancelPC]
         /\ booking \in [Requests -> BookingStatuses]
BY DEF CoreInv, TypeOK, GateTypeOK, StoreTypeOK

LEMMA StillExcused ==
  ASSUME HistoryStep, NEW t, ~Excused(t)'
  PROVE  ~Excused(t)
BY Remembered DEF Excused

LEMMA NotMisled ==
  ASSUME NEW r \in Requests, ~Excused(r.ticket)
  PROVE  r \notin redelivered /\ r \notin disowned
BY DEF Excused

(* A request that nothing excuses is at one place at a time.                *)
LEMMA OneRole ==
  ASSUME HistoryInv, NEW r \in Requests, ~Excused(r.ticket)
  PROVE  /\ InFlow(r) => NotYetCharged(r) /\ ~Waiting(r) /\ ~WorkedOn(r)
         /\ Waiting(r) => NotYetCharged(r) /\ ~WorkedOn(r)
         /\ WorkedOn(r) => NotYetCharged(r)
<1>0. /\ CoreInv /\ SentInv /\ WaitingUncharged /\ HandUncharged /\ FlowUncharged
      /\ r \notin redelivered /\ r \notin disowned
  BY NotMisled DEF HistoryInv, OnceInv
<1>1. ASSUME Waiting(r)
      PROVE  NotYetCharged(r) /\ ~WorkedOn(r) /\ Sent(r)
  <2>0. PICK p \in Partitions : \E i \in (position[p] + 1)..Len(log[p]) : log[p][i] = r
    BY <1>1 DEF Waiting
  <2>1. PICK i \in (position[p] + 1)..Len(log[p]) : log[p][i] = r
    BY <2>0
  <2>2. position[p] \in Nat /\ Len(log[p]) \in Nat
    BY <1>0 DEF CoreInv, TypeOK, TopicTypeOK
  <2>3. i \in 1..Len(log[p]) /\ i > position[p]
    BY <2>1, <2>2
  <2>4. ~WorkedOn(r)
    <3>1. SUFFICES ASSUME consumer.step # "fetch", Message = r PROVE FALSE
      BY DEF WorkedOn
    <3>2. p = consumer.part /\ i = consumer.idx
      BY <1>0, <2>1, <2>3, <3>1, OnePlace
    <3>3. consumer.idx <= position[consumer.part]
      BY <1>0, <3>1 DEF HandUncharged
    <3> QED
      BY <2>2, <2>3, <3>2, <3>3
  <2> QED
    BY <1>0, <2>1, <2>3, <2>4 DEF WaitingUncharged, Sent
<1>2. ASSUME WorkedOn(r)
      PROVE  NotYetCharged(r) /\ Sent(r)
  BY <1>0, <1>2, MessageInRequests DEF WorkedOn, HandUncharged
<1>3. InFlow(r) => NotYetCharged(r) /\ ~Sent(r)
  BY <1>0 DEF FlowUncharged
<1> QED
  BY <1>1, <1>2, <1>3

(* Nobody comes to hold a ticket but by taking its claim.                   *)
LEMMA HoldersComeIn ==
  ASSUME HistoryInv, HistoryStep, NEW r \in Requests, ~Excused(r.ticket)', Holds(r)'
  PROVE  Holds(r) \/ (pc[r] = "idle" /\ pc'[r] = "ticket")
<1>0. CoreInv /\ SentInv /\ OneWayToConfirm /\ [Next]_vars /\ r \notin redelivered'
  BY Remembered DEF HistoryInv, SentInv, Excused
<1>1. CASE InFlow(r)'
  BY <1>0, <1>1, WhereQueueGoes DEF InFlow, QueueSteps, Holds
<1>2. CASE Waiting(r)'
  <2>0. PICK p \in Partitions : \E i \in (position'[p] + 1)..Len(log'[p]) : log'[p][i] = r
    BY <1>2 DEF Waiting
  <2>1. PICK i \in (position'[p] + 1)..Len(log'[p]) : log'[p][i] = r
    BY <2>0
  <2>2. /\ position[p] \in Nat /\ position'[p] \in Nat
        /\ Len(log[p]) \in Nat /\ Len(log'[p]) \in Nat
    BY <1>0, Positions
  <2>3. CASE i \in 1..Len(log[p])
    <3>1. log[p][i] = r
      BY <1>0, <2>1, <2>3, LogGrows
    <3>2. i \notin (position'[p] + 1)..position[p]
      BY <1>0, <3>1, SteppedBackOver
    <3>3. i \in (position[p] + 1)..Len(log[p])
      BY <2>1, <2>2, <2>3, <3>2
    <3> QED
      BY <3>1, <3>3 DEF Waiting, Holds
  <2>4. CASE i \notin 1..Len(log[p])
    <3>1. ~UNCHANGED log /\ i \in 1..Len(log'[p])
      BY <2>1, <2>2, <2>4
    <3>2. PICK q \in Requests : pc[q] = "write" /\ AppendMessage(q)
      BY <1>0, <3>1, SendsOneRequest
    <3>3. q = r
      BY <1>0, <2>1, <2>4, <3>1, <3>2, AppendPlaces DEF CoreInv, TypeOK
    <3> QED
      BY <3>2, <3>3 DEF InFlow, QueueSteps, Holds
  <2> QED
    BY <2>3, <2>4
<1>3. CASE WorkedOn(r)'
  <2>1. consumer'.step # "fetch" /\ OffsetStep
    BY <1>0, <1>3, StepsOnOffsets DEF WorkedOn
  <2>2. ASSUME NEW p \in Partitions, Fetches(p)
        PROVE  Waiting(r)
    <3>1. /\ position[p] \in Nat /\ Len(log[p]) \in Nat /\ position[p] < Len(log[p])
          /\ consumer'.part = p /\ consumer'.idx = position[p] + 1
      BY <1>0, <2>2, Positions DEF Fetches, FetchMessage
    <3>2. log[p][position[p] + 1] = Message'
      BY <1>0, <3>1, LogGrows DEF Message
    <3> QED
      BY <1>3, <3>1, <3>2 DEF WorkedOn, Waiting
  <2>3. ASSUME consumer.step # "fetch",
               consumer'.part = consumer.part, consumer'.idx = consumer.idx
        PROVE  WorkedOn(r)
    BY <1>0, <1>3, <2>3, ConsumerGoesOn, MessageKept DEF WorkedOn
  <2>4. consumer.step = "fetch" => ~UNCHANGED consumer
    BY <2>1
  <2> QED
    BY <2>1, <2>2, <2>3, <2>4
    DEF OffsetStep, Works, Commits, Resumes, Fetching, Holds
<1>4. CASE Confirmed(r)' /\ ~Confirmed(r)
  <2>1. pc[r] = "tx" \/ (consumer.step = "tx" /\ r = Message)
    BY <1>0, <1>4, WhoConfirms
  <2> QED
    BY <2>1 DEF InFlow, QueueSteps, WorkedOn, Holds
<1> QED
  BY <1>1, <1>2, <1>3, <1>4 DEF Holds

(* A request comes in through a free gate, which it shuts behind itself.    *)
LEMMA ComingIn ==
  ASSUME CoreInv, [Next]_vars, NEW r \in Requests, pc[r] = "idle", pc'[r] = "ticket"
  PROVE  /\ claim[r.ticket] = "free" /\ claim'[r.ticket] # "free"
         /\ pc' = [pc EXCEPT ![r] = "ticket"] /\ UNCHANGED cancel
<1>0. claim \in [TicketIds -> ClaimStates] /\ pc \in [Requests -> QueuePC]
  BY GateTypes
<1>1. ~Crash /\ ~UNCHANGED pc
  BY <1>0 DEF Crash
<1>2. PICK q \in Requests : QueueClaim(q) \/ QueueStep(q)
  BY <1>1, WhoMovesQueue
<1>3. QueueClaim(r) /\ Goto(r, "ticket")
  BY <1>0, <1>2
  DEF QueueClaim, QueueStep, QueueReadTicket, QueueReadWallet, QueueSave, QueueWrite,
      QueueBookTx, QueuePersist, QueueMarkFailed, QueueRelease, Goto
<1>4. SetNX(r.ticket)
  BY <1>0, <1>3 DEF QueueClaim, Goto
<1> QED
  BY <1>0, <1>3, <1>4, RequestFields DEF SetNX, QueueClaim, Goto

(* A cancellation comes to hold the claim in the transaction that takes it  *)
(* over from the booking.                                                   *)
LEMMA CancellersComeIn ==
  ASSUME CoreInv, [Next]_vars, NEW c \in CancelCalls, ~Cancelling(c), Cancelling(c)'
  PROVE  /\ Confirmed(c.booking) /\ ~Confirmed(c.booking)'
         /\ cancel' = [cancel EXCEPT ![c] = "release"]
         /\ UNCHANGED <<claim, topicVars, pc, consumer>>
<1>0. cancel \in [CancelCalls -> CancelPC] /\ booking \in [Requests -> BookingStatuses]
  BY GateTypes
<1>1. ~Crash /\ ~UNCHANGED cancel
  BY <1>0 DEF Crash, Cancelling
<1>2. PICK d \in CancelCalls : CancelRead(d) \/ CancelStep(d)
  BY <1>1, WhoMovesCancel
<1>3. CancelBookTx(c) /\ CancelTx(c.booking) /\ CancelGoto(c, "release")
  BY <1>0, <1>2
  DEF CancelRead, CancelAnswer, CancelStep, CancelBookTx, CancelRelease, CancelGoto, Cancelling
<1> QED
  BY <1>0, <1>3, CancelFields
  DEF CancelBookTx, CancelTx, CancelBooking, CancelGoto, Confirmed

(* Who removes a claim.                                                     *)
LEMMA WhoFrees ==
  ASSUME CoreInv, [Next]_vars, NEW t \in TicketIds, claim[t] # "free", claim'[t] = "free"
  PROVE  \/ Lapses(t)
         \/ \E r \in Requests :
              /\ r.ticket = t /\ pc[r] = "release" /\ pc' = [pc EXCEPT ![r] = "rejected"]
              /\ UNCHANGED <<booking, topicVars, consumer, cancel>>
         \/ /\ consumer.step = "release" /\ consumer'.step = "commit" /\ Message.ticket = t
            /\ UNCHANGED <<booking, topicVars, pc, cancel>>
         \/ \E c \in CancelCalls :
              /\ c.booking.ticket = t /\ Cancelling(c)
              /\ cancel' = [cancel EXCEPT ![c] = "cancelled"]
              /\ UNCHANGED <<booking, topicVars, pc, consumer>>
<1>0. /\ claim \in [TicketIds -> ClaimStates]
      /\ \A r \in Requests : r.ticket \in TicketIds
      /\ \A c \in CancelCalls : c.booking.ticket \in TicketIds
      /\ consumer \in [step : ConsumerSteps \cup {"fetch"}, part : Partitions, idx : Nat]
  BY GateTypes, RequestFields, CancelFields DEF CoreInv, TypeOK
<1>1. ASSUME NEW r \in Requests, QueueClaim(r) \/ QueueStep(r)
      PROVE  /\ r.ticket = t /\ pc[r] = "release" /\ pc' = [pc EXCEPT ![r] = "rejected"]
             /\ UNCHANGED <<booking, topicVars, consumer, cancel>>
  <2>1. CASE QueueRelease(r)
    BY <1>0, <2>1 DEF QueueRelease, Del, Goto, storeVars
  <2>2. CASE QueueClaim(r) \/ QueuePersist(r)
    BY <1>0, <2>2 DEF QueueClaim, SetNX, QueuePersist, Persist
  <2>3. CASE \/ QueueReadTicket(r) \/ QueueReadWallet(r) \/ QueueSave(r) \/ QueueWrite(r)
             \/ QueueBookTx(r) \/ QueueMarkFailed(r)
    BY <2>3 DEF QueueReadTicket, QueueReadWallet, QueueSave, QueueWrite, QueueBookTx,
                QueueMarkFailed
  <2> QED
    BY <1>1, <2>1, <2>2, <2>3 DEF QueueStep
<1>2. ASSUME NEW c \in CancelCalls, CancelRead(c) \/ CancelStep(c)
      PROVE  /\ c.booking.ticket = t /\ Cancelling(c)
             /\ cancel' = [cancel EXCEPT ![c] = "cancelled"]
             /\ UNCHANGED <<booking, topicVars, pc, consumer>>
  BY <1>0, <1>2
  DEF CancelRead, CancelStep, CancelBookTx, CancelRelease, CancelGoto, Del, Cancelling, storeVars
<1>3. CASE ConsumerStep
  <2>1. CASE ConsumerRelease
    BY <1>0, <2>1, MessageInRequests DEF ConsumerRelease, ConsumerGoto, Del, storeVars
  <2>2. CASE ConsumerPersist
    BY <1>0, <2>2, MessageInRequests DEF ConsumerPersist, Persist
  <2>3. CASE \/ (\E p \in Partitions : ConsumerFetch(p)) \/ ConsumerCheck \/ ConsumerLookup
             \/ ConsumerBookTx \/ ConsumerFail \/ ConsumerCommit
    BY <2>3 DEF ConsumerFetch, ConsumerCheck, ConsumerLookup, ConsumerBookTx, ConsumerFail,
                ConsumerCommit
  <2> QED
    BY <1>3, <2>1, <2>2, <2>3 DEF ConsumerStep
<1>4. \A w \in Wallets, amount \in Amounts : ~WalletCall(w, amount)
  BY DEF WalletCall, WalletDeposit, WalletWithdraw
<1>5. ASSUME NEW x \in TicketIds, ClaimExpires(x)
      PROVE  Lapses(t)
  BY <1>5 DEF ClaimExpires, Lapses
<1>6. ~(Crash \/ Rejoin \/ UNCHANGED vars)
  BY DEF Crash, Rejoin, vars
<1> QED
  BY <1>1, <1>2, <1>3, <1>4, <1>5, <1>6 DEF Next

-----------------------------------------------------------------------------
(* Guarded is kept, one way in or out at a time.                            *)

LEMMA KeptByEntry ==
  ASSUME HistoryInv, HistoryStep, NEW t \in TicketIds, Guarded(t), ~Excused(t)',
         NEW r \in Requests, r.ticket = t, pc[r] = "idle", pc'[r] = "ticket"
  PROVE  Guarded(t)'
<1>0. CoreInv /\ [Next]_vars /\ pc \in [Requests -> QueuePC]
  BY Remembered, GateTypes DEF HistoryInv
<1>1. /\ claim[t] = "free" /\ claim'[t] # "free"
      /\ pc' = [pc EXCEPT ![r] = "ticket"] /\ UNCHANGED cancel
  BY <1>0, ComingIn
<1>2. /\ \A q \in Requests : q.ticket = t => ~Holds(q)
      /\ \A c \in CancelCalls : c.booking.ticket = t => ~Cancelling(c)
  BY <1>1 DEF Guarded
<1>3. \A q \in Requests : q.ticket = t /\ Holds(q)' => q = r
  BY <1>0, <1>1, <1>2, HoldersComeIn
<1>4. \A c \in CancelCalls : c.booking.ticket = t => ~Cancelling(c)'
  BY <1>1, <1>2 DEF Cancelling
<1> QED
  BY <1>1, <1>3, <1>4 DEF Guarded

LEMMA KeptByCancel ==
  ASSUME HistoryInv, HistoryStep, NEW t \in TicketIds, Guarded(t), ~Excused(t)',
         \A q \in Requests : q.ticket = t => ~(pc[q] = "idle" /\ pc'[q] = "ticket"),
         NEW c \in CancelCalls, c.booking.ticket = t, ~Cancelling(c), Cancelling(c)'
  PROVE  Guarded(t)'
<1> DEFINE b == c.booking
<1>0. /\ CoreInv /\ [Next]_vars /\ cancel \in [CancelCalls -> CancelPC]
      /\ b \in Requests /\ b.ticket = t
  BY Remembered, GateTypes, CancelFields DEF HistoryInv
<1>1. /\ Confirmed(b) /\ ~Confirmed(b)'
      /\ cancel' = [cancel EXCEPT ![c] = "release"]
      /\ UNCHANGED <<claim, topicVars, pc, consumer>>
  BY <1>0, CancellersComeIn
<1>2. claim[t] # "free" /\ \A q \in Requests : q.ticket = t /\ Holds(q) => q = b
  BY <1>0, <1>1 DEF Guarded, Holds
<1>3. \A d \in CancelCalls : d.booking.ticket = t => ~Cancelling(d)
  BY <1>0, <1>1 DEF Guarded, Holds
<1>4. ~Holds(b)'
  <2>1. ~Excused(b.ticket)
    BY <1>0, StillExcused
  <2>2. ~InFlow(b) /\ ~Waiting(b) /\ ~WorkedOn(b)
    BY <1>0, <1>1, <2>1, OneRole DEF NotYetCharged, Confirmed
  <2>3. /\ InFlow(b)' <=> InFlow(b)
        /\ Waiting(b)' <=> Waiting(b)
        /\ WorkedOn(b)' <=> WorkedOn(b)
    BY <1>1 DEF InFlow, Waiting, WorkedOn, Message, topicVars
  <2> QED
    BY <1>1, <2>2, <2>3 DEF Holds
<1>5. \A q \in Requests : q.ticket = t => ~Holds(q)'
  BY <1>0, <1>2, <1>4, HoldersComeIn
<1>6. \A d \in CancelCalls : d.booking.ticket = t /\ Cancelling(d)' => d = c
  BY <1>0, <1>1, <1>3 DEF Cancelling
<1> QED
  BY <1>1, <1>2, <1>5, <1>6 DEF Guarded

\* What is left of Guarded when nobody comes in and the holder, if there was
\* one, goes.
LEMMA KeptEmpty ==
  ASSUME NEW t,
         \A q \in Requests : q.ticket = t => ~Holds(q)',
         \A d \in CancelCalls : d.booking.ticket = t => ~Cancelling(d)'
  PROVE  Guarded(t)'
BY DEF Guarded

LEMMA KeptByRelease ==
  ASSUME HistoryInv, HistoryStep, NEW t \in TicketIds, Guarded(t), ~Excused(t)',
         \A q \in Requests : q.ticket = t => ~(pc[q] = "idle" /\ pc'[q] = "ticket"),
         \A c \in CancelCalls : c.booking.ticket = t /\ Cancelling(c)' => Cancelling(c),
         claim[t] # "free", claim'[t] = "free"
  PROVE  Guarded(t)'
<1>0. /\ CoreInv /\ [Next]_vars /\ ~Lapses(t) /\ ~Excused(t)
      /\ pc \in [Requests -> QueuePC] /\ cancel \in [CancelCalls -> CancelPC]
  BY Remembered, GateTypes, StillExcused DEF HistoryInv, Excused
<1>1. \A q \in Requests : q.ticket = t /\ Holds(q)' => Holds(q)
  BY HoldersComeIn
<1>2. ASSUME NEW r \in Requests, r.ticket = t, Holds(r), ~Holds(r)'
      PROVE  Guarded(t)'
  <2>1. \A q \in Requests : q.ticket = t => ~Holds(q)'
    BY <1>1, <1>2 DEF Guarded
  <2>2. \A d \in CancelCalls : d.booking.ticket = t => ~Cancelling(d)'
    BY <1>2 DEF Guarded
  <2> QED
    BY <2>1, <2>2, KeptEmpty
<1>3. ASSUME NEW r \in Requests, r.ticket = t, pc[r] = "release",
             pc' = [pc EXCEPT ![r] = "rejected"], UNCHANGED <<booking, topicVars, consumer>>
      PROVE  Guarded(t)'
  <2>1. InFlow(r) /\ ~InFlow(r)'
    BY <1>0, <1>3 DEF InFlow, QueueSteps
  <2>2. NotYetCharged(r) /\ ~Waiting(r) /\ ~WorkedOn(r)
    BY <1>0, <1>3, <2>1, OneRole
  <2>3. ~Confirmed(r)' /\ ~Waiting(r)' /\ ~WorkedOn(r)'
    BY <1>3, <2>2 DEF NotYetCharged, Confirmed, Waiting, WorkedOn, Message, topicVars
  <2> QED
    BY <1>2, <1>3, <2>1, <2>3 DEF Holds
<1>4. CASE /\ consumer.step = "release" /\ consumer'.step = "commit" /\ Message.ticket = t
           /\ UNCHANGED <<booking, topicVars, pc>>
  <2>1. PICK m \in Requests : m.ticket = t /\ WorkedOn(m)
    BY <1>0, <1>4, MessageInRequests DEF WorkedOn
  <2>2. NotYetCharged(m) /\ ~Waiting(m) /\ ~InFlow(m)
    BY <1>0, <2>1, OneRole
  <2>3. ~Confirmed(m)' /\ ~Waiting(m)' /\ ~InFlow(m)' /\ ~WorkedOn(m)'
    BY <1>4, <2>2 DEF NotYetCharged, Confirmed, Waiting, WorkedOn, InFlow, topicVars
  <2>4. Holds(m) /\ ~Holds(m)'
    BY <2>1, <2>3 DEF Holds
  <2> QED
    BY <1>2, <2>1, <2>4
<1>5. ASSUME NEW c \in CancelCalls, c.booking.ticket = t, Cancelling(c),
             cancel' = [cancel EXCEPT ![c] = "cancelled"]
      PROVE  Guarded(t)'
  <2>1. \A q \in Requests : q.ticket = t => ~Holds(q)'
    BY <1>1, <1>5 DEF Guarded
  <2>2. \A d \in CancelCalls : d.booking.ticket = t => ~Cancelling(d)'
    BY <1>0, <1>5 DEF Guarded, Cancelling
  <2> QED
    BY <2>1, <2>2, KeptEmpty
<1> QED
  BY <1>0, <1>3, <1>4, <1>5, WhoFrees

LEMMA KeptByTheRest ==
  ASSUME HistoryInv, HistoryStep, NEW t \in TicketIds, Guarded(t), ~Excused(t)',
         \A q \in Requests : q.ticket = t => ~(pc[q] = "idle" /\ pc'[q] = "ticket"),
         \A c \in CancelCalls : c.booking.ticket = t /\ Cancelling(c)' => Cancelling(c),
         claim[t] # "free" => claim'[t] # "free"
  PROVE  Guarded(t)'
<1>1. \A q \in Requests : q.ticket = t /\ Holds(q)' => Holds(q)
  BY HoldersComeIn
<1> QED
  BY <1>1 DEF Guarded

LEMMA GateStep == HistoryInv /\ GateInv /\ HistoryStep => GateInv'
<1> SUFFICES ASSUME HistoryInv, GateInv, HistoryStep,
                    NEW t \in TicketIds, ~Excused(t)'
             PROVE  Guarded(t)'
  BY DEF GateInv
<1>1. Guarded(t)
  BY StillExcused DEF GateInv
<1> QED
  BY <1>1, KeptByEntry, KeptByCancel, KeptByRelease, KeptByTheRest

LEMMA GateInvInit == HistoryInit => GateInv
<1> SUFFICES ASSUME HistoryInit PROVE GateInv
  OBVIOUS
<1>1. \A r \in Requests : ~Holds(r)
  BY DEF HistoryInit, Init, StoreInit, TopicInit, Fetching, Holds, InFlow, QueueSteps, Waiting,
         WorkedOn, Confirmed
<1>2. \A c \in CancelCalls : ~Cancelling(c)
  BY DEF HistoryInit, Init, Cancelling
<1> QED
  BY <1>1, <1>2 DEF GateInv, Guarded

(* Two requests for one ticket are never both between their claim and their *)
(* outcome, with or without Kafka and whatever fails, unless the claim ran  *)
(* out, a message for the ticket was handed out twice, or a request for it  *)
(* took effect that its caller believed to have failed: no release, late    *)
(* PERSIST, cancellation, crash or lost call opens the gate to a second.    *)
THEOREM GateIsExclusive == HistorySpec => []GateExclusive
<1>1. GateInv => GateExclusive
  <2> SUFFICES ASSUME GateInv, NEW r \in Requests, NEW q \in Requests,
                      r.ticket = q.ticket, InFlow(r), InFlow(q), ~Excused(r.ticket)
               PROVE  r = q
    BY DEF GateExclusive
  <2>1. Guarded(r.ticket)
    BY RequestFields DEF GateInv
  <2> QED
    BY <2>1 DEF Guarded, Holds
<1> QED
  BY <1>1, GateInvInit, GateStep, HistoryInvInit, HistoryInvStep, PTL DEF HistorySpec, HistoryStep

-----------------------------------------------------------------------------
(* Why a claim that was made permanent does not outlive its booking.  Once  *)
(* a transaction has booked a ticket its one row is settled, so that every  *)
(* later request for the ticket is refused and deletes the claim.           *)

\* Redis answers, and so does a COMMIT.
CallsAnswered == Faults \cap {"redisError", "answerLost"} = {}

Before == {"idle", "ticket", "wallet", "save", "write", "tx"}

PersistDue(t) ==
  \/ \E r \in Requests : pc[r] = "persist" /\ r.ticket = t
  \/ consumer.step = "persist" /\ Message.ticket = t

Due(t) == claim[t] = "kept" \/ PersistDue(t)

RowIsBooked(r) == booking[r] # "none" /\ pc[r] \notin Before

TendInv ==
  \A t \in Tickets : Due(t) =>
    /\ \E r \in Requests : r.ticket = t /\ RowIsBooked(r)
    /\ ticket[t] = "available" /\ claim[t] # "free" => Tended(t)

LEMMA RowStaysBooked ==
  ASSUME CoreInv, [Next]_vars, NEW r \in Requests, RowIsBooked(r)
  PROVE  RowIsBooked(r)'
<1>1. booking \in [Requests -> BookingStatuses]
  BY GateTypes
<1>2. booking'[r] # "none"
  BY <1>1, StepsOnStore
     DEF StoreStep, storeVars, OwnerMove, Save, TicketHasRow, MarkFailed, UpdateStatus, BookTx,
         CancelTx, CancelBooking, RowIsBooked
<1>3. pc'[r] \notin Before
  BY WhereQueueGoes DEF RowIsBooked, Before
<1> QED
  BY <1>2, <1>3 DEF RowIsBooked

(* How a claim changes.                                                     *)
ClaimStep(t) ==
  \/ claim'[t] = claim[t]
  \/ claim'[t] = "free"
  \/ claim[t] = "free" /\ claim'[t] = "ttl" /\ \E r \in Requests : r.ticket = t /\ pc'[r] = "ticket"
  \/ claim[t] # "free" /\ claim'[t] = "kept" /\ PersistDue(t)

LEMMA ClaimMoves ==
  ASSUME CoreInv, CallsAnswered, [Next]_vars, NEW t \in TicketIds
  PROVE  ClaimStep(t)
<1>0. /\ claim \in [TicketIds -> ClaimStates] /\ pc \in [Requests -> QueuePC]
      /\ \A r \in Requests : r.ticket \in TicketIds
      /\ \A c \in CancelCalls : c.booking.ticket \in TicketIds
      /\ ~Fault("redisError")
  BY GateTypes, RequestFields, CancelFields DEF Fault, CallsAnswered
<1> USE DEF ClaimStep
<1>1. ASSUME NEW r \in Requests, QueueClaim(r) \/ QueueStep(r)
      PROVE  ClaimStep(t)
  <2>1. CASE QueueClaim(r)
    BY <1>0, <2>1 DEF QueueClaim, SetNX, Goto
  <2>2. CASE QueuePersist(r)
    BY <1>0, <2>2 DEF QueuePersist, Persist, PersistDue
  <2>3. CASE QueueRelease(r)
    BY <1>0, <2>3 DEF QueueRelease, Del
  <2>4. CASE \/ QueueReadTicket(r) \/ QueueReadWallet(r) \/ QueueSave(r) \/ QueueWrite(r)
             \/ QueueBookTx(r) \/ QueueMarkFailed(r)
    BY <2>4 DEF QueueReadTicket, QueueReadWallet, QueueSave, QueueWrite, QueueBookTx,
                QueueMarkFailed
  <2> QED
    BY <1>1, <2>1, <2>2, <2>3, <2>4 DEF QueueStep
<1>2. ASSUME NEW c \in CancelCalls, CancelRead(c) \/ CancelStep(c)
      PROVE  ClaimStep(t)
  BY <1>0, <1>2 DEF CancelRead, CancelStep, CancelBookTx, CancelRelease, Del
<1>3. CASE ConsumerStep
  <2>1. CASE ConsumerPersist
    BY <1>0, <2>1, MessageInRequests DEF ConsumerPersist, Persist, PersistDue
  <2>2. CASE ConsumerRelease
    BY <1>0, <2>2, MessageInRequests DEF ConsumerRelease, Del
  <2>3. CASE \/ (\E p \in Partitions : ConsumerFetch(p)) \/ ConsumerCheck \/ ConsumerLookup
             \/ ConsumerBookTx \/ ConsumerFail \/ ConsumerCommit
    BY <2>3 DEF ConsumerFetch, ConsumerCheck, ConsumerLookup, ConsumerBookTx, ConsumerFail,
                ConsumerCommit
  <2> QED
    BY <1>3, <2>1, <2>2, <2>3 DEF ConsumerStep
<1>4. ASSUME NEW w \in Wallets, NEW amount \in Amounts, WalletCall(w, amount)
      PROVE  ClaimStep(t)
  BY <1>4 DEF WalletCall, WalletDeposit, WalletWithdraw
<1>5. ASSUME NEW x \in TicketIds, ClaimExpires(x)
      PROVE  ClaimStep(t)
  BY <1>0, <1>5 DEF ClaimExpires, Expire
<1>6. CASE Crash \/ Rejoin \/ UNCHANGED vars
  BY <1>6 DEF Crash, Rejoin, vars
<1> QED
  BY <1>1, <1>2, <1>3, <1>4, <1>5, <1>6 DEF Next

(* A PERSIST becomes due in the transaction that sells the ticket.          *)
LEMMA PersistBecomesDue ==
  ASSUME CoreInv, UnsentUncharged, [Next]_vars, NEW t \in Tickets,
         ~PersistDue(t), PersistDue(t)'
  PROVE  ticket'[t] = "sold" /\ \E r \in Requests : r.ticket = t /\ RowIsBooked(r)'
<1>0. /\ pc \in [Requests -> QueuePC] /\ booking \in [Requests -> BookingStatuses]
      /\ ticket \in [Tickets -> TicketStatuses]
      /\ consumer \in [step : ConsumerSteps \cup {"fetch"}, part : Partitions, idx : Nat]
  BY GateTypes DEF CoreInv, TypeOK, StoreTypeOK
<1>1. ASSUME NEW r \in Requests, r.ticket = t, BookTx(r), booking[r] # "none"
      PROVE  ticket'[t] = "sold" /\ booking'[r] # "none"
  BY <1>0, <1>1 DEF BookTx, MarkSold, UpdateStatus
<1>2. ASSUME NEW r \in Requests, r.ticket = t, pc'[r] = "persist"
      PROVE  ticket'[t] = "sold" /\ RowIsBooked(r)'
  <2>1. pc[r] # "persist"
    BY <1>2 DEF PersistDue
  <2>2. ASSUME NEW q \in Requests, QueueClaim(q) \/ QueueStep(q)
        PROVE  BookTx(r) /\ pc[r] = "tx"
    BY <1>0, <1>2, <2>1, <2>2
    DEF QueueClaim, QueueStep, QueueReadTicket, QueueReadWallet, QueueSave, QueueWrite,
        QueueBookTx, QueuePersist, QueueMarkFailed, QueueRelease, Goto
  <2>3. BookTx(r) /\ pc[r] = "tx"
    <3>1. ~Crash
      BY <1>0, <1>2, <2>1 DEF Crash
    <3> QED
      BY <1>2, <2>1, <2>2, <3>1, WhoMovesQueue
  <2>4. booking[r] # "none"
    BY <2>3 DEF CoreInv, ChecksDone
  <2> QED
    BY <1>1, <1>2, <2>3, <2>4 DEF RowIsBooked, Before
<1>3. CASE consumer'.step = "persist" /\ Message'.ticket = t
  <2>1. CASE ConsumerBookTx
    <3> DEFINE m == Message
    <3>1. m \in Requests /\ booking[m] # "none" /\ Sent(m) /\ BookTx(m) /\ UNCHANGED <<log, pc>>
      BY <1>0, <1>3, <2>1, MessageInRequests DEF ConsumerBookTx, ConsumerGoto, topicVars
    <3>2. Message' = m /\ m.ticket = t
      BY <1>0, <1>3, <2>1, MessageKept DEF ConsumerBookTx, ConsumerGoto
    <3>3. pc[m] \notin Before
      BY <3>1 DEF UnsentUncharged, Before
    <3> HIDE DEF m
    <3>4. ticket'[t] = "sold" /\ \A r \in Requests : r = m => RowIsBooked(r)'
      BY <1>1, <3>1, <3>2, <3>3 DEF RowIsBooked
    <3> QED
      BY <3>1, <3>2, <3>4
  <2>2. CASE UNCHANGED consumer
    BY <1>0, <1>3, <2>2, MessageKept DEF PersistDue
  <2>3. CASE ConsumerStep /\ ~ConsumerBookTx
    <3>1. consumer'.step # "persist"
      BY <1>0, <2>3
      DEF ConsumerStep, ConsumerFetch, ConsumerCheck, ConsumerLookup, ConsumerPersist,
          ConsumerFail, ConsumerRelease, ConsumerCommit, ConsumerGoto, Fetching
    <3> QED
      BY <1>3, <3>1
  <2>4. ~Crash
    BY <1>3 DEF Crash, Fetching
  <2> QED
    BY <2>1, <2>2, <2>3, <2>4, WhoMovesConsumer
<1> QED
  BY <1>2, <1>3 DEF PersistDue

(* Who stops tending a ticket: a request that sends or books it, one whose  *)
(* release deletes the claim, a cancellation that deletes it, or a crash.   *)
LEMMA TendedUntilFreed ==
  ASSUME CoreInv, CallsAnswered, [Next]_vars, NEW t \in Tickets,
         Tended(t), ~Tended(t)'
  PROVE  \/ claim'[t] = "free"
         \/ \E r \in Requests : r.ticket = t /\ pc[r] \in {"write", "tx"}
<1>0. /\ pc \in [Requests -> QueuePC] /\ cancel \in [CancelCalls -> CancelPC]
      /\ claim \in [TicketIds -> ClaimStates] /\ ~Fault("redisError") /\ t \in TicketIds
  BY GateTypes, DataAssumption DEF Fault, CallsAnswered
<1>1. ASSUME NEW r \in Requests, r.ticket = t, InFlow(r)
      PROVE  claim'[t] = "free" \/ pc[r] \in {"write", "tx"}
  <2>1. SUFFICES ASSUME pc[r] \notin {"write", "tx"} PROVE claim'[t] = "free"
    OBVIOUS
  <2>2. pc'[r] # "dead" /\ ~InFlow(r)'
    BY <1>1 DEF Tended, DiedOver
  <2>3. pc[r] = "release" /\ pc'[r] = "rejected"
    BY <1>0, <1>1, <2>1, <2>2, WhereQueueGoes DEF InFlow, QueueSteps
  <2>4. ~Crash
    BY <1>0, <2>3 DEF Crash
  <2>5. QueueRelease(r)
    <3>1. PICK q \in Requests : QueueClaim(q) \/ QueueStep(q)
      BY <2>3, <2>4, WhoMovesQueue
    <3> QED
      BY <1>0, <2>3, <3>1
      DEF QueueClaim, QueueStep, QueueReadTicket, QueueReadWallet, QueueSave, QueueWrite,
          QueueBookTx, QueuePersist, QueueMarkFailed, Goto, QueueRelease
  <2> QED
    BY <1>0, <1>1, <2>5 DEF QueueRelease, Del
<1>2. ASSUME NEW c \in CancelCalls, c.booking.ticket = t, cancel[c] = "release"
      PROVE  claim'[t] = "free"
  <2>1. cancel'[c] # "release" /\ cancel'[c] # "dead"
    BY <1>2 DEF Tended, DiedOver
  <2>2. ~Crash
    BY <1>0, <1>2, <2>1 DEF Crash
  <2>3. PICK d \in CancelCalls : CancelRead(d) \/ CancelStep(d)
    BY <1>2, <2>1, <2>2, WhoMovesCancel
  <2>4. CancelRelease(c)
    BY <1>0, <1>2, <2>1, <2>3
    DEF CancelRead, CancelStep, CancelBookTx, CancelRelease, CancelGoto
  <2> QED
    BY <1>0, <1>2, <2>4 DEF CancelRelease, Del
<1>3. ~DiedOver(t)
  <2>1. ASSUME NEW r \in Requests, pc[r] = "dead"
        PROVE  pc'[r] = "dead"
    BY <2>1, WhereQueueGoes DEF QueueSteps
  <2>2. ASSUME NEW c \in CancelCalls, cancel[c] = "dead"
        PROVE  cancel'[c] = "dead"
    <3>1. CASE Crash
      BY <1>0, <2>2, <3>1 DEF Crash
    <3>2. ASSUME NEW d \in CancelCalls, CancelRead(d) \/ CancelStep(d)
          PROVE  cancel'[c] = "dead"
      BY <1>0, <2>2, <3>2
      DEF CancelRead, CancelStep, CancelBookTx, CancelRelease, CancelGoto
    <3> QED
      BY <2>2, <3>1, <3>2, WhoMovesCancel
  <2> QED
    BY <2>1, <2>2 DEF Tended, DiedOver
<1> QED
  BY <1>1, <1>2, <1>3 DEF Tended

(* A ticket goes back on sale in the transaction of a cancellation.         *)
LEMMA ReturnedByCancel ==
  ASSUME CoreInv, CallsAnswered, [Next]_vars, NEW t \in Tickets,
         ticket[t] # "available", ticket'[t] = "available"
  PROVE  Tended(t)'
<1>0. /\ ticket \in [Tickets -> TicketStatuses] /\ cancel \in [CancelCalls -> CancelPC]
      /\ ~Fault("answerLost")
  BY GateTypes DEF CoreInv, TypeOK, StoreTypeOK, Fault, CallsAnswered
<1>1. ASSUME NEW r \in Requests, QueueClaim(r) \/ QueueStep(r)
      PROVE  FALSE
  BY <1>0, <1>1
  DEF QueueClaim, QueueStep, QueueReadTicket, QueueReadWallet, QueueSave, QueueWrite,
      QueueBookTx, BookTx, MarkSold, QueuePersist, QueueMarkFailed, QueueRelease, storeVars
<1>2. ASSUME NEW c \in CancelCalls, CancelRead(c) \/ CancelStep(c)
      PROVE  cancel'[c] = "release" /\ c.booking.ticket = t
  BY <1>0, <1>2
  DEF CancelRead, CancelStep, CancelBookTx, CancelTx, MarkAvailable, CancelRelease, CancelGoto,
      storeVars
<1>3. ~ConsumerStep
  BY <1>0
  DEF ConsumerStep, ConsumerFetch, ConsumerCheck, ConsumerLookup, ConsumerBookTx, BookTx,
      MarkSold, ConsumerPersist, ConsumerFail, ConsumerRelease, ConsumerCommit, storeVars
<1>4. \A w \in Wallets, amount \in Amounts : ~WalletCall(w, amount)
  BY DEF WalletCall, WalletDeposit, WalletWithdraw
<1>5. ~((\E x \in TicketIds : ClaimExpires(x)) \/ Crash \/ Rejoin \/ UNCHANGED vars)
  BY DEF ClaimExpires, Crash, Rejoin, vars, storeVars
<1> QED
  BY <1>1, <1>2, <1>3, <1>4, <1>5 DEF Next, Tended

LEMMA TendStep ==
  ASSUME CoreInv, UnsentUncharged, CallsAnswered, TendInv, [Next]_vars
  PROVE  TendInv'
<1> SUFFICES ASSUME NEW t \in Tickets, Due(t)'
             PROVE  /\ \E r \in Requests : r.ticket = t /\ RowIsBooked(r)'
                    /\ ticket'[t] = "available" /\ claim'[t] # "free" => Tended(t)'
  BY DEF TendInv
<1>0. t \in TicketIds /\ claim \in [TicketIds -> ClaimStates] /\ OneRowPerTicket
  BY GateTypes, DataAssumption DEF CoreInv, StoreInv
<1>1. ClaimStep(t)
  BY <1>0, ClaimMoves
<1>2. CASE ~Due(t)
  <2>1. ~PersistDue(t) /\ PersistDue(t)'
    BY <1>1, <1>2 DEF Due, ClaimStep
  <2> QED
    BY <2>1, PersistBecomesDue
<1>3. CASE Due(t)
  <2>1. PICK r \in Requests : r.ticket = t /\ RowIsBooked(r)
    BY <1>3 DEF TendInv
  <2>2. RowIsBooked(r)'
    BY <2>1, RowStaysBooked
  <2>3. ASSUME ticket'[t] = "available", claim'[t] # "free", ~Tended(t)'
        PROVE  FALSE
    <3>1. ticket[t] = "available"
      BY <2>3, ReturnedByCancel
    <3>2. claim[t] # "free"
      <4>1. SUFFICES ASSUME claim[t] = "free"
                     PROVE  FALSE
        OBVIOUS
      <4>2. PICK q \in Requests : q.ticket = t /\ pc'[q] = "ticket"
        BY <1>1, <2>3, <4>1 DEF ClaimStep
      <4> QED
        BY <2>3, <4>2 DEF Tended, InFlow, QueueSteps
    <3>3. Tended(t)
      BY <1>3, <3>1, <3>2 DEF TendInv
    <3>4. PICK q \in Requests : q.ticket = t /\ pc[q] \in {"write", "tx"}
      BY <2>3, <3>3, TendedUntilFreed
    <3>5. booking[q] # "none"
      BY <3>4 DEF CoreInv, ChecksDone
    <3>6. q = r
      BY <1>0, <2>1, <3>4, <3>5 DEF OneRowPerTicket, RowIsBooked
    <3> QED
      BY <2>1, <3>4, <3>6 DEF RowIsBooked, Before
  <2> QED
    BY <2>1, <2>2, <2>3
<1> QED
  BY <1>2, <1>3

LEMMA TendInit ==
  Init => TendInv
<1> SUFFICES ASSUME Init, NEW t \in Tickets
             PROVE  ~Due(t)
  BY DEF TendInv
<1>1. claim[t] = "free" /\ \A r \in Requests : pc[r] # "persist"
  BY DataAssumption DEF Init, GateInit
<1>2. consumer.step = "fetch"
  BY DEF Init, TopicInit, Fetching
<1> QED
  BY <1>1, <1>2 DEF Due, PersistDue

(* As long as Redis answers, and so does a COMMIT, a claim made permanent   *)
(* on a ticket that is on sale always has somebody whose next calls to      *)
(* Redis may remove it; only a process that died in their place leaves the  *)
(* ticket locked for ever.                                                  *)
THEOREM KeptClaimsAreTended ==
  ASSUME CallsAnswered
  PROVE  Spec => []KeptClaimIsTended
<1>1. Init => SentInv /\ TendInv
  BY SentInit, TendInit
<1>2. CoreInv /\ SentInv /\ [Next]_vars => SentInv'
  BY SentInvStep
<1>3. CoreInv /\ SentInv /\ TendInv /\ [Next]_vars => TendInv'
  BY TendStep DEF SentInv
<1>4. TendInv => KeptClaimIsTended
  BY DEF TendInv, Due, KeptClaimIsTended
<1> QED
  BY <1>1, <1>2, <1>3, <1>4, CoreInit, CoreStep, PTL DEF Spec
=============================================================================
