------------------------- MODULE BookingProperties -------------------------
(***************************************************************************)
(* What must be true of the booking service.                               *)
(***************************************************************************)
EXTENDS BookingService

Confirmed(r) == booking[r] = "confirmed"

Sent(r) == \E p \in Partitions : \E i \in 1..Len(log[p]) : log[p][i] = r

\* Money that confirmed bookings have moved out of wallet w, coin by coin.
Coins(r) == {r} \X (1..Price[r.ticket])
CoinsFrom(w) == UNION {Coins(r) : r \in {q \in Requests : Confirmed(q) /\ q.wallet = w}}
PaidFrom(w) == Cardinality(CoinsFrom(w))

-----------------------------------------------------------------------------
(* A ticket is sold exactly when one booking of it is confirmed: the three *)
(* UPDATEs of the booking transaction and of the cancel transaction never  *)
(* drift apart, whatever the gate, the queue and redelivery do.            *)
SoldMeansConfirmed ==
  \A t \in Tickets :
    ticket[t] = "sold" <=> \E r \in Requests : Confirmed(r) /\ r.ticket = t

(* Every wallet holds what its owner put in, less the price of each booking *)
(* that is confirmed now: no booking is charged twice, refunded twice, or   *)
(* left charged after it failed.                                            *)
MoneyConserved == \A w \in Wallets : balance[w] + PaidFrom(w) = cash[w]

(* A caller who was told that the booking failed (Queue returned an error)  *)
(* is not charged for it by anybody later.                                  *)
RejectedNeverCharged == \A r \in Requests : pc[r] = "rejected" => ~Confirmed(r)

(* A confirmed booking only ever becomes cancelled: handling its message    *)
(* again does not turn it into a failed one.                                *)
ConfirmedNeverFails ==
  [][\A r \in Requests : Confirmed(r) => booking'[r] \in {"confirmed", "cancelled"}]_vars

(* A pending booking has somebody who will settle it: its own handler, or a *)
(* message that a restarted consumer will read, since the offset is         *)
(* committed after the outcome is recorded.  The only bookings left pending *)
(* for ever are those whose handler died before it had sent the message.    *)
PendingIsCarried ==
  \A r \in Requests : booking[r] = "pending" =>
    \/ pc[r] \in {"write", "tx", "markFailed", "dead"}
    \/ LET p == PartitionOf[r.ticket] IN
       \E i \in (committed[p] + 1)..Len(log[p]) : log[p][i] = r

(* The service implements the abstract sale: each step of a handler, of the *)
(* consumer or of the environment strikes one deal, undoes one deal, moves  *)
(* an owner's money, or changes nothing a customer owns.                    *)
Sale == INSTANCE TicketSale WITH
  Deals <- Requests,
  deals <- {r \in Requests : Confirmed(r)}

ImplementsSale == Sale!Spec

(* Even when reads fail at the worst moment, a confirmed booking holds its  *)
(* seat and is the only one on it.                                          *)
ConfirmedSeatIsHeld ==
  \A r \in Requests : Confirmed(r) =>
    /\ ticket[r.ticket] = "sold"
    /\ \A q \in Requests : Confirmed(q) /\ q.ticket = r.ticket => q = r

(* No failure, retry or cancellation pays out money nobody put in.          *)
NoMoneyCreated == \A w \in Wallets : balance[w] + PaidFrom(w) <= cash[w]

\* The database part of Queue, from the claim to the outcome.
InFlow(r) == pc[r] \in QueueSteps \ {"persist"}

(* Every accepted booking leaves "pending".                                 *)
AcceptedResolves ==
  \A r \in Requests : pc[r] = "accepted" ~> booking[r] \notin {"none", "pending"}

(* A ticket that went back on sale does not stay locked out by a claim      *)
(* without a TTL, unless the process died over it: between the commit of a  *)
(* cancellation and its Del, or in a request whose own claim the consumer   *)
(* had just persisted.                                                      *)
DiedOver(t) ==
  \/ \E c \in CancelCalls : cancel[c] = "dead" /\ c.booking.ticket = t
  \/ \E r \in Requests : pc[r] = "dead" /\ r.ticket = t

GateReopens ==
  \A t \in Tickets :
    ticket[t] = "available" /\ claim[t] = "kept"
      ~> claim[t] # "kept" \/ ticket[t] = "sold" \/ DiedOver(t)

\* Who may still remove the claim of a ticket: a request in the database part
\* of Queue, which will be refused, or a cancellation that has committed.
Tended(t) ==
  \/ \E r \in Requests : InFlow(r) /\ r.ticket = t
  \/ \E c \in CancelCalls : cancel[c] = "release" /\ c.booking.ticket = t
  \/ DiedOver(t)

(* A claim without a TTL on a ticket that is on sale has somebody on the    *)
(* way to remove it: the consumer's late PERSIST, however it falls between  *)
(* cancellations, retries and new requests, never leaves one behind that    *)
(* nobody will delete, as long as Redis answers.                            *)
KeptClaimIsTended ==
  \A t \in Tickets : ticket[t] = "available" /\ claim[t] = "kept" => Tended(t)

-----------------------------------------------------------------------------
(* Statements of the repository that the code does not keep.               *)

(* README.md: a booking whose message was handled before is skipped and not *)
(* charged again.                                                           *)
CancelledNeverChargedAgain ==
  [][\A r \in Requests : booking[r] = "cancelled" => ~Confirmed(r)']_vars

(* service.go: cancelling a booking puts the ticket back on sale, so that   *)
(* the next request for it gets past the insert of its row.                 *)
ReleasedTicketBookable ==
  \A r \in Requests :
    /\ pc[r] = "save"
    /\ \A q \in Requests : q.ticket = r.ticket =>
         booking[q] \in {"none", "cancelled"}
    => ~TicketHasRow(r.ticket)

(* wallet/repo/mysql.go: Withdraw's ok=FALSE means that the balance is too   *)
(* low, so a transaction that no fault touched refuses an available ticket  *)
(* only to a wallet that cannot pay.                                        *)
RefusedMeansShort ==
  [][/\ consumer.step = "tx" /\ consumer'.step = "fail" /\ faults' = faults
     /\ ticket[Message.ticket] = "available"
     => balance[Message.wallet] < Price[Message.ticket]]_vars
=============================================================================
