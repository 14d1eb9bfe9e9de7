---------------------------- MODULE BookingStore ---------------------------
(***************************************************************************)
(* The MySQL tables the booking service reads and writes, the repository   *)
(* methods on them, and the two cross-table transactions.  A transaction   *)
(* is one step: its UPDATEs lock the rows they touch until it commits, and *)
(* an error in it rolls everything back.  That the answer to a COMMIT may  *)
(* be lost is left to the callers.                                         *)
(***************************************************************************)
EXTENDS BookingData

VARIABLES
  ticket,    \* tickets.status
  balance,   \* wallets.balance
  booking    \* bookings.status, "none" while the row does not exist

storeVars == <<ticket, balance, booking>>

TicketStatuses == {"available", "sold"}
BookingStatuses == {"none", "pending", "confirmed", "cancelled", "failed"}

StoreTypeOK ==
  /\ ticket \in [Tickets -> TicketStatuses]
  /\ balance \in [Wallets -> Nat]
  /\ booking \in [Requests -> BookingStatuses]

StoreInit ==
  /\ ticket = [t \in Tickets |-> "available"]
  /\ balance = [w \in Wallets |-> 0]
  /\ booking = [r \in Requests |-> "none"]

-----------------------------------------------------------------------------
(* tickets *)

MarkSold(t) ==
  /\ ticket[t] = "available"
  /\ ticket' = [ticket EXCEPT ![t] = "sold"]

\* Faulty variant: a cancellation forgets the seat.
MarkAvailableForgotten(t) == UNCHANGED ticket

MarkAvailable(t) == ticket' = [ticket EXCEPT ![t] = "available"]

-----------------------------------------------------------------------------
(* wallets *)

Deposit(w, amount) == balance' = [balance EXCEPT ![w] = @ + amount]

\* Faulty variant: the UPDATE without "balance >= ?".
WithdrawUnchecked(w, amount) == w \in Wallets /\ amount > 0

\* The UPDATE reports ok only when RowsAffected > 0, and the MySQL driver
\* counts rows whose value changed: withdrawing 0 affects no row.
WithdrawOk(w, amount) ==
  /\ w \in Wallets
  /\ balance[w] >= amount
  /\ amount > 0

Withdraw(w, amount) ==
  /\ WithdrawOk(w, amount)
  /\ balance' = [balance EXCEPT ![w] = @ - amount]

-----------------------------------------------------------------------------
(* bookings *)

\* idx_bookings_ticket_id is unique: one row per ticket, whatever its status.
TicketHasRow(t) == \E q \in Requests : booking[q] # "none" /\ q.ticket = t

Save(r) ==
  /\ ~TicketHasRow(r.ticket)
  /\ booking' = [booking EXCEPT ![r] = "pending"]

UpdateStatus(r, status) ==
  booking' = [booking EXCEPT ![r] = IF @ = "none" THEN @ ELSE status]

\* Faulty variant: the UPDATE without "status = 'confirmed'".
CancelBookingAny(r) == booking' = [booking EXCEPT ![r] = "cancelled"]

CancelBooking(r) ==
  /\ booking[r] = "confirmed"
  /\ booking' = [booking EXCEPT ![r] = "cancelled"]

-----------------------------------------------------------------------------
(* transactions *)

BookTxOk(r) ==
  /\ ticket[r.ticket] = "available"
  /\ WithdrawOk(r.wallet, Price[r.ticket])

\* Faulty variant: the seat is not marked in the transaction.
BookTxUnmarked(r) ==
  /\ Withdraw(r.wallet, Price[r.ticket])
  /\ UpdateStatus(r, "confirmed")
  /\ UNCHANGED ticket

BookTx(r) ==
  /\ MarkSold(r.ticket)
  /\ Withdraw(r.wallet, Price[r.ticket])
  /\ UpdateStatus(r, "confirmed")

\* Faulty variant: the refund is forgotten.
CancelTxUnpaid(r) ==
  /\ CancelBooking(r)
  /\ MarkAvailable(r.ticket)
  /\ UNCHANGED balance

CancelTx(r) ==
  /\ CancelBooking(r)
  /\ MarkAvailable(r.ticket)
  /\ Deposit(r.wallet, Price[r.ticket])
=============================================================================
