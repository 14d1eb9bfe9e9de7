----------------------------- MODULE TicketSale ----------------------------
(***************************************************************************)
(* What the booking subsystem promises, with no queue, gate or process in  *)
(* it: a deal (one buyer, one ticket, one wallet) is struck and undone in  *)
(* a single step, a ticket is in at most one deal, the price moves with    *)
(* the ticket, and only the buyer's own wallet pays.                       *)
(***************************************************************************)
EXTENDS Integers

CONSTANTS Deals, Wallets, Owner, Price, Amounts

VARIABLES
  deals,    \* the deals in force
  balance   \* money in each wallet

saleVars == <<deals, balance>>

Init == deals = {} /\ balance = [w \in Wallets |-> 0]

Sell(d) ==
  /\ \A e \in deals : e.ticket # d.ticket
  /\ d.wallet \in Wallets
  /\ Owner[d.wallet] = d.user
  /\ balance[d.wallet] >= Price[d.ticket]
  /\ deals' = deals \cup {d}
  /\ balance' = [balance EXCEPT ![d.wallet] = @ - Price[d.ticket]]

Refund(d) ==
  /\ d \in deals
  /\ deals' = deals \ {d}
  /\ balance' = [balance EXCEPT ![d.wallet] = @ + Price[d.ticket]]

TopUp(w, amount) ==
  /\ balance' = [balance EXCEPT ![w] = @ + amount]
  /\ UNCHANGED deals

Spend(w, amount) ==
  /\ balance[w] >= amount
  /\ balance' = [balance EXCEPT ![w] = @ - amount]
  /\ UNCHANGED deals

Next ==
  \/ \E d \in Deals : Sell(d) \/ Refund(d)
  \/ \E w \in Wallets, amount \in Amounts : TopUp(w, amount) \/ Spend(w, amount)

Spec == Init /\ [][Next]_saleVars
=============================================================================
