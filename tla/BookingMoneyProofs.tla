------------------------ MODULE BookingMoneyProofs -------------------------
(***************************************************************************)
(* Proofs that the booking service neither makes nor loses money: what a   *)
(* wallet holds and what its confirmed bookings cost add up to what its    *)
(* owner put in.  Money is counted coin by coin, so that charging one      *)
(* booking more adds a disjoint finite set of coins.                       *)
(***************************************************************************)
EXTENDS BookingProofs, FiniteSetTheorems

-----------------------------------------------------------------------------
(* Counting coins.                                                         *)

LEMMA CoinsOfOne ==
  ASSUME NEW r \in Requests, r.ticket \in Tickets
  PROVE  IsFiniteSet(Coins(r)) /\ Cardinality(Coins(r)) = Price[r.ticket]
<1>1. Price[r.ticket] \in Nat
  BY DataAssumption
<1>2. /\ IsFiniteSet(1..Price[r.ticket])
      /\ Cardinality(1..Price[r.ticket]) = Price[r.ticket]
  <2> DEFINE n == Price[r.ticket]
  <2>1. n \in Nat
    BY <1>1
  <2> HIDE DEF n
  <2>2. IsFiniteSet(1..n) /\ Cardinality(1..n) = IF 1 > n THEN 0 ELSE n - 1 + 1
    BY <2>1, FS_Interval
  <2>3. Cardinality(1..n) = n
    BY <2>1, <2>2
  <2> QED
    BY <2>2, <2>3 DEF n
<1>3. IsFiniteSet({r}) /\ Cardinality({r}) = 1
  BY FS_Singleton
<1> QED
  BY <1>1, <1>2, <1>3, FS_Product DEF Coins

(* Coins paid for different bookings are different coins.                  *)
LEMMA CoinsApart ==
  ASSUME NEW w \in Wallets, NEW r \in Requests, ~Confirmed(r) \/ r.wallet # w
  PROVE  CoinsFrom(w) \cap Coins(r) = {}
BY DEF CoinsFrom, Coins

LEMMA SameConfirmed ==
  ASSUME \A q \in Requests : Confirmed(q)' <=> Confirmed(q), NEW w \in Wallets
  PROVE  CoinsFrom(w)' = CoinsFrom(w)
<1>1. {q \in Requests : Confirmed(q) /\ q.wallet = w}' = {q \in Requests : Confirmed(q) /\ q.wallet = w}
  OBVIOUS
<1> QED
  BY <1>1 DEF CoinsFrom, Coins

(* One confirmed booking more costs its wallet, and no other, its price.   *)
LEMMA OneMore ==
  ASSUME NEW r \in Requests, r.ticket \in Tickets,
         ~Confirmed(r), Confirmed(r)',
         \A q \in Requests \ {r} : Confirmed(q)' <=> Confirmed(q),
         NEW w \in Wallets, IsFiniteSet(CoinsFrom(w))
  PROVE  /\ IsFiniteSet(CoinsFrom(w)')
         /\ PaidFrom(w)' =
              IF r.wallet = w THEN PaidFrom(w) + Price[r.ticket] ELSE PaidFrom(w)
<1>1. CASE r.wallet = w
  <2>1. CoinsFrom(w)' = CoinsFrom(w) \cup Coins(r)
    BY <1>1 DEF CoinsFrom, Coins
  <2>2. CoinsFrom(w) \cap Coins(r) = {}
    BY CoinsApart
  <2>3. Cardinality(CoinsFrom(w)) \in Nat /\ Price[r.ticket] \in Nat
    BY FS_CardinalityType, DataAssumption
  <2>4. /\ IsFiniteSet(CoinsFrom(w) \cup Coins(r))
        /\ Cardinality(CoinsFrom(w) \cup Coins(r)) =
             Cardinality(CoinsFrom(w)) + Price[r.ticket]
    <3>1. IsFiniteSet(Coins(r)) /\ Cardinality(Coins(r)) = Price[r.ticket]
      BY CoinsOfOne
    <3>2. /\ IsFiniteSet(CoinsFrom(w) \cup Coins(r))
          /\ Cardinality(CoinsFrom(w) \cup Coins(r)) =
               Cardinality(CoinsFrom(w)) + Cardinality(Coins(r))
                 - Cardinality(CoinsFrom(w) \cap Coins(r))
      BY <3>1, FS_Union
    <3>3. Cardinality(CoinsFrom(w) \cap Coins(r)) = 0
      BY <2>2, FS_EmptySet
    <3> QED
      BY <2>3, <3>1, <3>2, <3>3
  <2> QED
    BY <1>1, <2>1, <2>4 DEF PaidFrom
<1>2. CASE r.wallet # w
  <2>1. CoinsFrom(w)' = CoinsFrom(w)
    BY <1>2 DEF CoinsFrom, Coins
  <2> QED
    BY <1>2, <2>1 DEF PaidFrom
<1> QED
  BY <1>1, <1>2

(* And one less gives the price back.                                      *)
LEMMA OneLess ==
  ASSUME NEW r \in Requests, r.ticket \in Tickets,
         Confirmed(r), ~Confirmed(r)',
         \A q \in Requests \ {r} : Confirmed(q)' <=> Confirmed(q),
         NEW w \in Wallets, IsFiniteSet(CoinsFrom(w))
  PROVE  /\ IsFiniteSet(CoinsFrom(w)')
         /\ PaidFrom(w)' =
              IF r.wallet = w THEN PaidFrom(w) - Price[r.ticket] ELSE PaidFrom(w)
<1>1. CASE r.wallet = w
  <2>1. CoinsFrom(w)' = CoinsFrom(w) \ Coins(r)
    BY <1>1 DEF CoinsFrom, Coins
  <2>2. CoinsFrom(w) \cap Coins(r) = Coins(r)
    BY <1>1 DEF CoinsFrom
  <2>3. /\ IsFiniteSet(CoinsFrom(w) \ Coins(r))
        /\ Cardinality(CoinsFrom(w) \ Coins(r)) =
             Cardinality(CoinsFrom(w)) - Price[r.ticket]
    <3>1. IsFiniteSet(Coins(r)) /\ Cardinality(Coins(r)) = Price[r.ticket]
      BY CoinsOfOne
    <3>2. /\ IsFiniteSet(CoinsFrom(w) \ Coins(r))
          /\ Cardinality(CoinsFrom(w) \ Coins(r)) =
               Cardinality(CoinsFrom(w)) - Cardinality(CoinsFrom(w) \cap Coins(r))
      BY FS_Difference
    <3> QED
      BY <2>2, <3>1, <3>2
  <2> QED
    BY <1>1, <2>1, <2>3 DEF PaidFrom
<1>2. CASE r.wallet # w
  <2>1. CoinsFrom(w)' = CoinsFrom(w)
    BY <1>2 DEF CoinsFrom, Coins
  <2> QED
    BY <1>2, <2>1 DEF PaidFrom
<1> QED
  BY <1>1, <1>2

-----------------------------------------------------------------------------
(* What a step does to the balances and to the confirmed bookings.         *)

Surplus(w) == balance[w] + PaidFrom(w) - cash[w]

\* Only a status update that overwrites a confirmed booking loses money.
MoneyStep ==
  \A w \in Wallets :
    /\ IsFiniteSet(CoinsFrom(w)')
    /\ Surplus(w)' <= Surplus(w)
    /\ StrictInv => Surplus(w)' = Surplus(w)

LEMMA MoneyMoves ==
  ASSUME CoreInv, ConfirmedSeatIsHeld, [Next]_vars,
         \A w \in Wallets : IsFiniteSet(CoinsFrom(w))
  PROVE  MoneyStep
<1>0. /\ ticket \in [Tickets -> TicketStatuses] /\ balance \in [Wallets -> Nat]
      /\ booking \in [Requests -> BookingStatuses] /\ cash \in [Wallets -> Int]
      /\ RowsAreWellFormed
  BY DEF CoreInv, StoreInv, StoreTypeOK, TypeOK
<1>01. \A w \in Wallets : PaidFrom(w) \in Nat
  BY FS_CardinalityType DEF PaidFrom
<1>02. \A t \in Tickets : Price[t] \in Nat
  BY DataAssumption
<1>03. \A amount \in Amounts : amount \in Nat
  BY DataAssumption
<1>1. CASE OwnerMove
  <2>1. \A w \in Wallets : CoinsFrom(w)' = CoinsFrom(w)
    BY <1>1, SameConfirmed DEF OwnerMove, Confirmed
  <2>2. \A w \in Wallets : balance'[w] - cash'[w] = balance[w] - cash[w]
    BY <1>0, <1>03, <1>1 DEF OwnerMove, Deposit, Withdraw, WithdrawOk
  <2>3. \A w \in Wallets : balance'[w] \in Int /\ cash'[w] \in Int
    BY <1>0, <1>03, <1>1 DEF OwnerMove, Deposit, Withdraw, WithdrawOk
  <2> QED
    BY <1>0, <1>01, <2>1, <2>2, <2>3 DEF MoneyStep, Surplus, PaidFrom
<1>2. ASSUME \A q \in Requests : Confirmed(q)' <=> Confirmed(q), UNCHANGED <<balance, cash>>
      PROVE  MoneyStep
  BY <1>0, <1>01, <1>2, SameConfirmed DEF MoneyStep, Surplus, PaidFrom
<1>3. CASE UNCHANGED storeVars /\ UNCHANGED cash
  BY <1>2, <1>3 DEF storeVars, Confirmed
<1>4. ASSUME NEW r \in Requests, Save(r), UNCHANGED <<ticket, balance>>, UNCHANGED cash
      PROVE  MoneyStep
  <2>1. \A q \in Requests : Confirmed(q)' <=> Confirmed(q)
    BY <1>0, <1>4 DEF Save, TicketHasRow, Confirmed
  <2> QED
    BY <1>2, <1>4, <2>1
<1>5. ASSUME NEW r \in Requests, MarkFailed(r), UNCHANGED cash
      PROVE  MoneyStep
  <2>1. CASE ~Confirmed(r)
    <3>1. \A q \in Requests : Confirmed(q)' <=> Confirmed(q)
      BY <1>0, <1>5, <2>1 DEF MarkFailed, UpdateStatus, Confirmed
    <3> QED
      BY <1>2, <1>5, <3>1 DEF MarkFailed
  <2>2. CASE Confirmed(r)
    <3>1. r.ticket \in Tickets
      BY <1>0, <2>2 DEF RowsAreWellFormed, WellFormed, Confirmed
    <3>2. ~Confirmed(r)' /\ \A q \in Requests \ {r} : Confirmed(q)' <=> Confirmed(q)
      BY <1>0, <1>5, <2>2 DEF MarkFailed, UpdateStatus, Confirmed
    <3>3. \A w \in Wallets :
            /\ IsFiniteSet(CoinsFrom(w)')
            /\ PaidFrom(w)' =
                 IF r.wallet = w THEN PaidFrom(w) - Price[r.ticket] ELSE PaidFrom(w)
      BY <2>2, <3>1, <3>2, OneLess
    <3>4. UNCHANGED <<balance, cash>> /\ ~StrictInv
      BY <1>5, <2>2 DEF MarkFailed
    <3> QED
      BY <1>0, <1>01, <1>02, <3>1, <3>3, <3>4 DEF MoneyStep, Surplus
  <2> QED
    BY <2>1, <2>2
<1>6. ASSUME NEW r \in Requests, booking[r] # "none", BookTx(r), UNCHANGED cash
      PROVE  MoneyStep
  <2>1. r.ticket \in Tickets /\ r.wallet \in Wallets
    BY <1>0, <1>6 DEF RowsAreWellFormed, WellFormed
  \* The seat was on sale, so nobody had a confirmed booking of it.
  <2>2. ~Confirmed(r)
    BY <1>6 DEF BookTx, MarkSold, ConfirmedSeatIsHeld
  <2>3. Confirmed(r)' /\ \A q \in Requests \ {r} : Confirmed(q)' <=> Confirmed(q)
    BY <1>0, <1>6 DEF BookTx, UpdateStatus, Confirmed
  <2>4. \A w \in Wallets :
          /\ IsFiniteSet(CoinsFrom(w)')
          /\ PaidFrom(w)' =
               IF r.wallet = w THEN PaidFrom(w) + Price[r.ticket] ELSE PaidFrom(w)
    BY <2>1, <2>2, <2>3, OneMore
  <2>5. \A w \in Wallets :
          balance'[w] = IF r.wallet = w THEN balance[w] - Price[r.ticket] ELSE balance[w]
    BY <1>0, <1>6, <2>1 DEF BookTx, Withdraw
  <2> QED
    BY <1>0, <1>01, <1>02, <1>6, <2>1, <2>4, <2>5 DEF MoneyStep, Surplus
<1>7. ASSUME NEW r \in Requests, CancelTx(r), UNCHANGED cash
      PROVE  MoneyStep
  <2>1. Confirmed(r) /\ r.ticket \in Tickets /\ r.wallet \in Wallets
    BY <1>0, <1>7 DEF CancelTx, CancelBooking, RowsAreWellFormed, WellFormed, Confirmed
  <2>2. ~Confirmed(r)' /\ \A q \in Requests \ {r} : Confirmed(q)' <=> Confirmed(q)
    BY <1>0, <1>7 DEF CancelTx, CancelBooking, Confirmed
  <2>3. \A w \in Wallets :
          /\ IsFiniteSet(CoinsFrom(w)')
          /\ PaidFrom(w)' =
               IF r.wallet = w THEN PaidFrom(w) - Price[r.ticket] ELSE PaidFrom(w)
    BY <2>1, <2>2, OneLess
  <2>4. \A w \in Wallets :
          balance'[w] = IF r.wallet = w THEN balance[w] + Price[r.ticket] ELSE balance[w]
    BY <1>0, <1>7, <2>1 DEF CancelTx, Deposit
  <2> QED
    BY <1>0, <1>01, <1>02, <1>7, <2>1, <2>3, <2>4 DEF MoneyStep, Surplus
<1> QED
  BY <1>1, <1>3, <1>4, <1>5, <1>6, <1>7, StepsOnStore DEF StoreStep

LEMMA NoMoneyAtFirst ==
  ASSUME Init
  PROVE  \A w \in Wallets : IsFiniteSet(CoinsFrom(w)) /\ Surplus(w) = 0
<1>1. \A w \in Wallets : CoinsFrom(w) = {}
  BY DEF Init, StoreInit, CoinsFrom, Confirmed
<1> QED
  BY <1>1, FS_EmptySet DEF Init, StoreInit, Surplus, PaidFrom

-----------------------------------------------------------------------------
(* Whatever fails and in whatever order handlers, consumer and restarts     *)
(* interleave, balances and confirmed bookings never add up to more than    *)
(* the owner's money: no booking is refunded twice, and none is refunded    *)
(* that was not charged.                                                    *)
MoneyInv == \A w \in Wallets : IsFiniteSet(CoinsFrom(w)) /\ Surplus(w) <= 0

LEMMA SurplusIsInt ==
  ASSUME CoreInv, NEW w \in Wallets, IsFiniteSet(CoinsFrom(w))
  PROVE  balance[w] \in Int /\ PaidFrom(w) \in Int /\ cash[w] \in Int /\ Surplus(w) \in Int
BY FS_CardinalityType DEF CoreInv, TypeOK, StoreTypeOK, PaidFrom, Surplus

LEMMA MoneyInvStep ==
  CoreInv /\ ConfirmedSeatIsHeld /\ MoneyInv /\ [Next]_vars => MoneyInv'
<1> SUFFICES ASSUME CoreInv, ConfirmedSeatIsHeld, MoneyInv, [Next]_vars,
                    NEW w \in Wallets
             PROVE  IsFiniteSet(CoinsFrom(w)') /\ Surplus(w)' <= 0
  BY DEF MoneyInv
<1>1. CoreInv'
  BY CoreStep
<1>2. IsFiniteSet(CoinsFrom(w)') /\ Surplus(w)' <= Surplus(w)
  BY MoneyMoves DEF MoneyInv, MoneyStep
<1>3. Surplus(w) \in Int
  BY SurplusIsInt DEF MoneyInv
<1>4. Surplus(w)' \in Int
  <2>1. PaidFrom(w)' \in Int
    BY <1>2, FS_CardinalityType DEF PaidFrom
  <2>2. balance'[w] \in Int /\ cash'[w] \in Int
    BY <1>1 DEF CoreInv, TypeOK, StoreTypeOK
  <2> QED
    BY <2>1, <2>2 DEF Surplus
<1> QED
  BY <1>2, <1>3, <1>4 DEF MoneyInv

THEOREM NoMoneyIsCreated == Spec => []NoMoneyCreated
<1>1. Init => ConfirmedSeatIsHeld
  BY DEF Init, StoreInit, ConfirmedSeatIsHeld, Confirmed
<1>2. Init => MoneyInv
  BY NoMoneyAtFirst DEF MoneyInv
<1>3. CoreInv /\ MoneyInv => NoMoneyCreated
  BY SurplusIsInt DEF MoneyInv, NoMoneyCreated, Surplus
<1> QED
  BY <1>1, <1>2, <1>3, CoreInit, CoreStep, SeatStep, MoneyInvStep, PTL DEF Spec

(* While the answers of COMMIT arrive, reads do not lie and a writer that   *)
(* reports an error has stored nothing, every wallet holds exactly what its *)
(* owner put in less the price of each confirmed booking: none is charged   *)
(* twice, refunded twice or left charged after it failed.                   *)
THEOREM MoneyIsConserved ==
  ASSUME NoPhantoms
  PROVE  Spec => []MoneyConserved
<1> DEFINE Even == \A w \in Wallets : Surplus(w) = 0
<1>1. Init => ConfirmedSeatIsHeld /\ MoneyInv /\ Even
  BY NoMoneyAtFirst DEF Init, StoreInit, ConfirmedSeatIsHeld, Confirmed, MoneyInv
<1>2. CoreInv /\ StrictInv /\ ConfirmedSeatIsHeld /\ MoneyInv /\ Even /\ [Next]_vars => Even'
  BY MoneyMoves DEF MoneyInv, MoneyStep
<1>3. CoreInv /\ MoneyInv /\ Even => MoneyConserved
  BY SurplusIsInt DEF MoneyInv, MoneyConserved, Surplus
<1> HIDE DEF Even
<1> QED
  BY <1>1, <1>2, <1>3, NoPhantoms, CoreInit, CoreStep, StrictInit, StrictStep, SeatStep,
     MoneyInvStep, PTL DEF Spec
=============================================================================
