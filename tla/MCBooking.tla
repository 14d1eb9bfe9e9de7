----------------------------- MODULE MCBooking -----------------------------
EXTENDS BookingProperties, TLC

CONSTANTS alice, bob,     \* users
          t1, t2,         \* tickets
          wa, wb,         \* wallets
          SeatPrice

MCOwner == wa :> alice @@ wb :> bob
MCPrice == [t \in Tickets |-> SeatPrice]

\* alice and bob race for one seat; alice also wants a second seat with the
\* same wallet.
A1 == [id |-> 1, user |-> alice, ticket |-> t1, wallet |-> wa]
B1 == [id |-> 2, user |-> bob, ticket |-> t1, wallet |-> wb]
A2 == [id |-> 3, user |-> alice, ticket |-> t2, wallet |-> wa]

RaceRequests == {A1, B1}
AllRequests == {A1, B1, A2}

\* A request for a seat that does not exist, and one on someone else's wallet.
B3 == [id |-> 4, user |-> bob, ticket |-> t2, wallet |-> wb]
B4 == [id |-> 5, user |-> bob, ticket |-> t1, wallet |-> wa]
BadRequests == {A1, B3, B4}

\* alice asks twice for one seat, and bob on her wallet.
A3 == [id |-> 6, user |-> alice, ticket |-> t1, wallet |-> wa]
ThreeForOne == {A1, A3, B4}
AliceOwns == wa :> alice

AliceCancels == {[id |-> 1, user |-> alice, booking |-> A1]}
TwoCancels == AliceCancels \cup {[id |-> 2, user |-> alice, booking |-> A1]}
BothCancel == AliceCancels \cup {[id |-> 2, user |-> bob, booking |-> A1]}

SafeFaults == {"expire", "crash", "rejoin", "writeError"}

OnePartition == [t \in TicketIds |-> 0]
=============================================================================
