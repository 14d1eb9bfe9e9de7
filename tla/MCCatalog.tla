----------------------------- MODULE MCCatalog -----------------------------
EXTENDS CatalogProperties

CONSTANTS alice, bob, e1, first, second

MCTexts == {first, second}

Call(id, op, user, text, capacity, n, valid) ==
  [id |-> id, op |-> op, event |-> e1, user |-> user, text |-> text,
   capacity |-> capacity, seats |-> n, valid |-> valid]

Create == Call(1, "create", alice, first, 2, 0, TRUE)
Rewrite == Call(2, "update", alice, second, 0, 0, TRUE)
Shrink == Call(3, "update", alice, NoText, 1, 0, TRUE)
Remove == Call(4, "delete", alice, NoText, 0, 0, TRUE)
OneSeat == Call(5, "batch", alice, NoText, 0, 1, TRUE)
TwoSeats == Call(6, "batch", alice, NoText, 0, 2, TRUE)
Intruder == Call(7, "update", bob, second, 0, 0, TRUE)

MCCalls == {Create, Rewrite, Shrink, Remove, OneSeat, TwoSeats, Intruder}
=============================================================================
