----------------------------- MODULE ClaimGate -----------------------------
(***************************************************************************)
(* The Redis gate: one key ticket:claim:{id} per ticket id.  The value of  *)
(* the key (the caller's id) is written and never read, so a key is absent *)
(* ("free"), present with the 30s TTL ("ttl"), or present for ever         *)
(* ("kept", after PERSIST).  Redis outlives the application process.       *)
(***************************************************************************)
EXTENDS BookingData

VARIABLE claim

ClaimStates == {"free", "ttl", "kept"}

GateTypeOK == claim \in [TicketIds -> ClaimStates]

GateInit == claim = [t \in TicketIds |-> "free"]

\* Faulty variant: SET without NX.
SetAlways(t) == claim' = [claim EXCEPT ![t] = "ttl"]

SetNX(t) ==
  /\ claim[t] = "free"
  /\ claim' = [claim EXCEPT ![t] = "ttl"]

\* PERSIST on an absent key does nothing.
Persist(t) == claim' = [claim EXCEPT ![t] = IF @ = "free" THEN @ ELSE "kept"]

Del(t) == claim' = [claim EXCEPT ![t] = "free"]

Expire(t) ==
  /\ claim[t] = "ttl"
  /\ claim' = [claim EXCEPT ![t] = "free"]
=============================================================================
