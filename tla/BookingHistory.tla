--------------------------- MODULE BookingHistory --------------------------
(***************************************************************************)
(* The booking service with a memory of what has gone wrong with a request *)
(* or a claim.  The history is written down beside the steps of the        *)
(* service and restricts none of them; it lets a property name, request by *)
(* request, the one event that excuses what README.md rules out.           *)
(***************************************************************************)
EXTENDS BookingProperties

VARIABLES
  redelivered,  \* requests whose message the reader has gone back over
  disowned,     \* requests that took effect although their carrier was told
                \* of an error: a handler of a message stored or a booking
                \* committed after all, the consumer of the latter
  lapsed        \* tickets whose claim has run out

history == <<redelivered, disowned, lapsed>>

SteppedBack(p) == {log[p][i] : i \in (position'[p] + 1)..position[p]}

Disowns(r) ==
  \/ ~Sent(r) /\ Sent(r)' /\ pc'[r] # "accepted"
  \/ /\ ~Confirmed(r) /\ Confirmed(r)'
     /\ pc'[r] = "markFailed" \/ consumer'.step = "fail"

\* Nobody else removes a claim without a step of its own.
Lapses(t) ==
  /\ claim[t] # "free" /\ claim'[t] = "free"
  /\ UNCHANGED <<pc, cancel, consumer>>

Remember ==
  /\ redelivered' = redelivered \cup UNION {SteppedBack(p) : p \in Partitions}
  /\ disowned' = disowned \cup {r \in Requests : Disowns(r)}
  /\ lapsed' = lapsed \cup {t \in TicketIds : Lapses(t)}

HistoryInit == Init /\ redelivered = {} /\ disowned = {} /\ lapsed = {}

HistoryNext == Next /\ Remember

HistorySpec == HistoryInit /\ [][HistoryNext]_<<vars, history>>

-----------------------------------------------------------------------------
\* What the gate does not protect a ticket from: a claim that ran out under
\* its holder; a message handled again, or the message of a caller who was
\* told of an error, whose failure deletes the claim of somebody else.
Excused(t) ==
  \/ t \in lapsed
  \/ \E r \in redelivered \cup disowned : r.ticket = t

(* One request per ticket passes the Redis gate into the database part of   *)
(* Queue at a time, with the consumer, cancellations, crashes and failing   *)
(* calls around it, unless the ticket's claim has run out, a message for it *)
(* was redelivered, or a request for it went on after an error.             *)
GateExclusive ==
  \A r, q \in Requests :
    r.ticket = q.ticket /\ InFlow(r) /\ InFlow(q) /\ ~Excused(r.ticket) => r = q

(* A refunded booking is charged again by nobody but the consumer, and only *)
(* while it works on a message that has been handed out before.             *)
RechargedOnlyByRedelivery ==
  [][\A r \in Requests : booking[r] = "cancelled" /\ Confirmed(r)' =>
       consumer.step = "tx" /\ Message = r /\ r \in redelivered]_<<vars, history>>

(* A confirmed booking is overwritten with "failed", which takes its money  *)
(* away for good, only by somebody who did not know of it: the consumer of  *)
(* a redelivered message, or whoever was told that it had not been booked.  *)
OverwrittenOnlyBlindly ==
  [][\A r \in Requests : Confirmed(r) /\ booking'[r] = "failed" =>
       r \in redelivered \cup disowned]_<<vars, history>>
=============================================================================
