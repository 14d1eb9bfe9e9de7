---------------------------- MODULE BookingTopic ---------------------------
(***************************************************************************)
(* The Kafka topic of booking requests as its writer and its consumer      *)
(* group see it: an append-only log per partition, the offset the group    *)
(* has committed (kept by the broker) and the position of the reader (kept *)
(* in the process).  An offset is the number of messages before it.        *)
(***************************************************************************)
EXTENDS BookingData

VARIABLES
  log,        \* partition -> messages, in order
  committed,  \* partition -> messages the group has acknowledged
  position    \* partition -> messages the reader has handed out

topicVars == <<log, committed, position>>

TopicTypeOK ==
  /\ log \in [Partitions -> Seq(Requests)]
  /\ committed \in [Partitions -> Nat]
  /\ position \in [Partitions -> Nat]

TopicInit ==
  /\ log = [p \in Partitions |-> <<>>]
  /\ committed = [p \in Partitions |-> 0]
  /\ position = [p \in Partitions |-> 0]

\* The message key is the ticket id, so one ticket's requests share a partition.
AppendMessage(r) ==
  log' = [log EXCEPT ![PartitionOf[r.ticket]] = Append(@, r)]

\* Faulty variant: the reader does not move on.
FetchMessageStays(p) ==
  /\ position[p] < Len(log[p])
  /\ UNCHANGED position

FetchMessage(p) ==
  /\ position[p] < Len(log[p])
  /\ position' = [position EXCEPT ![p] = @ + 1]

CommitMessages(p, offset) == committed' = [committed EXCEPT ![p] = offset]

\* A reader that (re)joins the group starts at the committed offsets.
ResumeFromCommitted == position' = committed
=============================================================================
