---------------------------- MODULE EventCatalog ---------------------------
(***************************************************************************)
(* The event service and the creation of tickets: organizers create,       *)
(* update and delete events (a row in MySQL, then a document in            *)
(* Elasticsearch) and put tickets on sale up to an event's capacity.  No   *)
(* call uses a transaction or a lock across its steps, and one step is one *)
(* call to MySQL or Elasticsearch.                                         *)
(***************************************************************************)
EXTENDS Integers, FiniteSets

CONSTANTS
  EventIds,   \* auto-increment ids
  Users,
  Texts,      \* the fields that are searched: name, description, start
  Calls,      \* the calls of the run
  NoEvent,    \* "there is no row"
  NoText,     \* "there is no document"; in an update, "leave as it is"
  EsEnabled,  \* FALSE: the service was built with a nil Elasticsearch client
  Faults,     \* the environment events this run admits
  MaxFaults   \* bound on how many of them happen

Ops == {"create", "update", "delete", "batch"}
Rows == [organizer : Users, text : Texts, capacity : Nat \ {0}]

CatalogFaultKinds ==
  { "crash",     \* the process stops; its calls are cut short
    "readError", \* a SELECT fails: FindByID reports "does not exist", a count 0
    "dbError",   \* an INSERT, UPDATE or DELETE fails and is rolled back
    "esError" }  \* Elasticsearch reports an error, having stored it or not

\* In an update, capacity 0 leaves the capacity as it is.  valid is FALSE
\* when the lengths, prices or numbers given do not pass the validation.
CallRecords ==
  [id : Nat, op : Ops, event : EventIds, user : Users, text : Texts \cup {NoText},
   capacity : Nat, seats : Nat, valid : BOOLEAN]

\* An auto-increment id is given to one row.
ASSUME CatalogAssumption ==
  /\ NoEvent \notin Rows
  /\ NoText \notin Texts
  /\ Calls \subseteq CallRecords
  /\ \A c \in Calls : c.op = "create" /\ c.valid => c.text \in Texts /\ c.capacity > 0
  /\ \A c, d \in Calls :
       c.op = "create" /\ d.op = "create" /\ c.event = d.event => c = d
  /\ EsEnabled \in BOOLEAN
  /\ Faults \subseteq CatalogFaultKinds
  /\ MaxFaults \in Nat

VARIABLES
  events,     \* table events
  index,      \* the Elasticsearch index
  seats,      \* event id -> its rows in table tickets
  call,       \* call -> where it is, the event and the count it has read
  published,  \* ghost: texts an event has had in the table
  highest,    \* ghost: the largest capacity an event has had
  shared,     \* ghost: <<event, kind>> of calls that overlapped
  blind,      \* ghost: events for which a count was lost
  faults      \* ghost: environment events so far

vars == <<events, index, seats, call, published, highest, shared, blind, faults>>

Answers == {"done", "refused", "failed", "dead"}
InFlightSteps == {"save", "index", "count"}
Locals(step) == [step |-> step, row |-> NoEvent, count |-> 0]

TypeOK ==
  /\ events \in [EventIds -> Rows \cup {NoEvent}]
  /\ index \in [EventIds -> Texts \cup {NoText}]
  /\ seats \in [EventIds -> Nat]
  /\ call \in [Calls -> [step : {"idle"} \cup InFlightSteps \cup Answers,
                         row : Rows \cup {NoEvent}, count : Nat]]
  /\ published \in [EventIds -> SUBSET Texts]
  /\ highest \in [EventIds -> Nat]
  /\ shared \subseteq EventIds \X {"write", "batch"}
  /\ blind \subseteq EventIds
  /\ faults \in Nat

Init ==
  /\ events = [e \in EventIds |-> NoEvent]
  /\ index = [e \in EventIds |-> NoText]
  /\ seats = [e \in EventIds |-> 0]
  /\ call = [c \in Calls |-> Locals("idle")]
  /\ published = [e \in EventIds |-> {}]
  /\ highest = [e \in EventIds |-> 0]
  /\ shared = {}
  /\ blind = {}
  /\ faults = 0

Fault(kind) ==
  /\ kind \in Faults
  /\ faults < MaxFaults
  /\ faults' = faults + 1

NoFault == UNCHANGED faults

InFlight(c) == call[c].step \in InFlightSteps

Kind(c) == IF c.op = "batch" THEN "batch" ELSE "write"

\* c begins; it is noted whether it meets another call of its kind.
Enter(c) ==
  shared' =
    IF \E d \in Calls \ {c} : InFlight(d) /\ d.event = c.event /\ Kind(d) = Kind(c)
      THEN shared \cup {<<c.event, Kind(c)>>}
      ELSE shared

Answer(c, answer) == call' = [call EXCEPT ![c] = Locals(answer)]

Reading(c, step, row) ==
  call' = [call EXCEPT ![c] = [step |-> step, row |-> row, count |-> 0]]

\* What follows the write to MySQL.
Reindex(c, row) == IF EsEnabled THEN Reading(c, "index", row) ELSE Answer(c, "done")

-----------------------------------------------------------------------------
(* table events *)

\* Save of a row with a primary key is an UPDATE and, when that changes no
\* row, an INSERT ... ON DUPLICATE KEY UPDATE: afterwards the row is there.
Put(e, row) ==
  /\ events' = [events EXCEPT ![e] = row]
  /\ published' = [published EXCEPT ![e] = @ \cup {row.text}]
  /\ highest' = [highest EXCEPT ![e] = IF @ < row.capacity THEN row.capacity ELSE @]

FindByID(c) == events[c.event] # NoEvent

\* FindByID and the comparison of the organizer with the caller.
MayChange(c) == FindByID(c) /\ events[c.event].organizer = c.user

rowVars == <<events, published, highest>>

-----------------------------------------------------------------------------
(* Create: POST /api/events *)

NewRow(c) == [organizer |-> c.user, text |-> c.text, capacity |-> c.capacity]

CreateSave(c) ==
  /\ c.op = "create" /\ call[c].step = "idle"
  /\ \/ c.valid /\ Put(c.event, NewRow(c)) /\ Reindex(c, NewRow(c)) /\ Enter(c) /\ NoFault
     \/ ~c.valid /\ Answer(c, "refused") /\ NoFault /\ UNCHANGED <<rowVars, shared>>
     \/ c.valid /\ Fault("dbError") /\ Answer(c, "failed") /\ UNCHANGED <<rowVars, shared>>
  /\ UNCHANGED <<index, seats, blind>>

-----------------------------------------------------------------------------
(* Update: PATCH /api/events/{eventId} *)

\* Faulty variant: an omitted capacity is written as 0.
EditedWhole(c, row) ==
  [organizer |-> row.organizer,
   text |-> IF c.text = NoText THEN row.text ELSE c.text,
   capacity |-> c.capacity]

Edited(c, row) ==
  [organizer |-> row.organizer,
   text |-> IF c.text = NoText THEN row.text ELSE c.text,
   capacity |-> IF c.capacity = 0 THEN row.capacity ELSE c.capacity]

\* Faulty variant: the event is taken from the index.
UpdateReadFound(c) ==
  /\ c.op = "update" /\ call[c].step = "idle" /\ c.valid /\ index[c.event] # NoText
  /\ Reading(c, "save",
             Edited(c, [organizer |-> c.user, text |-> index[c.event], capacity |-> 1]))
  /\ Enter(c) /\ NoFault
  /\ UNCHANGED <<rowVars, index, seats, blind>>

UpdateRead(c) ==
  /\ c.op = "update" /\ call[c].step = "idle"
  /\ \/ /\ MayChange(c) /\ c.valid
        /\ Reading(c, "save", Edited(c, events[c.event]))
        /\ Enter(c) /\ NoFault
     \/ ~(MayChange(c) /\ c.valid) /\ Answer(c, "refused") /\ NoFault /\ UNCHANGED shared
     \/ Fault("readError") /\ Answer(c, "refused") /\ UNCHANGED shared
  /\ UNCHANGED <<rowVars, index, seats, blind>>

\* Faulty variant: the document is indexed although the row was not saved.
UpdateSaveUnchecked(c) ==
  /\ c.op = "update" /\ call[c].step = "save"
  /\ Reindex(c, call[c].row)
  /\ \/ Put(c.event, call[c].row) /\ NoFault
     \/ Fault("dbError") /\ UNCHANGED rowVars
  /\ UNCHANGED <<index, seats, shared, blind>>

UpdateSave(c) ==
  /\ c.op = "update" /\ call[c].step = "save"
  /\ \/ Put(c.event, call[c].row) /\ Reindex(c, call[c].row) /\ NoFault
     \/ Fault("dbError") /\ Answer(c, "failed") /\ UNCHANGED rowVars
  /\ UNCHANGED <<index, seats, shared, blind>>

\* An error of Elasticsearch is logged; the call succeeds all the same.
IndexDoc(c) ==
  /\ c.op \in {"create", "update"} /\ call[c].step = "index"
  /\ Answer(c, "done")
  /\ \/ index' = [index EXCEPT ![c.event] = call[c].row.text] /\ NoFault
     \/ /\ Fault("esError")
        /\ index' = [index EXCEPT ![c.event] = call[c].row.text] \/ UNCHANGED index
  /\ UNCHANGED <<rowVars, seats, shared, blind>>

-----------------------------------------------------------------------------
(* Delete: DELETE /api/events/{eventId} *)

DeleteRead(c) ==
  /\ c.op = "delete" /\ call[c].step = "idle"
  /\ \/ MayChange(c) /\ Reading(c, "save", events[c.event]) /\ Enter(c) /\ NoFault
     \/ ~MayChange(c) /\ Answer(c, "refused") /\ NoFault /\ UNCHANGED shared
     \/ Fault("readError") /\ Answer(c, "refused") /\ UNCHANGED shared
  /\ UNCHANGED <<rowVars, index, seats, blind>>

\* Faulty variant: the document is left in the index.
DeleteRowOnly(c) ==
  /\ c.op = "delete" /\ call[c].step = "save"
  /\ Answer(c, "done")
  /\ events' = [events EXCEPT ![c.event] = NoEvent]
  /\ UNCHANGED <<published, highest, index, seats, shared, blind, faults>>

\* The tickets of the event stay, and an error of the DELETE goes unnoticed.
DeleteRow(c) ==
  /\ c.op = "delete" /\ call[c].step = "save"
  /\ Reindex(c, call[c].row)
  /\ \/ events' = [events EXCEPT ![c.event] = NoEvent] /\ NoFault
     \/ Fault("dbError") /\ UNCHANGED events
  /\ UNCHANGED <<published, highest, index, seats, shared, blind>>

RemoveDoc(c) ==
  /\ c.op = "delete" /\ call[c].step = "index"
  /\ Answer(c, "done")
  /\ \/ index' = [index EXCEPT ![c.event] = NoText] /\ NoFault
     \/ /\ Fault("esError")
        /\ index' = [index EXCEPT ![c.event] = NoText] \/ UNCHANGED index
  /\ UNCHANGED <<rowVars, seats, shared, blind>>

-----------------------------------------------------------------------------
(* BatchCreate: POST /api/events/{eventId}/tickets *)

BatchRead(c) ==
  /\ c.op = "batch" /\ call[c].step = "idle"
  /\ \/ MayChange(c) /\ Reading(c, "count", events[c.event]) /\ Enter(c) /\ NoFault
     \/ ~MayChange(c) /\ Answer(c, "refused") /\ NoFault /\ UNCHANGED shared
     \/ Fault("readError") /\ Answer(c, "refused") /\ UNCHANGED shared
  /\ UNCHANGED <<rowVars, index, seats, blind>>

\* Faulty variant: only full events are refused.
FitsBefore(c, count) == count < call[c].row.capacity

Fits(c, count) == count + c.seats <= call[c].row.capacity

Counted(c, count) ==
  IF c.valid /\ Fits(c, count)
    THEN call' = [call EXCEPT ![c].step = "save", ![c].count = count]
    ELSE Answer(c, "refused")

\* A count that fails reads as 0.
BatchCount(c) ==
  /\ c.op = "batch" /\ call[c].step = "count"
  /\ \/ Counted(c, seats[c.event]) /\ NoFault /\ UNCHANGED blind
     \/ Fault("readError") /\ Counted(c, 0) /\ blind' = blind \cup {c.event}
  /\ UNCHANGED <<rowVars, index, seats, shared>>

BatchSave(c) ==
  /\ c.op = "batch" /\ call[c].step = "save"
  /\ \/ seats' = [seats EXCEPT ![c.event] = @ + c.seats] /\ Answer(c, "done") /\ NoFault
     \/ Fault("dbError") /\ Answer(c, "failed") /\ UNCHANGED seats
  /\ UNCHANGED <<rowVars, index, shared, blind>>

-----------------------------------------------------------------------------

Crash ==
  /\ Fault("crash")
  /\ call' = [c \in Calls |-> IF InFlight(c) THEN Locals("dead") ELSE call[c]]
  /\ UNCHANGED <<rowVars, index, seats, shared, blind>>

\* The handlers of the event routes and the one of the ticket routes.
EventStep(c) ==
  \/ CreateSave(c)
  \/ UpdateRead(c) \/ UpdateSave(c) \/ IndexDoc(c)
  \/ DeleteRead(c) \/ DeleteRow(c) \/ RemoveDoc(c)

BatchStep(c) == BatchRead(c) \/ BatchCount(c) \/ BatchSave(c)

Next == Crash \/ \E c \in Calls : EventStep(c) \/ BatchStep(c)

Spec == Init /\ [][Next]_vars

-----------------------------------------------------------------------------
(* What GET /api/events may show of an event: the document or, when there  *)
(* is no Elasticsearch or its search fails, the row.                       *)

RowText(e) == IF events[e] = NoEvent THEN NoText ELSE events[e].text

Search(e) == {RowText(e)} \cup (IF EsEnabled THEN {index[e]} ELSE {})
=============================================================================
