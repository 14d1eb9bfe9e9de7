--------------------------- MODULE CatalogProofs ---------------------------
(***************************************************************************)
(* Theorems about the event catalogue, for every set of events, users,     *)
(* texts and calls and under every admitted fault.                         *)
(***************************************************************************)
EXTENDS CatalogProperties, TLAPS

(* The inductive invariant behind CapacityKept and SearchShowsPublished.    *)

\* Whoever is under way has read, or written, an event.
InFlightHasRow == \A c \in Calls : InFlight(c) => call[c].row \in Rows

RowsPublished ==
  \A e \in EventIds : events[e] # NoEvent =>
    events[e].text \in published[e] /\ events[e].capacity <= highest[e]

DocsPublished ==
  \A e \in EventIds : index[e] # NoText => index[e] \in published[e]

\* Only a text that has been saved is on its way to the index.
SentPublished ==
  \A c \in Calls :
    c.op \in {"create", "update"} /\ call[c].step = "index" =>
      call[c].row.text \in published[c.event]

InBatch(c) == c.op = "batch" /\ InFlight(c)

BatchReadsCapacity ==
  \A c \in Calls : InBatch(c) => call[c].row.capacity <= highest[c.event]

BatchesShare ==
  \A c, d \in Calls :
    InBatch(c) /\ InBatch(d) /\ c.event = d.event /\ c # d =>
      <<c.event, "batch">> \in shared

\* The count of a BatchCreate that is alone is still right when it inserts.
CountHolds(c) ==
  call[c].count = seats[c.event] /\ Fits(c, call[c].count)

BatchCounted ==
  \A c \in Calls :
    c.op = "batch" /\ call[c].step = "save" =>
      CountHolds(c) \/ <<c.event, "batch">> \in shared \/ c.event \in blind

CatalogInv ==
  /\ TypeOK /\ InFlightHasRow
  /\ RowsPublished /\ DocsPublished /\ SentPublished
  /\ BatchReadsCapacity /\ BatchesShare /\ BatchCounted /\ CapacityKept

-----------------------------------------------------------------------------
(* The inductive invariant behind SearchAgrees and DeletedStaysDeleted.     *)

Writing(c) == Kind(c) = "write" /\ InFlight(c)
Overlapped(e) == <<e, "write">> \in shared

WritersShare ==
  \A c, d \in Calls :
    Writing(c) /\ Writing(d) /\ c.event = d.event /\ c # d => Overlapped(c.event)

\* Before its Create an event has no row, no document and no call under way.
UncreatedIsEmpty ==
  \A c \in Calls :
    c.op = "create" /\ c.valid /\ call[c].step = "idle" =>
      /\ events[c.event] = NoEvent /\ published[c.event] = {}
      /\ index[c.event] = NoText
      /\ \A d \in Calls : d.event = c.event => ~InFlight(d)

\* An update that is alone saves over a row that is there.
UpdateHasRow ==
  \A c \in Calls :
    c.op = "update" /\ call[c].step = "save" /\ ~Overlapped(c.event) =>
      events[c.event] # NoEvent

\* What c is about to make of the document of its event.
Document(c) == IF c.op = "delete" THEN NoText ELSE call[c].row.text
AtIndex(c) == Kind(c) = "write" /\ call[c].step = "index"

\* The document equals the row, or the only writer is about to make it so.
IndexFollows ==
  EsEnabled /\ faults = 0 =>
    \A e \in EventIds : ~Overlapped(e) =>
      /\ \A c \in Calls : c.event = e /\ AtIndex(c) => Document(c) = RowText(e)
      /\ (\A c \in Calls : c.event = e => ~AtIndex(c)) => index[e] = RowText(e)

WriterInv == WritersShare /\ UncreatedIsEmpty /\ UpdateHasRow /\ IndexFollows

-----------------------------------------------------------------------------
LEMMA RowFacts ==
  ASSUME NEW c \in Calls
  PROVE  /\ c.event \in EventIds /\ c.user \in Users /\ c.op \in Ops
         /\ c.text \in Texts \cup {NoText} /\ c.capacity \in Nat /\ c.seats \in Nat
         /\ c.valid \in BOOLEAN
         /\ c.op = "create" /\ c.valid => NewRow(c) \in Rows
         /\ \A row \in Rows : Edited(c, row) \in Rows
  <1>1. c \in CallRecords
    BY CatalogAssumption
  <1>2. /\ c.event \in EventIds /\ c.user \in Users /\ c.op \in Ops
        /\ c.text \in Texts \cup {NoText} /\ c.capacity \in Nat /\ c.seats \in Nat
        /\ c.valid \in BOOLEAN
    BY <1>1 DEF CallRecords
  <1>3. c.op = "create" /\ c.valid => NewRow(c) \in Rows
    BY <1>2, CatalogAssumption DEF NewRow, Rows
  <1>4. ASSUME NEW row \in Rows PROVE Edited(c, row) \in Rows
    <2>1. row.organizer \in Users /\ row.text \in Texts /\ row.capacity \in Nat \ {0}
      BY DEF Rows
    <2>2. (IF c.text = NoText THEN row.text ELSE c.text) \in Texts
      BY <1>2, <2>1
    <2>3. (IF c.capacity = 0 THEN row.capacity ELSE c.capacity) \in Nat \ {0}
      BY <1>2, <2>1
    <2> QED BY <2>1, <2>2, <2>3 DEF Edited, Rows
  <1> QED BY <1>2, <1>3, <1>4

LEMMA InitInv == Init => CatalogInv
  BY CatalogAssumption
  DEF Init, CatalogInv, TypeOK, Locals, InFlightHasRow, InFlight, InFlightSteps,
      RowsPublished, DocsPublished, SentPublished, InBatch, BatchReadsCapacity,
      BatchesShare, BatchCounted, CapacityKept, CallRecords, Answers

\* What a write to table events does to the histories.
LEMMA PutFacts ==
  ASSUME TypeOK, RowsPublished, NEW e \in EventIds,
         (\E row \in Rows : Put(e, row)) \/ UNCHANGED rowVars
  PROVE  /\ events' \in [EventIds -> Rows \cup {NoEvent}]
         /\ published' \in [EventIds -> SUBSET Texts]
         /\ highest' \in [EventIds -> Nat]
         /\ \A x \in EventIds : published[x] \subseteq published'[x]
         /\ \A x \in EventIds : highest[x] <= highest'[x]
         /\ RowsPublished'
  <1>1. CASE UNCHANGED rowVars
    BY <1>1 DEF TypeOK, rowVars, RowsPublished
  <1>2. CASE \E row \in Rows : Put(e, row)
    <2>1. PICK row \in Rows : Put(e, row)
      BY <1>2
    <2>2. row.text \in Texts /\ row.capacity \in Nat
      BY DEF Rows
    <2> QED BY <2>1, <2>2 DEF TypeOK, Put, RowsPublished
  <1> QED BY <1>1, <1>2

\* What follows for the parts of the invariant about stores and batches from
\* a step of a call that is not a BatchCreate.
LEMMA WriterFrame ==
  ASSUME CatalogInv, TypeOK', NEW c \in Calls, c.op # "batch",
         \A d \in Calls \ {c} : call'[d] = call[d],
         \A x \in EventIds : published[x] \subseteq published'[x],
         \A x \in EventIds : highest[x] <= highest'[x],
         shared \subseteq shared', seats' = seats, blind' = blind
  PROVE  /\ BatchReadsCapacity' /\ BatchesShare' /\ BatchCounted' /\ CapacityKept'
         /\ index' = index => DocsPublished'
  <1> USE RowFacts DEF CatalogInv
  <1>1. \A d \in Calls : d.op = "batch" => d # c /\ call'[d] = call[d]
    OBVIOUS
  <1>2. BatchReadsCapacity'
    BY <1>1 DEF TypeOK, BatchReadsCapacity, InBatch, InFlight, InFlightHasRow, Rows
  <1>3. BatchesShare'
    BY <1>1 DEF TypeOK, BatchesShare, InBatch, InFlight
  <1>4. BatchCounted'
    BY <1>1 DEF TypeOK, BatchCounted, CountHolds, Fits
  <1>5. CapacityKept'
    BY DEF TypeOK, CapacityKept
  <1>6. index' = index => DocsPublished'
    BY DEF TypeOK, DocsPublished
  <1> QED BY <1>2, <1>3, <1>4, <1>5, <1>6

\* After the write to MySQL a call goes on to the index or is answered.
LEMMA MoveTyped ==
  ASSUME TypeOK, NEW c \in Calls, NEW row \in Rows, NEW a \in Answers,
         Reindex(c, row) \/ Answer(c, a)
  PROVE  call' \in [Calls -> [step : {"idle"} \cup InFlightSteps \cup Answers,
                             row : Rows \cup {NoEvent}, count : Nat]]
  <1>1. CASE Answer(c, a)
    BY <1>1 DEF TypeOK, Answer, Locals
  <1>2. CASE Reading(c, "index", row)
    BY <1>2 DEF TypeOK, Reading, InFlightSteps
  <1>3. CASE Answer(c, "done")
    BY <1>3 DEF TypeOK, Answer, Locals, Answers
  <1> QED BY <1>1, <1>2, <1>3 DEF Reindex

LEMMA CreateSaveInv ==
  ASSUME CatalogInv, NEW c \in Calls, CreateSave(c) PROVE CatalogInv'
  <1> USE CatalogAssumption, RowFacts DEF CatalogInv
  <1>1. (\E row \in Rows : Put(c.event, row)) \/ UNCHANGED rowVars
    BY DEF CreateSave
  <1>2. TypeOK'
    <2>1. call' \in [Calls -> [step : {"idle"} \cup InFlightSteps \cup Answers,
                              row : Rows \cup {NoEvent}, count : Nat]]
      <3>1. CASE c.valid /\ Reindex(c, NewRow(c))
        BY <3>1, MoveTyped DEF CreateSave, Answers
      <3>2. CASE Answer(c, "refused")
        BY <3>2 DEF TypeOK, Answer, Locals, Answers
      <3>3. CASE Answer(c, "failed")
        BY <3>3 DEF TypeOK, Answer, Locals, Answers
      <3> QED BY <3>1, <3>2, <3>3 DEF CreateSave
    <2>2. shared' \subseteq EventIds \X {"write", "batch"} /\ faults' \in Nat
      BY DEF TypeOK, CreateSave, Enter, Kind, NoFault, Fault
    <2>3. UNCHANGED <<index, seats, blind>>
      BY DEF CreateSave
    <2> QED BY <1>1, <2>1, <2>2, <2>3, PutFacts DEF TypeOK
  <1>3. /\ \A x \in EventIds : published[x] \subseteq published'[x]
        /\ \A x \in EventIds : highest[x] <= highest'[x]
        /\ RowsPublished'
    BY <1>1, PutFacts
  <1>4. /\ \A d \in Calls \ {c} : call'[d] = call[d]
        /\ shared \subseteq shared' /\ c.op # "batch"
        /\ seats' = seats /\ blind' = blind /\ index' = index
    BY DEF TypeOK, CreateSave, Reindex, Reading, Answer, Enter
  <1>5. InFlightHasRow'
    BY DEF TypeOK, CreateSave, Reindex, Reading, Answer, Locals, InFlightHasRow, InFlight, InFlightSteps
  <1>6. SentPublished'
    BY <1>3 DEF TypeOK, CreateSave, Put, SentPublished, rowVars, Reindex, Reading, Answer, Locals
  <1>7. /\ BatchReadsCapacity' /\ BatchesShare' /\ BatchCounted' /\ CapacityKept'
        /\ DocsPublished'
    BY <1>2, <1>3, <1>4, WriterFrame
  <1> QED BY <1>2, <1>3, <1>5, <1>6, <1>7

LEMMA UpdateReadInv ==
  ASSUME CatalogInv, NEW c \in Calls, UpdateRead(c) PROVE CatalogInv'
  <1> USE CatalogAssumption, RowFacts DEF CatalogInv
  <1>1. MayChange(c) => Edited(c, events[c.event]) \in Rows
    BY DEF TypeOK, MayChange, FindByID
  <1>2. TypeOK'
    BY <1>1 DEF TypeOK, UpdateRead, Reading, Answer, Locals, Enter, Kind, NoFault, Fault, rowVars, Answers,
       InFlightSteps
  <1>3. /\ \A d \in Calls \ {c} : call'[d] = call[d]
        /\ shared \subseteq shared' /\ c.op # "batch" /\ UNCHANGED rowVars
        /\ seats' = seats /\ blind' = blind /\ index' = index
    BY DEF TypeOK, UpdateRead, Reading, Answer, Enter
  <1>4. /\ \A x \in EventIds : published[x] \subseteq published'[x]
        /\ \A x \in EventIds : highest[x] <= highest'[x]
        /\ RowsPublished'
    BY <1>3, PutFacts
  <1>5. InFlightHasRow'
    BY <1>1 DEF TypeOK, UpdateRead, Reading, Answer, Locals, InFlightHasRow, InFlight, InFlightSteps
  <1>6. SentPublished'
    BY <1>3, <1>4 DEF TypeOK, UpdateRead, SentPublished, Reading, Answer, Locals
  <1>7. /\ BatchReadsCapacity' /\ BatchesShare' /\ BatchCounted' /\ CapacityKept'
        /\ DocsPublished'
    BY <1>2, <1>3, <1>4, WriterFrame
  <1> QED BY <1>2, <1>4, <1>5, <1>6, <1>7

LEMMA UpdateSaveInv ==
  ASSUME CatalogInv, NEW c \in Calls, UpdateSave(c) PROVE CatalogInv'
  <1> USE CatalogAssumption, RowFacts DEF CatalogInv
  <1>1. call[c].row \in Rows
    BY DEF UpdateSave, InFlightHasRow, InFlight, InFlightSteps
  <1>2. (\E row \in Rows : Put(c.event, row)) \/ UNCHANGED rowVars
    BY <1>1 DEF UpdateSave
  <1>3. TypeOK'
    <2>1. call' \in [Calls -> [step : {"idle"} \cup InFlightSteps \cup Answers,
                              row : Rows \cup {NoEvent}, count : Nat]]
      BY <1>1, MoveTyped DEF UpdateSave, Answers
    <2>2. faults' \in Nat /\ UNCHANGED <<index, seats, shared, blind>>
      BY DEF TypeOK, UpdateSave, NoFault, Fault
    <2> QED BY <1>1, <1>2, <2>1, <2>2, PutFacts DEF TypeOK
  <1>4. /\ \A x \in EventIds : published[x] \subseteq published'[x]
        /\ \A x \in EventIds : highest[x] <= highest'[x]
        /\ RowsPublished'
    BY <1>2, PutFacts
  <1>5. /\ \A d \in Calls \ {c} : call'[d] = call[d]
        /\ shared \subseteq shared' /\ c.op # "batch"
        /\ seats' = seats /\ blind' = blind /\ index' = index
    BY DEF TypeOK, UpdateSave, Reindex, Reading, Answer
  <1>6. InFlightHasRow'
    BY <1>1 DEF TypeOK, UpdateSave, Reindex, Reading, Answer, Locals, InFlightHasRow, InFlight, InFlightSteps
  <1>7. SentPublished'
    BY <1>1, <1>4 DEF TypeOK, UpdateSave, Put, SentPublished, rowVars, Reindex, Reading, Answer, Locals
  <1>8. /\ BatchReadsCapacity' /\ BatchesShare' /\ BatchCounted' /\ CapacityKept'
        /\ DocsPublished'
    BY <1>3, <1>4, <1>5, WriterFrame
  <1> QED BY <1>3, <1>4, <1>6, <1>7, <1>8

LEMMA IndexDocInv ==
  ASSUME CatalogInv, NEW c \in Calls, IndexDoc(c) PROVE CatalogInv'
  <1> USE CatalogAssumption, RowFacts DEF CatalogInv
  <1>1. call[c].row \in Rows
    BY DEF IndexDoc, InFlightHasRow, InFlight, InFlightSteps
  <1>2. TypeOK'
    BY <1>1 DEF TypeOK, IndexDoc, Answer, Locals, NoFault, Fault, rowVars, Rows, Answers
  <1>3. /\ \A d \in Calls \ {c} : call'[d] = call[d]
        /\ shared \subseteq shared' /\ c.op # "batch" /\ UNCHANGED rowVars
        /\ seats' = seats /\ blind' = blind
    BY DEF TypeOK, IndexDoc, Answer
  <1>4. /\ \A x \in EventIds : published[x] \subseteq published'[x]
        /\ \A x \in EventIds : highest[x] <= highest'[x]
        /\ RowsPublished'
    BY <1>3, PutFacts
  <1>5. InFlightHasRow' /\ SentPublished'
    BY <1>3 DEF TypeOK, IndexDoc, Answer, Locals, InFlightHasRow, InFlight, InFlightSteps,
       SentPublished, rowVars
  <1>6. DocsPublished'
    BY <1>1, <1>3 DEF TypeOK, IndexDoc, DocsPublished, SentPublished, rowVars
  <1>7. BatchReadsCapacity' /\ BatchesShare' /\ BatchCounted' /\ CapacityKept'
    BY <1>2, <1>3, <1>4, WriterFrame
  <1> QED BY <1>2, <1>4, <1>5, <1>6, <1>7

LEMMA DeleteReadInv ==
  ASSUME CatalogInv, NEW c \in Calls, DeleteRead(c) PROVE CatalogInv'
  <1> USE CatalogAssumption, RowFacts DEF CatalogInv
  <1>1. MayChange(c) => events[c.event] \in Rows
    BY DEF TypeOK, MayChange, FindByID
  <1>2. TypeOK'
    BY <1>1 DEF TypeOK, DeleteRead, Reading, Answer, Locals, Enter, Kind, NoFault, Fault, rowVars, Answers,
       InFlightSteps
  <1>3. /\ \A d \in Calls \ {c} : call'[d] = call[d]
        /\ shared \subseteq shared' /\ c.op # "batch" /\ UNCHANGED rowVars
        /\ seats' = seats /\ blind' = blind /\ index' = index
    BY DEF TypeOK, DeleteRead, Reading, Answer, Enter
  <1>4. /\ \A x \in EventIds : published[x] \subseteq published'[x]
        /\ \A x \in EventIds : highest[x] <= highest'[x]
        /\ RowsPublished'
    BY <1>3, PutFacts
  <1>5. InFlightHasRow'
    BY <1>1 DEF TypeOK, DeleteRead, Reading, Answer, Locals, InFlightHasRow, InFlight, InFlightSteps
  <1>6. SentPublished'
    BY <1>3, <1>4 DEF TypeOK, DeleteRead, SentPublished, Reading, Answer, Locals
  <1>7. /\ BatchReadsCapacity' /\ BatchesShare' /\ BatchCounted' /\ CapacityKept'
        /\ DocsPublished'
    BY <1>2, <1>3, <1>4, WriterFrame
  <1> QED BY <1>2, <1>4, <1>5, <1>6, <1>7

LEMMA RemoveDocInv ==
  ASSUME CatalogInv, NEW c \in Calls, RemoveDoc(c) PROVE CatalogInv'
  <1> USE CatalogAssumption, RowFacts DEF CatalogInv
  <1>1. call[c].row \in Rows
    BY DEF RemoveDoc, InFlightHasRow, InFlight, InFlightSteps
  <1>2. TypeOK'
    BY <1>1 DEF TypeOK, RemoveDoc, Answer, Locals, NoFault, Fault, rowVars, Rows, Answers
  <1>3. /\ \A d \in Calls \ {c} : call'[d] = call[d]
        /\ shared \subseteq shared' /\ c.op # "batch" /\ UNCHANGED rowVars
        /\ seats' = seats /\ blind' = blind
    BY DEF TypeOK, RemoveDoc, Answer
  <1>4. /\ \A x \in EventIds : published[x] \subseteq published'[x]
        /\ \A x \in EventIds : highest[x] <= highest'[x]
        /\ RowsPublished'
    BY <1>3, PutFacts
  <1>5. InFlightHasRow' /\ SentPublished'
    BY <1>3 DEF TypeOK, RemoveDoc, Answer, Locals, InFlightHasRow, InFlight, InFlightSteps,
       SentPublished, rowVars
  <1>6. DocsPublished'
    BY <1>1, <1>3 DEF TypeOK, RemoveDoc, DocsPublished, SentPublished, rowVars
  <1>7. BatchReadsCapacity' /\ BatchesShare' /\ BatchCounted' /\ CapacityKept'
    BY <1>2, <1>3, <1>4, WriterFrame
  <1> QED BY <1>2, <1>4, <1>5, <1>6, <1>7

LEMMA DeleteRowInv ==
  ASSUME CatalogInv, NEW c \in Calls, DeleteRow(c) PROVE CatalogInv'
  <1> USE CatalogAssumption, RowFacts DEF CatalogInv
  <1>1. call[c].row \in Rows
    BY DEF DeleteRow, InFlightHasRow, InFlight, InFlightSteps
  <1>2. TypeOK'
    <2>1. call' \in [Calls -> [step : {"idle"} \cup InFlightSteps \cup Answers,
                              row : Rows \cup {NoEvent}, count : Nat]]
      BY <1>1 DEF TypeOK, DeleteRow, Reindex, Reading, Answer, Locals, Answers, InFlightSteps
    <2>2. events' \in [EventIds -> Rows \cup {NoEvent}] /\ faults' \in Nat
      BY DEF TypeOK, DeleteRow, NoFault, Fault
    <2> QED
      BY <2>1, <2>2 DEF TypeOK, DeleteRow
  <1>3. /\ \A d \in Calls \ {c} : call'[d] = call[d]
        /\ c.op # "batch"
        /\ UNCHANGED <<published, highest, index, seats, shared, blind>>
    BY DEF TypeOK, DeleteRow, Reindex, Reading, Answer
  <1>4. RowsPublished'
    BY <1>3 DEF TypeOK, DeleteRow, RowsPublished
  <1>5. InFlightHasRow' /\ SentPublished'
    BY <1>1 DEF TypeOK, DeleteRow, Reindex, Reading, Answer, Locals, InFlightHasRow, InFlight,
       InFlightSteps, SentPublished
  <1>6. \A x \in EventIds : highest[x] <= highest'[x]
    BY <1>3 DEF TypeOK
  <1>7. /\ BatchReadsCapacity' /\ BatchesShare' /\ BatchCounted' /\ CapacityKept'
        /\ DocsPublished'
    BY <1>2, <1>3, <1>6, WriterFrame
  <1> QED BY <1>2, <1>4, <1>5, <1>7

\* A step of a BatchCreate leaves the events, the index and other calls alone.
LEMMA BatchFrame ==
  ASSUME CatalogInv, NEW c \in Calls, c.op = "batch",
         \A d \in Calls \ {c} : call'[d] = call[d],
         UNCHANGED <<rowVars, index>>
  PROVE  RowsPublished' /\ DocsPublished' /\ SentPublished'
  <1> USE DEF CatalogInv
  <1>1. RowsPublished' /\ DocsPublished'
    BY DEF RowsPublished, DocsPublished, rowVars
  <1>2. \A d \in Calls : d.op \in {"create", "update"} => call'[d] = call[d]
    OBVIOUS
  <1>3. SentPublished'
    BY <1>2 DEF SentPublished, rowVars
  <1> QED BY <1>1, <1>3

LEMMA BatchReadInv ==
  ASSUME CatalogInv, NEW c \in Calls, BatchRead(c) PROVE CatalogInv'
  <1> USE CatalogAssumption, RowFacts DEF CatalogInv
  <1>1. MayChange(c) =>
          events[c.event] \in Rows /\ events[c.event].capacity <= highest[c.event]
    BY DEF TypeOK, MayChange, FindByID, RowsPublished
  <1>2. TypeOK'
    BY <1>1 DEF TypeOK, BatchRead, Reading, Answer, Locals, Enter, Kind, NoFault, Fault,
       rowVars, Answers, InFlightSteps
  <1>3. /\ \A d \in Calls \ {c} : call'[d] = call[d]
        /\ c.op = "batch" /\ UNCHANGED <<rowVars, index, seats, blind>>
        /\ shared \subseteq shared'
    BY DEF TypeOK, BatchRead, Reading, Answer, Enter
  <1>4. RowsPublished' /\ DocsPublished' /\ SentPublished'
    BY <1>3, BatchFrame
  <1>5. InFlightHasRow'
    BY <1>1 DEF TypeOK, BatchRead, Reading, Answer, Locals, InFlightHasRow, InFlight, InFlightSteps
  <1>6. BatchReadsCapacity'
    BY <1>1, <1>3 DEF TypeOK, BatchRead, Reading, Answer, Locals, BatchReadsCapacity, InBatch,
       InFlight, InFlightSteps, rowVars
  <1>7. BatchesShare'
    <2>1. CASE MayChange(c) /\ Reading(c, "count", events[c.event]) /\ Enter(c)
      <3>1. \A d \in Calls \ {c} :
              InBatch(d) /\ d.event = c.event => <<c.event, "batch">> \in shared'
        BY <1>3, <2>1 DEF Enter, Kind, InBatch
      <3> QED BY <1>3, <3>1 DEF BatchesShare, InBatch, InFlight
    <2>2. CASE Answer(c, "refused") /\ UNCHANGED shared
      BY <1>3, <2>2 DEF TypeOK, Answer, Locals, BatchesShare, InBatch, InFlight, InFlightSteps
    <2> QED BY <2>1, <2>2 DEF BatchRead
  <1>8. BatchCounted'
    BY <1>3 DEF TypeOK, BatchRead, Reading, Answer, Locals, BatchCounted, CountHolds, Fits
  <1>9. CapacityKept'
    BY <1>3 DEF TypeOK, CapacityKept, rowVars
  <1> QED BY <1>2, <1>4, <1>5, <1>6, <1>7, <1>8, <1>9

LEMMA BatchCountInv ==
  ASSUME CatalogInv, NEW c \in Calls, BatchCount(c) PROVE CatalogInv'
  <1> USE CatalogAssumption, RowFacts DEF CatalogInv
  <1>1. call[c].row \in Rows /\ InBatch(c)
    BY DEF BatchCount, InBatch, InFlightHasRow, InFlight, InFlightSteps
  <1>2. TypeOK'
    <2>1. call' \in [Calls -> [step : {"idle"} \cup InFlightSteps \cup Answers,
                              row : Rows \cup {NoEvent}, count : Nat]]
      <3>1. ASSUME NEW count \in Nat, Counted(c, count)
            PROVE  call' \in [Calls -> [step : {"idle"} \cup InFlightSteps \cup Answers,
                                        row : Rows \cup {NoEvent}, count : Nat]]
        BY <3>1 DEF TypeOK, Counted, Answer, Locals, Answers, InFlightSteps
      <3>2. \E count \in Nat : Counted(c, count)
        BY DEF TypeOK, BatchCount
      <3> QED
        BY <3>1, <3>2
    <2>2. blind' \subseteq EventIds /\ faults' \in Nat
      BY DEF TypeOK, BatchCount, NoFault, Fault
    <2> QED
      BY <2>1, <2>2 DEF TypeOK, BatchCount, rowVars
  <1>3. /\ \A d \in Calls \ {c} : call'[d] = call[d]
        /\ c.op = "batch" /\ UNCHANGED <<rowVars, index, seats, shared>>
        /\ blind \subseteq blind'
    BY DEF TypeOK, BatchCount, Counted, Answer
  <1>4. RowsPublished' /\ DocsPublished' /\ SentPublished'
    BY <1>3, BatchFrame
  <1>5. call'[c].row = call[c].row \/ ~InFlight(c)'
    BY DEF TypeOK, BatchCount, Counted, Answer, Locals, InFlight, InFlightSteps
  <1>6. InFlightHasRow'
    BY <1>1, <1>3, <1>5 DEF InFlightHasRow, InFlight
  <1>7. BatchReadsCapacity'
    BY <1>1, <1>3, <1>5 DEF BatchReadsCapacity, InBatch, InFlight, rowVars
  <1>8. BatchesShare'
    BY <1>1, <1>3 DEF BatchesShare, InBatch, InFlight
  <1>9. BatchCounted'
    <2>1. \A d \in Calls \ {c} : CountHolds(d) => CountHolds(d)'
      BY <1>3 DEF CountHolds, Fits
    <2>2. call'[c].step = "save" => CountHolds(c)' \/ c.event \in blind'
      BY <1>1 DEF TypeOK, BatchCount, Counted, Answer, Locals, CountHolds, Fits
    <2> QED BY <1>3, <2>1, <2>2 DEF BatchCounted
  <1>10. CapacityKept'
    BY <1>3 DEF CapacityKept, rowVars
  <1> QED BY <1>2, <1>4, <1>6, <1>7, <1>8, <1>9, <1>10

LEMMA BatchSaveInv ==
  ASSUME CatalogInv, NEW c \in Calls, BatchSave(c) PROVE CatalogInv'
  <1> USE CatalogAssumption, RowFacts DEF CatalogInv
  <1>1. call[c].row \in Rows /\ InBatch(c) /\ c.op = "batch" /\ call[c].step = "save"
    BY DEF BatchSave, InBatch, InFlightHasRow, InFlight, InFlightSteps
  <1>2. TypeOK'
    BY <1>1 DEF TypeOK, BatchSave, Answer, Locals, NoFault, Fault, rowVars, Answers
  <1>3. /\ \A d \in Calls \ {c} : call'[d] = call[d]
        /\ UNCHANGED <<rowVars, index, shared, blind>>
        /\ ~InFlight(c)' /\ call'[c].step # "save"
    BY DEF TypeOK, BatchSave, Answer, Locals, InFlight, InFlightSteps
  <1>4. RowsPublished' /\ DocsPublished' /\ SentPublished'
    BY <1>1, <1>3, BatchFrame
  <1>5. InFlightHasRow' /\ BatchReadsCapacity' /\ BatchesShare'
    BY <1>3 DEF InFlightHasRow, BatchReadsCapacity, BatchesShare, InBatch, InFlight, rowVars
  <1>6. BatchCounted'
    <2>1. SUFFICES ASSUME NEW d \in Calls, d # c, d.op = "batch", call[d].step = "save",
                          <<d.event, "batch">> \notin shared, d.event \notin blind
                   PROVE  CountHolds(d)'
      BY <1>3 DEF BatchCounted
    <2>2. CountHolds(d)
      BY <2>1 DEF BatchCounted
    <2>3. d.event # c.event
      BY <1>1, <2>1 DEF BatchesShare, InBatch, InFlight, InFlightSteps
    <2>4. seats'[d.event] = seats[d.event]
      BY <2>3 DEF TypeOK, BatchSave
    <2> QED BY <1>3, <2>1, <2>2, <2>4 DEF CountHolds, Fits
  <1>7. CapacityKept'
    <2>1. SUFFICES ASSUME NEW e \in EventIds, <<e, "batch">> \notin shared, e \notin blind
                   PROVE  seats'[e] <= highest[e]
      BY <1>3 DEF CapacityKept, rowVars
    <2>2. seats[e] <= highest[e]
      BY <2>1 DEF CapacityKept
    <2>3. CASE seats'[e] = seats[e]
      BY <2>2, <2>3
    <2>4. CASE seats'[e] # seats[e]
      <3>1. e = c.event /\ seats'[e] = seats[e] + c.seats
        BY <2>4 DEF TypeOK, BatchSave
      <3>2. call[c].count = seats[e] /\ call[c].count + c.seats <= call[c].row.capacity
        BY <1>1, <2>1, <3>1 DEF BatchCounted, CountHolds, Fits
      <3>3. call[c].row.capacity <= highest[e]
        BY <1>1, <3>1 DEF BatchReadsCapacity
      <3>4. /\ call[c].row.capacity \in Nat /\ highest[e] \in Nat /\ seats[e] \in Nat
            /\ c.seats \in Nat
        BY <1>1 DEF TypeOK, Rows
      <3> QED BY <3>1, <3>2, <3>3, <3>4
    <2> QED BY <2>3, <2>4
  <1> QED BY <1>2, <1>4, <1>5, <1>6, <1>7

LEMMA CrashInv ==
  ASSUME CatalogInv, Crash PROVE CatalogInv'
  <1> USE DEF CatalogInv
  <1>1. TypeOK'
    BY DEF TypeOK, Crash, Fault, Locals, rowVars, Answers, InFlight
  <1>2. \A c \in Calls : ~InFlight(c)' /\ call'[c].step \notin {"save", "index"}
    BY DEF TypeOK, Crash, Locals, InFlight, InFlightSteps
  <1>3. UNCHANGED <<rowVars, index, seats, shared, blind>>
    BY DEF Crash
  <1> QED
    BY <1>1, <1>2, <1>3
    DEF rowVars, InFlightHasRow, RowsPublished, DocsPublished, SentPublished, BatchReadsCapacity,
        BatchesShare, BatchCounted, CapacityKept, InBatch

LEMMA StutterInv ==
  ASSUME CatalogInv, UNCHANGED vars PROVE CatalogInv'
  BY DEF vars, CatalogInv, TypeOK, InFlightHasRow, RowsPublished, DocsPublished, SentPublished,
     BatchReadsCapacity, BatchesShare, BatchCounted, CapacityKept, InBatch, InFlight, CountHolds,
     Fits

THEOREM CatalogInvariant == Spec => []CatalogInv
  <1>1. ASSUME CatalogInv, Next PROVE CatalogInv'
    <2>1. CASE Crash
      BY <1>1, <2>1, CrashInv
    <2>2. CASE \E c \in Calls : EventStep(c) \/ BatchStep(c)
      <3>1. PICK c \in Calls : EventStep(c) \/ BatchStep(c)
        BY <2>2
      <3> QED
        BY <1>1, <3>1, CreateSaveInv, UpdateReadInv, UpdateSaveInv, IndexDocInv, DeleteReadInv,
           DeleteRowInv, RemoveDocInv, BatchReadInv, BatchCountInv, BatchSaveInv
        DEF EventStep, BatchStep
    <2> QED BY <1>1, <2>1, <2>2 DEF Next
  <1>2. CatalogInv /\ [Next]_vars => CatalogInv'
    BY <1>1, StutterInv
  <1> QED BY InitInv, <1>2, PTL DEF Spec

-----------------------------------------------------------------------------

(* Every reachable state is well typed: in particular an event never has a  *)
(* capacity of 0, whatever an update leaves out.                            *)
THEOREM CatalogTypeCorrect == Spec => []TypeOK
  <1>1. CatalogInv => TypeOK
    BY DEF CatalogInv
  <1> QED BY <1>1, CatalogInvariant, PTL

(* Without overlapping or blind BatchCreate calls an event never has more   *)
(* tickets than its largest capacity.                                       *)
THEOREM CapacityIsKept == Spec => []CapacityKept
  <1>1. CatalogInv => CapacityKept
    BY DEF CatalogInv
  <1> QED BY <1>1, CatalogInvariant, PTL

(* A search never shows a text that the database did not hold at some time. *)
THEOREM SearchIsPublished == Spec => []SearchShowsPublished
  <1>1. CatalogInv => SearchShowsPublished
    BY DEF CatalogInv, RowsPublished, DocsPublished, SearchShowsPublished, Search, RowText
  <1> QED BY <1>1, CatalogInvariant, PTL

-----------------------------------------------------------------------------
(* The writers of one event: Create, Update and Delete.                     *)

\* A step of c leaves the other calls and the other events alone, and c is
\* noted when it begins beside another call of its kind.
LEMMA StepFrame ==
  ASSUME CatalogInv, NEW c \in Calls, EventStep(c) \/ BatchStep(c)
  PROVE  /\ \A d \in Calls \ {c} : call'[d] = call[d]
         /\ shared \subseteq shared'
         /\ InFlight(c) \/ ~InFlight(c)' \/ Enter(c)
         /\ call'[c].step # "idle"
         /\ faults' = faults \/ faults' = faults + 1
         /\ \A x \in EventIds \ {c.event} : events'[x] = events[x] /\ index'[x] = index[x]
         /\ \A x \in EventIds \ {c.event} : published'[x] = published[x]
  BY RowFacts
  DEF CatalogInv, TypeOK, EventStep, BatchStep, CreateSave, UpdateRead, UpdateSave, IndexDoc,
      DeleteRead, DeleteRow, RemoveDoc, BatchRead, BatchCount, Counted, BatchSave, Reindex,
      Reading, Answer, Locals, Enter, Put, rowVars, NoFault, Fault, InFlight, InFlightSteps

LEMMA WritersShareInv ==
  ASSUME CatalogInv, WritersShare, NEW c \in Calls, EventStep(c) \/ BatchStep(c)
  PROVE  WritersShare'
  <1>1. /\ \A d \in Calls \ {c} : call'[d] = call[d]
        /\ shared \subseteq shared'
        /\ InFlight(c) \/ ~InFlight(c)' \/ Enter(c)
    BY StepFrame
  <1>2. \A d \in Calls \ {c} :
          Writing(c)' /\ Writing(d) /\ c.event = d.event => Overlapped(c.event)'
    <2>1. CASE InFlight(c)
      BY <1>1, <2>1 DEF WritersShare, Writing, Kind, Overlapped
    <2>2. CASE Enter(c)
      BY <2>2 DEF Enter, Writing, Kind, Overlapped
    <2> QED BY <1>1, <2>1, <2>2 DEF Writing
  <1>3. \A d \in Calls \ {c} : Writing(d)' <=> Writing(d)
    BY <1>1 DEF Writing, Kind, InFlight
  <1> QED BY <1>1, <1>2, <1>3 DEF WritersShare, Overlapped

LEMMA UncreatedIsEmptyInv ==
  ASSUME CatalogInv, UncreatedIsEmpty, NEW c \in Calls, EventStep(c) \/ BatchStep(c)
  PROVE  UncreatedIsEmpty'
  <1>1. /\ \A d \in Calls \ {c} : call'[d] = call[d]
        /\ call'[c].step # "idle"
        /\ \A x \in EventIds \ {c.event} : events'[x] = events[x] /\ index'[x] = index[x]
        /\ \A x \in EventIds \ {c.event} : published'[x] = published[x]
    BY StepFrame
  <1>2. SUFFICES ASSUME NEW d \in Calls, d.op = "create", d.valid, call'[d].step = "idle"
                 PROVE  /\ events'[d.event] = NoEvent /\ published'[d.event] = {}
                        /\ index'[d.event] = NoText
                        /\ \A x \in Calls : x.event = d.event => ~InFlight(x)'
    BY DEF UncreatedIsEmpty
  <1>3. d # c /\ call[d].step = "idle" /\ d.event \in EventIds
    BY <1>1, <1>2, RowFacts
  <1>4. /\ events[d.event] = NoEvent /\ published[d.event] = {} /\ index[d.event] = NoText
        /\ \A x \in Calls : x.event = d.event => ~InFlight(x)
    BY <1>2, <1>3 DEF UncreatedIsEmpty
  <1>5. CASE c.event # d.event
    BY <1>1, <1>3, <1>4, <1>5 DEF InFlight
  <1>6. CASE c.event = d.event
    <2>1. ~InFlight(c) /\ events[c.event] = NoEvent
      BY <1>4, <1>6
    <2>2. c.op = "create" => ~c.valid
      BY <1>2, <1>3, <1>6, CatalogAssumption
    <2>3. UNCHANGED <<events, published, index>> /\ ~InFlight(c)'
      BY <2>1, <2>2
      DEF CatalogInv, TypeOK, EventStep, BatchStep, CreateSave, UpdateRead, UpdateSave, IndexDoc,
          DeleteRead, DeleteRow, RemoveDoc, BatchRead, BatchCount, BatchSave, Answer, Locals,
          rowVars, MayChange, FindByID, InFlight, InFlightSteps
    <2> QED BY <1>1, <1>4, <2>3 DEF InFlight
  <1> QED BY <1>5, <1>6

LEMMA UpdateHasRowInv ==
  ASSUME CatalogInv, WriterInv, NEW c \in Calls, EventStep(c) \/ BatchStep(c)
  PROVE  UpdateHasRow'
  <1>1. /\ \A d \in Calls \ {c} : call'[d] = call[d]
        /\ shared \subseteq shared'
        /\ \A x \in EventIds \ {c.event} : events'[x] = events[x]
    BY StepFrame
  <1>2. SUFFICES ASSUME NEW d \in Calls, d.op = "update", call'[d].step = "save",
                        ~Overlapped(d.event)'
                 PROVE  events'[d.event] # NoEvent
    BY DEF UpdateHasRow
  <1>3. CASE d = c
    BY <1>2, <1>3
    DEF CatalogInv, TypeOK, EventStep, BatchStep, CreateSave, UpdateRead, UpdateSave, IndexDoc,
        DeleteRead, DeleteRow, RemoveDoc, BatchRead, BatchCount, BatchSave, Reindex, Reading,
        Answer, Locals, rowVars, MayChange, FindByID
  <1>4. CASE d # c
    <2>1. call[d].step = "save" /\ ~Overlapped(d.event) /\ d.event \in EventIds
      BY <1>1, <1>2, <1>4, RowFacts DEF Overlapped
    <2>2. events[d.event] # NoEvent /\ Writing(d)
      BY <1>2, <2>1
      DEF WriterInv, UpdateHasRow, Writing, Kind, InFlight, InFlightSteps
    <2>3. CASE DeleteRow(c)
      <3>1. Writing(c)
        BY <2>3 DEF DeleteRow, Writing, Kind, InFlight, InFlightSteps
      <3>2. d.event # c.event
        BY <1>4, <2>1, <2>2, <3>1 DEF WriterInv, WritersShare
      <3> QED BY <1>1, <2>1, <2>2, <3>2
    <2>4. CASE UNCHANGED events
      BY <2>2, <2>4
    <2>5. CASE \E row \in Rows : Put(c.event, row)
      BY <2>1, <2>2, <2>5, CatalogAssumption DEF CatalogInv, TypeOK, Put
    <2>6. DeleteRow(c) \/ UNCHANGED events \/ \E row \in Rows : Put(c.event, row)
      BY RowFacts
      DEF CatalogInv, InFlightHasRow, InFlight, InFlightSteps, EventStep, BatchStep, CreateSave,
          UpdateRead, UpdateSave, IndexDoc, DeleteRead, RemoveDoc, BatchRead, BatchCount,
          BatchSave, rowVars
    <2> QED BY <2>3, <2>4, <2>5, <2>6
  <1> QED BY <1>3, <1>4

\* Without a failure a step either leaves both stores alone, writes the row
\* and goes on to the document, or makes the document what it carries.
LEMMA StoreSteps ==
  ASSUME CatalogInv, NEW c \in Calls, EventStep(c) \/ BatchStep(c), EsEnabled, faults' = 0
  PROVE  \/ UNCHANGED <<events, index>> /\ ~AtIndex(c) /\ ~AtIndex(c)'
         \/ AtIndex(c)' /\ Document(c)' = RowText(c.event)'
         \/ /\ AtIndex(c) /\ ~AtIndex(c)' /\ UNCHANGED events
            /\ index'[c.event] = Document(c)
  <1> USE RowFacts, CatalogAssumption DEF CatalogInv, TypeOK, AtIndex, Kind, Answer, Locals, rowVars
  <1>1. UNCHANGED faults
    BY StepFrame
  <1>2. CASE CreateSave(c)
    BY <1>1, <1>2 DEF CreateSave, Fault, NewRow, Put, Reindex, Reading, Document, RowText
  <1>3. CASE UpdateSave(c)
    <2>1. call[c].row \in Rows
      BY <1>3 DEF UpdateSave, InFlightHasRow, InFlight, InFlightSteps
    <2> QED BY <1>1, <1>3, <2>1 DEF UpdateSave, Fault, Put, Reindex, Reading, Document, RowText
  <1>4. CASE DeleteRow(c)
    BY <1>1, <1>4 DEF DeleteRow, Fault, Reindex, Reading, Document, RowText
  <1>5. CASE IndexDoc(c) \/ RemoveDoc(c)
    BY <1>1, <1>5 DEF IndexDoc, RemoveDoc, Fault, Document
  <1>6. CASE UpdateRead(c) \/ DeleteRead(c)
    BY <1>6 DEF UpdateRead, DeleteRead, Reading
  <1>7. CASE BatchStep(c)
    BY <1>7 DEF BatchStep, BatchRead, BatchCount, BatchSave
  <1> QED BY <1>2, <1>3, <1>4, <1>5, <1>6, <1>7 DEF EventStep

LEMMA IndexFollowsInv ==
  ASSUME CatalogInv, WriterInv, NEW c \in Calls, EventStep(c) \/ BatchStep(c)
  PROVE  IndexFollows'
  <1>1. /\ \A d \in Calls \ {c} : call'[d] = call[d]
        /\ shared \subseteq shared'
        /\ faults' = faults \/ faults' = faults + 1
        /\ \A x \in EventIds \ {c.event} : events'[x] = events[x] /\ index'[x] = index[x]
    BY StepFrame
  <1>2. SUFFICES ASSUME EsEnabled, faults' = 0, NEW e \in EventIds, ~Overlapped(e)'
                 PROVE  /\ \A d \in Calls :
                              d.event = e /\ AtIndex(d)' => Document(d)' = RowText(e)'
                        /\ (\A d \in Calls : d.event = e => ~AtIndex(d)') =>
                             index'[e] = RowText(e)'
    BY DEF IndexFollows
  <1>3. faults = 0 /\ ~Overlapped(e)
    BY <1>1, <1>2 DEF CatalogInv, TypeOK, Overlapped
  <1>4. /\ \A d \in Calls : d.event = e /\ AtIndex(d) => Document(d) = RowText(e)
        /\ (\A d \in Calls : d.event = e => ~AtIndex(d)) => index[e] = RowText(e)
    BY <1>2, <1>3 DEF WriterInv, IndexFollows
  <1>5. \A d \in Calls \ {c} : (AtIndex(d)' <=> AtIndex(d)) /\ Document(d)' = Document(d)
    BY <1>1 DEF AtIndex, Document
  <1>6. CASE c.event # e
    <2>1. RowText(e)' = RowText(e) /\ index'[e] = index[e]
      BY <1>1, <1>6 DEF RowText
    <2> QED BY <1>4, <1>5, <1>6, <2>1
  <1>7. CASE c.event = e
    <2>1. \A d \in Calls \ {c} : d.event = e /\ AtIndex(d) => ~AtIndex(c)
      BY <1>3, <1>7
      DEF WriterInv, WritersShare, Writing, AtIndex, InFlight, InFlightSteps
    <2>2. \A d \in Calls \ {c} : d.event = e /\ AtIndex(d)' => ~AtIndex(c)'
      <3>1. WritersShare'
        BY WritersShareInv DEF WriterInv
      <3> QED BY <1>2, <1>7, <3>1 DEF WritersShare, Writing, AtIndex, InFlight, InFlightSteps
    <2>3. CASE UNCHANGED <<events, index>> /\ ~AtIndex(c) /\ ~AtIndex(c)'
      <3>1. RowText(e)' = RowText(e)
        BY <2>3 DEF RowText
      <3> QED BY <1>4, <1>5, <2>3, <3>1
    <2>4. CASE AtIndex(c)' /\ Document(c)' = RowText(e)'
      BY <1>7, <2>2, <2>4
    <2>5. CASE AtIndex(c) /\ ~AtIndex(c)' /\ UNCHANGED events /\ index'[e] = Document(c)
      <3>1. RowText(e)' = RowText(e)
        BY <2>5 DEF RowText
      <3> QED BY <1>4, <1>5, <1>7, <2>1, <2>5, <3>1
    <2> QED BY <1>2, <1>7, <2>3, <2>4, <2>5, StoreSteps
  <1> QED BY <1>6, <1>7

THEOREM WriterInvariant == Spec => []WriterInv
  <1>1. Init => WriterInv
    BY CatalogAssumption, RowFacts
    DEF Init, WriterInv, WritersShare, UncreatedIsEmpty, UpdateHasRow, IndexFollows, Writing,
        InFlight, InFlightSteps, Locals, AtIndex, RowText
  <1>2. ASSUME CatalogInv, WriterInv, NEW c \in Calls, EventStep(c) \/ BatchStep(c)
        PROVE  WriterInv'
    BY <1>2, WritersShareInv, UncreatedIsEmptyInv, UpdateHasRowInv, IndexFollowsInv DEF WriterInv
  <1>3. ASSUME CatalogInv, WriterInv, Crash PROVE WriterInv'
    <2>1. /\ \A c \in Calls : ~InFlight(c)' /\ call'[c].step # "save"
          /\ \A c \in Calls : call'[c].step = "idle" => call[c].step = "idle"
      BY <1>3 DEF CatalogInv, TypeOK, Crash, Locals, InFlight, InFlightSteps
    <2>2. UNCHANGED <<rowVars, index, shared>> /\ faults' # 0
      BY <1>3 DEF CatalogInv, TypeOK, Crash, Fault
    <2> QED
      BY <1>3, <2>1, <2>2
      DEF WriterInv, WritersShare, UncreatedIsEmpty, UpdateHasRow, IndexFollows, Writing, rowVars
  <1>4. ASSUME WriterInv, UNCHANGED vars PROVE WriterInv'
    BY <1>4
    DEF vars, WriterInv, WritersShare, UncreatedIsEmpty, UpdateHasRow, IndexFollows, Writing,
        Overlapped, InFlight, AtIndex, Document, RowText
  <1>5. CatalogInv /\ WriterInv /\ [Next]_vars => WriterInv'
    BY <1>2, <1>3, <1>4 DEF Next
  <1> QED BY <1>1, <1>5, CatalogInvariant, PTL DEF Spec

(* Without a failure, and unless writers of the event overlapped, the search *)
(* agrees with the database when no writer of the event is under way.       *)
THEOREM SearchFollows == Spec => []SearchAgrees
  <1>1. CatalogInv /\ WriterInv => SearchAgrees
    <2>1. SUFFICES ASSUME WriterInv, faults = 0, NEW e \in EventIds, ~Overlapped(e),
                          \A c \in Calls : c.event = e /\ Kind(c) = "write" => ~InFlight(c)
                   PROVE  Search(e) = {RowText(e)}
      BY DEF SearchAgrees, Overlapped
    <2>2. CASE EsEnabled
      <3>1. \A c \in Calls : c.event = e => ~AtIndex(c)
        BY <2>1 DEF AtIndex, InFlight, InFlightSteps
      <3>2. index[e] = RowText(e)
        BY <2>1, <2>2, <3>1 DEF WriterInv, IndexFollows
      <3> QED BY <2>2, <3>2 DEF Search
    <2>3. CASE ~EsEnabled
      BY <2>3 DEF Search
    <2> QED BY <2>2, <2>3
  <1> QED BY <1>1, CatalogInvariant, WriterInvariant, PTL

(* A deleted event stays deleted unless two of its writers overlapped.       *)
THEOREM DeletionIsFinal == Spec => DeletedStaysDeleted
  <1> DEFINE Stays ==
        \A e \in EventIds :
          published[e] # {} /\ events[e] = NoEvent /\ <<e, "write">> \notin shared
            => events'[e] = NoEvent
  <1>1. CatalogInv /\ WriterInv /\ [Next]_vars => Stays
    <2>1. SUFFICES ASSUME CatalogInv, WriterInv, [Next]_vars, NEW e \in EventIds,
                          published[e] # {}, events[e] = NoEvent, ~Overlapped(e)
                   PROVE  events'[e] = NoEvent
      BY DEF Overlapped
    <2>2. CASE UNCHANGED events
      BY <2>1, <2>2
    <2>3. CASE \E c \in Calls : CreateSave(c)
      <3>1. PICK c \in Calls : CreateSave(c)
        BY <2>3
      <3>2. c.event # e \/ UNCHANGED events
        BY <2>1, <3>1 DEF WriterInv, UncreatedIsEmpty, CreateSave, rowVars
      <3> QED BY <2>1, <3>1, <3>2 DEF CatalogInv, TypeOK, CreateSave, Put, rowVars
    <2>4. CASE \E c \in Calls : UpdateSave(c)
      <3>1. PICK c \in Calls : UpdateSave(c)
        BY <2>4
      <3>2. c.event # e
        BY <2>1, <3>1 DEF WriterInv, UpdateHasRow, UpdateSave
      <3> QED BY <2>1, <3>1, <3>2 DEF CatalogInv, TypeOK, UpdateSave, Put, rowVars
    <2>5. CASE \E c \in Calls : DeleteRow(c)
      BY <2>1, <2>5 DEF CatalogInv, TypeOK, DeleteRow
    <2>6. \/ UNCHANGED events
          \/ \E c \in Calls : CreateSave(c)
          \/ \E c \in Calls : UpdateSave(c)
          \/ \E c \in Calls : DeleteRow(c)
      BY <2>1
      DEF Next, vars, Crash, EventStep, BatchStep, UpdateRead, IndexDoc, DeleteRead, RemoveDoc,
          BatchRead, BatchCount, BatchSave, rowVars
    <2> QED BY <2>2, <2>3, <2>4, <2>5, <2>6
  <1>2. CatalogInv /\ WriterInv /\ [Next]_vars => [Stays]_vars
    BY <1>1
  <1> QED BY <1>2, CatalogInvariant, WriterInvariant, PTL DEF Spec, DeletedStaysDeleted
=============================================================================
