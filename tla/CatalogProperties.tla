------------------------- MODULE CatalogProperties -------------------------
(***************************************************************************)
(* What must be true of the event catalogue.                               *)
(***************************************************************************)
EXTENDS EventCatalog

(* As long as the BatchCreate calls for an event do not overlap and none of *)
(* their counts is lost, the event has no more tickets than the largest     *)
(* capacity it ever had, whatever updates, deletions and crashes there are. *)
CapacityKept ==
  \A e \in EventIds :
    <<e, "batch">> \notin shared /\ e \notin blind => seats[e] <= highest[e]

(* A search never shows a text that was not the text of that event in the   *)
(* database at some time: a refused, failed or cut-short edit is not found. *)
SearchShowsPublished ==
  \A e \in EventIds : Search(e) \ {NoText} \subseteq published[e]

(* When nothing has failed and the writers of an event have not overlapped, *)
(* the search shows what the database holds once they have been answered.   *)
SearchAgrees ==
  faults = 0 =>
    \A e \in EventIds :
      /\ <<e, "write">> \notin shared
      /\ \A c \in Calls : c.event = e /\ Kind(c) = "write" => ~InFlight(c)
      => Search(e) = {RowText(e)}

(* A deleted event is gone: nothing that was under way, and no document left *)
(* behind in the index, brings its row back, unless two of its writers have *)
(* overlapped, when the Save of an update inserts the row it once read.     *)
DeletedStaysDeleted ==
  [][\A e \in EventIds :
       published[e] # {} /\ events[e] = NoEvent /\ <<e, "write">> \notin shared
         => events'[e] = NoEvent]_vars

-----------------------------------------------------------------------------
(* Statements of the repository that the code does not keep.               *)

(* ticket/service.go: after an insertion the number of tickets does not     *)
(* exceed the capacity of the event.                                        *)
CapacityNeverExceeded == \A e \in EventIds : seats[e] <= highest[e]
=============================================================================
