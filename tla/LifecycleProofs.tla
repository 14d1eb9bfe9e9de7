-------------------------- MODULE LifecycleProofs --------------------------
(***************************************************************************)
(* Theorems about the serving process and its end, for any number of       *)
(* requests, messages, signals and errors.  Those of StartupProofs carry   *)
(* over to it.                                                             *)
(***************************************************************************)
EXTENDS Lifecycle, StartupProofs

(* The inductive invariant behind the three.                                *)

\* How far main has come tells what has been closed, and after what.
EndInOrder ==
  /\ proc.main = "run" <=> proc.server = "up"
  /\ proc.server = "drained" => proc.busy = {}
  /\ proc.main \in {"closeReader", "closeWriter", "exit"} =>
       proc.consumer = "stopped" \/ proc.gaveUp
  /\ "reader" \notin proc.open =>
       proc.main \in {"closeWriter", "exit"} /\ proc.ctx = "cancelled"
  /\ "writer" \notin proc.open => proc.main = "exit"

\* The only message handed out and not yet processed is the one in hand.
AllButOneHandled ==
  /\ committed <= proc.position
  /\ proc.consumer = "work" => proc.position >= 1 /\ committed < proc.position
  /\ \A m \in 1..proc.position :
       m \in handled \/ (m = proc.position /\ proc.consumer = "work")

InHandUncommitted ==
  proc.ctx = "live" =>
    proc.position <= committed + errors + (IF proc.consumer \in {"work", "commit"} THEN 1 ELSE 0)

LifeInv ==
  /\ StartupInv /\ LifeTypeOK
  /\ EndInOrder /\ AllButOneHandled /\ InHandUncommitted

-----------------------------------------------------------------------------
LEMMA FreshTypes ==
  ASSUME NEW offset \in Nat
  PROVE  Fresh(offset) \in ProcessStates
  BY DEF Fresh, ProcessStates

\* A step of the serving process is none of the start.
LEMMA StepOfStartup == LifeNext => [Next]_vars
  <1> SUFFICES ASSUME LifeNext PROVE [Next]_vars
    OBVIOUS
  <1>1. CASE Boot \/ Die \/ Exit
    BY <1>1 DEF Boot, Die, Exit, Next
  <1>2. CASE \E h \in Handlers : Accept(h) \/ HandlerStep(h)
    BY <1>2 DEF Accept, HandlerStep
  <1>3. CASE ConsumerStep \/ Signal \/ ListenFails \/ GiveUpDraining
    BY <1>3 DEF ConsumerStep, Fetch, Process, Commit, Signal, ListenFails, GiveUpDraining
  <1>4. CASE Drain \/ Wait \/ CloseReader \/ CloseWriter
    BY <1>4 DEF Drain, Wait, CloseReader, CloseWriter
  <1> QED BY <1>1, <1>2, <1>3, <1>4 DEF LifeNext, MainStep

LEMMA LifeInitInv == LifeInit => LifeInv
  <1> SUFFICES ASSUME LifeInit PROVE LifeInv
    OBVIOUS
  <1>1. StartupInv
    BY StartupInit DEF LifeInit
  <1>2. LifeTypeOK
    BY <1>1, FreshTypes DEF LifeInit, LifeTypeOK, StartupInv
  <1>3. EndInOrder /\ AllButOneHandled /\ InHandUncommitted
    BY DEF LifeInit, Fresh, EndInOrder, AllButOneHandled, InHandUncommitted
  <1> QED BY <1>1, <1>2, <1>3 DEF LifeInv

LEMMA LifeStep == LifeInv /\ [LifeNext]_lifeVars => LifeInv'
  <1> SUFFICES ASSUME LifeInv, [LifeNext]_lifeVars PROVE LifeInv'
    OBVIOUS
  <1>0. LifeTypeOK /\ StartupInv' /\ TypeOK'
    <2>1. [Next]_vars
      BY StepOfStartup DEF lifeVars, vars
    <2> QED BY <2>1, StartupStep DEF LifeInv, StartupInv
  <1> USE DEF LifeInv
  <1>1. ASSUME NEW h \in Handlers, Accept(h) PROVE LifeInv'
    <2>1. LifeTypeOK'
      BY <1>0, <1>1 DEF Accept, LifeTypeOK, ProcessStates
    <2>2. /\ proc.server = "up" /\ proc' = [proc EXCEPT !.busy = proc.busy \cup {h}]
          /\ UNCHANGED <<sent, committed, handled, signals, errors>>
      BY <1>1 DEF Accept
    <2>3. EndInOrder' /\ AllButOneHandled' /\ InHandUncommitted'
      BY <1>0, <2>2 DEF LifeTypeOK, ProcessStates, EndInOrder, AllButOneHandled, InHandUncommitted
    <2> QED BY <1>0, <2>1, <2>3
  <1>2. ASSUME NEW h \in Handlers, HandlerStep(h) PROVE LifeInv'
    <2>1. LifeTypeOK'
      BY <1>0, <1>2 DEF HandlerStep, LifeTypeOK, ProcessStates
    <2>2. /\ proc' = [proc EXCEPT !.busy = proc.busy \ {h}]
          /\ UNCHANGED <<committed, handled, signals, errors>>
      BY <1>2 DEF HandlerStep
    <2>3. EndInOrder' /\ AllButOneHandled' /\ InHandUncommitted'
      BY <1>0, <2>2 DEF LifeTypeOK, ProcessStates, EndInOrder, AllButOneHandled, InHandUncommitted
    <2> QED BY <1>0, <2>1, <2>3
  <1>3. CASE Fetch
    <2>1. CASE proc' = [proc EXCEPT !.position = proc.position + 1, !.consumer = "work"]
      <3>1. LifeTypeOK'
        <4>1. proc.position + 1 \in Nat
          BY <1>0 DEF LifeTypeOK, ProcessStates
        <4>2. proc' \in ProcessStates
          BY <1>0, <2>1, <4>1 DEF LifeTypeOK, ProcessStates
        <4> QED BY <1>0, <1>3, <4>2 DEF Fetch, LifeTypeOK
      <3>2. EndInOrder' /\ AllButOneHandled' /\ InHandUncommitted'
        <4>1. /\ proc.consumer = "fetch" /\ proc'.consumer = "work"
              /\ proc'.position = proc.position + 1 /\ proc.position \in Nat
              /\ proc'.main = proc.main /\ proc'.server = proc.server /\ proc'.busy = proc.busy
              /\ proc'.gaveUp = proc.gaveUp /\ proc'.open = proc.open /\ proc'.ctx = proc.ctx
              /\ UNCHANGED <<committed, handled, errors>> /\ "reader" \in proc.open
              /\ committed \in Nat /\ errors \in Nat
          BY <1>0, <1>3, <2>1 DEF Fetch, LifeTypeOK, ProcessStates
        <4>2. AllButOneHandled' /\ InHandUncommitted'
          BY <4>1 DEF AllButOneHandled, InHandUncommitted
        <4>3. EndInOrder'
          BY <4>1 DEF EndInOrder
        <4> QED BY <4>2, <4>3
      <3> QED BY <1>0, <3>1, <3>2
    <2>2. CASE proc.ctx = "cancelled" /\ proc' = [proc EXCEPT !.consumer = "stopped"]
      BY <1>0, <1>3, <2>2
      DEF Fetch, LifeTypeOK, ProcessStates, EndInOrder, AllButOneHandled, InHandUncommitted
    <2> QED BY <1>3, <2>1, <2>2 DEF Fetch
  <1>4. CASE Process
    <2>1. LifeTypeOK'
      BY <1>0, <1>4 DEF Process, LifeTypeOK, ProcessStates
    <2>2. EndInOrder' /\ AllButOneHandled' /\ InHandUncommitted'
      BY <1>0, <1>4
      DEF Process, LifeTypeOK, ProcessStates, EndInOrder, AllButOneHandled, InHandUncommitted
    <2> QED BY <1>0, <2>1, <2>2
  <1>5. CASE Commit
    <2>1. /\ proc' = [proc EXCEPT !.consumer = "fetch"] /\ proc.consumer = "commit"
          /\ UNCHANGED <<sent, handled, signals>>
          /\ \/ committed' = proc.position /\ errors' = errors
             \/ /\ proc.ctx = "cancelled" \/ "reader" \notin proc.open
                /\ UNCHANGED <<committed, errors>>
             \/ errors' = errors + 1 /\ committed' = committed
      BY <1>5 DEF Commit, Error
    <2>2. LifeTypeOK'
      BY <1>0, <2>1 DEF LifeTypeOK, ProcessStates
    <2>3. EndInOrder' /\ AllButOneHandled' /\ InHandUncommitted'
      BY <1>0, <2>1
      DEF LifeTypeOK, ProcessStates, EndInOrder, AllButOneHandled, InHandUncommitted
    <2> QED BY <1>0, <2>2, <2>3
  <1>6. CASE Signal
    BY <1>0, <1>6
    DEF Signal, LifeTypeOK, ProcessStates, EndInOrder, AllButOneHandled, InHandUncommitted
  <1>7. CASE Drain \/ GiveUpDraining \/ ListenFails
    <2>1. /\ proc.main = "run" /\ errors' \in Nat /\ errors' >= errors
          /\ UNCHANGED <<sent, committed, handled, signals>>
          /\ \/ /\ proc.busy = {}
                /\ proc' = [proc EXCEPT !.main = "wait", !.server = "drained"]
             \/ proc' = [proc EXCEPT !.main = "wait", !.server = "cut"]
             \/ proc' = [proc EXCEPT !.main = "wait", !.server = "failed"]
      <3>1. errors \in Nat
        BY <1>0 DEF LifeTypeOK
      <3>2. CASE Drain
        BY <3>1, <3>2 DEF Drain
      <3>3. CASE GiveUpDraining
        BY <3>1, <3>3 DEF GiveUpDraining
      <3>4. CASE ListenFails
        BY <3>1, <3>4 DEF ListenFails, Error
      <3> QED BY <1>7, <3>2, <3>3, <3>4
    <2>2. proc \in ProcessStates
      BY <1>0 DEF LifeTypeOK
    <2>3. LifeTypeOK'
      <3>1. proc' \in ProcessStates
        <4>1. CASE proc' = [proc EXCEPT !.main = "wait", !.server = "drained"]
          BY <2>2, <4>1 DEF ProcessStates
        <4>2. CASE proc' = [proc EXCEPT !.main = "wait", !.server = "cut"]
          BY <2>2, <4>2 DEF ProcessStates
        <4>3. CASE proc' = [proc EXCEPT !.main = "wait", !.server = "failed"]
          BY <2>2, <4>3 DEF ProcessStates
        <4> QED BY <2>1, <4>1, <4>2, <4>3
      <3> QED BY <1>0, <2>1, <3>1 DEF LifeTypeOK
    <2>4. /\ proc'.main = "wait" /\ proc'.server # "up"
          /\ proc'.server = "drained" => proc.busy = {}
          /\ proc'.ctx = proc.ctx /\ proc'.busy = proc.busy /\ proc'.consumer = proc.consumer
          /\ proc'.position = proc.position /\ proc'.open = proc.open
          /\ proc'.gaveUp = proc.gaveUp
      BY <2>1, <2>2 DEF ProcessStates
    <2>5. EndInOrder'
      BY <2>1, <2>4 DEF EndInOrder
    <2>6. AllButOneHandled' /\ InHandUncommitted'
      <3>1. proc.position \in Nat /\ committed \in Nat /\ errors \in Nat
        BY <1>0, <2>2 DEF LifeTypeOK, ProcessStates
      <3> QED BY <2>1, <2>4, <3>1 DEF AllButOneHandled, InHandUncommitted
    <2> QED BY <1>0, <2>3, <2>5, <2>6
  <1>8. CASE Wait
    BY <1>0, <1>8
    DEF Wait, LifeTypeOK, ProcessStates, EndInOrder, AllButOneHandled, InHandUncommitted
  <1>9. CASE CloseReader
    BY <1>0, <1>9
    DEF CloseReader, LifeTypeOK, ProcessStates, EndInOrder, AllButOneHandled, InHandUncommitted
  <1>10. CASE CloseWriter
    BY <1>0, <1>10
    DEF CloseWriter, LifeTypeOK, ProcessStates, EndInOrder, AllButOneHandled, InHandUncommitted
  <1>11. CASE Exit \/ Die
    <2>1. proc' = Fresh(committed) /\ UNCHANGED <<sent, committed, handled, signals, errors>>
      BY <1>11 DEF Exit, Die
    <2>2. LifeTypeOK'
      BY <1>0, <2>1, FreshTypes DEF LifeTypeOK
    <2>3. EndInOrder' /\ AllButOneHandled' /\ InHandUncommitted'
      BY <1>0, <2>1
      DEF Fresh, LifeTypeOK, ProcessStates, EndInOrder, AllButOneHandled, InHandUncommitted
    <2> QED BY <1>0, <2>2, <2>3
  <1>12. CASE Boot \/ UNCHANGED lifeVars
    BY <1>0, <1>12
    DEF Boot, lifeVars, LifeTypeOK, EndInOrder, AllButOneHandled, InHandUncommitted
  <1> QED
    BY <1>1, <1>2, <1>3, <1>4, <1>5, <1>6, <1>7, <1>8, <1>9, <1>10, <1>11, <1>12
    DEF LifeNext, ConsumerStep, MainStep

THEOREM LifeInvariant == LifeSpec => []LifeInv
  BY LifeInitInv, LifeStep, PTL DEF LifeSpec

-----------------------------------------------------------------------------

(* The process and the topic are well typed in every state.                 *)
THEOREM LifeTypeCorrect == LifeSpec => []LifeTypeOK
  <1>1. LifeInv => LifeTypeOK
    BY DEF LifeInv
  <1> QED BY <1>1, LifeInvariant, PTL

(* Reader and writer are closed only when nobody is left to use them, or    *)
(* somebody was given up on.                                                *)
THEOREM ClosedLast == LifeSpec => []NothingClosedInUse
  <1>1. LifeInv => NothingClosedInUse
    BY DEF LifeInv, LifeTypeOK, ProcessStates, EndInOrder, NothingClosedInUse
  <1> QED BY <1>1, LifeInvariant, PTL

(* What the group has acknowledged has been processed, however the process  *)
(* was stopped.                                                             *)
THEOREM AtLeastOnce == LifeSpec => []CommittedWasHandled
  <1>1. LifeInv => CommittedWasHandled
    BY DEF LifeInv, LifeTypeOK, ProcessStates, AllButOneHandled, CommittedWasHandled
  <1> QED BY <1>1, LifeInvariant, PTL

(* A crash in full service makes at most the message in hand, and those     *)
(* whose commit failed, be processed again.                                 *)
THEOREM OneRepeated == LifeSpec => []CrashRepeatsOne
  <1>1. LifeInv => CrashRepeatsOne
    BY DEF LifeInv, LifeTypeOK, ProcessStates, InHandUncommitted, CrashRepeatsOne
  <1> QED BY <1>1, LifeInvariant, PTL

(* The schema of a process that serves and stops like this misses no more   *)
(* migrations than there were faults.                                       *)
THEOREM LifeSkippedByFaults == LifeSpec => []SkippedOnlyByFaults
  <1>1. LifeInv => SkippedOnlyByFaults
    BY FewSkipped DEF LifeInv
  <1> QED BY <1>1, LifeInvariant, PTL

(* It has no statement run on it that it has had.                           *)
THEOREM LifeRunsOnce == LifeSpec => NothingRunsTwice
  <1>1. LifeInv => (boot = "run" /\ boot' = "clean" => version \notin applied)
    BY DEF LifeInv, StartupInv, InHand
  <1> QED BY <1>1, LifeInvariant, PTL DEF NothingRunsTwice
=============================================================================
