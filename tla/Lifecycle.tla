----------------------------- MODULE Lifecycle -----------------------------
(***************************************************************************)
(* The process once it serves, and its end: main runs the HTTP server and  *)
(* the consumer goroutine under one context, which a signal cancels, then  *)
(* waits for both and closes the Kafka reader and writer.  Startup is the  *)
(* same process with all of this in the one step Shutdown.                 *)
(*                                                                         *)
(* The topic has one partition, and the work of a handler, or of the       *)
(* consumer on a message, is one step: what is at stake here is who is cut *)
(* short, and which message is lost or handled again because of it.        *)
(***************************************************************************)
EXTENDS Startup

CONSTANTS
  Handlers,   \* the requests the server may have in hand at a time
  MaxSent,    \* bound on the messages written
  MaxSignals, \* bound on the signals that stop the service
  MaxErrors   \* bound on failing commits and listeners

ASSUME LifecycleAssumption == MaxSent \in Nat /\ MaxSignals \in Nat /\ MaxErrors \in Nat

VARIABLES
  proc,       \* what the process holds, lost when it ends
  sent,       \* messages in the topic
  committed,  \* messages the consumer group has acknowledged
  handled,    \* ghost: messages whose processing has come to its end
  signals,    \* ghost: signals so far
  errors      \* ghost: failing commits and listeners so far

lifeVars == <<vars, proc, sent, committed, handled, signals, errors>>

(* proc.server is "drained" when router.Run has let every request finish,   *)
(* "cut" when it gave up on some, "failed" when the listener did.  gaveUp:  *)
(* the eight seconds that main waits for the consumer were over.            *)
ProcessStates ==
  [ctx : {"live", "cancelled"},
   server : {"up", "drained", "cut", "failed"},
   main : {"run", "wait", "closeReader", "closeWriter", "exit"},
   busy : SUBSET Handlers,
   consumer : {"fetch", "work", "commit", "stopped"},
   position : Nat,
   open : SUBSET {"reader", "writer"},
   gaveUp : BOOLEAN]

LifeTypeOK ==
  /\ TypeOK
  /\ proc \in ProcessStates
  /\ sent \in Nat /\ committed \in Nat /\ signals \in Nat /\ errors \in Nat
  /\ handled \subseteq Nat

\* Faulty variant: the reader starts behind the last message.
FreshAtEnd(offset) ==
  [ctx |-> "live", server |-> "up", main |-> "run", busy |-> {},
   consumer |-> "fetch", position |-> sent, open |-> {"reader", "writer"},
   gaveUp |-> FALSE]

\* A process that begins to serve; its reader starts at the committed offset.
Fresh(offset) ==
  [ctx |-> "live", server |-> "up", main |-> "run", busy |-> {},
   consumer |-> "fetch", position |-> offset, open |-> {"reader", "writer"},
   gaveUp |-> FALSE]

LifeInit ==
  /\ Init
  /\ sent = 0 /\ committed = 0 /\ proc = Fresh(0)
  /\ handled = {} /\ signals = 0 /\ errors = 0

Error ==
  /\ errors < MaxErrors
  /\ errors' = errors + 1

Serving == boot = "serving"

-----------------------------------------------------------------------------
(* What runs while the process serves *)

Accept(h) ==
  /\ Serving /\ proc.server = "up" /\ proc.ctx = "live"
  /\ proc' = [proc EXCEPT !.busy = @ \cup {h}]
  /\ h \notin proc.busy
  /\ UNCHANGED <<vars, sent, committed, handled, signals, errors>>

\* A request that books writes one message before it is answered; with the
\* writer closed, WriteMessages only returns an error.
HandlerStep(h) ==
  /\ Serving /\ h \in proc.busy
  /\ proc' = [proc EXCEPT !.busy = @ \ {h}]
  /\ \/ "writer" \in proc.open /\ sent < MaxSent /\ sent' = sent + 1
     \/ UNCHANGED sent
  /\ UNCHANGED <<vars, committed, handled, signals, errors>>

\* Only the cancelled context ends the loop, and a message that is there may
\* still be returned before the context is looked at.
Fetch ==
  /\ Serving /\ proc.consumer = "fetch"
  /\ \/ /\ "reader" \in proc.open /\ proc.position < sent
        /\ proc' = [proc EXCEPT !.position = @ + 1, !.consumer = "work"]
     \/ proc.ctx = "cancelled" /\ proc' = [proc EXCEPT !.consumer = "stopped"]
  /\ UNCHANGED <<vars, sent, committed, handled, signals, errors>>

\* Faulty variant: a message in hand is put aside when the context is cancelled.
ProcessUnlessCancelled ==
  /\ Serving /\ proc.consumer = "work"
  /\ proc' = [proc EXCEPT !.consumer = "commit"]
  /\ handled' = IF proc.ctx = "live" THEN handled \cup {proc.position} ELSE handled
  /\ UNCHANGED <<vars, sent, committed, signals, errors>>

\* processBooking takes no context: a cancellation does not stop it.
Process ==
  /\ Serving /\ proc.consumer = "work"
  /\ proc' = [proc EXCEPT !.consumer = "commit"]
  /\ handled' = handled \cup {proc.position}
  /\ UNCHANGED <<vars, sent, committed, signals, errors>>

\* Faulty variant: offsets are acknowledged in pairs.
CommitPairs ==
  /\ Serving /\ proc.consumer = "commit"
  /\ proc' = [proc EXCEPT !.consumer = "fetch"]
  /\ committed' = IF proc.position % 2 = 0 THEN proc.position ELSE committed
  /\ UNCHANGED <<vars, sent, handled, signals, errors>>

\* CommitMessages gives up when the context is cancelled and fails on a closed
\* reader or an error of the broker; the offset may have been stored before.
Commit ==
  /\ Serving /\ proc.consumer = "commit"
  /\ proc' = [proc EXCEPT !.consumer = "fetch"]
  /\ \/ committed' = proc.position /\ UNCHANGED errors
     \/ /\ proc.ctx = "cancelled" \/ "reader" \notin proc.open
        /\ UNCHANGED <<committed, errors>>
     \/ Error /\ UNCHANGED committed
  /\ UNCHANGED <<vars, sent, handled, signals>>

ConsumerStep == Fetch \/ Process \/ Commit

-----------------------------------------------------------------------------
(* The end of it *)

Signal ==
  /\ Serving /\ proc.ctx = "live"
  /\ signals < MaxSignals
  /\ proc' = [proc EXCEPT !.ctx = "cancelled"]
  /\ signals' = signals + 1
  /\ UNCHANGED <<vars, sent, committed, handled, errors>>

\* router.Run belongs to a framework outside the repository: it returns when the
\* requests in hand are answered, or gives up on them.
Drain ==
  /\ Serving /\ proc.main = "run" /\ proc.ctx = "cancelled"
  /\ proc.busy = {}
  /\ proc' = [proc EXCEPT !.main = "wait", !.server = "drained"]
  /\ UNCHANGED <<vars, sent, committed, handled, signals, errors>>

GiveUpDraining ==
  /\ Serving /\ proc.main = "run" /\ proc.ctx = "cancelled"
  /\ proc.busy # {}
  /\ proc' = [proc EXCEPT !.main = "wait", !.server = "cut"]
  /\ UNCHANGED <<vars, sent, committed, handled, signals, errors>>

\* The error is logged; nobody cancels the context.
ListenFails ==
  /\ Serving /\ proc.main = "run"
  /\ Error
  /\ proc' = [proc EXCEPT !.main = "wait", !.server = "failed"]
  /\ UNCHANGED <<vars, sent, committed, handled, signals>>

\* Faulty variant: the wait has no time limit.
WaitForConsumer ==
  /\ Serving /\ proc.main = "wait" /\ proc.consumer = "stopped"
  /\ proc' = [proc EXCEPT !.main = "closeReader"]
  /\ UNCHANGED <<vars, sent, committed, handled, signals, errors>>

\* Faulty variant: main does not wait.
WaitNever ==
  /\ Serving /\ proc.main = "wait"
  /\ proc' = [proc EXCEPT !.main = "closeReader"]
  /\ UNCHANGED <<vars, sent, committed, handled, signals, errors>>

Wait ==
  /\ Serving /\ proc.main = "wait"
  /\ \/ /\ proc.consumer = "stopped"
        /\ proc' = [proc EXCEPT !.main = "closeReader"]
     \/ proc' = [proc EXCEPT !.main = "closeReader", !.gaveUp = TRUE]
  /\ UNCHANGED <<vars, sent, committed, handled, signals, errors>>

\* The deferred calls run in reverse order: stop, which cancels the context, and
\* then the reader before the writer.
CloseReader ==
  /\ Serving /\ proc.main = "closeReader"
  /\ proc' = [proc EXCEPT !.main = "closeWriter", !.ctx = "cancelled", !.open = @ \ {"reader"}]
  /\ UNCHANGED <<vars, sent, committed, handled, signals, errors>>

CloseWriter ==
  /\ Serving /\ proc.main = "closeWriter"
  /\ proc' = [proc EXCEPT !.main = "exit", !.open = @ \ {"writer"}]
  /\ UNCHANGED <<vars, sent, committed, handled, signals, errors>>

\* main returns, whatever else still runs, and the exit status is 0.
Exit ==
  /\ proc.main = "exit"
  /\ Shutdown
  /\ proc' = Fresh(committed)
  /\ UNCHANGED <<sent, committed, handled, signals, errors>>

MainStep == Drain \/ Wait \/ CloseReader \/ CloseWriter \/ Exit

-----------------------------------------------------------------------------

\* The start of the process is that of Startup.
Boot ==
  /\ Start \/ BootStep
  /\ UNCHANGED <<proc, sent, committed, handled, signals, errors>>

Die ==
  /\ Crash
  /\ proc' = Fresh(committed)
  /\ UNCHANGED <<sent, committed, handled, signals, errors>>

LifeNext ==
  \/ Boot \/ Die
  \/ \E h \in Handlers : Accept(h) \/ HandlerStep(h)
  \/ ConsumerStep
  \/ Signal \/ ListenFails \/ GiveUpDraining
  \/ MainStep

\* A process that was started runs, a request in hand is answered, the consumer
\* loop and main go on.  Nobody has to call, and nothing has to fail.
LifeSpec ==
  /\ LifeInit /\ [][LifeNext]_lifeVars
  /\ WF_lifeVars(Boot /\ BootStep)
  /\ \A h \in Handlers : WF_lifeVars(HandlerStep(h))
  /\ WF_lifeVars(ConsumerStep)
  /\ WF_lifeVars(MainStep)

-----------------------------------------------------------------------------

(* The reader is not closed under a consumer, nor the writer under a        *)
(* request, unless somebody has run out of patience.                        *)
NothingClosedInUse ==
  /\ "reader" \notin proc.open => proc.consumer = "stopped" \/ proc.gaveUp
  /\ "writer" \notin proc.open => proc.busy = {} \/ proc.server \in {"cut", "failed"}

(* However the process is stopped, no message is acknowledged before it has *)
(* been processed to its end.                                               *)
CommittedWasHandled == \A m \in 1..committed : m \in handled

(* A process that dies in full service has at most the message in hand to   *)
(* be processed again, and one more for each commit that failed.            *)
CrashRepeatsOne ==
  proc.ctx = "live" => proc.position <= committed + 1 + errors

(* A signal ends the process, and so does a listener that fails, however    *)
(* long the consumer takes.                                                 *)
StopsInTheEnd == Serving /\ (proc.ctx = "cancelled" \/ proc.server = "failed") ~> ~Serving

(* Every message is processed, across stops and crashes, unless the service *)
(* is down.                                                                 *)
HandledInTheEnd == \A m \in 1..MaxSent : sent >= m ~> m \in handled \/ boot = "off"
=============================================================================
