-------------------------------- MODULE Server --------------------------------
(***************************************************************************)
(* The process around the orchestrator (cmd/server, internal/scheduler):   *)
(* the goroutine of the ticker, that of the signals, the main goroutine    *)
(* and the requests in flight, from the start of the scheduler to the exit *)
(* of the process.  Each request makes one call of Dispatch.               *)
(***************************************************************************)
EXTENDS Dispatch

CONSTANT MaxRequests     \* bound on the requests in flight

ASSUME MaxRequestsAssumption == MaxRequests \in Nat

VARIABLES
  main,        \* the main goroutine: before Start, in ListenAndServe, returned
  signal,      \* the goroutine that waits for SIGTERM and shuts down
  loop,        \* Scheduler.run
  cancelled,   \* the context of Scheduler.run is done
  inflight     \* requests accepted and not yet answered

process == <<main, signal, loop, cancelled>>

svars == <<vars, process, inflight>>

SInit ==
  /\ Init
  /\ main = "starting" /\ signal = "none" /\ loop = "none"
  /\ cancelled = FALSE
  /\ inflight = 0

Up == main = "serving"

\* Start, the goroutine for signals, ListenAndServe.
Start ==
  /\ main = "starting"
  /\ main' = "serving"
  /\ loop' = "select"
  /\ signal' = "waiting"
  /\ UNCHANGED <<vars, cancelled, inflight>>

(***************************************************************************)
(* The process ends: main returns as soon as Shutdown has closed the       *)
(* listener, whatever the other goroutines are doing; or the listener      *)
(* fails; or the process is killed.  Its memory is gone.                   *)
(***************************************************************************)
Exit ==
  /\ Up
  /\ main' = "exited" /\ signal' = "none" /\ loop' = "none"
  /\ cancelled' = FALSE
  /\ inflight' = 0
  /\ orders' = <<>> /\ cabins' = <<>> /\ inv' = Inv!EmptyInventory
  /\ queues' = [c \in CabinIds |-> <<>>]
  /\ notifs' = {} /\ creating' = {}

-----------------------------------------------------------------------------
(***************************************************************************)
(* Scheduler.run.  A tick may come whenever the loop selects, and select   *)
(* picks either case if the context is done too.  The two checks lock      *)
(* o.mu one after the other, with the time read before the first: a        *)
(* deadline that passes later counts as passing after the check.           *)
(***************************************************************************)
SelectTick ==
  /\ Up
  /\ loop = "select"
  /\ loop' = "anomalies"
  /\ UNCHANGED <<vars, main, signal, cancelled, inflight>>

SelectDone ==
  /\ Up
  /\ loop = "select"
  /\ cancelled
  /\ loop' = "done"
  /\ UNCHANGED <<vars, main, signal, cancelled, inflight>>

\* Fault: one check per tick, as in a select with a case for each.
LoopAnomaliesOnly ==
  /\ Up
  /\ loop = "anomalies"
  /\ CheckAnomalyDeadlines \/ (OverdueReports = {} /\ UNCHANGED vars)
  /\ loop' = IF OverdueReports = {} THEN "timeouts" ELSE "select"
  /\ UNCHANGED <<main, signal, cancelled, inflight>>

LoopAnomalies ==
  /\ Up
  /\ loop = "anomalies"
  /\ CheckAnomalyDeadlines \/ (OverdueReports = {} /\ UNCHANGED vars)
  /\ loop' = "timeouts"
  /\ UNCHANGED <<main, signal, cancelled, inflight>>

LoopTimeouts ==
  /\ Up
  /\ loop = "timeouts"
  /\ CheckMaintenanceTimeouts \/ (OverdueResponses = {} /\ UNCHANGED vars)
  /\ loop' = "select"
  /\ UNCHANGED <<main, signal, cancelled, inflight>>

-----------------------------------------------------------------------------
(***************************************************************************)
(* Requests.  The listener is open until Shutdown closes it.               *)
(***************************************************************************)
Accept ==
  /\ Up
  /\ signal = "waiting"
  /\ inflight < MaxRequests
  /\ inflight' = inflight + 1
  /\ UNCHANGED <<vars, process>>

\* Requests that are not half way through a creation.
Unhandled == inflight - Cardinality(creating)

\* A handler makes its call and answers; a call that fails changes nothing.
Handle ==
  /\ Up
  /\ Unhandled > 0
  /\ Calls \/ Unsaved \/ Registrations \/ UNCHANGED vars
  /\ inflight' = inflight - 1
  /\ UNCHANGED process

\* Fault: the order is stored, the request answered, and a goroutine places it.
HandleCreationAnswered ==
  /\ Up
  /\ Unhandled > 0
  /\ Creations
  /\ inflight' = inflight - 1
  /\ UNCHANGED process

HandleCreation ==
  /\ Up
  /\ Unhandled > 0
  /\ Creations
  /\ UNCHANGED <<process, inflight>>

FinishCreation(w) ==
  /\ Up
  /\ w \in OrderIds
  /\ Place(w)
  /\ inflight' = inflight - 1
  /\ UNCHANGED process

TimePasses ==
  /\ Up
  /\ Clock
  /\ UNCHANGED <<process, inflight>>

-----------------------------------------------------------------------------
(***************************************************************************)
(* The shutdown: Shutdown waits until no request is in flight, or for ten  *)
(* seconds; Stop cancels the context and waits for Scheduler.run.          *)
(***************************************************************************)
Signal ==
  /\ Up
  /\ signal = "waiting"
  /\ signal' = "draining"
  /\ UNCHANGED <<vars, main, loop, cancelled, inflight>>

\* Fault: Start keeps the cancel function to itself, and Stop has none to call.
StopWithoutCancel ==
  /\ Up
  /\ signal = "draining"
  /\ signal' = "stopping"
  /\ UNCHANGED <<vars, main, loop, cancelled, inflight>>

StopCancels ==
  /\ Up
  /\ signal = "draining"
  /\ signal' = "stopping"
  /\ cancelled' = TRUE
  /\ UNCHANGED <<vars, main, loop, inflight>>

StopReturns ==
  /\ Up
  /\ signal = "stopping"
  /\ loop = "done"
  /\ signal' = "stopped"
  /\ UNCHANGED <<vars, main, loop, cancelled, inflight>>

SNext ==
  \/ Start \/ Exit
  \/ SelectTick \/ SelectDone \/ LoopAnomalies \/ LoopTimeouts
  \/ Accept \/ Handle \/ HandleCreation \/ TimePasses
  \/ \E w \in 1..MaxOrders : FinishCreation(w)
  \/ Signal \/ StopCancels \/ StopReturns

SSpec == SInit /\ [][SNext]_svars

(***************************************************************************)
(* Goroutines that can go on do: the ticker ticks, the loop goes round and *)
(* gets o.mu, which every holder gives back, and so does the creator of an *)
(* order; Shutdown and Stop go on.  select is fair between cases that keep *)
(* being ready, hence SF.  Nothing is assumed of clients, of the clock, of *)
(* the signal, nor of main, whose return would only cut the rest short.    *)
(***************************************************************************)
Fairness ==
  /\ WF_svars(Start)
  /\ WF_svars(SelectTick)
  /\ SF_svars(SelectDone)
  /\ WF_svars(LoopAnomalies)
  /\ WF_svars(LoopTimeouts)
  /\ \A w \in 1..MaxOrders : WF_svars(FinishCreation(w))
  /\ WF_svars(StopCancels)
  /\ WF_svars(StopReturns)

FairSpec == SSpec /\ Fairness

-----------------------------------------------------------------------------
STypeOK ==
  /\ TypeOK
  /\ main \in {"starting", "serving", "exited"}
  /\ signal \in {"none", "waiting", "draining", "stopping", "stopped"}
  /\ loop \in {"none", "select", "anomalies", "timeouts", "done"}
  /\ cancelled \in BOOLEAN
  /\ inflight \in Cardinality(creating)..MaxRequests

ShuttingDown == signal \notin {"none", "waiting"} \/ main = "exited"

(***************************************************************************)
(* A response that is overdue is escalated, unless a client acts on the    *)
(* order first or the process is shut down.                                *)
(***************************************************************************)
OverdueResponseIsEscalated ==
  \A w \in 1..MaxOrders :
    w \in OverdueResponses ~> w \notin OverdueResponses \/ ShuttingDown

\* An anomaly that stays unreported past its deadline is notified.
OverdueReportIsNotified ==
  \A w \in 1..MaxOrders :
    w \in OverdueReports ~>
      \/ w \notin OverdueReports
      \/ <<"anomaly_deadline", w>> \in notifs
      \/ ShuttingDown

\* An inspection that was created is placed, also while requests are drained.
InspectionIsPlaced ==
  \A w \in 1..MaxOrders :
    w \in creating /\ orders[w].type = "inspection" ~>
      \/ w \in OrderIds /\ orders[w].state # "created"
      \/ main = "exited"

\* Stop does not wait for ever, however busy the ticker keeps the loop.
StopEnds == signal = "stopping" ~> signal = "stopped" \/ main = "exited"

-----------------------------------------------------------------------------
OverdueQueued ==
  {w \in OrderIds : /\ orders[w].type = "maintenance"
                    /\ orders[w].state = "queued"
                    /\ orders[w].deadline = "passed"}

(***************************************************************************)
(* What the comment on CheckMaintenanceTimeouts says and the code does not *)
(* do: it looks at authorized and at queued orders.                        *)
(***************************************************************************)
OverdueQueuedIsEscalated ==
  \A w \in 1..MaxOrders :
    w \in OverdueQueued ~> w \notin OverdueQueued \/ ShuttingDown
=============================================================================
