----------------------------- MODULE AsioTimer ------------------------------
(***************************************************************************)
(* zen::Timer (src/zen/node/common/asio_timer.hpp) over the                *)
(* boost::asio::deadline_timer it holds.                                   *)
(*                                                                         *)
(* One thread, Io, runs the io_context; others hold the Timer and call     *)
(* start, stop and reset; the call back may call them too, on Io.  The     *)
(* deadline_timer is external and modelled by what Timer needs of it: a    *)
(* number of waits pending on the one expiry time, and the handlers ready  *)
(* to run, in order, each with its error code.  cancel() and               *)
(* expires_from_now() make every pending wait ready with operation_aborted;*)
(* the expiry makes them ready with success, and what is ready cannot be   *)
(* taken back.                                                             *)
(***************************************************************************)
EXTENDS Naturals, Sequences

CONSTANTS
  TimerCallers,    \* the threads that hold the timer
  Io,              \* the thread that runs the io_context
  RestartDrained,  \* whether start() is only called with no handler outstanding
  MaxCalls         \* bound: calls of start, stop and reset

ASSUME TimerAssumption ==
  /\ Io \notin TimerCallers
  /\ RestartDrained \in BOOLEAN
  /\ MaxCalls \in Nat

Threads == TimerCallers \cup {Io}

VARIABLES
  is_running,
  pending,   \* waits of timer_ that have not completed
  ready,     \* the error codes of the handlers ready to run, in order
  ec,        \* the error code of the handler that runs
  tpc,       \* where each thread is
  calls,     \* history: calls made so far
  lateCalls  \* history: call backs begun since the last stop(), counted to MaxLate

timerVars == <<is_running, pending, ready, ec, tpc, calls, lateCalls>>

MaxLate == 2

Codes == {"success", "aborted"}

\* The callers rest outside any call; Io makes calls from the call back alone.
Home(t) == IF t = Io THEN "callback" ELSE "idle"

Points == {"idle", "run", "handler", "callback", "check", "launch", "wait", "relaunch",
           "rewait", "cancel"}

\* The handlers that will still run: every one may launch the next.
Launching(t) == tpc[t] \in {"launch", "wait"}

Outstanding == pending > 0 \/ ready # <<>> \/ tpc[Io] # "run"

TimerGoto(t, point) == tpc' = [tpc EXCEPT ![t] = point]

TimerInit ==
  /\ is_running = FALSE
  /\ pending = 0
  /\ ready = <<>>
  /\ ec = "success"
  /\ tpc = [t \in Threads |-> IF t = Io THEN "run" ELSE "idle"]
  /\ calls = 0
  /\ lateCalls = 0

-----------------------------------------------------------------------------
(* start, stop, reset                                                      *)

CanCall(t) ==
  /\ tpc[t] = Home(t)
  /\ calls < MaxCalls
  /\ calls' = calls + 1

\* MUTANT of Start: start() launches whether or not the timer runs.
StartAlways(t) ==
  /\ CanCall(t)
  /\ RestartDrained /\ ~is_running => ~Outstanding /\ \A u \in TimerCallers : ~Launching(u)
  /\ is_running' = TRUE
  /\ lateCalls' = 0
  /\ TimerGoto(t, "launch")
  /\ UNCHANGED <<pending, ready, ec>>

\* A start() that finds the timer running does nothing.
Start(t) ==
  /\ CanCall(t)
  /\ RestartDrained /\ ~is_running => ~Outstanding /\ \A u \in TimerCallers : ~Launching(u)
  /\ IF is_running
       THEN UNCHANGED <<is_running, tpc, lateCalls>>
       ELSE /\ is_running' = TRUE
            /\ lateCalls' = 0
            /\ TimerGoto(t, "launch")
  /\ UNCHANGED <<pending, ready, ec>>

\* A stop() that finds the timer stopped does nothing.
Stop(t) ==
  /\ CanCall(t)
  /\ IF is_running
       THEN /\ is_running' = FALSE
            /\ lateCalls' = 0
            /\ TimerGoto(t, "cancel")
       ELSE UNCHANGED <<is_running, tpc, lateCalls>>
  /\ UNCHANGED <<pending, ready, ec>>

Reset(t) ==
  /\ CanCall(t)
  /\ TimerGoto(t, "cancel")
  /\ UNCHANGED <<is_running, pending, ready, ec, lateCalls>>

-----------------------------------------------------------------------------
(* The deadline_timer                                                      *)

Complete(code) ==
  /\ ready' = ready \o [i \in 1 .. pending |-> code]
  /\ pending' = 0

\* timer_.cancel(), the end of stop() and of reset().
Cancel(t) ==
  /\ tpc[t] = "cancel"
  /\ Complete("aborted")
  /\ TimerGoto(t, Home(t))
  /\ UNCHANGED <<is_running, ec, calls, lateCalls>>

\* The interval has passed.  Io looks at the clock between two handlers.
Expire ==
  /\ tpc[Io] = "run"
  /\ pending > 0
  /\ Complete("success")
  /\ UNCHANGED <<is_running, ec, tpc, calls, lateCalls>>

-----------------------------------------------------------------------------
(* launch() and the handler it submits                                     *)

\* timer_.expires_from_now(interval) cancels the waits on the old expiry.
LaunchExpires(t) ==
  /\ tpc[t] \in {"launch", "relaunch"}
  /\ Complete("aborted")
  /\ TimerGoto(t, IF tpc[t] = "launch" THEN "wait" ELSE "rewait")
  /\ UNCHANGED <<is_running, ec, calls, lateCalls>>

\* MUTANT of LaunchWait: timer_.wait() in place of async_wait, so that the handler runs
\* on the thread that launched.
LaunchWaitHere(t) ==
  /\ tpc[t] \in {"wait", "rewait"}
  /\ ec' = "success"
  /\ TimerGoto(t, "handler")
  /\ UNCHANGED <<is_running, pending, ready, calls, lateCalls>>

\* timer_.async_wait(handler); start() returns, or the handler that launched ends.
LaunchWait(t) ==
  /\ tpc[t] \in {"wait", "rewait"}
  /\ pending' = pending + 1
  /\ TimerGoto(t, IF tpc[t] = "wait" THEN Home(t) ELSE "run")
  /\ UNCHANGED <<is_running, ready, ec, calls, lateCalls>>

\* Io takes the next handler.
HandlerBegin ==
  /\ tpc[Io] = "run"
  /\ ready # <<>>
  /\ ec' = Head(ready)
  /\ ready' = Tail(ready)
  /\ TimerGoto(Io, "handler")
  /\ UNCHANGED <<is_running, pending, calls, lateCalls>>

\* if (!ec && call_back_) call_back_()
HandlerCallback ==
  /\ tpc[Io] = "handler"
  /\ IF ec = "success"
       THEN /\ TimerGoto(Io, "callback")
            /\ lateCalls' = IF is_running \/ lateCalls = MaxLate THEN lateCalls ELSE lateCalls + 1
       ELSE /\ TimerGoto(Io, "check")
            /\ UNCHANGED lateCalls
  /\ UNCHANGED <<is_running, pending, ready, ec, calls>>

CallbackReturns ==
  /\ tpc[Io] = "callback"
  /\ TimerGoto(Io, "check")
  /\ UNCHANGED <<is_running, pending, ready, ec, calls, lateCalls>>

\* MUTANT of HandlerCheck: a cancelled wait is not submitted again.
HandlerCheckNotAborted ==
  /\ tpc[Io] = "check"
  /\ TimerGoto(Io, IF is_running /\ ec = "success" THEN "relaunch" ELSE "run")
  /\ UNCHANGED <<is_running, pending, ready, ec, calls, lateCalls>>

\* MUTANT of HandlerCheck: the wait is always submitted again.
HandlerCheckMissing ==
  /\ tpc[Io] = "check"
  /\ TimerGoto(Io, "relaunch")
  /\ UNCHANGED <<is_running, pending, ready, ec, calls, lateCalls>>

\* if (is_running) launch()
HandlerCheck ==
  /\ tpc[Io] = "check"
  /\ TimerGoto(Io, IF is_running THEN "relaunch" ELSE "run")
  /\ UNCHANGED <<is_running, pending, ready, ec, calls, lateCalls>>

-----------------------------------------------------------------------------
ThreadStep(t) == Cancel(t) \/ LaunchExpires(t) \/ LaunchWait(t)

IoStep == HandlerBegin \/ HandlerCallback \/ CallbackReturns \/ HandlerCheck

TimerCall(t) == Start(t) \/ Stop(t) \/ Reset(t)

\* A stopped timer with nothing outstanding and no caller left to start it.
Idle == calls = MaxCalls /\ ~Outstanding /\ UNCHANGED timerVars

TimerNext ==
  \/ \E t \in Threads : ThreadStep(t) \/ TimerCall(t)
  \/ IoStep
  \/ Expire
  \/ Idle

TimerSpec == TimerInit /\ [][TimerNext]_timerVars

\* Threads inside a call and the io_context's thread are scheduled, and a wait that
\* stays pending expires: a wait that is cancelled in time does not.
TimerFairness ==
  /\ \A t \in Threads : WF_timerVars(ThreadStep(t))
  /\ WF_timerVars(IoStep)
  /\ WF_timerVars(Expire)

TimerFairSpec == TimerSpec /\ TimerFairness

-----------------------------------------------------------------------------
(* Properties                                                              *)

Types ==
  /\ is_running \in BOOLEAN
  /\ pending \in Nat
  /\ ready \in Seq(Codes)
  /\ ec \in Codes
  /\ tpc \in [Threads -> Points]
  /\ calls \in Nat /\ lateCalls \in Nat

Places ==
  /\ \A t \in TimerCallers : tpc[t] \in {"idle", "launch", "wait", "cancel"}
  /\ tpc[Io] # "idle"

\* Every variable holds a value of its type, and no handler and no call back ever runs
\* on a thread that calls start, stop or reset: it is Io's alone (asio_timer.hpp:70-77).
TimerTypeOK == Types /\ Places

\* A running timer is never stranded: a wait is pending, a handler is ready or
\* running, or a start() is about to submit one, whatever stop() and reset() cancel
\* (asio_timer.hpp:48-53, 68-78).
NeverStranded ==
  is_running => Outstanding \/ \E t \in TimerCallers : Launching(t)

\* How many handlers are outstanding or about to be submitted.
Chains ==
  pending + Len(ready) + (IF tpc[Io] = "run" THEN 0 ELSE 1)

\* When start() waits for the handler of the run before, there is one handler at a
\* time, however many threads start, stop and reset (asio_timer.hpp:50, 69-75).
OneChain ==
  /\ Chains <= 1
  /\ \A t \in TimerCallers :
       Launching(t) => Chains = 0 /\ \A u \in TimerCallers \ {t} : ~Launching(u)

\* At most one call back begins after stop(), even if the stop comes between the
\* handler's read of is_running and its launch (asio_timer.hpp:56-61, 74-75).
AtMostOneLateCallback == lateCalls <= 1

\* A timer that keeps running calls back: "Eventually call back action is executed
\* and timer resubmitted for another interval" (asio_timer.hpp:46-47).
CallbackHappens == is_running ~> (tpc[Io] = "callback" \/ ~is_running)

\* A timer that stays stopped comes to rest (asio_timer.hpp:55, 74).
StopQuiesces == <>[](~is_running) => <>[](~Outstanding)

\* stop() "cancels pending execution. No callback is executed" (asio_timer.hpp:55): a
\* call back begins only while the timer runs or a stop() or reset() is still under way.
CallbackBegins == tpc[Io] = "handler" /\ tpc'[Io] = "callback"

NoCallbackAfterStop ==
  [][CallbackBegins => is_running \/ \E t \in Threads : tpc[t] = "cancel"]_timerVars
=============================================================================
