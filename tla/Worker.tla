------------------------------- MODULE Worker -------------------------------
(***************************************************************************)
(* zen::Worker (src/zen/node/concurrency/worker.{hpp,cpp}) with its base   *)
(* class zen::Stoppable and the flag of zen::Ossignals it polls.           *)
(*                                                                         *)
(* A Worker owns one std::thread.  The thread that owns the object starts, *)
(* stops, joins and destroys it; any thread may kick it or ask it to stop; *)
(* a signal handler may raise the process-wide signalled flag at any time. *)
(* Every atomic load, store, compare-exchange, notification and wait is a  *)
(* step of its own.  Members keep their names without the trailing         *)
(* underscore.                                                             *)
(*                                                                         *)
(* The two condition variables carry no predicate and are notified without *)
(* their mutex, so a notification that finds nobody waiting is lost; the   *)
(* mutex is never held across a step and is left out.                      *)
(***************************************************************************)
EXTENDS Naturals

CONSTANTS
  Owner,       \* the thread that owns the object
  Kickers,     \* the other threads that hold a reference to it
  StartWaits,  \* the values of start()'s argument wait that are used
  MaxStarts,   \* bound: calls of start() that pass its first guard
  MaxKicks,    \* bound: kicks after which nobody calls kick() any more
  MaxResets    \* bound: calls of Ossignals::reset

ASSUME WorkerAssumption ==
  /\ Owner \notin Kickers
  /\ StartWaits \subseteq BOOLEAN
  /\ MaxStarts \in Nat /\ MaxKicks \in Nat /\ MaxResets \in Nat

Callers == Kickers \cup {Owner}

VARIABLES
  state,           \* state_
  kicked,          \* kicked_
  stop_requested,  \* Stoppable::stop_requested_
  signalled,       \* Ossignals::signalled_
  thread,          \* thread_: no std::thread, one to be joined, one joined
  exception_ptr,   \* whether exception_ptr_ holds an exception
  wpc,             \* where the worker's thread is
  pc,              \* where each caller is
  arg,             \* each caller's arguments: start(kicked, wait), stop(wait)
  destroyed,       \* ~Worker has returned
  terminated,      \* std::terminate has been called
  \* History, read by the bounds and the properties alone:
  starts,          \* threads started
  kicks,           \* stores of true to kicked_
  resets,          \* calls of Ossignals::reset
  iterations,      \* iterations of work() begun
  late,            \* those begun after stop_requested_ was set
  threw            \* what the thread's work() has thrown: nothing, a std::exception
                   \* or something else

shared == <<state, kicked, stop_requested, signalled, thread, exception_ptr>>
hist == <<starts, kicks, resets, iterations, late, threw>>
vars == <<shared, wpc, pc, arg, destroyed, terminated, hist>>

States == {"Stopped", "Starting", "Started", "KickWaiting", "Stopping"}

\* The points of the thread's function (worker.cpp:26-47) and, inside work(),
\* of wait_for_kick (worker.cpp:71-101).
InWork == {"cas", "waitcheck", "waitsignal", "enter", "wait", "cv", "check",
           "checksignal", "go", "nogo", "iterate", "catch"}
Live == {"begin", "notify", "finish", "tail"} \cup InWork
WorkerPoints == {"none", "exited"} \cup Live

CallerPoints == {"idle", "prepare", "spawn", "startlock", "startcv", "startnotified",
                 "stopkick", "kicknotify", "join"}

Arguments == [kicked : BOOLEAN, wait : BOOLEAN, destroy : BOOLEAN]

Init ==
  /\ state = "Stopped"
  /\ kicked = FALSE
  /\ stop_requested = FALSE
  /\ signalled = FALSE
  /\ thread = "null"
  /\ exception_ptr = FALSE
  /\ wpc = "none"
  /\ pc = [c \in Callers |-> "idle"]
  /\ arg = [c \in Callers |-> [kicked |-> FALSE, wait |-> FALSE, destroy |-> FALSE]]
  /\ destroyed = FALSE
  /\ terminated = FALSE
  /\ starts = 0 /\ kicks = 0 /\ resets = 0 /\ iterations = 0 /\ late = 0
  /\ threw = "none"

\* Nothing runs any more once std::terminate was called.
At(c, point) == ~terminated /\ pc[c] = point

WorkerAt(point) == ~terminated /\ wpc = point

Goto(c, point) == pc' = [pc EXCEPT ![c] = point]

-----------------------------------------------------------------------------
(* start(kicked, wait)                                                     *)

\* MUTANT of StartCas: the state is not compared, start() always goes on.
StartCasAnyState(k, w) ==
  /\ At(Owner, "idle") /\ ~destroyed
  /\ starts < MaxStarts
  /\ state' = "Starting"
  /\ arg' = [arg EXCEPT ![Owner].kicked = k, ![Owner].wait = w]
  /\ Goto(Owner, "prepare")
  /\ starts' = starts + 1
  /\ UNCHANGED <<kicked, stop_requested, signalled, thread, exception_ptr, wpc,
                 destroyed, terminated, kicks, resets, iterations, late, threw>>

\* The guard: a worker that is not stopped is left alone.
StartCas(k, w) ==
  /\ At(Owner, "idle") /\ ~destroyed
  /\ starts < MaxStarts
  /\ IF state = "Stopped"
       THEN /\ state' = "Starting"
            /\ arg' = [arg EXCEPT ![Owner].kicked = k, ![Owner].wait = w]
            /\ Goto(Owner, "prepare")
            /\ starts' = starts + 1
       ELSE UNCHANGED <<state, arg, pc, starts>>
  /\ UNCHANGED <<kicked, stop_requested, signalled, thread, exception_ptr, wpc,
                 destroyed, terminated, kicks, resets, iterations, late, threw>>

StartPrepare ==
  /\ At(Owner, "prepare")
  /\ exception_ptr' = FALSE
  /\ kicked' = arg[Owner].kicked
  /\ kicks' = IF arg[Owner].kicked THEN kicks + 1 ELSE kicks
  /\ threw' = "none"
  /\ Goto(Owner, "spawn")
  /\ UNCHANGED <<state, stop_requested, signalled, thread, wpc, arg, destroyed,
                 terminated, starts, resets, iterations, late>>

\* Assigning thread_ destroys the std::thread it held: one that was not joined, as
\* when the thread before has ended by itself, calls std::terminate.
StartSpawn ==
  /\ At(Owner, "spawn")
  /\ IF thread = "joinable"
       THEN /\ terminated' = TRUE
            /\ UNCHANGED <<thread, wpc, pc>>
       ELSE /\ thread' = "joinable"
            /\ wpc' = "begin"
            /\ Goto(Owner, IF arg[Owner].wait THEN "startlock" ELSE "idle")
            /\ UNCHANGED terminated
  /\ UNCHANGED <<state, kicked, stop_requested, signalled, exception_ptr, arg,
                 destroyed, hist>>

StartWait ==
  /\ At(Owner, "startlock")
  /\ Goto(Owner, "startcv")
  /\ UNCHANGED <<shared, wpc, arg, destroyed, terminated, hist>>

\* 100 ms have passed, or the notification came too late to be told from that:
\* the loop waits again.
StartTimeout ==
  /\ At(Owner, "startcv") \/ At(Owner, "startnotified")
  /\ Goto(Owner, "startlock")
  /\ UNCHANGED <<shared, wpc, arg, destroyed, terminated, hist>>

StartNotified ==
  /\ At(Owner, "startnotified")
  /\ Goto(Owner, "idle")
  /\ UNCHANGED <<shared, wpc, arg, destroyed, terminated, hist>>

-----------------------------------------------------------------------------
(* kick()                                                                  *)

Kick(c) ==
  /\ At(c, "idle") /\ ~destroyed
  /\ kicks < MaxKicks
  /\ kicked' = TRUE
  /\ kicks' = kicks + 1
  /\ arg' = [arg EXCEPT ![c].wait = FALSE, ![c].destroy = FALSE]
  /\ Goto(c, "kicknotify")
  /\ UNCHANGED <<state, stop_requested, signalled, thread, exception_ptr, wpc, destroyed,
                 terminated, starts, resets, iterations, late, threw>>

\* notify_one of kicked_cv_ wakes the worker's thread if it is waiting.  stop()
\* calls kick() too, and goes on to its join.
KickNotify(c) ==
  /\ At(c, "kicknotify")
  /\ wpc' = IF wpc = "cv" THEN "cas" ELSE wpc
  /\ Goto(c, IF arg[c].wait THEN "join" ELSE "idle")
  /\ UNCHANGED <<shared, arg, destroyed, terminated, hist>>

-----------------------------------------------------------------------------
(* stop(wait) and ~Worker, which is stop(true)                             *)

\* Owner and Kickers may stop without waiting; only Owner joins, as two joins
\* of one std::thread are undefined.
StopCas(c, w, d) ==
  /\ At(c, "idle") /\ ~destroyed
  /\ w => c = Owner
  /\ d => w
  /\ arg' = [arg EXCEPT ![c].wait = w, ![c].destroy = d]
  /\ stop_requested' = TRUE
  /\ Goto(c, CASE ~stop_requested -> "stopkick"
               [] stop_requested /\ w -> "join"
               [] OTHER -> "idle")
  /\ UNCHANGED <<state, kicked, signalled, thread, exception_ptr, wpc, destroyed,
                 terminated, hist>>

StopKick(c) ==
  /\ At(c, "stopkick")
  /\ kicked' = TRUE
  /\ kicks' = kicks + 1
  /\ Goto(c, "kicknotify")
  /\ UNCHANGED <<state, stop_requested, signalled, thread, exception_ptr, wpc, arg,
                 destroyed, terminated, starts, resets, iterations, late, threw>>

\* MUTANT of StopJoin: thread_ is reset without a join.
StopJoinNoWait ==
  /\ At(Owner, "join")
  /\ thread' = "null"
  /\ Goto(Owner, "idle")
  /\ destroyed' = arg[Owner].destroy
  /\ UNCHANGED <<state, kicked, stop_requested, signalled, exception_ptr, wpc, arg,
                 terminated, hist>>

\* MUTANT of StopJoin: thread_ is joined and not reset.
StopJoinNoReset ==
  /\ At(Owner, "join")
  /\ \/ /\ thread = "joined"
        /\ terminated' = TRUE
        /\ UNCHANGED <<thread, pc, destroyed>>
     \/ /\ thread = "joinable" => wpc = "exited"
        /\ thread # "joined"
        /\ thread' = IF thread = "joinable" THEN "joined" ELSE thread
        /\ Goto(Owner, "idle")
        /\ destroyed' = arg[Owner].destroy
        /\ UNCHANGED terminated
  /\ UNCHANGED <<state, kicked, stop_requested, signalled, exception_ptr, wpc, arg, hist>>

\* if (thread_) { join; reset }
StopJoin ==
  /\ At(Owner, "join")
  /\ thread = "joinable" => wpc = "exited"
  /\ thread' = "null"
  /\ Goto(Owner, "idle")
  /\ destroyed' = arg[Owner].destroy
  /\ UNCHANGED <<state, kicked, stop_requested, signalled, exception_ptr, wpc, arg,
                 terminated, hist>>

-----------------------------------------------------------------------------
(* The worker's thread: its function, with the work() of worker_test.cpp   *)
(* (while wait_for_kick, do one piece of work that may throw).             *)

ThreadBegin ==
  /\ WorkerAt("begin")
  /\ IF state = "Starting"
       THEN state' = "Started" /\ wpc' = "notify"
       ELSE wpc' = "finish" /\ UNCHANGED state
  /\ UNCHANGED <<kicked, stop_requested, signalled, thread, exception_ptr, pc, arg,
                 destroyed, terminated, hist>>

\* notify_one of thread_started_cv_: lost unless Owner is waiting already.
ThreadNotify ==
  /\ WorkerAt("notify") /\ wpc' = "cas"
  /\ pc' = IF pc[Owner] = "startcv" THEN [pc EXCEPT ![Owner] = "startnotified"] ELSE pc
  /\ UNCHANGED <<shared, arg, destroyed, terminated, hist>>

\* MUTANT of WaitCas: a plain load in place of the compare-exchange.
WaitCasLoad ==
  /\ WorkerAt("cas")
  /\ wpc' = IF kicked THEN "check" ELSE "waitcheck"
  /\ UNCHANGED <<shared, pc, arg, destroyed, terminated, hist>>

\* kicked_.compare_exchange_strong(true, false)
WaitCas ==
  /\ WorkerAt("cas")
  /\ kicked' = FALSE
  /\ wpc' = IF kicked THEN "check" ELSE "waitcheck"
  /\ UNCHANGED <<state, stop_requested, signalled, thread, exception_ptr, pc, arg,
                 destroyed, terminated, hist>>

\* is_stopping(): two atomic loads, the second when the first is false.
IsStopping(first, second, yes, no) ==
  \/ WorkerAt(first) /\ wpc' = IF stop_requested THEN yes ELSE second
  \/ WorkerAt(second) /\ wpc' = IF signalled THEN yes ELSE no

\* MUTANT of WaitCheck: the wait does not end when the worker is stopping.
WaitCheckNever ==
  /\ WorkerAt("waitcheck") /\ wpc' = "enter"
  /\ UNCHANGED <<shared, pc, arg, destroyed, terminated, hist>>

\* if (is_stopping()) break
WaitCheck ==
  /\ IsStopping("waitcheck", "waitsignal", "check", "enter")
  /\ UNCHANGED <<shared, pc, arg, destroyed, terminated, hist>>

WaitEnter ==
  /\ WorkerAt("enter") /\ wpc' = "wait"
  /\ state' = IF state = "Started" THEN "KickWaiting" ELSE state
  /\ UNCHANGED <<kicked, stop_requested, signalled, thread, exception_ptr, pc, arg,
                 destroyed, terminated, hist>>

\* A timeout above 0 waits on kicked_cv_, a timeout of 0 yields.
WaitBegin ==
  /\ WorkerAt("wait")
  /\ wpc' \in {"cv", "cas"}
  /\ UNCHANGED <<shared, pc, arg, destroyed, terminated, hist>>

\* MUTANT of WaitTimeout: wait() in place of wait_for().
WaitForever == FALSE /\ UNCHANGED vars

\* The timed wait ends by itself, as a spurious wake-up also would end it.
WaitTimeout ==
  /\ WorkerAt("cv") /\ wpc' = "cas"
  /\ UNCHANGED <<shared, pc, arg, destroyed, terminated, hist>>

\* MUTANT of StopCheck: only the loop looks at the stop request.
StopCheckMissing ==
  /\ WorkerAt("check") /\ wpc' = "go"
  /\ UNCHANGED <<shared, pc, arg, destroyed, terminated, hist>>

StopCheck ==
  /\ IsStopping("check", "checksignal", "nogo", "go")
  /\ UNCHANGED <<shared, pc, arg, destroyed, terminated, hist>>

\* wait_for_kick returns false and work() returns.
WaitReturnsFalse ==
  /\ WorkerAt("nogo") /\ wpc' = "finish"
  /\ state' = "Stopping"
  /\ UNCHANGED <<kicked, stop_requested, signalled, thread, exception_ptr, pc, arg,
                 destroyed, terminated, hist>>

\* wait_for_kick returns true and work() begins an iteration.
WaitReturnsTrue ==
  /\ WorkerAt("go") /\ wpc' = "iterate"
  /\ state' = "Started"
  /\ iterations' = iterations + 1
  /\ late' = IF stop_requested THEN late + 1 ELSE late
  /\ UNCHANGED <<kicked, stop_requested, signalled, thread, exception_ptr, pc, arg,
                 destroyed, terminated, starts, kicks, resets, threw>>

Iterate ==
  /\ WorkerAt("iterate")
  /\ \/ wpc' = "cas" /\ UNCHANGED threw
     \/ wpc' = "catch" /\ threw' \in {"exception", "other"}
  /\ UNCHANGED <<shared, pc, arg, destroyed, terminated, starts, kicks, resets,
                 iterations, late>>

\* MUTANT of Catch: the exception is logged and not kept.
CatchLogOnly ==
  /\ WorkerAt("catch") /\ threw = "exception"
  /\ wpc' = "finish"
  /\ UNCHANGED <<shared, pc, arg, destroyed, terminated, hist>>

\* Only a std::exception is caught: anything else leaves the thread's function,
\* which is std::terminate.
Catch ==
  /\ WorkerAt("catch")
  /\ IF threw = "exception"
       THEN exception_ptr' = TRUE /\ wpc' = "finish" /\ UNCHANGED terminated
       ELSE terminated' = TRUE /\ UNCHANGED <<exception_ptr, wpc>>
  /\ UNCHANGED <<state, kicked, stop_requested, signalled, thread, pc, arg, destroyed, hist>>

ThreadStopped ==
  /\ WorkerAt("finish") /\ wpc' = "tail"
  /\ state' = "Stopped"
  /\ UNCHANGED <<kicked, stop_requested, signalled, thread, exception_ptr, pc, arg,
                 destroyed, terminated, hist>>

ThreadExit ==
  /\ WorkerAt("tail") /\ wpc' = "exited"
  /\ UNCHANGED <<shared, pc, arg, destroyed, terminated, hist>>

-----------------------------------------------------------------------------
(* Ossignals, as far as the worker sees it                                 *)

OsHandle ==
  /\ ~terminated
  /\ signalled' = TRUE
  /\ UNCHANGED <<state, kicked, stop_requested, thread, exception_ptr, wpc, pc, arg,
                 destroyed, terminated, hist>>

OsReset ==
  /\ ~terminated
  /\ resets < MaxResets
  /\ signalled' = FALSE
  /\ resets' = resets + 1
  /\ UNCHANGED <<state, kicked, stop_requested, thread, exception_ptr, wpc, pc, arg,
                 destroyed, terminated, starts, kicks, iterations, late, threw>>

-----------------------------------------------------------------------------
WorkerStep ==
  \/ ThreadBegin \/ ThreadNotify
  \/ WaitCas \/ WaitCheck \/ WaitEnter \/ WaitBegin \/ WaitTimeout
  \/ StopCheck \/ WaitReturnsFalse \/ WaitReturnsTrue
  \/ Iterate \/ Catch \/ ThreadStopped \/ ThreadExit

\* A call under way goes on; the caller decides when to make the next one.
OwnerStep ==
  StartPrepare \/ StartSpawn \/ StartWait \/ StartTimeout \/ StartNotified \/ StopJoin

CallStep(c) == KickNotify(c) \/ StopKick(c)

Call(c) == Kick(c) \/ \E w, d \in BOOLEAN : StopCas(c, w, d)

OwnerStart == \E k \in BOOLEAN, w \in StartWaits : StartCas(k, w)

\* The object is gone and its thread has ended.
Ended ==
  /\ destroyed \/ terminated
  /\ UNCHANGED vars

Next ==
  \/ WorkerStep
  \/ OwnerStep
  \/ OwnerStart
  \/ \E c \in Callers : CallStep(c) \/ Call(c)
  \/ OsHandle
  \/ OsReset
  \/ Ended

Spec == Init /\ [][Next]_vars

\* The operating system schedules the worker's thread and every thread inside a
\* call; work() ends every iteration; a timed wait ends.  Nobody has to make a
\* call, and no signal has to arrive.
Fairness ==
  /\ WF_vars(WorkerStep)
  /\ WF_vars(OwnerStep)
  /\ \A c \in Callers : WF_vars(CallStep(c))

FairSpec == Spec /\ Fairness

-----------------------------------------------------------------------------
(* Properties                                                              *)

\* Every member holds a value of its type and every thread is at a point of its code;
\* thread_ is empty or holds a thread that can be joined, never one that was.
TypeOK ==
  /\ state \in States
  /\ kicked \in BOOLEAN /\ stop_requested \in BOOLEAN /\ signalled \in BOOLEAN
  /\ thread \in {"null", "joinable"}
  /\ exception_ptr \in BOOLEAN
  /\ wpc \in WorkerPoints
  /\ pc \in [Callers -> CallerPoints]
  /\ arg \in [Callers -> Arguments]
  /\ destroyed \in BOOLEAN /\ terminated \in BOOLEAN
  /\ starts \in Nat /\ kicks \in Nat /\ resets \in Nat /\ iterations \in Nat
  /\ late \in Nat /\ threw \in {"none", "exception", "other"}

\* A thread of this worker that still runs is held by thread_, so that a later
\* stop(true) joins it; once ~Worker has returned no thread runs on the object
\* (Worker::stop, worker.cpp:56-64).
NoOrphanThread ==
  /\ wpc \in Live => thread = "joinable"
  /\ destroyed => wpc \notin Live

\* The process ends in std::terminate in two cases only: start() over a thread that has
\* shown kStopped by itself and was not joined, and a work() that throws something other
\* than a std::exception.  A thread still inside its work is never replaced, and no
\* stop() and no ~Worker ends the process (worker.cpp:17, 26, 38, 60).
TerminateCauses ==
  terminated =>
    \/ pc[Owner] = "spawn" /\ wpc \in {"tail", "exited"} /\ state = "Starting"
    \/ wpc = "catch" /\ threw = "other"

\* start() on a worker in state kStopped starts its thread: "Start worker thread with
\* provided kicked state" (worker.hpp:40), by a function that is noexcept.
StartStarts == ~(terminated /\ pc[Owner] = "spawn")

\* A thread that has been asked to stop begins at most one more iteration of its
\* work, even though the request is read before the iteration begins
\* (wait_for_kick, worker.cpp:93-100).
AtMostOneLateIteration == late <= 1

\* No iteration without a kick: kicks may be merged, never multiplied.  Only
\* Ossignals::reset between the two reads of is_stopping() lets wait_for_kick
\* return true to a thread nobody kicked, once per reset (worker.cpp:73-100).
WorkNeedsKick == iterations <= kicks + resets

\* A thread that ended because its work threw has left its exception for
\* has_exception() before it shows the state kStopped, until the next start()
\* (worker.cpp:36-44, worker_test.cpp:87-88).
ExceptionKept == threw # "none" /\ wpc \in {"tail", "exited"} => exception_ptr

\* state_ changes only along the life of a thread, whoever writes it: start() from
\* kStopped alone, kStopped from the end of the thread alone (worker.cpp:17,32,44,80,94,98).
StateChange ==
  \/ state = "Stopped" /\ state' = "Starting"
  \/ state = "Starting" /\ state' = "Started"
  \/ state = "Started" /\ state' \in {"KickWaiting", "Stopping", "Stopped"}
  \/ state = "KickWaiting" /\ state' \in {"Started", "Stopping"}
  \/ state = "Stopping" /\ state' = "Stopped"

StateLifeCycle == [][StateChange]_state

\* A kick reaches a running thread although its notification may be lost: the
\* thread takes it or ends (worker.cpp:66-69, 83-85).
KickTaken == (kicked /\ wpc \in Live) ~> (~kicked \/ wpc = "exited" \/ terminated)

\* A running thread ends once stop() was called (worker.cpp:56-58, 77, 93), and after a
\* signal too, which kicks nobody, unless the signal is reset first (stoppable.cpp:20).
StopHonoured ==
  /\ (stop_requested /\ wpc \in Live) ~> (wpc = "exited" \/ terminated)
  /\ (signalled /\ wpc \in Live) ~> (wpc = "exited" \/ ~signalled \/ terminated)

\* stop(true), and with it ~Worker, returns (worker.cpp:59-62).
StopReturns == (pc[Owner] = "join") ~> (pc[Owner] = "idle" \/ terminated)

\* start(kicked, true) returns: it "optionally waits for thread started"
\* (worker.hpp:40-41) and the thread does start.
StartReturns ==
  (pc[Owner] \in {"startlock", "startcv", "startnotified"})
    ~> (pc[Owner] = "idle" \/ terminated)
=============================================================================
