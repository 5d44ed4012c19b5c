-------------------------- MODULE AsioTimerProofs ---------------------------
(***************************************************************************)
(* Proofs about AsioTimer for any number of callers and calls.             *)
(*                                                                         *)
(* NeverStranded is inductive with the types.  OneChain and                *)
(* AtMostOneLateCallback need where each thread can be at all (Places) and,*)
(* for the second, that a call back begun after stop() is the last of its  *)
(* chain (LateInv).                                                        *)
(***************************************************************************)
EXTENDS AsioTimer, SequenceTheorems, TLAPS

\* Io does not restart the timer from the call back: its own handler is outstanding.
NoRestartByIo == ~Launching(Io)

\* A call back that began after stop() ends its chain.
LateInv ==
  /\ lateCalls <= 1
  /\ lateCalls > 0 =>
       /\ ~is_running
       /\ tpc[Io] \in {"callback", "check", "cancel"} \/ Chains = 0
       /\ \A t \in TimerCallers : ~Launching(t)

IInv == Types /\ Places /\ NeverStranded

DrainedInv == IInv /\ NoRestartByIo /\ OneChain /\ LateInv

-----------------------------------------------------------------------------
\* Completing the pending waits makes as many handlers ready and loses none.
LEMMA Completed ==
  ASSUME Types, NEW code \in Codes, Complete(code)
  PROVE  /\ ready' \in Seq(Codes)
         /\ Len(ready') = Len(ready) + pending
         /\ pending' = 0
<1> DEFINE codes == [i \in 1 .. pending |-> code]
<1>1. codes \in Seq(Codes) /\ Len(codes) = pending
  BY DEF Types
<1>2. ready' = ready \o codes /\ pending' = 0
  BY DEF Complete
<1> HIDE DEF codes
<1>3. ready \in Seq(Codes)
  BY DEF Types
<1> QED
  BY <1>1, <1>2, <1>3, ConcatProperties

\* A sequence of codes is empty just when its length is 0.
LEMMA ReadyLength ==
  ASSUME Types
  PROVE  Len(ready) \in Nat /\ (ready = <<>> <=> Len(ready) = 0)
  BY DEF Types

-----------------------------------------------------------------------------
\* Every step keeps the types, the places and a wait for a running timer.
LEMMA Inductive == IInv /\ [TimerNext]_timerVars => IInv'
<1> SUFFICES ASSUME IInv, [TimerNext]_timerVars
             PROVE  IInv'
  OBVIOUS
<1> USE DEF IInv
<1>io. Io \in Threads /\ Io \notin TimerCallers /\ TimerCallers \subseteq Threads
  BY TimerAssumption DEF Threads
<1>1. ASSUME NEW t \in Threads, Cancel(t)
      PROVE  IInv'
  <2>1. /\ ready' \in Seq(Codes) /\ pending' = 0
        /\ Len(ready') = Len(ready) + pending
    BY <1>1, Completed DEF Cancel, Codes
  <2>2. Outstanding' <=> Outstanding
    BY <1>1, <2>1, <1>io, ReadyLength DEF Outstanding, Cancel, TimerGoto, Home, Types
  <2>3. Types' /\ Places'
    BY <1>1, <2>1, <1>io DEF Types, Places, Cancel, TimerGoto, Home, Points
  <2>4. NeverStranded'
    BY <1>1, <2>2, <1>io DEF NeverStranded, Launching, Cancel, TimerGoto, Home, Types
  <2> QED
    BY <2>3, <2>4
<1>2. ASSUME NEW t \in Threads, LaunchExpires(t)
      PROVE  IInv'
  <2>1. /\ ready' \in Seq(Codes) /\ pending' = 0
        /\ Len(ready') = Len(ready) + pending
    BY <1>2, Completed DEF LaunchExpires, Codes
  <2>2. Outstanding' <=> Outstanding
    BY <1>2, <2>1, <1>io, ReadyLength DEF Outstanding, LaunchExpires, TimerGoto, Types
  <2>3. Types' /\ Places'
    BY <1>2, <2>1, <1>io DEF Types, Places, LaunchExpires, TimerGoto, Points
  <2>4. NeverStranded'
    BY <1>2, <2>2, <1>io DEF NeverStranded, Launching, LaunchExpires, TimerGoto, Types
  <2> QED
    BY <2>3, <2>4
<1>3. ASSUME NEW t \in Threads, LaunchWait(t)
      PROVE  IInv'
  <2>1. Types' /\ Places'
    BY <1>3, <1>io DEF Types, Places, LaunchWait, TimerGoto, Home, Points
  <2>2. Outstanding'
    BY <1>3 DEF Outstanding, LaunchWait, Types
  <2> QED
    BY <2>1, <2>2 DEF NeverStranded
<1>4. ASSUME NEW t \in Threads, TimerCall(t)
      PROVE  IInv'
  <2>1. CASE Start(t)
    <3>1. is_running' = TRUE /\ tpc[t] = Home(t)
      BY <2>1 DEF Start, CanCall
    <3>2. tpc' = tpc \/ tpc' = [tpc EXCEPT ![t] = "launch"]
      BY <2>1 DEF Start, TimerGoto
    <3>b. is_running' \in BOOLEAN
      BY <3>1
    <3>l. lateCalls' \in Nat
      BY <2>1 DEF Start, Types
    <3>3. Types'
      BY <2>1, <3>b, <3>l, <3>2 DEF Start, CanCall, Types, Points
    <3>4. Places'
      BY <2>1, <3>1, <3>2, <1>io DEF Places, Home, Types
    <3>5. NeverStranded'
      BY <2>1, <3>1, <3>2, <1>io
      DEF NeverStranded, Outstanding, Launching, Start, TimerGoto, Types, Threads
    <3> QED
      BY <3>3, <3>4, <3>5
  <2>2. CASE Stop(t)
    <3>1. is_running' = FALSE /\ tpc[t] = Home(t)
      BY <2>2 DEF Stop, CanCall, Types
    <3>2. tpc' = tpc \/ tpc' = [tpc EXCEPT ![t] = "cancel"]
      BY <2>2 DEF Stop, TimerGoto
    <3>b. is_running' \in BOOLEAN
      BY <3>1
    <3>l. lateCalls' \in Nat
      BY <2>2 DEF Stop, Types
    <3>3. Types'
      BY <2>2, <3>b, <3>l, <3>2 DEF Stop, CanCall, Types, Points
    <3>4. Places'
      BY <3>1, <3>2, <1>io DEF Places, Home, Types
    <3> QED
      BY <3>1, <3>3, <3>4 DEF NeverStranded
  <2>3. CASE Reset(t)
    <3>1. tpc[t] = Home(t) /\ tpc' = [tpc EXCEPT ![t] = "cancel"]
      BY <2>3 DEF Reset, CanCall, TimerGoto
    <3>2. Types' /\ Places'
      BY <2>3, <3>1, <1>io DEF Reset, CanCall, Types, Points, Places, Home
    <3>3. NeverStranded'
      BY <2>3, <3>1, <1>io DEF NeverStranded, Outstanding, Launching, Reset, Home, Types
    <3> QED
      BY <3>2, <3>3
  <2> QED
    BY <1>4, <2>1, <2>2, <2>3 DEF TimerCall
<1>5. CASE Expire
  <2>1. /\ ready' \in Seq(Codes) /\ pending' = 0
        /\ Len(ready') = Len(ready) + pending
    BY <1>5, Completed DEF Expire, Codes
  <2>2. Types' /\ Places'
    BY <1>5, <2>1 DEF Types, Places, Expire
  <2>3. Outstanding'
    BY <1>5, <2>1, <2>2, ReadyLength DEF Outstanding, Expire, Types
  <2> QED
    BY <2>2, <2>3 DEF NeverStranded
<1>6. CASE HandlerBegin
  <2>1. Head(ready) \in Codes /\ Tail(ready) \in Seq(Codes)
    BY <1>6 DEF HandlerBegin, Types
  <2>2. Types' /\ Places'
    BY <1>6, <2>1, <1>io DEF Types, Places, HandlerBegin, TimerGoto, Points
  <2>3. NeverStranded'
    BY <1>6, <1>io DEF NeverStranded, Outstanding, HandlerBegin, TimerGoto, Types
  <2> QED
    BY <2>2, <2>3
<1>7. CASE HandlerCallback \/ CallbackReturns \/ HandlerCheck
  <2>1. Types' /\ Places'
    BY <1>7, <1>io
    DEF Types, Places, HandlerCallback, CallbackReturns, HandlerCheck, TimerGoto, Points
  <2>2. NeverStranded'
    BY <1>7, <1>io
    DEF NeverStranded, Outstanding, HandlerCallback, CallbackReturns, HandlerCheck, TimerGoto, Types
  <2> QED
    BY <2>1, <2>2
<1>8. CASE UNCHANGED timerVars
  BY <1>8 DEF timerVars, Types, Places, NeverStranded, Outstanding, Launching
<1> QED
  BY <1>1, <1>2, <1>3, <1>4, <1>5, <1>6, <1>7, <1>8 DEF TimerNext, ThreadStep, IoStep, Idle

\* The initial state has the types and no running timer.
LEMMA Initial == TimerInit => IInv
<1> SUFFICES ASSUME TimerInit
             PROVE  IInv
  OBVIOUS
<1>1. Types
  <2>1. is_running \in BOOLEAN
    BY DEF TimerInit
  <2>2. tpc \in [Threads -> Points]
    BY DEF TimerInit, Points
  <2>3. ready \in Seq(Codes)
    BY DEF TimerInit
  <2> QED
    BY <2>1, <2>2, <2>3 DEF TimerInit, Types, Codes
<1>2. Places /\ NeverStranded
  BY TimerAssumption DEF TimerInit, Places, NeverStranded, Threads
<1> QED
  BY <1>1, <1>2 DEF IInv

LEMMA Invariant == TimerSpec => []IInv
  BY Initial, Inductive, PTL DEF TimerSpec

\* Type correctness of the timer, for any number of callers and calls (asio_timer.hpp).
THEOREM TypeCorrect == TimerSpec => []TimerTypeOK
<1>1. IInv => TimerTypeOK
  BY DEF IInv, TimerTypeOK
<1> QED
  BY <1>1, Invariant, PTL

\* A running timer always has a handler pending, ready, running or about to be submitted,
\* whoever calls start, stop and reset and however the calls overlap, restarts with the old
\* handler still queued included (asio_timer.hpp:48-53, 68-78).
THEOREM Stranded == TimerSpec => []NeverStranded
<1>1. IInv => NeverStranded
  BY DEF IInv
<1> QED
  BY <1>1, Invariant, PTL

-----------------------------------------------------------------------------
\* Nothing is outstanding just when there is no chain.
LEMMA NoChain ==
  ASSUME Types
  PROVE  Chains \in Nat /\ (Outstanding <=> Chains # 0)
  BY ReadyLength DEF Chains, Outstanding, Types

\* Completing waits, on a step that keeps Io in or out of its handlers, keeps the chains.
LEMMA CompletedChains ==
  ASSUME Types, NEW code \in Codes, Complete(code),
         tpc'[Io] = "run" <=> tpc[Io] = "run"
  PROVE  Chains' = Chains
<1>1. Len(ready') = Len(ready) + pending /\ pending' = 0
  BY Completed
<1>2. Len(ready) \in Nat /\ pending \in Nat
  BY ReadyLength DEF Types
<1> QED
  BY <1>1, <1>2 DEF Chains

\* When a timer is only restarted once its handler has gone, every step keeps one chain.
LEMMA DrainedInductive ==
  ASSUME RestartDrained, DrainedInv, [TimerNext]_timerVars
  PROVE  DrainedInv'
<1> USE DEF DrainedInv
<1>io. Io \in Threads /\ Io \notin TimerCallers /\ Threads = TimerCallers \cup {Io}
  BY TimerAssumption DEF Threads
<1>t. Types /\ Places /\ IInv' /\ Types'
  BY Inductive DEF IInv
<1>tpc. tpc \in [Threads -> Points]
  BY <1>t DEF Types
<1>n. Chains \in Nat /\ lateCalls \in Nat
  BY <1>t, NoChain DEF Types
<1> SUFFICES NoRestartByIo' /\ OneChain' /\ LateInv'
  BY <1>t
<1>1. ASSUME NEW t \in Threads, Cancel(t)
      PROVE  NoRestartByIo' /\ OneChain' /\ LateInv'
  <2>1. tpc' = [tpc EXCEPT ![t] = Home(t)] /\ tpc[t] = "cancel"
    BY <1>1 DEF Cancel, TimerGoto
  <2>2. Chains' = Chains
    BY <1>1, <1>t, <1>io, <2>1, CompletedChains DEF Cancel, Codes, Home, Types
  <2> QED
    BY <1>1, <1>io, <1>tpc, <1>n, <2>1, <2>2
    DEF Cancel, NoRestartByIo, OneChain, LateInv, Launching, Home
<1>2. ASSUME NEW t \in Threads, LaunchExpires(t)
      PROVE  NoRestartByIo' /\ OneChain' /\ LateInv'
  <2>1. /\ tpc' = [tpc EXCEPT ![t] = IF tpc[t] = "launch" THEN "wait" ELSE "rewait"]
        /\ tpc[t] \in {"launch", "relaunch"}
    BY <1>2 DEF LaunchExpires, TimerGoto
  <2>2. Chains' = Chains
    BY <1>2, <1>t, <1>io, <2>1, CompletedChains DEF LaunchExpires, Codes, Types
  <2>3. \A u \in Threads : Launching(u)' <=> Launching(u)
    BY <1>io, <1>tpc, <2>1 DEF Launching
  <2>4. lateCalls > 0 => Chains = 0 /\ tpc[Io] = "run"
    BY <1>io, <1>n, <1>t, <2>1 DEF LateInv, Launching, Places, Chains, Types
  <2> QED
    BY <1>2, <1>io, <1>n, <2>2, <2>3, <2>4
    DEF LaunchExpires, NoRestartByIo, OneChain, LateInv
<1>3. ASSUME NEW t \in Threads, LaunchWait(t)
      PROVE  NoRestartByIo' /\ OneChain' /\ LateInv'
  <2>1. /\ tpc' = [tpc EXCEPT ![t] = IF tpc[t] = "wait" THEN Home(t) ELSE "run"]
        /\ tpc[t] \in {"wait", "rewait"} /\ pending' = pending + 1
    BY <1>3 DEF LaunchWait, TimerGoto
  <2>2. CASE t = Io
    <3>1. tpc[Io] = "rewait" /\ tpc' = [tpc EXCEPT ![Io] = "run"]
      BY <2>1, <2>2 DEF NoRestartByIo, Launching
    <3>2. Chains' = Chains
      BY <1>3, <1>io, <1>tpc, <1>t, <3>1, <2>1, ReadyLength DEF Chains, LaunchWait, Types
    <3>3. lateCalls = 0
      BY <1>n, <1>t, <3>1, ReadyLength DEF LateInv, Chains, Types
    <3> QED
      BY <1>3, <1>io, <1>tpc, <3>1, <3>2, <3>3
      DEF LaunchWait, NoRestartByIo, OneChain, LateInv, Launching
  <2>3. CASE t \in TimerCallers
    <3>1. tpc[t] = "wait" /\ tpc' = [tpc EXCEPT ![t] = "idle"]
      BY <2>1, <2>3, <1>io, <1>t DEF Places, Home
    <3>2. Chains = 0 /\ \A u \in TimerCallers \ {t} : ~Launching(u)
      BY <2>3, <3>1 DEF OneChain, Launching
    <3>3. Chains' = 1
      BY <1>3, <1>io, <1>tpc, <1>t, <2>3, <3>1, <3>2, <2>1, ReadyLength
      DEF Chains, LaunchWait, Types
    <3>4. lateCalls = 0
      BY <1>n, <2>3, <3>1 DEF LateInv, Launching
    <3> QED
      BY <1>3, <1>io, <1>tpc, <2>3, <3>1, <3>2, <3>3, <3>4
      DEF LaunchWait, NoRestartByIo, OneChain, LateInv, Launching
  <2> QED
    BY <2>2, <2>3, <1>io
<1>4. ASSUME NEW t \in Threads, TimerCall(t)
      PROVE  NoRestartByIo' /\ OneChain' /\ LateInv'
  <2>h. tpc[t] = Home(t) /\ Home(t) = IF t = Io THEN "callback" ELSE "idle"
    BY <1>4 DEF TimerCall, Start, Stop, Reset, CanCall, Home
  <2>c. ASSUME NEW point, tpc' = [tpc EXCEPT ![t] = point], point # "run",
               UNCHANGED <<pending, ready>>
        PROVE  Chains' = Chains
    BY <2>c, <2>h, <1>io, <1>tpc DEF Chains
  <2>1. CASE Start(t) /\ ~is_running
    <3>1. /\ ~Outstanding /\ \A u \in TimerCallers : ~Launching(u)
          /\ tpc' = [tpc EXCEPT ![t] = "launch"] /\ lateCalls' = 0
          /\ UNCHANGED <<pending, ready>>
      BY <2>1 DEF Start, TimerGoto
    <3>2. t # Io /\ t \in TimerCallers
      BY <3>1, <2>h, <1>io DEF Outstanding
    <3>3. Chains' = 0
      BY <3>1, <2>c, <1>t, NoChain
    <3> QED
      BY <3>1, <3>2, <3>3, <1>io, <1>tpc DEF NoRestartByIo, OneChain, LateInv, Launching
  <2>2. CASE (Start(t) /\ is_running) \/ (Stop(t) /\ ~is_running)
    <3>1. UNCHANGED <<is_running, pending, ready, tpc, lateCalls>>
      BY <2>2, <1>t DEF Start, Stop, Types
    <3> QED
      BY <3>1 DEF NoRestartByIo, OneChain, LateInv, Launching, Chains
  <2>3. CASE Reset(t) \/ (Stop(t) /\ is_running)
    <3>1. /\ tpc' = [tpc EXCEPT ![t] = "cancel"] /\ UNCHANGED <<pending, ready>>
          /\ lateCalls' = 0 \/ UNCHANGED <<lateCalls, is_running>>
      BY <2>3 DEF Reset, Stop, TimerGoto
    <3>2. Chains' = Chains
      BY <3>1, <2>c
    <3> QED
      BY <3>1, <3>2, <2>h, <1>io, <1>tpc, <1>n
      DEF NoRestartByIo, OneChain, LateInv, Launching
  <2> QED
    BY <1>4, <2>1, <2>2, <2>3 DEF TimerCall
<1>5. CASE Expire
  <2>1. UNCHANGED <<is_running, tpc, lateCalls>>
    BY <1>5 DEF Expire
  <2>2. Chains' = Chains
    BY <1>5, <1>t, <2>1, CompletedChains DEF Expire, Codes
  <2> QED
    BY <2>1, <2>2 DEF NoRestartByIo, OneChain, LateInv, Launching
<1>6. CASE HandlerBegin
  <2>1. /\ tpc' = [tpc EXCEPT ![Io] = "handler"] /\ tpc[Io] = "run"
        /\ ready # <<>> /\ ready' = Tail(ready) /\ UNCHANGED <<is_running, pending, lateCalls>>
    BY <1>6 DEF HandlerBegin, TimerGoto
  <2>2. Len(ready') = Len(ready) - 1 /\ Len(ready) > 0
    BY <2>1, <1>t DEF Types
  <2>3. Chains' = Chains /\ Chains # 0
    BY <2>1, <2>2, <1>io, <1>tpc, <1>t DEF Chains, Types
  <2>4. lateCalls = 0
    BY <2>1, <2>3, <1>n DEF LateInv
  <2> QED
    BY <2>1, <2>3, <2>4, <1>io, <1>tpc DEF NoRestartByIo, OneChain, LateInv, Launching
<1>7. CASE HandlerCallback
  <2>1. /\ tpc[Io] = "handler" /\ UNCHANGED <<is_running, pending, ready>>
        /\ \/ tpc' = [tpc EXCEPT ![Io] = "callback"]
           \/ tpc' = [tpc EXCEPT ![Io] = "check"]
    BY <1>7 DEF HandlerCallback, TimerGoto
  <2>2. Chains' = Chains /\ Chains # 0
    BY <2>1, <1>io, <1>tpc, <1>t, ReadyLength DEF Chains, Types
  <2>3. lateCalls = 0 /\ \A u \in TimerCallers : ~Launching(u)
    BY <2>1, <2>2, <1>n DEF LateInv, OneChain
  <2>4. /\ lateCalls' = 0 \/ (lateCalls' = 1 /\ ~is_running')
        /\ tpc'[Io] \in {"callback", "check"}
    BY <1>7, <2>1, <2>3, <1>io, <1>tpc DEF HandlerCallback, MaxLate
  <2>5. \A u \in Threads : ~Launching(u)'
    BY <2>1, <2>3, <1>io, <1>tpc DEF Launching
  <2> QED
    BY <2>2, <2>4, <2>5, <1>io DEF NoRestartByIo, OneChain, LateInv
<1>8. CASE CallbackReturns
  <2>1. /\ tpc[Io] = "callback" /\ UNCHANGED <<is_running, pending, ready, lateCalls>>
        /\ tpc' = [tpc EXCEPT ![Io] = "check"]
    BY <1>8 DEF CallbackReturns, TimerGoto
  <2>2. Chains' = Chains
    BY <2>1, <1>io, <1>tpc DEF Chains
  <2> QED
    BY <2>1, <2>2, <1>io, <1>tpc, <1>n DEF NoRestartByIo, OneChain, LateInv, Launching
<1>9. CASE HandlerCheck
  <2>1. /\ tpc[Io] = "check" /\ UNCHANGED <<is_running, pending, ready, lateCalls>>
        /\ tpc' = [tpc EXCEPT ![Io] = IF is_running THEN "relaunch" ELSE "run"]
    BY <1>9 DEF HandlerCheck, TimerGoto
  <2>2. /\ Chains' = (IF is_running THEN 1 ELSE 0) /\ Chains = 1
    BY <2>1, <1>io, <1>tpc, <1>t, ReadyLength DEF OneChain, Chains, Types
  <2>3. \A u \in Threads : ~Launching(u)'
    BY <2>1, <2>2, <1>io, <1>tpc DEF OneChain, Launching
  <2> QED
    BY <2>1, <2>2, <2>3, <1>io, <1>tpc, <1>n DEF NoRestartByIo, OneChain, LateInv
<1>10. CASE UNCHANGED timerVars
  BY <1>10 DEF timerVars, NoRestartByIo, OneChain, LateInv, Launching, Chains
<1> QED
  BY <1>1, <1>2, <1>3, <1>4, <1>5, <1>6, <1>7, <1>8, <1>9, <1>10
  DEF TimerNext, ThreadStep, IoStep, Idle

LEMMA DrainedInvariant ==
  ASSUME RestartDrained
  PROVE  TimerSpec => []DrainedInv
<1>1. TimerInit => DrainedInv
  <2> SUFFICES ASSUME TimerInit
               PROVE  DrainedInv
    OBVIOUS
  <2>1. IInv
    BY Initial
  <2>2. tpc[Io] = "run" /\ Len(ready) = 0 /\ \A t \in Threads : ~Launching(t)
    BY DEF TimerInit, Launching, Threads
  <2>3. Chains = 0 /\ lateCalls = 0
    BY <2>2 DEF TimerInit, Chains
  <2> QED
    BY <2>1, <2>2, <2>3 DEF DrainedInv, NoRestartByIo, OneChain, LateInv, Threads
<1>2. DrainedInv /\ [TimerNext]_timerVars => DrainedInv'
  BY DrainedInductive
<1> QED
  BY <1>1, <1>2, PTL DEF TimerSpec

\* For any callers and calls, with restarts that wait for the old handler: there is one
\* handler at a time (asio_timer.hpp:50, 69-75).
THEOREM Chained == ASSUME RestartDrained PROVE TimerSpec => []OneChain
<1>1. DrainedInv => OneChain
  BY DEF DrainedInv
<1> QED
  BY <1>1, DrainedInvariant, PTL

\* For any callers and calls, with restarts that wait for the old handler: at most one call
\* back begins after stop() (asio_timer.hpp:56-61, 74-75).
THEOREM LateCallbacks == ASSUME RestartDrained PROVE TimerSpec => []AtMostOneLateCallback
<1>1. DrainedInv => AtMostOneLateCallback
  BY DEF DrainedInv, LateInv, AtMostOneLateCallback
<1> QED
  BY <1>1, DrainedInvariant, PTL
=============================================================================
