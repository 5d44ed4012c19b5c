---------------------------- MODULE WorkerProofs ----------------------------
(***************************************************************************)
(* Proofs about Worker for every set of Kickers and every bound.           *)
(***************************************************************************)
EXTENDS Worker, TLAPS

\* Where the owner, the thread, thread_ and state_ stand to one another.  A thread in
\* its tail has shown kStopped and may be met by the next start().
ThreadInv ==
  /\ pc[Owner] \in {"prepare", "spawn"} =>
       state = "Starting" /\ wpc \in {"none", "tail", "exited"}
  /\ wpc \in {"none", "tail", "exited"} =>
       state = "Stopped" \/ pc[Owner] \in {"prepare", "spawn"}
  /\ wpc \in Live => thread = "joinable"
  /\ wpc = "none" => thread = "null"
  /\ wpc = "begin" => state = "Starting"
  /\ wpc \in {"notify", "iterate", "catch"} => state = "Started"
  /\ wpc \in InWork => state \in {"Started", "KickWaiting"}
  /\ wpc = "finish" => state \in {"Started", "Stopping"}
  /\ wpc = "catch" => threw # "none"
  /\ destroyed => pc[Owner] = "idle" /\ wpc \notin Live
  /\ TerminateCauses

\* A late iteration comes after the last time the thread found no stop request.
LateInv ==
  /\ late <= 1
  /\ late # 0 => stop_requested /\ wpc \notin {"checksignal", "go"}

\* What kicks and resets still pay for: the iterations, a kick not yet taken, and
\* the iteration the thread is about to begin.
Pending == IF kicked THEN 1 ELSE 0

KickInv ==
  /\ iterations + Pending <= kicks + resets
  /\ \/ wpc = "check" /\ ~stop_requested /\ ~signalled
     \/ wpc = "checksignal" /\ ~signalled
     \/ wpc = "go"
     => iterations + Pending + 1 <= kicks + resets

\* An exception thrown by work() is on its way to exception_ptr_ or there.
ThrowInv ==
  /\ wpc \in Live \ {"catch", "finish", "tail"} => threw = "none"
  /\ pc[Owner] = "spawn" => threw = "none"
  /\ threw # "none" /\ wpc \in {"finish", "tail", "exited"} => exception_ptr

-----------------------------------------------------------------------------
\* Every step keeps the types.
LEMMA TypeStep ==
  ASSUME TypeOK, [Next]_vars
  PROVE  TypeOK'
<1>. USE WorkerAssumption DEF shared, hist, At, WorkerAt, Goto,
          TypeOK, States, WorkerPoints, Live, InWork, CallerPoints, Callers,
          Arguments
<1>1. CASE ThreadBegin
  BY <1>1 DEF ThreadBegin
<1>2. CASE ThreadNotify
  BY <1>2 DEF ThreadNotify
<1>3. CASE WaitCas
  BY <1>3, ZenonT(40) DEF WaitCas
<1>4. CASE WaitCheck
  BY <1>4 DEF WaitCheck, IsStopping
<1>5. CASE WaitEnter
  BY <1>5 DEF WaitEnter
<1>6. CASE WaitBegin
  BY <1>6 DEF WaitBegin
<1>7. CASE WaitTimeout
  BY <1>7 DEF WaitTimeout
<1>8. CASE StopCheck
  BY <1>8 DEF StopCheck, IsStopping
<1>9. CASE WaitReturnsFalse
  BY <1>9 DEF WaitReturnsFalse
<1>10. CASE WaitReturnsTrue
  BY <1>10 DEF WaitReturnsTrue
<1>11. CASE Iterate
  BY <1>11, ZenonT(40) DEF Iterate
<1>12. CASE Catch
  BY <1>12 DEF Catch
<1>13. CASE ThreadStopped
  BY <1>13 DEF ThreadStopped
<1>14. CASE ThreadExit
  BY <1>14 DEF ThreadExit
<1>15. CASE StartPrepare
  <2>1. kicks' \in Nat
    BY <1>15 DEF StartPrepare
  <2>2. pc' \in [Callers -> CallerPoints] /\ kicked' \in BOOLEAN
    BY <1>15 DEF StartPrepare
  <2>. QED
    BY <1>15, <2>1, <2>2, ZenonT(40) DEF StartPrepare
<1>16. CASE StartSpawn
  <2>1. pc' \in [Callers -> CallerPoints]
    BY <1>16 DEF StartSpawn
  <2>2. thread' \in {"null", "joinable"} /\ wpc' \in WorkerPoints
    BY <1>16 DEF StartSpawn
  <2>3. terminated' \in BOOLEAN
    BY <1>16 DEF StartSpawn
  <2>. QED
    BY <1>16, <2>1, <2>2, <2>3 DEF StartSpawn
<1>17. CASE StartWait
  BY <1>17 DEF StartWait
<1>18. CASE StartTimeout
  BY <1>18 DEF StartTimeout
<1>19. CASE StartNotified
  BY <1>19 DEF StartNotified
<1>20. CASE StopJoin
  BY <1>20 DEF StopJoin
<1>21. CASE OsHandle
  BY <1>21 DEF OsHandle
<1>22. CASE OsReset
  <2>1. resets' \in Nat
    BY <1>22 DEF OsReset
  <2>2. signalled' \in BOOLEAN
    BY <1>22 DEF OsReset
  <2>3. UNCHANGED <<state, kicked, stop_requested, thread, exception_ptr, wpc, pc, arg,
                   destroyed, terminated, starts, kicks, iterations, late, threw>>
    BY <1>22 DEF OsReset
  <2>. QED
    BY <1>22, <2>1, <2>2, <2>3 DEF OsReset
<1>23. ASSUME NEW k \in BOOLEAN, NEW w \in StartWaits, StartCas(k, w)
      PROVE  TypeOK'
  BY <1>23 DEF StartCas
<1>24. ASSUME NEW c \in Callers, Kick(c)
      PROVE  TypeOK'
  <2>1. arg' \in [Callers -> Arguments]
    BY <1>24, ZenonT(40) DEF Kick
  <2>2. kicks' \in Nat
    BY <1>24 DEF Kick
  <2>. QED
    BY <1>24, <2>1, <2>2 DEF Kick
<1>25. ASSUME NEW c \in Callers, KickNotify(c)
      PROVE  TypeOK'
  BY <1>25 DEF KickNotify
<1>26. ASSUME NEW c \in Callers, StopKick(c)
      PROVE  TypeOK'
  BY <1>26 DEF StopKick
<1>27. ASSUME NEW c \in Callers, NEW w \in BOOLEAN, NEW d \in BOOLEAN, StopCas(c, w, d)
      PROVE  TypeOK'
  BY <1>27 DEF StopCas
<1>28. CASE Ended \/ UNCHANGED vars
  BY <1>28 DEF Ended, vars
<1>. QED
  BY <1>1, <1>2, <1>3, <1>4, <1>5, <1>6, <1>7, <1>8, <1>9, <1>10, <1>11, <1>12,
     <1>13, <1>14, <1>15, <1>16, <1>17, <1>18, <1>19, <1>20, <1>21, <1>22, <1>23,
     <1>24, <1>25, <1>26, <1>27, <1>28
     DEF Next, WorkerStep, OwnerStep, OwnerStart, CallStep, Call

\* Every step keeps the owner, the thread, thread_ and state_ in line.
LEMMA ThreadStep ==
  ASSUME TypeOK, ThreadInv, [Next]_vars
  PROVE  ThreadInv'
<1>. USE WorkerAssumption DEF shared, hist, At, WorkerAt, Goto,
          TypeOK, ThreadInv, TerminateCauses, WorkerPoints, Live, InWork, Callers
<1>1. CASE ThreadBegin
  BY <1>1 DEF ThreadBegin
<1>2. CASE ThreadNotify
  BY <1>2 DEF ThreadNotify
<1>3. CASE WaitCas
  BY <1>3 DEF WaitCas
<1>4. CASE WaitCheck
  BY <1>4 DEF WaitCheck, IsStopping
<1>5. CASE WaitEnter
  BY <1>5 DEF WaitEnter
<1>6. CASE WaitBegin
  BY <1>6 DEF WaitBegin
<1>7. CASE WaitTimeout
  BY <1>7 DEF WaitTimeout
<1>8. CASE StopCheck
  BY <1>8 DEF StopCheck, IsStopping
<1>9. CASE WaitReturnsFalse
  BY <1>9 DEF WaitReturnsFalse
<1>10. CASE WaitReturnsTrue
  BY <1>10 DEF WaitReturnsTrue
<1>11. CASE Iterate
  BY <1>11 DEF Iterate
<1>12. CASE Catch
  BY <1>12 DEF Catch
<1>13. CASE ThreadStopped
  BY <1>13 DEF ThreadStopped
<1>14. CASE ThreadExit
  BY <1>14 DEF ThreadExit
<1>15. CASE StartPrepare
  BY <1>15 DEF StartPrepare
<1>16. CASE StartSpawn
  BY <1>16 DEF StartSpawn
<1>17. CASE StartWait
  BY <1>17 DEF StartWait
<1>18. CASE StartTimeout
  BY <1>18 DEF StartTimeout
<1>19. CASE StartNotified
  BY <1>19 DEF StartNotified
<1>20. CASE StopJoin
  BY <1>20 DEF StopJoin
<1>21. CASE OsHandle
  BY <1>21 DEF OsHandle
<1>22. CASE OsReset
  BY <1>22 DEF OsReset
<1>23. ASSUME NEW k \in BOOLEAN, NEW w \in StartWaits, StartCas(k, w)
      PROVE  ThreadInv'
  <2>1. state = "Stopped" => wpc \in {"none", "tail", "exited"}
    BY <1>23 DEF StartCas
  <2>2. CASE state = "Stopped"
    BY <1>23, <2>1, <2>2 DEF StartCas
  <2>3. CASE state # "Stopped"
    BY <1>23, <2>1, <2>3 DEF StartCas
  <2>. QED
    BY <1>23, <2>1, <2>2, <2>3 DEF StartCas
<1>24. ASSUME NEW c \in Callers, Kick(c)
      PROVE  ThreadInv'
  BY <1>24 DEF Kick
<1>25. ASSUME NEW c \in Callers, KickNotify(c)
      PROVE  ThreadInv'
  BY <1>25 DEF KickNotify
<1>26. ASSUME NEW c \in Callers, StopKick(c)
      PROVE  ThreadInv'
  BY <1>26 DEF StopKick
<1>27. ASSUME NEW c \in Callers, NEW w \in BOOLEAN, NEW d \in BOOLEAN, StopCas(c, w, d)
      PROVE  ThreadInv'
  BY <1>27 DEF StopCas
<1>28. CASE Ended \/ UNCHANGED vars
  BY <1>28 DEF Ended, vars
<1>. QED
  BY <1>1, <1>2, <1>3, <1>4, <1>5, <1>6, <1>7, <1>8, <1>9, <1>10, <1>11, <1>12,
     <1>13, <1>14, <1>15, <1>16, <1>17, <1>18, <1>19, <1>20, <1>21, <1>22, <1>23,
     <1>24, <1>25, <1>26, <1>27, <1>28
     DEF Next, WorkerStep, OwnerStep, OwnerStart, CallStep, Call

\* Every step keeps the account of late iterations.
LEMMA LateStep ==
  ASSUME TypeOK, LateInv, [Next]_vars
  PROVE  LateInv'
<1>. USE WorkerAssumption DEF shared, hist, At, WorkerAt, Goto,
          TypeOK, LateInv
<1>1. CASE ThreadBegin
  BY <1>1 DEF ThreadBegin
<1>2. CASE ThreadNotify
  BY <1>2 DEF ThreadNotify
<1>3. CASE WaitCas
  BY <1>3 DEF WaitCas
<1>4. CASE WaitCheck
  BY <1>4 DEF WaitCheck, IsStopping
<1>5. CASE WaitEnter
  BY <1>5 DEF WaitEnter
<1>6. CASE WaitBegin
  BY <1>6 DEF WaitBegin
<1>7. CASE WaitTimeout
  BY <1>7 DEF WaitTimeout
<1>8. CASE StopCheck
  BY <1>8 DEF StopCheck, IsStopping
<1>9. CASE WaitReturnsFalse
  BY <1>9 DEF WaitReturnsFalse
<1>10. CASE WaitReturnsTrue
  BY <1>10 DEF WaitReturnsTrue
<1>11. CASE Iterate
  BY <1>11 DEF Iterate
<1>12. CASE Catch
  BY <1>12 DEF Catch
<1>13. CASE ThreadStopped
  BY <1>13 DEF ThreadStopped
<1>14. CASE ThreadExit
  BY <1>14 DEF ThreadExit
<1>15. CASE StartPrepare
  BY <1>15 DEF StartPrepare
<1>16. CASE StartSpawn
  BY <1>16 DEF StartSpawn
<1>17. CASE StartWait
  BY <1>17 DEF StartWait
<1>18. CASE StartTimeout
  BY <1>18 DEF StartTimeout
<1>19. CASE StartNotified
  BY <1>19 DEF StartNotified
<1>20. CASE StopJoin
  BY <1>20 DEF StopJoin
<1>21. CASE OsHandle
  BY <1>21 DEF OsHandle
<1>22. CASE OsReset
  BY <1>22 DEF OsReset
<1>23. ASSUME NEW k \in BOOLEAN, NEW w \in StartWaits, StartCas(k, w)
      PROVE  LateInv'
  BY <1>23 DEF StartCas
<1>24. ASSUME NEW c \in Callers, Kick(c)
      PROVE  LateInv'
  BY <1>24 DEF Kick
<1>25. ASSUME NEW c \in Callers, KickNotify(c)
      PROVE  LateInv'
  BY <1>25 DEF KickNotify
<1>26. ASSUME NEW c \in Callers, StopKick(c)
      PROVE  LateInv'
  BY <1>26 DEF StopKick
<1>27. ASSUME NEW c \in Callers, NEW w \in BOOLEAN, NEW d \in BOOLEAN, StopCas(c, w, d)
      PROVE  LateInv'
  BY <1>27 DEF StopCas
<1>28. CASE Ended \/ UNCHANGED vars
  BY <1>28 DEF Ended, vars
<1>. QED
  BY <1>1, <1>2, <1>3, <1>4, <1>5, <1>6, <1>7, <1>8, <1>9, <1>10, <1>11, <1>12,
     <1>13, <1>14, <1>15, <1>16, <1>17, <1>18, <1>19, <1>20, <1>21, <1>22, <1>23,
     <1>24, <1>25, <1>26, <1>27, <1>28
     DEF Next, WorkerStep, OwnerStep, OwnerStart, CallStep, Call

\* Every step keeps the account of kicks.
LEMMA KickStep ==
  ASSUME TypeOK, ThreadInv, KickInv, [Next]_vars
  PROVE  KickInv'
<1>. USE WorkerAssumption DEF shared, hist, At, WorkerAt, Goto,
          TypeOK, ThreadInv, KickInv, Pending, Callers, Arguments
<1>1. CASE ThreadBegin
  BY <1>1 DEF ThreadBegin
<1>2. CASE ThreadNotify
  BY <1>2 DEF ThreadNotify
<1>3. CASE WaitCas
  BY <1>3 DEF WaitCas
<1>4. CASE WaitCheck
  BY <1>4 DEF WaitCheck, IsStopping
<1>5. CASE WaitEnter
  BY <1>5 DEF WaitEnter
<1>6. CASE WaitBegin
  BY <1>6 DEF WaitBegin
<1>7. CASE WaitTimeout
  BY <1>7 DEF WaitTimeout
<1>8. CASE StopCheck
  BY <1>8 DEF StopCheck, IsStopping
<1>9. CASE WaitReturnsFalse
  BY <1>9 DEF WaitReturnsFalse
<1>10. CASE WaitReturnsTrue
  BY <1>10 DEF WaitReturnsTrue
<1>11. CASE Iterate
  BY <1>11 DEF Iterate
<1>12. CASE Catch
  BY <1>12 DEF Catch
<1>13. CASE ThreadStopped
  BY <1>13 DEF ThreadStopped
<1>14. CASE ThreadExit
  BY <1>14 DEF ThreadExit
<1>15. CASE StartPrepare
  BY <1>15 DEF StartPrepare
<1>16. CASE StartSpawn
  BY <1>16 DEF StartSpawn
<1>17. CASE StartWait
  BY <1>17 DEF StartWait
<1>18. CASE StartTimeout
  BY <1>18 DEF StartTimeout
<1>19. CASE StartNotified
  BY <1>19 DEF StartNotified
<1>20. CASE StopJoin
  BY <1>20 DEF StopJoin
<1>21. CASE OsHandle
  BY <1>21 DEF OsHandle
<1>22. CASE OsReset
  BY <1>22 DEF OsReset
<1>23. ASSUME NEW k \in BOOLEAN, NEW w \in StartWaits, StartCas(k, w)
      PROVE  KickInv'
  BY <1>23 DEF StartCas
<1>24. ASSUME NEW c \in Callers, Kick(c)
      PROVE  KickInv'
  BY <1>24 DEF Kick
<1>25. ASSUME NEW c \in Callers, KickNotify(c)
      PROVE  KickInv'
  BY <1>25 DEF KickNotify
<1>26. ASSUME NEW c \in Callers, StopKick(c)
      PROVE  KickInv'
  BY <1>26 DEF StopKick
<1>27. ASSUME NEW c \in Callers, NEW w \in BOOLEAN, NEW d \in BOOLEAN, StopCas(c, w, d)
      PROVE  KickInv'
  BY <1>27 DEF StopCas
<1>28. CASE Ended \/ UNCHANGED vars
  BY <1>28 DEF Ended, vars
<1>. QED
  BY <1>1, <1>2, <1>3, <1>4, <1>5, <1>6, <1>7, <1>8, <1>9, <1>10, <1>11, <1>12,
     <1>13, <1>14, <1>15, <1>16, <1>17, <1>18, <1>19, <1>20, <1>21, <1>22, <1>23,
     <1>24, <1>25, <1>26, <1>27, <1>28
     DEF Next, WorkerStep, OwnerStep, OwnerStart, CallStep, Call

\* Every step keeps track of an exception.
LEMMA ThrowStep ==
  ASSUME TypeOK, ThreadInv, ThrowInv, [Next]_vars
  PROVE  ThrowInv'
<1>. USE WorkerAssumption DEF shared, hist, At, WorkerAt, Goto,
          TypeOK, ThreadInv, ThrowInv, Live, InWork, Callers
<1>1. CASE ThreadBegin
  BY <1>1 DEF ThreadBegin
<1>2. CASE ThreadNotify
  BY <1>2 DEF ThreadNotify
<1>3. CASE WaitCas
  BY <1>3 DEF WaitCas
<1>4. CASE WaitCheck
  BY <1>4 DEF WaitCheck, IsStopping
<1>5. CASE WaitEnter
  BY <1>5 DEF WaitEnter
<1>6. CASE WaitBegin
  BY <1>6 DEF WaitBegin
<1>7. CASE WaitTimeout
  BY <1>7 DEF WaitTimeout
<1>8. CASE StopCheck
  BY <1>8 DEF StopCheck, IsStopping
<1>9. CASE WaitReturnsFalse
  BY <1>9 DEF WaitReturnsFalse
<1>10. CASE WaitReturnsTrue
  BY <1>10 DEF WaitReturnsTrue
<1>11. CASE Iterate
  BY <1>11 DEF Iterate
<1>12. CASE Catch
  BY <1>12 DEF Catch
<1>13. CASE ThreadStopped
  BY <1>13 DEF ThreadStopped
<1>14. CASE ThreadExit
  BY <1>14 DEF ThreadExit
<1>15. CASE StartPrepare
  BY <1>15 DEF StartPrepare
<1>16. CASE StartSpawn
  BY <1>16 DEF StartSpawn
<1>17. CASE StartWait
  BY <1>17 DEF StartWait
<1>18. CASE StartTimeout
  BY <1>18 DEF StartTimeout
<1>19. CASE StartNotified
  BY <1>19 DEF StartNotified
<1>20. CASE StopJoin
  BY <1>20 DEF StopJoin
<1>21. CASE OsHandle
  BY <1>21 DEF OsHandle
<1>22. CASE OsReset
  BY <1>22 DEF OsReset
<1>23. ASSUME NEW k \in BOOLEAN, NEW w \in StartWaits, StartCas(k, w)
      PROVE  ThrowInv'
  BY <1>23 DEF StartCas
<1>24. ASSUME NEW c \in Callers, Kick(c)
      PROVE  ThrowInv'
  BY <1>24 DEF Kick
<1>25. ASSUME NEW c \in Callers, KickNotify(c)
      PROVE  ThrowInv'
  BY <1>25 DEF KickNotify
<1>26. ASSUME NEW c \in Callers, StopKick(c)
      PROVE  ThrowInv'
  BY <1>26 DEF StopKick
<1>27. ASSUME NEW c \in Callers, NEW w \in BOOLEAN, NEW d \in BOOLEAN, StopCas(c, w, d)
      PROVE  ThrowInv'
  BY <1>27 DEF StopCas
<1>28. CASE Ended \/ UNCHANGED vars
  BY <1>28 DEF Ended, vars
<1>. QED
  BY <1>1, <1>2, <1>3, <1>4, <1>5, <1>6, <1>7, <1>8, <1>9, <1>10, <1>11, <1>12,
     <1>13, <1>14, <1>15, <1>16, <1>17, <1>18, <1>19, <1>20, <1>21, <1>22, <1>23,
     <1>24, <1>25, <1>26, <1>27, <1>28
     DEF Next, WorkerStep, OwnerStep, OwnerStart, CallStep, Call

\* Every step that changes state_ follows the life of a thread.
LEMMA LifeCycleStep ==
  ASSUME TypeOK, ThreadInv, [Next]_vars
  PROVE  [StateChange]_state
<1>. USE WorkerAssumption DEF shared, hist, At, WorkerAt, Goto,
          TypeOK, ThreadInv, StateChange, Live, InWork
<1>1. CASE ThreadBegin
  BY <1>1 DEF ThreadBegin
<1>2. CASE ThreadNotify
  BY <1>2 DEF ThreadNotify
<1>3. CASE WaitCas
  BY <1>3 DEF WaitCas
<1>4. CASE WaitCheck
  BY <1>4 DEF WaitCheck, IsStopping
<1>5. CASE WaitEnter
  BY <1>5 DEF WaitEnter
<1>6. CASE WaitBegin
  BY <1>6 DEF WaitBegin
<1>7. CASE WaitTimeout
  BY <1>7 DEF WaitTimeout
<1>8. CASE StopCheck
  BY <1>8 DEF StopCheck, IsStopping
<1>9. CASE WaitReturnsFalse
  BY <1>9 DEF WaitReturnsFalse
<1>10. CASE WaitReturnsTrue
  BY <1>10 DEF WaitReturnsTrue
<1>11. CASE Iterate
  BY <1>11 DEF Iterate
<1>12. CASE Catch
  BY <1>12 DEF Catch
<1>13. CASE ThreadStopped
  BY <1>13 DEF ThreadStopped
<1>14. CASE ThreadExit
  BY <1>14 DEF ThreadExit
<1>15. CASE StartPrepare
  BY <1>15 DEF StartPrepare
<1>16. CASE StartSpawn
  BY <1>16 DEF StartSpawn
<1>17. CASE StartWait
  BY <1>17 DEF StartWait
<1>18. CASE StartTimeout
  BY <1>18 DEF StartTimeout
<1>19. CASE StartNotified
  BY <1>19 DEF StartNotified
<1>20. CASE StopJoin
  BY <1>20 DEF StopJoin
<1>21. CASE OsHandle
  BY <1>21 DEF OsHandle
<1>22. CASE OsReset
  BY <1>22 DEF OsReset
<1>23. ASSUME NEW k \in BOOLEAN, NEW w \in StartWaits, StartCas(k, w)
      PROVE  [StateChange]_state
  BY <1>23 DEF StartCas
<1>24. ASSUME NEW c \in Callers, Kick(c)
      PROVE  [StateChange]_state
  BY <1>24 DEF Kick
<1>25. ASSUME NEW c \in Callers, KickNotify(c)
      PROVE  [StateChange]_state
  BY <1>25 DEF KickNotify
<1>26. ASSUME NEW c \in Callers, StopKick(c)
      PROVE  [StateChange]_state
  BY <1>26 DEF StopKick
<1>27. ASSUME NEW c \in Callers, NEW w \in BOOLEAN, NEW d \in BOOLEAN, StopCas(c, w, d)
      PROVE  [StateChange]_state
  BY <1>27 DEF StopCas
<1>28. CASE Ended \/ UNCHANGED vars
  BY <1>28 DEF Ended, vars
<1>. QED
  BY <1>1, <1>2, <1>3, <1>4, <1>5, <1>6, <1>7, <1>8, <1>9, <1>10, <1>11, <1>12,
     <1>13, <1>14, <1>15, <1>16, <1>17, <1>18, <1>19, <1>20, <1>21, <1>22, <1>23,
     <1>24, <1>25, <1>26, <1>27, <1>28
     DEF Next, WorkerStep, OwnerStep, OwnerStart, CallStep, Call

-----------------------------------------------------------------------------
(* The theorems                                                            *)

\* The types hold in every reachable state (worker.hpp:80-90).
THEOREM TypeCorrect == Spec => []TypeOK
<1>1. Init => TypeOK
  <2>1. Init => pc \in [Callers -> CallerPoints] /\ arg \in [Callers -> Arguments]
    BY DEF Init, CallerPoints, Arguments
  <2>2. Init => /\ starts \in Nat /\ kicks \in Nat /\ resets \in Nat
                /\ iterations \in Nat /\ late \in Nat
    BY DEF Init
  <2>3. Init => state \in States /\ wpc \in WorkerPoints
    BY DEF Init, States, WorkerPoints
  <2>. QED
    BY <2>1, <2>2, <2>3 DEF Init, TypeOK
<1>2. TypeOK /\ [Next]_vars => TypeOK'
  BY TypeStep
<1>. QED
  BY <1>1, <1>2, PTL DEF Spec

\* However the threads interleave and whoever asks it to stop, the worker's thread
\* begins at most one iteration after the request (worker.cpp:93-100).
THEOREM LateIterations == Spec => []AtMostOneLateIteration
<1>1. Init => LateInv
  BY DEF Init, LateInv
<1>2. TypeOK /\ LateInv /\ [Next]_vars => LateInv'
  BY LateStep
<1>3. LateInv => AtMostOneLateIteration
  BY DEF LateInv, AtMostOneLateIteration
<1>. QED
  BY <1>1, <1>2, <1>3, TypeCorrect, PTL DEF Spec

\* The inductive invariant.
IInv == TypeOK /\ ThreadInv /\ KickInv /\ ThrowInv

\* It holds initially and every step keeps it.
LEMMA Inductive == Spec => []IInv
<1>1. Init => ThreadInv
  BY WorkerAssumption DEF Init, ThreadInv, TerminateCauses, Live, InWork, Callers
<1>2. Init => KickInv
  BY DEF Init, KickInv, Pending
<1>3. Init => ThrowInv
  BY WorkerAssumption DEF Init, ThrowInv, Live, InWork, Callers
<1>4. ThreadInv /\ TypeOK /\ [Next]_vars => ThreadInv'
  BY ThreadStep
<1>5. ThreadInv /\ TypeOK /\ KickInv /\ [Next]_vars => KickInv'
  BY KickStep
<1>6. ThreadInv /\ TypeOK /\ ThrowInv /\ [Next]_vars => ThrowInv'
  BY ThrowStep
<1>. QED
  BY <1>1, <1>2, <1>3, <1>4, <1>5, <1>6, TypeCorrect, PTL DEF Spec, IInv

\* No thread is left behind, however start(), stop() and the end of the thread
\* interleave: what runs is held by thread_ and nothing runs on a destroyed object
\* (worker.cpp:56-64).
THEOREM Orphans == Spec => []NoOrphanThread
<1>1. IInv => NoOrphanThread
  BY DEF IInv, ThreadInv, NoOrphanThread
<1>. QED
  BY <1>1, Inductive, PTL

\* std::terminate has two causes and no third: start() over a thread that ended by
\* itself and was not joined, and a throw that is no std::exception (worker.cpp:17, 26, 38).
THEOREM Terminates == Spec => []TerminateCauses
<1>1. IInv => TerminateCauses
  BY DEF IInv, ThreadInv
<1>. QED
  BY <1>1, Inductive, PTL

\* No iteration without a kick of its own, but for one per Ossignals::reset
\* (worker.cpp:71-101).
THEOREM KicksBoundWork == Spec => []WorkNeedsKick
<1>1. IInv => WorkNeedsKick
  BY DEF IInv, TypeOK, KickInv, Pending, WorkNeedsKick
<1>. QED
  BY <1>1, Inductive, PTL

\* An exception of work() is there for has_exception() once the thread shows
\* kStopped (worker.cpp:36-44).
THEOREM Exceptions == Spec => []ExceptionKept
<1>1. IInv => ExceptionKept
  BY DEF IInv, ThrowInv, ExceptionKept
<1>. QED
  BY <1>1, Inductive, PTL

\* state_ follows the life of a thread in every step (worker.cpp:17, 32, 44, 80, 94, 98).
THEOREM LifeCycle == Spec => StateLifeCycle
<1>1. IInv /\ [Next]_vars => [StateChange]_state
  BY LifeCycleStep DEF IInv
<1>. QED
  BY <1>1, Inductive, PTL DEF Spec, StateLifeCycle
=============================================================================
