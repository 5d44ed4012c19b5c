--------------------------- MODULE MCConcurrency ----------------------------
(* The two classes that run code on a thread of their own. They share no     *)
(* state, so one run explores them side by side: the part chosen at the      *)
(* start moves, the other stays.                                             *)
EXTENDS Worker, AsioTimer

VARIABLE part

ConcurrencyInit ==
  /\ part \in {"worker", "timer"}
  /\ Init /\ TimerInit

ConcurrencyNext ==
  /\ UNCHANGED part
  /\ \/ part = "worker" /\ Next /\ UNCHANGED timerVars
     \/ part = "timer" /\ TimerNext /\ UNCHANGED vars

\* A part that stays is at its initial state, where no fair step of its own is enabled.
ConcurrencySpec ==
  /\ ConcurrencyInit /\ [][ConcurrencyNext]_<<part, vars, timerVars>>
  /\ Fairness /\ TimerFairness
=============================================================================
