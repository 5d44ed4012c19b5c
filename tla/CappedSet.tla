----------------------------- MODULE CappedSet ------------------------------
(* CappedSet (capped_set.hpp): a set that evicts its oldest element.         *)
EXTENDS Integers, FiniteSets, Sequences, SequencesExt

CONSTANTS
  Elements,
  Capacity,
  InsertBound       \* bound: insertions between two calls of clear

VARIABLES
  cappedItems,      \* items_
  cappedQueue,      \* items_queue_: the elements of the nodes its iterators hold
  inserted          \* elements inserted since the last clear (history)

cappedsetVars == <<cappedItems, cappedQueue, inserted>>

ASSUME CapacityAssumption == Capacity \in Nat \ {0} /\ InsertBound \in Nat

CappedSetInit == cappedItems = {} /\ cappedQueue = <<>> /\ inserted = <<>>

\* Mutant: room is made one insertion late.
MakeRoomLate == Cardinality(cappedItems) > Capacity

MakeRoom == Cardinality(cappedItems) = Capacity

(* Nothing for an element that is there, which does not become younger. A    *)
(* rehash by the insertion moves no node: erase by an iterator taken before  *)
(* it is undefined by the standard, and removes that node in the libraries   *)
(* the program is built with.                                                *)
Insert(e) ==
  /\ e \notin cappedItems
  /\ Len(inserted) < InsertBound
  /\ LET evicted == IF MakeRoom THEN {Head(cappedQueue)} ELSE {}
         left == IF MakeRoom THEN Tail(cappedQueue) ELSE cappedQueue
     IN  /\ cappedItems' = (cappedItems \ evicted) \union {e}
         /\ cappedQueue' = Append(left, e)
  /\ inserted' = Append(inserted, e)

ClearSet == cappedItems' = {} /\ cappedQueue' = <<>> /\ inserted' = <<>>

CappedSetNext == ClearSet \/ \E e \in Elements : Insert(e)

CappedSetSpec == CappedSetInit /\ [][CappedSetNext]_cappedsetVars

(* The set and its queue hold the last insertions, as many as fit, through   *)
(* evictions, repeated insertions of what was evicted and calls of clear     *)
(* (CappedSet::insert, CappedSet::clear).                                    *)
KeepsNewest ==
  LET n == Len(inserted)
      newest == SubSeq(inserted, IF n > Capacity THEN n - Capacity + 1 ELSE 1, n)
  IN  cappedQueue = newest /\ cappedItems = ToSet(newest)

=============================================================================
