------------------------------- MODULE Helpers -------------------------------
(* The helpers of the common library together: CappedSet, StopWatch and      *)
(* Directories. They share no state, and each goes its own way.              *)
EXTENDS CappedSet, StopWatch, Directories

HelpersSpec == CappedSetSpec /\ StopWatchSpec /\ DirectoriesSpec

(* A CappedSet holds the newest of what was inserted, the laps of a          *)
(* StopWatch add up, and temporary directories are apart (capped_set.hpp,    *)
(* stopwatch.cpp, directories.cpp).                                          *)
HelpersSound == KeepsNewest /\ LapsAddUp /\ TempsApart
=============================================================================
