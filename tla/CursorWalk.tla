----------------------------- MODULE CursorWalk -----------------------------
(***************************************************************************)
(* The walks of src/zen/node/database/mdbx.cpp over a single-value table:  *)
(* cursor_for_each, cursor_for_count, cursor_for_prefix, cursor_erase and  *)
(* cursor_erase_prefix.                                                    *)
(*                                                                         *)
(* Keys are numbers, in the order of the table; those that start with the  *)
(* prefix p are the Width keys from p * Width on, the first of which is    *)
(* the prefix itself.  The MDBX cursor is external: its position is a key  *)
(* of the table or one of Unset, End (past the last record) and Front      *)
(* (before the first), and every move that finds no record leaves it at    *)
(* one of these.  Each turn of a loop is a step.                           *)
(***************************************************************************)
EXTENDS Integers, Sequences, FiniteSetsExt

CONSTANTS
  MaxKey,            \* bound: the greatest key
  Width,             \* keys to a prefix
  MaxCount,          \* bound: the greatest max_count
  PrefixDirections   \* the directions cursor_for_prefix is called with

Directions == {"Forward", "Reverse"}

ASSUME WalkAssumption ==
  /\ MaxKey \in Nat /\ Width \in Nat \ {0} /\ MaxCount \in Nat
  /\ PrefixDirections \subseteq Directions

WalkKeys == 0 .. MaxKey
End == MaxKey + 1
Front == -1
Unset == -2
Positions == WalkKeys \cup {End, Front, Unset}

Kinds == {"each", "count", "prefix", "erase", "erase_prefix"}

VARIABLES
  table,      \* the keys of the table
  pos,        \* where the cursor is
  kind,       \* the walk under way, or "none"
  direction,  \* its direction
  set_key,    \* the key, or the prefix as a key, the walk is given
  count,      \* what is left of cursor_for_count's count
  ret,        \* its result so far
  before,     \* history: the table when it began
  origin,     \* history: where the cursor was when it began
  first,      \* history: where the cursor was after the first move
  visited,    \* history: the keys processed, in order
  done        \* the walk is about to return

walkVars == <<table, pos, kind, direction, set_key, count, ret, before, origin, first, visited, done>>

-----------------------------------------------------------------------------
(* The cursor                                                              *)

LowerBound(t, k) == LET above == {j \in t : j >= k} IN IF above = {} THEN End ELSE Min(above)

Previous(t, k) == LET below == {j \in t : j < k} IN IF below = {} THEN Front ELSE Max(below)

ToFirst(t) == LowerBound(t, 0)
ToLast(t) == Previous(t, End)

\* From a key of the table, or one just erased.
MoveFrom(t, k, d) == IF d = "Forward" THEN LowerBound(t, k + 1) ELSE Previous(t, k)

-----------------------------------------------------------------------------
(* mdbx.cpp                                                                *)

\* MUTANT of Adjusted: an unpositioned cursor goes to the first record either way.
AdjustedForward(d) ==
  IF pos \in WalkKeys THEN {pos} ELSE {ToFirst(table)}

\* adjust_cursor_position_if_unpositioned: eof() holds for a cursor that was never
\* positioned and for one past the last record.  Whether it holds before the first record
\* MDBX leaves open: the cursor may still be on it.
Adjusted(d) ==
  LET edge == IF d = "Forward" THEN ToFirst(table) ELSE ToLast(table)
  IN  CASE pos \in WalkKeys -> {pos}
        [] pos = Front -> {edge, ToFirst(table)}
        [] OTHER -> {edge}

StrictLowerBound(k) ==
  IF LowerBound(table, k) = End THEN ToLast(table) ELSE Previous(table, LowerBound(table, k))

\* MUTANT of EraseStart: the reverse walk starts at the key itself.
EraseStartInclusive(d, k) == IF d = "Forward" THEN LowerBound(table, k) ELSE StrictLowerBound(k + 1)

EraseStart(d, k) == IF d = "Forward" THEN LowerBound(table, k) ELSE StrictLowerBound(k)

StartPositions(w, d, k) ==
  CASE w \in {"each", "count"} -> Adjusted(d)
    [] w = "erase" -> {EraseStart(d, k)}
    [] OTHER -> {LowerBound(table, k)}

\* A walk begins: its arguments and its first move.
BeginWalk(w, d, k, n) ==
  /\ kind = "none"
  /\ w = "prefix" => d \in PrefixDirections
  /\ w = "erase_prefix" => d = "Forward"
  /\ w \in {"prefix", "erase_prefix"} => k % Width = 0
  /\ pos' \in StartPositions(w, d, k)
  /\ kind' = w /\ direction' = d /\ set_key' = k /\ count' = n
  /\ ret' = 0
  /\ before' = table /\ origin' = pos /\ first' = pos' /\ visited' = <<>> /\ done' = FALSE
  /\ UNCHANGED table

StartsWith(k, prefix) == prefix <= k /\ k < prefix + Width

\* while (data), with the count or the prefix that also ends the loop.
Goes ==
  /\ pos \in WalkKeys
  /\ kind = "count" => count > 0
  /\ kind \in {"prefix", "erase_prefix"} => StartsWith(pos, set_key)

\* MUTANT of Turn: erase() moves on and the loop moves on again.
TurnSkips ==
  /\ kind # "none" /\ ~done /\ Goes
  /\ ret' = ret + 1
  /\ visited' = Append(visited, pos)
  /\ count' = IF kind = "count" THEN count - 1 ELSE count
  /\ table' = IF kind \in {"erase", "erase_prefix"} THEN table \ {pos} ELSE table
  /\ LET next == MoveFrom(table', pos, direction)
     IN  pos' = IF kind \in {"erase", "erase_prefix"} /\ next \in WalkKeys
                  THEN MoveFrom(table', next, direction) ELSE next
  /\ UNCHANGED <<kind, direction, set_key, before, origin, first, done>>

\* MUTANT of Turn: erase() after the move, of the record moved to.
TurnErasesNext ==
  /\ kind # "none" /\ ~done /\ Goes
  /\ ret' = ret + 1
  /\ visited' = Append(visited, pos)
  /\ count' = IF kind = "count" THEN count - 1 ELSE count
  /\ pos' = MoveFrom(table, pos, direction)
  /\ table' = IF kind \in {"erase", "erase_prefix"} THEN table \ {pos'} ELSE table
  /\ UNCHANGED <<kind, direction, set_key, before, origin, first, done>>

\* MUTANT of Turn: the cursor does not leave its record.
TurnStays ==
  /\ kind # "none" /\ ~done /\ Goes
  /\ ret' = (ret + 1) % 2
  /\ UNCHANGED <<table, pos, kind, direction, set_key, count, before, origin, first, visited, done>>

\* One turn: count, process or erase, move on.
Turn ==
  /\ kind # "none" /\ ~done /\ Goes
  /\ ret' = ret + 1
  /\ visited' = Append(visited, pos)
  /\ count' = IF kind = "count" THEN count - 1 ELSE count
  /\ table' = IF kind \in {"erase", "erase_prefix"} THEN table \ {pos} ELSE table
  /\ pos' = MoveFrom(table', pos, direction)
  /\ UNCHANGED <<kind, direction, set_key, before, origin, first, done>>

\* The loop ends.
Finish ==
  /\ kind # "none" /\ ~done /\ ~Goes
  /\ done' = TRUE
  /\ UNCHANGED <<table, pos, kind, direction, set_key, count, ret, before, origin, first, visited>>

Return ==
  /\ done
  /\ kind' = "none" /\ direction' = "Forward" /\ set_key' = 0 /\ count' = 0 /\ ret' = 0
  /\ before' = {} /\ origin' = Unset /\ first' = Unset /\ visited' = <<>> /\ done' = FALSE
  /\ UNCHANGED <<table, pos>>

-----------------------------------------------------------------------------
(* The caller, between walks                                               *)

\* cursor.upsert(key, ...): the cursor is on the record.
Upsert(k) ==
  /\ kind = "none"
  /\ table' = table \cup {k}
  /\ pos' = k
  /\ UNCHANGED <<kind, direction, set_key, count, ret, before, origin, first, visited, done>>

\* cursor.find(key)
Find(k) ==
  /\ kind = "none" /\ k \in table
  /\ pos' = k
  /\ UNCHANGED <<table, kind, direction, set_key, count, ret, before, origin, first, visited, done>>

\* Cursor::bind: the position is undefined.
Bind ==
  /\ kind = "none"
  /\ pos' = Unset
  /\ UNCHANGED <<table, kind, direction, set_key, count, ret, before, origin, first, visited, done>>

-----------------------------------------------------------------------------
WalkInit ==
  /\ table = {} /\ pos = Unset
  /\ kind = "none" /\ direction = "Forward" /\ set_key = 0 /\ count = 0 /\ ret = 0
  /\ before = {} /\ origin = Unset /\ first = Unset /\ visited = <<>> /\ done = FALSE

WalkStep == Turn \/ Finish \/ Return

WalkNext ==
  \/ WalkStep
  \/ \E w \in {"each"}, d \in Directions : BeginWalk(w, d, 0, 0)
  \/ \E d \in Directions, n \in 0 .. MaxCount : BeginWalk("count", d, 0, n)
  \/ \E w \in {"prefix", "erase", "erase_prefix"}, d \in Directions, k \in WalkKeys :
       BeginWalk(w, d, k, 0)
  \/ \E k \in WalkKeys : Upsert(k) \/ Find(k)
  \/ Bind

WalkSpec == WalkInit /\ [][WalkNext]_walkVars

\* A walk is a loop of one thread, which runs on.
WalkFairness == WF_walkVars(WalkStep)

-----------------------------------------------------------------------------
(* Properties                                                              *)

\* Every variable holds a value of its type, and a cursor on a key is on a record.
WalkTypeOK ==
  /\ table \subseteq WalkKeys /\ before \subseteq WalkKeys
  /\ pos \in Positions /\ origin \in Positions /\ first \in Positions
  /\ pos \in WalkKeys => pos \in table
  /\ kind \in Kinds \cup {"none"} /\ direction \in Directions
  /\ set_key \in WalkKeys /\ count \in Nat /\ ret \in Nat
  /\ visited \in Seq(WalkKeys) /\ done \in BOOLEAN

\* The records a walk is for, from the table it began with and the record it began at.
Reach(k) == IF direction = "Forward" THEN {j \in before : j >= k} ELSE {j \in before : j <= k}

Target ==
  CASE kind \in {"each", "count"} -> Reach(first)
    [] kind \in {"prefix", "erase_prefix"} -> {j \in before : StartsWith(j, set_key)}
    [] kind = "erase" /\ direction = "Forward" -> {j \in before : j >= set_key}
    [] OTHER -> {j \in before : j < set_key}

Visited == {visited[i] : i \in 1 .. Len(visited)}

\* A walk that returns has processed exactly the records its description names: "each record
\* reachable", those that "start with provided prefix", "all keys greater equal set_key" or
\* "lower than set_key", and cursor_for_count all of them or max_count (mdbx.hpp:260-307).
\* A cursor that is not positioned, or has run past the end, is moved to the beginning or the
\* end of the table on behalf of the direction: cursor_for_each then processes all of it
\* (mdbx.hpp:266-267, mdbx.cpp:22-28).
VisitsTarget ==
  done =>
    /\ Visited \subseteq Target
    /\ Target \subseteq Visited \/ (kind = "count" /\ count = 0)
    /\ ret = Cardinality(Visited)
    /\ kind = "each" /\ origin \in {Unset, End} => Visited = before

\* Records are processed once each, in the order of the walk, and none is passed over: what
\* is left of the target lies beyond the last one (mdbx.cpp:278-282, 333-337). On the way an
\* erasing walk removes what it has counted and nothing else, the others nothing.
InOrder ==
  /\ \A i, j \in 1 .. Len(visited) : i < j =>
       IF direction = "Forward" THEN visited[i] < visited[j] ELSE visited[i] > visited[j]
  /\ \A k \in Target \ Visited, i \in 1 .. Len(visited) :
       IF direction = "Forward" THEN visited[i] < k ELSE visited[i] > k
  /\ kind # "none" => table = IF kind \in {"erase", "erase_prefix"} THEN before \ Visited ELSE before

\* Every walk returns (mdbx.cpp:278-282, 318-323, 333-337).
WalkReturns == (kind # "none") ~> (kind = "none")
=============================================================================
