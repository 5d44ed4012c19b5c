-------------------------- MODULE CursorWalkProofs --------------------------
(***************************************************************************)
(* Proofs about CursorWalk for any table, prefix width and count.          *)
(***************************************************************************)
EXTENDS CursorWalk, FiniteSetTheorems, SequenceTheorems, WellFoundedInduction, TLAPS

-----------------------------------------------------------------------------
(* The moves of the cursor                                                 *)

\* Numbers that are not all absent have a least one.
LEMMA LeastExists ==
  ASSUME NEW S, S \subseteq Nat, S # {}
  PROVE  \E x \in S : \A y \in S : x <= y
<1>1. PICK x \in S : \A y \in S : ~(<<y, x>> \in OpToRel(<, Nat))
  BY NatLessThanWellFounded, WFMin
<1>2. \A y \in S : ~(y < x)
  BY <1>1 DEF OpToRel
<1> QED
  BY <1>2

\* And a greatest one below a bound.
LEMMA GreatestExists ==
  ASSUME NEW n \in Nat, NEW S, S \subseteq 0 .. n, S # {}
  PROVE  \E x \in S : \A y \in S : x >= y
<1> DEFINE T == {n - x : x \in S}
<1>1. T \subseteq Nat /\ T # {}
  <2>1. \A x \in S : n - x \in Nat
    OBVIOUS
  <2>2. PICK x \in S : TRUE
    OBVIOUS
  <2>3. n - x \in T
    OBVIOUS
  <2> QED
    BY <2>1, <2>3
<1>2. PICK t \in T : \A u \in T : t <= u
  BY <1>1, LeastExists
<1>3. PICK x \in S : t = n - x
  OBVIOUS
<1>4. \A y \in S : n - x <= n - y
  BY <1>2, <1>3
<1> QED
  <2>1. x \in 0 .. n /\ \A y \in S : y \in 0 .. n
    OBVIOUS
  <2> QED
    BY <1>4, <2>1

\* lower_bound: the first record from a key on, or the end.
LEMMA LowerBoundIs ==
  ASSUME NEW t, t \subseteq WalkKeys, NEW k \in Int
  PROVE  /\ LowerBound(t, k) = End \/ (LowerBound(t, k) \in t /\ LowerBound(t, k) >= k)
         /\ \A j \in t : j >= k => LowerBound(t, k) <= j
<1> DEFINE above == {j \in t : j >= k}
<1>1. CASE above = {}
  <2>1. LowerBound(t, k) = End
    BY <1>1 DEF LowerBound
  <2>2. \A j \in t : ~(j >= k)
    BY <1>1
  <2> QED
    BY <2>1, <2>2
<1>2. CASE above # {}
  <2>1. above \subseteq Nat
    <3>1. WalkKeys \subseteq Nat
      BY WalkAssumption DEF WalkKeys
    <3> QED
      BY <3>1
  <2>2. \E x \in above : \A y \in above : x <= y
    BY <1>2, <2>1, LeastExists
  <2>3. Min(above) \in above /\ \A y \in above : Min(above) <= y
    BY <2>2 DEF Min
  <2>4. LowerBound(t, k) = Min(above)
    BY <1>2 DEF LowerBound
  <2> QED
    BY <2>3, <2>4
<1> QED
  BY <1>1, <1>2

\* to_previous: the last record before a key, or the front.
LEMMA PreviousIs ==
  ASSUME NEW t, t \subseteq WalkKeys, NEW k \in Int
  PROVE  /\ Previous(t, k) = Front \/ (Previous(t, k) \in t /\ Previous(t, k) < k)
         /\ \A j \in t : j < k => j <= Previous(t, k)
<1> DEFINE below == {j \in t : j < k}
<1>1. CASE below = {}
  <2>1. Previous(t, k) = Front
    BY <1>1 DEF Previous
  <2> QED
    BY <1>1, <2>1
<1>2. CASE below # {}
  <2>1. below \subseteq 0 .. MaxKey
    BY DEF WalkKeys
  <2>2. \E x \in below : \A y \in below : x >= y
    BY <1>2, <2>1, GreatestExists, WalkAssumption
  <2>3. Max(below) \in below /\ \A y \in below : Max(below) >= y
    BY <2>2 DEF Max
  <2>4. Previous(t, k) = Max(below)
    BY <1>2 DEF Previous
  <2>5. \A j \in t : j < k => j <= Max(below)
    BY <2>1, <2>3
  <2> QED
    BY <2>3, <2>4, <2>5
<1> QED
  BY <1>1, <1>2

\* The ends of the table are no keys, and apart.
LEMMA Edges ==
  /\ WalkKeys \subseteq Nat /\ End \in Nat /\ Front = -1 /\ Unset = -2
  /\ \A k \in WalkKeys : k < End /\ Front < k /\ Unset < k
  BY WalkAssumption DEF WalkKeys, End, Front, Unset

\* From a record the cursor moves to the next one of the table in the direction.
LEMMA MoveIs ==
  ASSUME NEW t, t \subseteq WalkKeys, NEW p \in WalkKeys, NEW d \in Directions, NEW q, q = MoveFrom(t, p, d)
  PROVE  IF d = "Forward"
         THEN (q = End \/ (q \in t /\ p < q)) /\ \A j \in t : p < j => q <= j
         ELSE (q = Front \/ (q \in t /\ q < p)) /\ \A j \in t : j < p => j <= q
<1>1. p \in Int /\ p + 1 \in Int
  BY Edges
<1>2. CASE d = "Forward"
  <2>1. q = LowerBound(t, p + 1)
    BY <1>2 DEF MoveFrom
  <2>2. /\ q = End \/ (q \in t /\ q >= p + 1)
        /\ \A j \in t : j >= p + 1 => q <= j
    BY <1>1, <2>1, LowerBoundIs
  <2>3. \A j \in t : j \in Int
    BY Edges
  <2>4. \A j \in t : j >= p + 1 <=> p < j
    BY <1>1, <2>3
  <2> QED
    BY <1>2, <2>2, <2>4
<1>3. CASE d # "Forward"
  <2>1. q = Previous(t, p)
    BY <1>3 DEF MoveFrom
  <2> QED
    BY <1>1, <1>3, <2>1, PreviousIs
<1> QED
  BY <1>2, <1>3

\* The record a walk of each record or of a count starts at.
LEMMA AdjustedIs ==
  ASSUME WalkTypeOK, NEW d \in Directions, NEW p \in Adjusted(d)
  PROVE  /\ p = End \/ p = Front \/ p \in table
         /\ IF d = "Forward" THEN p # Front ELSE p = End => table = {}
         /\ pos \in {Unset, End} => \A j \in table : IF d = "Forward" THEN p <= j ELSE j <= p
<1>1. table \subseteq WalkKeys /\ End \in Int /\ 0 \in Int
  BY Edges DEF WalkTypeOK
<1>2. /\ ToFirst(table) = End \/ ToFirst(table) \in table
      /\ \A j \in table : ToFirst(table) <= j
  <2>1. \A j \in table : j >= 0
    BY <1>1, Edges
  <2> QED
    BY <1>1, <2>1, LowerBoundIs DEF ToFirst
<1>3. /\ ToLast(table) = Front \/ ToLast(table) \in table
      /\ \A j \in table : j <= ToLast(table)
  <2>1. \A j \in table : j < End
    BY <1>1, Edges
  <2> QED
    BY <1>1, <2>1, PreviousIs DEF ToLast
<1>4. ToFirst(table) = End => table = {}
  BY <1>1, <1>2, Edges
<1>e. /\ End \notin WalkKeys /\ Front \notin WalkKeys /\ Unset \notin WalkKeys
      /\ End # Front /\ End # Unset /\ Front # Unset
  BY Edges
<1>5. CASE pos \in WalkKeys
  <2>1. p = pos /\ p \in table
    BY <1>5, <1>e DEF Adjusted, WalkTypeOK
  <2> QED
    BY <1>1, <1>5, <1>e, <2>1
<1>6. CASE pos = Front
  <2>1. p = ToFirst(table) \/ (p = ToLast(table) /\ d # "Forward")
    BY <1>6, <1>e DEF Adjusted
  <2> QED
    BY <1>1, <1>2, <1>3, <1>4, <1>6, <1>e, <2>1
<1>7. CASE pos \notin WalkKeys /\ pos # Front
  <2>1. p = IF d = "Forward" THEN ToFirst(table) ELSE ToLast(table)
    BY <1>7 DEF Adjusted
  <2> QED
    BY <1>1, <1>2, <1>3, <1>e, <2>1
<1> QED
  BY <1>5, <1>6, <1>7

\* The last record before a key, by way of the first from it on.
LEMMA StrictLowerBoundIs ==
  ASSUME table \subseteq WalkKeys, NEW k \in WalkKeys, NEW p, p = StrictLowerBound(k)
  PROVE  /\ p = Front \/ (p \in table /\ p < k)
         /\ \A j \in table : j < k => j <= p
<1> DEFINE b == LowerBound(table, k)
<1>1. k \in Int /\ End \in Int /\ \A j \in table : j \in Int /\ j < End
  BY Edges
<1>2. /\ b = End \/ (b \in table /\ b >= k)
      /\ \A j \in table : j >= k => b <= j
  BY <1>1, LowerBoundIs
<1>3. b \in Int
  BY <1>1, <1>2
<1> HIDE DEF b
<1>4. p = Previous(table, b)
  BY DEF StrictLowerBound, ToLast, b
<1>5. /\ p = Front \/ (p \in table /\ p < b)
      /\ \A j \in table : j < b => j <= p
  BY <1>3, <1>4, PreviousIs
<1>6. \A j \in table : j < b <=> j < k
  BY <1>1, <1>2, <1>3, Edges
<1> QED
  BY <1>5, <1>6

-----------------------------------------------------------------------------
(* Types                                                                   *)

\* Where a walk starts is a place of the cursor.
LEMMA StartTyped ==
  ASSUME WalkTypeOK, NEW w \in Kinds, NEW d \in Directions, NEW k \in WalkKeys, NEW p \in StartPositions(w, d, k)
  PROVE  p = End \/ p = Front \/ p \in table
<1>1. table \subseteq WalkKeys /\ k \in Int
  BY Edges DEF WalkTypeOK
<1>2. CASE w \in {"each", "count"}
  BY <1>2, AdjustedIs DEF StartPositions
<1>3. CASE w = "erase"
  <2>1. p = LowerBound(table, k) \/ p = StrictLowerBound(k)
    BY <1>3 DEF StartPositions, EraseStart
  <2> QED
    BY <1>1, <2>1, LowerBoundIs, StrictLowerBoundIs
<1>4. CASE w \in {"prefix", "erase_prefix"}
  <2>1. p = LowerBound(table, k)
    BY <1>4 DEF StartPositions
  <2> QED
    BY <1>1, <2>1, LowerBoundIs
<1> QED
  BY <1>2, <1>3, <1>4 DEF Kinds

\* Every step keeps the types, and the cursor on a record.
LEMMA TypesStepped ==
  ASSUME WalkTypeOK, [WalkNext]_walkVars
  PROVE  WalkTypeOK'
<1>e. /\ End \in Positions /\ Front \in Positions /\ Unset \in Positions /\ WalkKeys \subseteq Positions
      /\ End \notin WalkKeys /\ Front \notin WalkKeys /\ Unset \notin WalkKeys /\ 0 \in WalkKeys
  BY Edges, WalkAssumption DEF Positions, WalkKeys
<1>1. ASSUME NEW w \in Kinds, NEW d \in Directions, NEW k \in WalkKeys, NEW n \in Nat, BeginWalk(w, d, k, n)
      PROVE  WalkTypeOK'
  <2>1. pos' = End \/ pos' = Front \/ pos' \in table
    BY <1>1, StartTyped DEF BeginWalk
  <2>2. pos' \in Positions /\ (pos' \in WalkKeys => pos' \in table)
    BY <1>e, <2>1 DEF WalkTypeOK
  <2>3. <<>> \in Seq(WalkKeys)
    OBVIOUS
  <2> QED
    BY <1>1, <2>2, <2>3 DEF BeginWalk, WalkTypeOK
<1>2. CASE Turn
  <2>1. pos \in WalkKeys /\ (kind = "count" => count > 0)
    BY <1>2 DEF Turn, Goes
  <2>2. table' \subseteq WalkKeys
    BY <1>2 DEF Turn, WalkTypeOK
  <2>3. pos' = End \/ pos' = Front \/ pos' \in table'
    <3>1. direction \in Directions /\ pos' = MoveFrom(table', pos, direction)
      BY <1>2 DEF Turn, WalkTypeOK
    <3> QED
      BY <2>1, <2>2, <3>1, MoveIs
  <2>4. pos' \in Positions /\ (pos' \in WalkKeys => pos' \in table')
    BY <1>e, <2>2, <2>3
  <2>5. visited' \in Seq(WalkKeys)
    BY <1>2, <2>1, AppendProperties DEF Turn, WalkTypeOK
  <2>6. count' \in Nat /\ ret' \in Nat
    BY <1>2, <2>1 DEF Turn, WalkTypeOK
  <2> QED
    BY <1>2, <2>2, <2>4, <2>5, <2>6 DEF Turn, WalkTypeOK
<1>3. CASE Finish
  BY <1>3 DEF Finish, WalkTypeOK
<1>4. CASE Return
  <2>1. <<>> \in Seq(WalkKeys)
    OBVIOUS
  <2> QED
    BY <1>4, <1>e, <2>1 DEF Return, WalkTypeOK, Directions
<1>5. ASSUME NEW k \in WalkKeys, Upsert(k) \/ Find(k)
      PROVE  WalkTypeOK'
  BY <1>5, <1>e DEF Upsert, Find, WalkTypeOK
<1>6. CASE Bind
  BY <1>6, <1>e DEF Bind, WalkTypeOK
<1>7. CASE UNCHANGED walkVars
  BY <1>7 DEF walkVars, WalkTypeOK
<1>8. MaxCount \in Nat /\ 0 .. MaxCount \subseteq Nat
  BY WalkAssumption
<1> QED
  BY <1>1, <1>2, <1>3, <1>4, <1>5, <1>6, <1>7, <1>8, <1>e DEF WalkNext, WalkStep, Kinds

LEMMA TypesStarted == WalkInit => WalkTypeOK
<1> SUFFICES ASSUME WalkInit
             PROVE  WalkTypeOK
  OBVIOUS
<1>1. Unset \in Positions /\ Unset \notin WalkKeys /\ 0 \in WalkKeys /\ <<>> \in Seq(WalkKeys)
  BY Edges, WalkAssumption DEF Positions, WalkKeys
<1> QED
  BY <1>1 DEF WalkInit, WalkTypeOK, Directions, Kinds

\* Every member of a walk keeps its type, and a cursor on a key is on a record of the table,
\* also after the record it was on has been erased (mdbx.cpp).
THEOREM WalkTypes == WalkSpec => []WalkTypeOK
<1>1. WalkTypeOK /\ [WalkNext]_walkVars => WalkTypeOK'
  BY TypesStepped
<1> QED
  BY <1>1, TypesStarted, PTL DEF WalkSpec

-----------------------------------------------------------------------------
(* What a walk has done and what it has left: all it has processed is      *)
(* behind the cursor, all that is left of its target at the cursor or      *)
(* beyond, and the cursor, while on a record, is where the walk belongs.   *)

PrefixKinds == {"prefix", "erase_prefix"}

\* j comes before k on a walk in direction d.
Onward(d, j, k) == IF d = "Forward" THEN j < k ELSE k < j

\* What makes a record of the table one of the target.
Sought(j) ==
  /\ kind \in {"each", "count"} => IF direction = "Forward" THEN j >= first ELSE j <= first
  /\ kind \in PrefixKinds => StartsWith(j, set_key)
  /\ kind = "erase" => IF direction = "Forward" THEN j >= set_key ELSE j < set_key

Passed == \A i \in 1 .. Len(visited) : visited[i] \in Target /\ Onward(direction, visited[i], pos)
Left == \A k \in Target : k \in Visited \/ k = pos \/ Onward(direction, pos, k)
Sorted == \A i, j \in 1 .. Len(visited) : i < j => Onward(direction, visited[i], visited[j])
Ready ==
  pos \in WalkKeys => /\ pos \in before
                  /\ IF kind \in PrefixKinds THEN pos >= set_key ELSE Sought(pos)
Placed ==
  IF direction = "Forward" THEN pos \in WalkKeys \/ pos = End ELSE pos \in WalkKeys \/ pos = Front \/ before = {}
Tallied == IsFiniteSet(Visited) /\ ret = Cardinality(Visited)
Kept == table = IF kind \in {"erase", "erase_prefix"} THEN before \ Visited ELSE before
Whole == kind = "each" /\ origin \in {Unset, End} => Target = before
Stopped == done => ~Goes
Onwards == kind \in PrefixKinds => direction = "Forward"

Walking ==
  Passed /\ Left /\ Sorted /\ Ready /\ Placed /\ Tallied /\ Kept /\ Whole /\ Stopped /\ Onwards

WalkInv ==
  /\ WalkTypeOK
  /\ kind = "none" => visited = <<>> /\ ~done
  /\ kind # "none" => Walking

\* The target by what it is made of.
LEMMA TargetIs ==
  kind \in Kinds /\ direction \in Directions => \A j : j \in Target <=> j \in before /\ Sought(j)
<1> SUFFICES ASSUME kind \in Kinds, direction \in Directions, NEW j
             PROVE  j \in Target <=> j \in before /\ Sought(j)
  OBVIOUS
<1>1. CASE kind \in {"each", "count"}
  BY <1>1 DEF Target, Reach, Sought, PrefixKinds
<1>2. CASE kind \in PrefixKinds
  BY <1>2 DEF Target, Sought, PrefixKinds
<1>3. CASE kind = "erase"
  BY <1>3 DEF Target, Sought, PrefixKinds
<1> QED
  BY <1>1, <1>2, <1>3 DEF Kinds, PrefixKinds

\* The target is made of records.
LEMMA InTarget ==
  ASSUME kind \in Kinds, direction \in Directions, before \subseteq WalkKeys
  PROVE  \A k \in Target : k \in before /\ k \in WalkKeys /\ k \in Int /\ Sought(k)
<1>1. \A k \in Target : k \in before /\ Sought(k)
  BY TargetIs
<1>2. \A k \in WalkKeys : k \in Int
  BY Edges
<1> QED
  BY <1>1, <1>2

\* A walk begins before all of its target.
LEMMA WalkBegins ==
  ASSUME PrefixDirections \subseteq {"Forward"}, WalkInv,
         NEW w \in Kinds, NEW d \in Directions, NEW k \in WalkKeys, NEW n, BeginWalk(w, d, k, n), WalkTypeOK'
  PROVE  WalkInv'
<1> DEFINE p == pos'
<1>1. /\ p \in StartPositions(w, d, k)
      /\ kind' = w /\ direction' = d /\ set_key' = k /\ ret' = 0
      /\ before' = table /\ origin' = pos /\ first' = p /\ visited' = <<>> /\ done' = FALSE
      /\ table' = table
      /\ w \in PrefixKinds => d = "Forward"
  BY DEF BeginWalk, PrefixKinds
<1>2. w # "none" /\ w \in {"each", "count"} \union PrefixKinds \union {"erase"}
  BY DEF Kinds, PrefixKinds
<1>t. WalkTypeOK /\ table \subseteq WalkKeys /\ k \in Int
  BY Edges DEF WalkInv, WalkTypeOK
<1>i. p \in Int /\ \A j \in table : j \in Int
  BY <1>t, Edges DEF WalkTypeOK, Positions
<1>3. \A j : j \in Target' <=> j \in table /\ Sought(j)'
  <2>1. (kind \in Kinds /\ direction \in Directions => \A j : j \in Target <=> j \in before /\ Sought(j))'
    BY TargetIs, PTL
  <2> QED
    BY <1>1, <2>1
<1>4. Visited' = {}
  BY <1>1 DEF Visited
<1>5. Passed' /\ Sorted'
  BY <1>1 DEF Passed, Sorted
<1>6. Tallied'
  BY <1>1, <1>4, FS_EmptySet DEF Tallied
<1>7. Kept'
  BY <1>1, <1>4 DEF Kept
<1>8. Stopped' /\ Onwards'
  BY <1>1 DEF Stopped, Onwards
<1>9. /\ Left' /\ Ready' /\ Placed' /\ Whole'
  <2>1. CASE w \in {"each", "count"}
    <3>1. /\ p = End \/ p = Front \/ p \in table
          /\ IF d = "Forward" THEN p # Front ELSE p = End => table = {}
          /\ pos \in {Unset, End} => \A j \in table : IF d = "Forward" THEN p <= j ELSE j <= p
      BY <1>1, <1>t, <2>1, AdjustedIs DEF StartPositions
    <3>2. \A j : Sought(j)' <=> IF d = "Forward" THEN j >= p ELSE j <= p
      BY <1>1, <2>1 DEF Sought, PrefixKinds
    <3>3. Left'
      <4>1. ASSUME NEW j \in Target'
            PROVE  j = p \/ Onward(d, p, j)
        BY <1>3, <1>i, <3>2 DEF Onward
      <4> QED
        BY <1>1, <4>1 DEF Left
    <3>4. Ready'
      <4>1. p \in WalkKeys => p \in table
        BY <1>1 DEF WalkTypeOK
      <4>2. Sought(pos)'
        BY <1>1, <1>i, <2>1 DEF Sought, PrefixKinds
      <4> QED
        BY <1>1, <2>1, <4>1, <4>2 DEF Ready, PrefixKinds
    <3>5. Placed'
      BY <1>1, <1>t, <3>1 DEF Placed
    <3>6. Whole'
      <4>1. ASSUME pos \in {Unset, End}
            PROVE  \A j \in table : Sought(j)'
        BY <1>i, <3>1, <3>2, <4>1
      <4>2. ASSUME pos \in {Unset, End}
            PROVE  Target' = table
        BY <1>3, <4>1, <4>2
      <4> QED
        BY <1>1, <4>2 DEF Whole
    <3> QED
      BY <3>3, <3>4, <3>5, <3>6
  <2>2. CASE w # "each" /\ w # "count" /\ d = "Forward"
    <3>1. p = LowerBound(table, k)
      BY <1>1, <1>2, <2>2 DEF StartPositions, EraseStart
    <3>2. /\ p = End \/ (p \in table /\ p >= k)
          /\ \A j \in table : j >= k => p <= j
      BY <1>t, <3>1, LowerBoundIs
    <3>3. \A j : Sought(j)' => j >= k
      BY <1>1, <1>2, <2>2 DEF Sought, StartsWith, PrefixKinds
    <3>4. Left'
      <4>1. ASSUME NEW j \in Target'
            PROVE  j = p \/ Onward(d, p, j)
        <5>1. j \in table /\ p <= j
          BY <1>3, <3>2, <3>3
        <5> QED
          BY <1>i, <2>2, <5>1 DEF Onward
      <4> QED
        BY <1>1, <4>1 DEF Left
    <3>5. Ready'
      <4>1. p \in WalkKeys => p \in table /\ p >= k
        BY <3>2, Edges
      <4>2. p >= k /\ w = "erase" => Sought(pos)'
        BY <1>1, <2>2 DEF Sought, PrefixKinds
      <4> QED
        BY <1>1, <1>2, <2>2, <4>1, <4>2 DEF Ready
    <3>6. Placed' /\ Whole'
      BY <1>1, <1>t, <2>2, <3>2 DEF Placed, Whole
    <3> QED
      BY <3>4, <3>5, <3>6
  <2>3. CASE w # "each" /\ w # "count" /\ d # "Forward"
    <3>1. w = "erase" /\ p = StrictLowerBound(k)
      BY <1>1, <1>2, <2>3 DEF StartPositions, EraseStart
    <3>2. /\ p = Front \/ (p \in table /\ p < k)
          /\ \A j \in table : j < k => j <= p
      BY <1>t, <3>1, StrictLowerBoundIs
    <3>3. \A j : Sought(j)' <=> j < k
      BY <1>1, <2>3, <3>1 DEF Sought, PrefixKinds
    <3>4. Left'
      <4>1. ASSUME NEW j \in Target'
            PROVE  j = p \/ Onward(d, p, j)
        <5>1. j \in table /\ j <= p
          BY <1>3, <3>2, <3>3
        <5> QED
          BY <1>i, <2>3, <5>1 DEF Onward
      <4> QED
        BY <1>1, <4>1 DEF Left
    <3>5. Ready'
      <4>1. p \in WalkKeys => p \in table /\ p < k
        BY <3>2, Edges
      <4>2. p < k => Sought(pos)'
        BY <1>1, <2>3, <3>1 DEF Sought, PrefixKinds
      <4> QED
        BY <1>1, <3>1, <4>1, <4>2 DEF Ready, PrefixKinds
    <3>6. Placed' /\ Whole'
      BY <1>1, <1>t, <2>3, <3>1, <3>2 DEF Placed, Whole
    <3> QED
      BY <3>4, <3>5, <3>6
  <2> QED
    BY <2>1, <2>2, <2>3
<1> QED
  BY <1>1, <1>2, <1>5, <1>6, <1>7, <1>8, <1>9 DEF WalkInv, Walking

\* A turn processes the record the cursor is on and moves to the next one that is left.
LEMMA WalkTurns ==
  ASSUME WalkInv, Turn, WalkTypeOK'
  PROVE  WalkInv'
<1> DEFINE n == Len(visited)
           q == pos'
<1>1. /\ kind # "none" /\ ~done /\ Goes /\ ret' = ret + 1 /\ visited' = Append(visited, pos)
      /\ table' = IF kind \in {"erase", "erase_prefix"} THEN table \ {pos} ELSE table
      /\ q = MoveFrom(table', pos, direction)
      /\ UNCHANGED <<kind, direction, set_key, before, origin, first, done>>
  BY DEF Turn
<1>t. /\ WalkTypeOK /\ Walking /\ kind \in Kinds /\ direction \in Directions
      /\ before \subseteq WalkKeys /\ first \in Int /\ set_key \in Int /\ ret \in Nat
  BY <1>1, Edges DEF WalkInv, WalkTypeOK, Positions
<1>w. Passed /\ Left /\ Sorted /\ Ready /\ Placed /\ Tallied /\ Kept /\ Whole /\ Onwards
  BY <1>t DEF Walking
<1>p. pos \in WalkKeys /\ pos \in Int
  BY <1>1, Edges DEF Goes
<1>i. q \in Int
  BY Edges DEF WalkTypeOK, Positions
<1>2. Target' = Target
  BY <1>1 DEF Target, Reach, StartsWith
<1>3. pos \in Target
  <2>1. pos \in before /\ Sought(pos)
    BY <1>1, <1>p, <1>w DEF Ready, Goes, Sought, PrefixKinds
  <2> QED
    BY <1>t, <2>1, TargetIs
<1>4. \A k \in Target : k \in before /\ k \in Int
  BY <1>t, InTarget
<1>5. /\ n \in Nat /\ Len(visited') = n + 1 /\ visited'[n + 1] = pos
      /\ \A i \in 1 .. n : visited'[i] = visited[i]
  BY <1>1, <1>t, <1>p, AppendProperties DEF WalkTypeOK
<1> HIDE DEF n
<1>6. Visited' = Visited \union {pos}
  <2>1. \A k : (\E i \in 1 .. (n + 1) : visited'[i] = k) <=> (\E i \in 1 .. n : visited[i] = k) \/ k = pos
    BY <1>5
  <2> QED
    BY <1>5, <2>1 DEF Visited, n
<1>7. \A i \in 1 .. n : visited[i] \in Target /\ visited[i] \in Int /\ Onward(direction, visited[i], pos)
  BY <1>4, <1>w DEF Passed, n
<1>8. pos \notin Visited
  BY <1>7, <1>p DEF Visited, Onward, n
<1>9. Kept'
  BY <1>1, <1>6, <1>8, <1>w DEF Kept
<1>10. table' \subseteq before
  BY <1>1, <1>9 DEF Kept
<1>11. /\ Onward(direction, pos, q)
       /\ \A j \in table' : Onward(direction, pos, j) => j = q \/ Onward(direction, q, j)
       /\ q \in WalkKeys => q \in before
       /\ IF direction = "Forward" THEN q \in WalkKeys \/ q = End ELSE q \in WalkKeys \/ q = Front
  <2>1. IF direction = "Forward"
        THEN (q = End \/ (q \in table' /\ pos < q)) /\ \A j \in table' : pos < j => q <= j
        ELSE (q = Front \/ (q \in table' /\ q < pos)) /\ \A j \in table' : j < pos => j <= q
    <3>1. table' \subseteq WalkKeys
      BY <1>t, <1>10
    <3>2. pos \in WalkKeys /\ direction \in Directions /\ q = MoveFrom(table', pos, direction)
      BY <1>1, <1>t, <1>p
    <3> HIDE DEF q
    <3> QED
      BY <3>1, <3>2, MoveIs
  <2>2. \A j \in table' : j \in Int /\ j \in WalkKeys
    BY <1>t, <1>10, Edges
  <2>3. q \in WalkKeys => q \in before
    BY <1>10, <2>1, Edges
  <2>4. Onward(direction, pos, q)
    BY <1>p, <2>1, Edges DEF Onward
  <2>5. \A j \in table' : Onward(direction, pos, j) => j = q \/ Onward(direction, q, j)
    BY <1>i, <2>1, <2>2 DEF Onward
  <2>6. IF direction = "Forward" THEN q \in WalkKeys \/ q = End ELSE q \in WalkKeys \/ q = Front
    BY <2>1, <2>2
  <2> QED
    BY <2>3, <2>4, <2>5, <2>6
<1>12. Passed'
  <2>1. ASSUME NEW i \in 1 .. (n + 1)
        PROVE  visited'[i] \in Target /\ Onward(direction, visited'[i], q)
    <3>1. CASE i \in 1 .. n
      <4>1. visited'[i] = visited[i]
        BY <1>5, <3>1
      <4>2. Onward(direction, visited[i], q)
        BY <1>7, <1>11, <1>p, <1>i, <3>1 DEF Onward
      <4> QED
        BY <1>7, <3>1, <4>1, <4>2
    <3>2. CASE i = n + 1
      BY <1>3, <1>5, <1>11, <3>2
    <3> QED
      BY <1>5, <3>1, <3>2
  <2> QED
    BY <1>1, <1>2, <1>5, <2>1 DEF Passed
<1>13. Left'
  <2>1. ASSUME NEW k \in Target, k \notin Visited, k # pos
        PROVE  k = q \/ Onward(direction, q, k)
    <3>1. Onward(direction, pos, k)
      BY <1>w, <2>1 DEF Left
    <3>2. k \in table'
      BY <1>1, <1>4, <1>6, <1>9, <2>1 DEF Kept
    <3> QED
      BY <1>11, <3>1, <3>2
  <2> QED
    BY <1>1, <1>2, <1>6, <2>1 DEF Left
<1>14. Sorted'
  <2>1. ASSUME NEW i \in 1 .. (n + 1), NEW j \in 1 .. (n + 1), i < j
        PROVE  Onward(direction, visited'[i], visited'[j])
    <3>1. i \in 1 .. n /\ visited'[i] = visited[i]
      BY <1>5, <2>1
    <3>2. CASE j \in 1 .. n
      BY <1>5, <1>w, <2>1, <3>1, <3>2 DEF Sorted, n
    <3>3. CASE j = n + 1
      BY <1>5, <1>7, <3>1, <3>3
    <3> QED
      BY <1>5, <3>2, <3>3
  <2> QED
    BY <1>1, <1>5, <2>1 DEF Sorted
<1>15. Ready'
  <2>1. ASSUME q \in WalkKeys
        PROVE  IF kind \in PrefixKinds THEN q >= set_key ELSE Sought(pos)'
    <3>1. CASE kind \in PrefixKinds
      <4>1. direction = "Forward" /\ pos >= set_key
        BY <1>p, <1>w, <3>1 DEF Ready, Onwards
      <4>2. pos < q
        BY <1>11, <4>1 DEF Onward
      <4> QED
        BY <1>p, <1>i, <1>t, <3>1, <4>1, <4>2
    <3>2. CASE kind \notin PrefixKinds
      <4>1. Sought(pos)
        BY <1>p, <1>w, <3>2 DEF Ready
      <4>2. Onward(direction, pos, q)
        BY <1>11
      <4> QED
        BY <1>1, <1>p, <1>i, <1>t, <3>2, <4>1, <4>2 DEF Sought, Onward
    <3> QED
      BY <3>1, <3>2
  <2> QED
    BY <1>1, <1>11, <2>1 DEF Ready
<1>16. Placed'
  BY <1>1, <1>11 DEF Placed
<1>17. Tallied'
  BY <1>1, <1>6, <1>8, <1>w, FS_AddElement DEF Tallied
<1>18. Whole' /\ Stopped' /\ Onwards'
  BY <1>1, <1>2, <1>w DEF Whole, Stopped, Onwards
<1> QED
  BY <1>1, <1>9, <1>12, <1>13, <1>14, <1>15, <1>16, <1>17, <1>18 DEF WalkInv, Walking

\* Every step keeps the invariant.
LEMMA WalkStepped ==
  ASSUME PrefixDirections \subseteq {"Forward"}, WalkInv, [WalkNext]_walkVars
  PROVE  WalkInv'
<1>t. WalkTypeOK'
  BY TypesStepped DEF WalkInv
<1>1. ASSUME NEW w \in Kinds, NEW d \in Directions, NEW k \in WalkKeys, NEW n, BeginWalk(w, d, k, n)
      PROVE  WalkInv'
  BY <1>t, <1>1, WalkBegins
<1>2. CASE Turn
  BY <1>t, <1>2, WalkTurns
<1>3. CASE Finish
  <2>1. /\ kind # "none" /\ ~Goes
        /\ UNCHANGED <<table, pos, kind, direction, set_key, count, ret, before, origin, first, visited>>
    BY <1>3 DEF Finish
  <2>2. Target' = Target /\ Visited' = Visited /\ (Goes' <=> Goes) /\ (Sought(pos)' <=> Sought(pos))
    BY <2>1 DEF Target, Reach, StartsWith, Visited, Goes, Sought
  <2>3. Walking'
    BY <2>1, <2>2
    DEF WalkInv, Walking, Passed, Left, Sorted, Ready, Placed, Tallied, Kept, Whole, Stopped, Onwards
  <2> QED
    BY <1>t, <2>1, <2>3 DEF WalkInv
<1>4. CASE Return
  BY <1>t, <1>4 DEF Return, WalkInv
<1>5. ASSUME NEW k \in WalkKeys, Upsert(k) \/ Find(k)
      PROVE  WalkInv'
  BY <1>t, <1>5 DEF Upsert, Find, WalkInv
<1>6. CASE Bind
  BY <1>t, <1>6 DEF Bind, WalkInv
<1>7. CASE UNCHANGED walkVars
  <2>1. Target' = Target /\ Visited' = Visited /\ (Goes' <=> Goes) /\ (Sought(pos)' <=> Sought(pos))
    BY <1>7 DEF walkVars, Target, Reach, StartsWith, Visited, Goes, Sought
  <2>2. Walking => Walking'
    BY <1>7, <2>1
    DEF walkVars, Walking, Passed, Left, Sorted, Ready, Placed, Tallied, Kept, Whole, Stopped, Onwards
  <2> QED
    BY <1>t, <1>7, <2>2 DEF walkVars, WalkInv
<1>8. 0 \in WalkKeys
  BY WalkAssumption DEF WalkKeys
<1> QED
  BY <1>1, <1>2, <1>3, <1>4, <1>5, <1>6, <1>7, <1>8 DEF WalkNext, WalkStep, Kinds

\* With prefixes walked forward only, the invariant holds.
LEMMA WalkInvariant ==
  ASSUME PrefixDirections \subseteq {"Forward"}
  PROVE  WalkSpec => []WalkInv
<1>1. WalkInit => WalkInv
  BY TypesStarted DEF WalkInit, WalkInv
<1>2. WalkInv /\ [WalkNext]_walkVars => WalkInv'
  BY WalkStepped
<1> QED
  BY <1>1, <1>2, PTL DEF WalkSpec

\* What is behind the cursor and what is left are in the order of the walk.
LEMMA Between ==
  ASSUME WalkInv, NEW k \in Target \ Visited, NEW i \in 1 .. Len(visited), kind # "none"
  PROVE  Onward(direction, visited[i], k)
<1>1. Passed /\ Left /\ kind \in Kinds /\ direction \in Directions /\ pos \in Int /\ before \subseteq WalkKeys
  BY Edges DEF WalkInv, Walking, WalkTypeOK, Positions
<1>2. visited[i] \in Target /\ \A j \in Target : j \in Int
  BY <1>1, InTarget DEF Passed
<1>3. Onward(direction, visited[i], pos) /\ (k = pos \/ Onward(direction, pos, k))
  BY <1>1 DEF Passed, Left
<1> QED
  BY <1>1, <1>2, <1>3 DEF Onward

\* Walks process each record once, in order, and pass over none of their target; what erasing
\* walks have counted is gone and nothing else is (cursor_for_each, cursor_erase and the
\* others of mdbx.cpp). cursor_for_prefix has to be called forward.
THEOREM WalksInOrder ==
  ASSUME PrefixDirections \subseteq {"Forward"}
  PROVE  WalkSpec => []InOrder
<1>1. WalkInv => InOrder
  <2> SUFFICES ASSUME WalkInv
               PROVE  InOrder
    OBVIOUS
  <2>1. CASE kind = "none"
    <3>1. Len(visited) = 0
      BY <2>1 DEF WalkInv
    <3> QED
      BY <2>1, <3>1 DEF InOrder
  <2>2. CASE kind # "none"
    <3>1. Sorted /\ Kept
      BY <2>2 DEF WalkInv, Walking
    <3>2. \A k \in Target \ Visited, i \in 1 .. Len(visited) : Onward(direction, visited[i], k)
      BY <2>2, Between
    <3>3. \A i \in 1 .. Len(visited) : visited[i] \in Int
      <4>1. \A i \in 1 .. Len(visited) : visited[i] \in WalkKeys
        BY DEF WalkInv, WalkTypeOK
      <4>2. \A k \in WalkKeys : k \in Int
        BY Edges
      <4> QED
        BY <4>1, <4>2
    <3>4. \A k \in Target : k \in Int
      <4>1. kind \in Kinds /\ direction \in Directions /\ before \subseteq WalkKeys
        BY <2>2 DEF WalkInv, WalkTypeOK
      <4> QED
        BY <4>1, InTarget
    <3> QED
      BY <3>1, <3>2, <3>3, <3>4 DEF InOrder, Sorted, Kept, Onward
  <2> QED
    BY <2>1, <2>2
<1> QED
  BY <1>1, WalkInvariant, PTL

\* A walk that returns has processed exactly the records its description names, and returns
\* their number (mdbx.hpp, mdbx.cpp), when cursor_for_prefix is called forward.
THEOREM WalksVisitTarget ==
  ASSUME PrefixDirections \subseteq {"Forward"}
  PROVE  WalkSpec => []VisitsTarget
<1>1. WalkInv => VisitsTarget
  <2> SUFFICES ASSUME WalkInv, done
               PROVE  VisitsTarget
    BY DEF VisitsTarget
  <2>1. /\ kind # "none" /\ kind \in Kinds /\ direction \in Directions /\ ~Goes /\ before \subseteq WalkKeys
        /\ Passed /\ Left /\ Ready /\ Placed /\ Tallied /\ Whole /\ Onwards
        /\ set_key \in Int /\ pos \in Int
        /\ count \in Nat
    BY Edges DEF WalkInv, Walking, Stopped, WalkTypeOK, Positions
  <2>2. Visited \subseteq Target
    BY <2>1 DEF Passed, Visited
  <2>3. \A k \in Target : k \in before /\ k \in WalkKeys /\ k \in Int /\ Sought(k)
    BY <2>1, InTarget
  <2>4. ASSUME ~(kind = "count" /\ count = 0), NEW k \in Target
        PROVE  k \in Visited
    <3> SUFFICES ASSUME k \notin Visited
                 PROVE  FALSE
      OBVIOUS
    <3>1. k = pos \/ Onward(direction, pos, k)
      BY <2>1 DEF Left
    <3>2. CASE pos \notin WalkKeys
      BY <2>1, <2>3, <3>1, <3>2, Edges DEF Placed, Onward
    <3>3. CASE pos \in WalkKeys
      <4>1. kind \in PrefixKinds /\ ~StartsWith(pos, set_key)
        BY <2>1, <2>4, <3>3 DEF Goes, PrefixKinds
      <4>2. pos >= set_key /\ direction = "Forward"
        BY <2>1, <3>3, <4>1 DEF Ready, Onwards
      <4>3. pos >= set_key + Width /\ Width \in Nat
        BY <2>1, <4>1, <4>2, WalkAssumption DEF StartsWith
      <4>4. k < set_key + Width
        BY <2>3, <4>1 DEF Sought, StartsWith
      <4> QED
        BY <2>1, <2>3, <3>1, <4>2, <4>3, <4>4 DEF Onward
    <3> QED
      BY <3>2, <3>3
  <2>5. Target \subseteq Visited \/ (kind = "count" /\ count = 0)
    BY <2>4
  <2>6. ret = Cardinality(Visited)
    BY <2>1 DEF Tallied
  <2>7. kind = "each" /\ origin \in {Unset, End} => Visited = before
    BY <2>1, <2>2, <2>5 DEF Whole
  <2> QED
    BY <2>2, <2>5, <2>6, <2>7 DEF VisitsTarget
<1> QED
  BY <1>1, WalkInvariant, PTL
=============================================================================
