------------------------- MODULE LockedPagesProofs --------------------------
(***************************************************************************)
(* Proofs about LockedPages for every finite set of objects, page size and *)
(* address space, and any number of failures.                              *)
(***************************************************************************)
EXTENDS LockedPages, FiniteSetTheorems, TLAPS

\* Every step keeps the types.
LEMMA TypeStep ==
  ASSUME TypeOK, [Next]_vars
  PROVE  TypeOK'
<1>. USE PagesAssumption DEF TypeOK, Move, Stages
<1>1. ASSUME NEW o \in Objects, NEW a \in Addresses, NEW n \in 0 .. MaxSize,
             HeapAllocate(o, a, n)
      PROVE  TypeOK'
  BY <1>1 DEF HeapAllocate, Addresses
<1>2. ASSUME NEW o \in Objects, NEW stop \in Pages \cup {Beyond}, LockRange(o, stop)
      PROVE  TypeOK'
  <2>1. locked_pages' \in [Pages -> Nat]
    BY <1>2 DEF LockRange
  <2>2. os_locked' \subseteq Pages
    BY <1>2 DEF LockRange, Visited, PagesOf
  <2>3. failedLocks' \in Nat
    BY <1>2 DEF LockRange
  <2>. QED
    BY <1>2, <2>1, <2>2, <2>3 DEF LockRange
<1>3. ASSUME NEW o \in Objects, NEW stop \in Pages \cup {Beyond}, UnlockRange(o, stop)
      PROVE  TypeOK'
  <2>1. locked_pages' \in [Pages -> Nat]
    BY <1>3 DEF UnlockRange
  <2>2. failedUnlocks' \in Nat
    BY <1>3 DEF UnlockRange
  <2>. QED
    BY <1>3, <2>1, <2>2 DEF UnlockRange
<1>4. ASSUME NEW o \in Objects, Wipe(o) \/ HeapDeallocate(o)
      PROVE  TypeOK'
  BY <1>4 DEF Wipe, HeapDeallocate
<1>5. ASSUME NEW failing \in SUBSET {p \in Pages : locked_pages[p] > 0}, Clear(failing)
      PROVE  TypeOK'
  <2>1. locked_pages' \in [Pages -> Nat]
    BY <1>5 DEF Clear
  <2>2. failedUnlocks' \in Nat /\ cleared' \in BOOLEAN
    BY <1>5 DEF Clear
  <2>. QED
    BY <1>5, <2>1, <2>2 DEF Clear
<1>6. CASE UNCHANGED vars
  BY <1>6 DEF vars
<1>. QED
  BY <1>1, <1>2, <1>3, <1>4, <1>5, <1>6 DEF Next

\* Every step moves the table and the operating system together.
LEMMA TableStep ==
  ASSUME TypeOK, TableMatchesOs, [Next]_vars
  PROVE  TableMatchesOs'
<1>. USE PagesAssumption DEF TypeOK, TableMatchesOs
<1>1. ASSUME NEW o \in Objects, NEW a \in Addresses, NEW n \in 0 .. MaxSize,
             HeapAllocate(o, a, n)
      PROVE  TableMatchesOs'
  BY <1>1 DEF HeapAllocate
<1>2. ASSUME NEW o \in Objects, NEW stop \in Pages \cup {Beyond}, LockRange(o, stop)
      PROVE  TableMatchesOs'
  BY <1>2 DEF LockRange, Visited, PagesOf
<1>3. ASSUME NEW o \in Objects, NEW stop \in Pages \cup {Beyond}, UnlockRange(o, stop)
      PROVE  TableMatchesOs'
  BY <1>3 DEF UnlockRange
<1>4. ASSUME NEW o \in Objects, Wipe(o) \/ HeapDeallocate(o)
      PROVE  TableMatchesOs'
  BY <1>4 DEF Wipe, HeapDeallocate
<1>5. ASSUME NEW failing \in SUBSET {p \in Pages : locked_pages[p] > 0}, Clear(failing)
      PROVE  TableMatchesOs'
  BY <1>5 DEF Clear
<1>6. CASE UNCHANGED vars
  BY <1>6 DEF vars
<1>. QED
  BY <1>1, <1>2, <1>3, <1>4, <1>5, <1>6 DEF Next

-----------------------------------------------------------------------------
(* get_range_boundaries: the pages between the first and the last are      *)
(* those some byte of the block is on                                      *)

\* No block reaches beyond the address space.
InSpace == \A o \in Objects : base[o] + size[o] <= Bytes

\* Every step keeps the blocks in it.
LEMMA SpaceStep ==
  ASSUME TypeOK, InSpace, [Next]_vars
  PROVE  InSpace'
<1>. USE PagesAssumption DEF TypeOK, InSpace
<1>1. ASSUME NEW o \in Objects, NEW a \in Addresses, NEW n \in 0 .. MaxSize,
             HeapAllocate(o, a, n)
      PROVE  InSpace'
  BY <1>1 DEF HeapAllocate, Addresses
<1>2. ASSUME NEW o \in Objects, NEW stop \in Pages \cup {Beyond},
             LockRange(o, stop) \/ UnlockRange(o, stop)
      PROVE  InSpace'
  BY <1>2 DEF LockRange, UnlockRange
<1>3. ASSUME NEW o \in Objects, Wipe(o) \/ HeapDeallocate(o)
      PROVE  InSpace'
  BY <1>3 DEF Wipe, HeapDeallocate
<1>4. ASSUME NEW failing \in SUBSET {p \in Pages : locked_pages[p] > 0}, Clear(failing)
      PROVE  InSpace'
  BY <1>4 DEF Clear
<1>5. CASE UNCHANGED vars
  BY <1>5 DEF vars
<1>. QED
  BY <1>1, <1>2, <1>3, <1>4, <1>5 DEF Next

\* Quotient and remainder.
LEMMA Divided ==
  ASSUME NEW n \in Nat
  PROVE  /\ n \div PageSize \in Nat
         /\ n >= (n \div PageSize) * PageSize
         /\ n < (n \div PageSize) * PageSize + PageSize
<1>1. PageSize \in Nat /\ PageSize > 0
  BY PagesAssumption
<1>2. \A k, c \in Nat : c > 0 => k \div c \in Nat /\ k % c \in 0 .. c - 1 /\ k = (k \div c) * c + (k % c)
  OBVIOUS
<1> DEFINE q == n \div PageSize
           r == n % PageSize
<1>3. q \in Nat /\ r \in 0 .. PageSize - 1 /\ n = q * PageSize + r
  BY <1>1, <1>2, Zenon
<1> HIDE DEF q, r
<1>4. q * PageSize \in Nat
  BY <1>1, <1>3
<1>5. q \in Nat /\ n >= q * PageSize /\ n < q * PageSize + PageSize
  BY <1>1, <1>3, <1>4
<1> QED
  BY <1>5 DEF q

\* Multiples of the page size keep the order of the pages.
LEMMA Multiples ==
  ASSUME NEW x \in Nat, NEW y \in Nat, x < y
  PROVE  x * PageSize + PageSize <= y * PageSize
<1>1. PageSize \in Nat
  BY PagesAssumption
<1>2. PICK d \in Nat : y = x + 1 + d
  <2>1. y - x - 1 \in Nat /\ y = x + 1 + (y - x - 1)
    OBVIOUS
  <2> QED
    BY <2>1
<1>3. y * PageSize = x * PageSize + PageSize + d * PageSize /\ d * PageSize >= 0
  BY <1>1, <1>2
<1>4. x * PageSize \in Nat /\ d * PageSize \in Nat
  BY <1>1, <1>2
<1> QED
  BY <1>1, <1>3, <1>4

\* The quotient is the only number with its bounds.
LEMMA Quotient ==
  ASSUME NEW n \in Nat, NEW q \in Nat, n >= q * PageSize, n < q * PageSize + PageSize
  PROVE  n \div PageSize = q
<1> DEFINE d == n \div PageSize
<1>1. d \in Nat /\ n >= d * PageSize /\ n < d * PageSize + PageSize
  BY Divided
<1> HIDE DEF d
<1>2. PageSize \in Nat /\ d * PageSize \in Nat /\ q * PageSize \in Nat
  BY <1>1, PagesAssumption
<1>3. ~(d < q)
  <2> SUFFICES ASSUME d < q PROVE FALSE
    OBVIOUS
  <2>1. d * PageSize + PageSize <= q * PageSize
    BY <1>1, Multiples
  <2> QED
    BY <1>1, <1>2, <2>1
<1>4. ~(q < d)
  <2> SUFFICES ASSUME q < d PROVE FALSE
    OBVIOUS
  <2>1. q * PageSize + PageSize <= d * PageSize
    BY <1>1, Multiples
  <2> QED
    BY <1>1, <1>2, <2>1
<1>5. d = q
  BY <1>1, <1>3, <1>4
<1> QED
  BY <1>5 DEF d

\* The order of bytes is that of their pages.
LEMMA Monotone ==
  ASSUME NEW m \in Nat, NEW n \in Nat, m <= n
  PROVE  m \div PageSize <= n \div PageSize
<1> DEFINE x == m \div PageSize
           y == n \div PageSize
<1>1. x \in Nat /\ m >= x * PageSize /\ y \in Nat /\ n < y * PageSize + PageSize
  BY Divided
<1> HIDE DEF x, y
<1>2. PageSize \in Nat /\ x * PageSize \in Nat /\ y * PageSize \in Nat
  BY <1>1, PagesAssumption
<1>3. ~(y < x)
  <2> SUFFICES ASSUME y < x PROVE FALSE
    OBVIOUS
  <2>1. y * PageSize + PageSize <= x * PageSize
    BY <1>1, Multiples
  <2> QED
    BY <1>1, <1>2, <2>1
<1>4. x <= y
  BY <1>1, <1>3
<1> QED
  BY <1>4 DEF x, y

\* The pages lock_range and unlock_range visit are those the block is on.
LEMMA PagesTouched ==
  ASSUME TypeOK, InSpace, NEW o \in Objects
  PROVE  Touched(o) = PagesOf(o)
<1> DEFINE b == base[o]
           n == size[o]
           e == b + n - 1
<1>1. b \in Nat /\ n \in Nat /\ b + n <= Bytes /\ Bytes \in Nat
  BY PagesAssumption DEF TypeOK, InSpace
<1>2. ASSUME NEW p \in Touched(o)
      PROVE  p \in PagesOf(o)
  <2>1. PICK a \in Nat : b <= a /\ a < b + n /\ a \div PageSize = p
    BY <1>1, <1>2 DEF Touched, Block, Addresses
  <2>2. n > 0 /\ e \in Nat /\ a <= e
    BY <1>1, <2>1
  <2>3. b \div PageSize <= p /\ p <= e \div PageSize
    BY <1>1, <2>1, <2>2, Monotone
  <2> QED
    BY <2>2, <2>3, <1>2 DEF PagesOf, StartPage, EndPage, Touched
<1>3. ASSUME NEW p \in PagesOf(o)
      PROVE  p \in Touched(o)
  <2>1. p \in Nat /\ n > 0 /\ b \div PageSize <= p /\ p <= e \div PageSize
    BY <1>1, <1>3 DEF PagesOf, StartPage, EndPage, Pages
  <2>2. e \in Nat
    BY <1>1, <2>1
  <2> DEFINE s == b \div PageSize
             t == e \div PageSize
  <2>3. /\ s \in Nat /\ b < s * PageSize + PageSize
        /\ t \in Nat /\ t * PageSize <= e
    BY <1>1, <2>2, Divided
  <2> HIDE DEF s, t
  <2>4. /\ PageSize \in Nat /\ PageSize > 0 /\ p * PageSize \in Nat
        /\ s * PageSize \in Nat /\ t * PageSize \in Nat
    BY <2>1, <2>3, PagesAssumption
  <2>5. CASE p = s
    <3>1. b \in Block(o) /\ b \div PageSize = p
      BY <1>1, <2>1, <2>5 DEF Block, Addresses, s
    <3> QED
      BY <3>1, <1>3 DEF Touched, PagesOf
  <2>6. CASE s < p
    <3> DEFINE a == p * PageSize
    <3>1. s * PageSize + PageSize <= a
      BY <2>1, <2>3, <2>6, Multiples
    <3>2. a <= t * PageSize
      <4>1. CASE p = t
        BY <4>1, <2>4
      <4>2. CASE p < t
        <5>1. p * PageSize + PageSize <= t * PageSize
          BY <2>1, <2>3, <4>2, Multiples
        <5> QED
          BY <5>1, <2>4
      <4>3. p <= t
        BY <2>1 DEF t
      <4> QED
        BY <4>1, <4>2, <4>3, <2>1, <2>3
    <3>3. b <= a /\ a < b + n
      BY <1>1, <2>3, <2>4, <3>1, <3>2
    <3>4. a \div PageSize = p
      BY <2>1, <2>4, Quotient
    <3>5. a \in Block(o)
      BY <1>1, <2>4, <3>3 DEF Block, Addresses
    <3> QED
      BY <3>4, <3>5, <1>3 DEF Touched, PagesOf
  <2>7. s <= p
    BY <2>1 DEF s
  <2> QED
    BY <2>1, <2>3, <2>5, <2>6, <2>7
<1> QED
  BY <1>2, <1>3

-----------------------------------------------------------------------------
(* How the holders of a page change                                        *)

\* The holders of a page are finitely many.
LEMMA HoldersFinite ==
  ASSUME NEW p
  PROVE  IsFiniteSet(Holders(p)) /\ Cardinality(Holders(p)) \in Nat
BY PagesAssumption, FS_Subset, FS_CardinalityType DEF Holders

\* The steps of the heap, the wipe and clear() change nobody's hold.
LEMMA HoldersKept ==
  ASSUME TypeOK, NEW p \in Pages,
         \/ \E o \in Objects :
              \/ \E a \in Addresses, n \in 0 .. MaxSize : HeapAllocate(o, a, n)
              \/ Wipe(o)
              \/ HeapDeallocate(o)
         \/ \E failing \in SUBSET {q \in Pages : locked_pages[q] > 0} : Clear(failing)
         \/ UNCHANGED vars
  PROVE  Holders(p)' = Holders(p)
<1>. USE DEF TypeOK, Holders, Held, Touched, Block, Move
<1>1. ASSUME NEW o \in Objects, NEW a \in Addresses, NEW n \in 0 .. MaxSize,
             HeapAllocate(o, a, n)
      PROVE  Holders(p)' = Holders(p)
  BY <1>1 DEF HeapAllocate
<1>2. ASSUME NEW o \in Objects, Wipe(o)
      PROVE  Holders(p)' = Holders(p)
  BY <1>2 DEF Wipe
<1>3. ASSUME NEW o \in Objects, HeapDeallocate(o)
      PROVE  Holders(p)' = Holders(p)
  BY <1>3 DEF HeapDeallocate
<1>4. ASSUME NEW failing \in SUBSET {q \in Pages : locked_pages[q] > 0}, Clear(failing)
      PROVE  Holders(p)' = Holders(p)
  BY <1>4 DEF Clear
<1>5. CASE UNCHANGED vars
  BY <1>5 DEF vars
<1>. QED
  BY <1>1, <1>2, <1>3, <1>4, <1>5

\* lock_range adds one holder to every page of its range, the failed ones included.
LEMMA HoldersLock ==
  ASSUME TypeOK, InSpace, NEW p \in Pages, NEW o \in Objects, NEW stop, LockRange(o, stop)
  PROVE  Cardinality(Holders(p)') =
           IF p \in PagesOf(o) THEN Cardinality(Holders(p)) + 1 ELSE Cardinality(Holders(p))
<1>1. (\A q \in Objects : Touched(q)' = Touched(q)) /\ Touched(o) = PagesOf(o)
  BY PagesTouched DEF LockRange, Touched, Block
<1>2. o \notin Holders(p)
  BY DEF LockRange, Move, Holders, Held
<1>3. CASE p \in PagesOf(o)
  <2>1. Holders(p)' = Holders(p) \cup {o}
    BY <1>1, <1>3 DEF LockRange, Move, Holders, Held, TypeOK
  <2>. QED
    BY <1>2, <1>3, <2>1, HoldersFinite, FS_AddElement
<1>4. CASE p \notin PagesOf(o)
  <2>1. Holders(p)' = Holders(p)
    BY <1>1, <1>4 DEF LockRange, Move, Holders, Held, TypeOK
  <2>. QED
    BY <1>4, <2>1
<1>. QED
  BY <1>3, <1>4

\* unlock_range takes one holder from every page of its range, visited or not.
LEMMA HoldersUnlock ==
  ASSUME TypeOK, InSpace, NEW p \in Pages, NEW o \in Objects, NEW stop, UnlockRange(o, stop)
  PROVE  /\ Cardinality(Holders(p)') =
              IF p \in PagesOf(o) THEN Cardinality(Holders(p)) - 1 ELSE Cardinality(Holders(p))
         /\ p \in PagesOf(o) => Cardinality(Holders(p)) >= 1
<1>1. (\A q \in Objects : Touched(q)' = Touched(q)) /\ Touched(o) = PagesOf(o)
  BY PagesTouched DEF UnlockRange, Touched, Block
<1>2. CASE p \in PagesOf(o)
  <2>1. o \in Holders(p)
    BY <1>1, <1>2 DEF UnlockRange, Move, Holders, Held
  <2>2. Holders(p)' = Holders(p) \ {o}
    BY <1>1, <1>2 DEF UnlockRange, Move, Holders, Held, TypeOK
  <2>3. Cardinality(Holders(p)') = Cardinality(Holders(p)) - 1
    BY <2>1, <2>2, HoldersFinite, FS_RemoveElement
  <2>4. Cardinality(Holders(p)') \in Nat
    BY <2>2, HoldersFinite, FS_RemoveElement, FS_CardinalityType
  <2>. QED
    BY <1>2, <2>3, <2>4, HoldersFinite
<1>3. CASE p \notin PagesOf(o)
  <2>1. Holders(p)' = Holders(p)
    BY <1>1, <1>3 DEF UnlockRange, Move, Holders, Held, TypeOK
  <2>. QED
    BY <1>3, <2>1
<1>. QED
  BY <1>2, <1>3

-----------------------------------------------------------------------------
(* The counts                                                              *)

\* Every step keeps the counts from falling short of the holders.
LEMMA UndercountStep ==
  ASSUME TypeOK, InSpace, NeverUndercounted, [Next]_vars
  PROVE  NeverUndercounted'
<1>. SUFFICES ASSUME failedLocks' = 0, ~cleared', NEW p \in Pages
              PROVE  locked_pages'[p] >= Cardinality(Holders(p)')
  BY DEF NeverUndercounted
<1>1. failedLocks = 0 /\ ~cleared
  BY PagesAssumption DEF TypeOK, Next, HeapAllocate, LockRange, UnlockRange, Wipe, HeapDeallocate,
        Clear, vars
<1>2. locked_pages[p] >= Cardinality(Holders(p)) /\ locked_pages[p] \in Nat
  BY <1>1 DEF NeverUndercounted, TypeOK
<1>3. Cardinality(Holders(p)) \in Nat
  BY HoldersFinite
<1>4. ASSUME NEW o \in Objects, NEW stop \in Pages \cup {Beyond}, LockRange(o, stop)
      PROVE  locked_pages'[p] >= Cardinality(Holders(p)')
  <2>1. stop = Beyond
    BY <1>1, <1>4 DEF LockRange
  <2>2. p \in PagesOf(o) => p \in Visited(o, stop)
    BY <2>1, PagesAssumption DEF Visited, Beyond, Pages
  <2>3. p \in PagesOf(o) => locked_pages'[p] = locked_pages[p] + 1
    BY <1>4, <2>2 DEF LockRange
  <2>4. p \notin PagesOf(o) => locked_pages'[p] = locked_pages[p]
    BY <1>4 DEF LockRange, Visited
  <2>. QED
    BY <1>2, <1>3, <1>4, <2>3, <2>4, HoldersLock
<1>5. ASSUME NEW o \in Objects, NEW stop \in Pages \cup {Beyond}, UnlockRange(o, stop)
      PROVE  locked_pages'[p] >= Cardinality(Holders(p)')
  <2>1. locked_pages'[p] = locked_pages[p]
        \/ (p \in PagesOf(o) /\ locked_pages'[p] = locked_pages[p] - 1)
    BY <1>5 DEF UnlockRange, Visited
  <2>. QED
    BY <1>2, <1>3, <1>5, <2>1, HoldersUnlock
<1>6. ASSUME NEW failing \in SUBSET {q \in Pages : locked_pages[q] > 0}, Clear(failing)
      PROVE  locked_pages'[p] >= Cardinality(Holders(p)')
  <2>1. Holders(p) = {}
    BY <1>6 DEF Clear, Holders, Held
  <2>2. Cardinality(Holders(p)') = 0
    BY <1>6, <2>1, HoldersKept, FS_EmptySet
  <2>. QED
    BY <1>2, <1>6, <2>2 DEF Clear
<1>7. ASSUME NEW o \in Objects,
             \/ \E a \in Addresses, n \in 0 .. MaxSize : HeapAllocate(o, a, n)
             \/ Wipe(o)
             \/ HeapDeallocate(o)
      PROVE  locked_pages'[p] >= Cardinality(Holders(p)')
  <2>1. Holders(p)' = Holders(p)
    BY <1>7, HoldersKept
  <2>2. locked_pages' = locked_pages
    BY <1>7 DEF HeapAllocate, Wipe, HeapDeallocate
  <2>. QED
    BY <1>2, <2>1, <2>2
<1>8. CASE UNCHANGED vars
  BY <1>2, <1>8, HoldersKept DEF vars
<1>. QED
  BY <1>4, <1>5, <1>6, <1>7, <1>8 DEF Next

\* Every step keeps the counts from exceeding the holders.
LEMMA OvercountStep ==
  ASSUME TypeOK, InSpace, NeverOvercounted, [Next]_vars
  PROVE  NeverOvercounted'
<1>. SUFFICES ASSUME failedUnlocks' = 0, NEW p \in Pages
              PROVE  locked_pages'[p] <= Cardinality(Holders(p)')
  BY DEF NeverOvercounted
<1>1. failedUnlocks = 0
  BY PagesAssumption DEF TypeOK, Next, HeapAllocate, LockRange, UnlockRange, Wipe, HeapDeallocate,
        Clear, vars
<1>2. locked_pages[p] <= Cardinality(Holders(p)) /\ locked_pages[p] \in Nat
  BY <1>1 DEF NeverOvercounted, TypeOK
<1>3. Cardinality(Holders(p)) \in Nat
  BY HoldersFinite
<1>4. ASSUME NEW o \in Objects, NEW stop \in Pages \cup {Beyond}, LockRange(o, stop)
      PROVE  locked_pages'[p] <= Cardinality(Holders(p)')
  <2>1. locked_pages'[p] = locked_pages[p]
        \/ (p \in PagesOf(o) /\ locked_pages'[p] = locked_pages[p] + 1)
    BY <1>4 DEF LockRange, Visited
  <2>. QED
    BY <1>2, <1>3, <1>4, <2>1, HoldersLock
<1>5. ASSUME NEW o \in Objects, NEW stop \in Pages \cup {Beyond}, UnlockRange(o, stop)
      PROVE  locked_pages'[p] <= Cardinality(Holders(p)')
  <2>1. stop = Beyond
    BY <1>1, <1>5 DEF UnlockRange
  <2>2. p \in PagesOf(o) => p \in Visited(o, stop)
    BY <2>1, PagesAssumption DEF Visited, Beyond, Pages
  <2>3. p \in PagesOf(o) /\ locked_pages[p] > 0 => locked_pages'[p] = locked_pages[p] - 1
    BY <1>5, <2>2 DEF UnlockRange
  <2>4. p \notin PagesOf(o) \/ locked_pages[p] = 0 => locked_pages'[p] = locked_pages[p]
    BY <1>2, <1>5 DEF UnlockRange, Visited
  <2>. QED
    BY <1>2, <1>3, <1>5, <2>3, <2>4, HoldersUnlock
<1>6. ASSUME NEW failing \in SUBSET {q \in Pages : locked_pages[q] > 0}, Clear(failing)
      PROVE  locked_pages'[p] <= Cardinality(Holders(p)')
  <2>1. failing = {}
    BY <1>1, <1>6 DEF Clear
  <2>2. locked_pages'[p] = 0
    BY <1>6, <2>1 DEF Clear
  <2>3. Holders(p)' = Holders(p)
    BY <1>6, HoldersKept
  <2>. QED
    BY <1>3, <2>2, <2>3
<1>7. ASSUME NEW o \in Objects,
             \/ \E a \in Addresses, n \in 0 .. MaxSize : HeapAllocate(o, a, n)
             \/ Wipe(o)
             \/ HeapDeallocate(o)
      PROVE  locked_pages'[p] <= Cardinality(Holders(p)')
  <2>1. Holders(p)' = Holders(p)
    BY <1>7, HoldersKept
  <2>2. locked_pages' = locked_pages
    BY <1>7 DEF HeapAllocate, Wipe, HeapDeallocate
  <2>. QED
    BY <1>2, <2>1, <2>2
<1>8. CASE UNCHANGED vars
  BY <1>2, <1>8, HoldersKept DEF vars
<1>. QED
  BY <1>4, <1>5, <1>6, <1>7, <1>8 DEF Next

-----------------------------------------------------------------------------
(* The theorems                                                            *)

\* The counts stay natural numbers: the assertion that a count found in the table is
\* above 0 before it is decremented (memory.hpp:80) never lets one go below.
THEOREM TypeCorrect == Spec => []TypeOK
<1>1. Init => TypeOK
  <2>1. Init => cleared \in BOOLEAN
    BY Zenon DEF Init
  <2>. QED
    BY <2>1, PagesAssumption DEF Init, TypeOK, Stages
<1>2. TypeOK /\ [Next]_vars => TypeOK'
  BY TypeStep
<1>. QED
  BY <1>1, <1>2, PTL DEF Spec

\* A page has an entry exactly when the operating system holds it, through every
\* failure (memory.hpp:54-67, 77-89, 114-120).
THEOREM TableCorrect == Spec => []TableMatchesOs
<1>1. Init => TableMatchesOs
  BY DEF Init, TableMatchesOs
<1>2. TypeOK /\ TableMatchesOs /\ [Next]_vars => TableMatchesOs'
  BY TableStep
<1>. QED
  BY <1>1, <1>2, TypeCorrect, PTL DEF Spec

\* In every reachable state the blocks are in the address space.
LEMMA Spaced == Spec => []InSpace
<1>1. Init => InSpace
  BY PagesAssumption DEF Init, InSpace
<1>2. TypeOK /\ InSpace /\ [Next]_vars => InSpace'
  BY SpaceStep
<1>. QED
  BY <1>1, <1>2, TypeCorrect, PTL DEF Spec

\* Without a failed mlock or a clear() under a block, whatever munlock does, no page is
\* counted less often than bytes of held blocks need it (memory.hpp:81-86).
THEOREM Undercount == Spec => []NeverUndercounted
<1>1. Init => NeverUndercounted
  <2>. SUFFICES ASSUME Init, NEW p \in Pages
                PROVE  locked_pages[p] >= Cardinality(Holders(p))
    BY DEF NeverUndercounted
  <2>1. Holders(p) = {}
    BY DEF Init, Holders, Held
  <2>. QED
    BY <2>1, FS_EmptySet DEF Init
<1>2. TypeOK /\ InSpace /\ NeverUndercounted /\ [Next]_vars => NeverUndercounted'
  BY UndercountStep
<1>. QED
  BY <1>1, <1>2, TypeCorrect, Spaced, PTL DEF Spec

\* Without a failed munlock, whatever mlock does, no page is counted more often than
\* bytes of held blocks need it, so what everybody has released is unlocked
\* (memory.hpp:62-66, 79, 130-134).
THEOREM Overcount == Spec => []NeverOvercounted
<1>1. Init => NeverOvercounted
  <2>. SUFFICES ASSUME Init, NEW p \in Pages
                PROVE  locked_pages[p] <= Cardinality(Holders(p))
    BY DEF NeverOvercounted
  <2>. QED
    BY HoldersFinite DEF Init
<1>2. TypeOK /\ InSpace /\ NeverOvercounted /\ [Next]_vars => NeverOvercounted'
  BY OvercountStep
<1>. QED
  BY <1>1, <1>2, TypeCorrect, Spaced, PTL DEF Spec

\* Without a failed mlock or a clear() under a block, every page that a byte of a live
\* block is on stays locked until the block is wiped: the
\* block is one of the holders of each of its pages, so the count is above 0, and what
\* is counted is locked (secure_bytes.hpp:19, 32-46).
THEOREM SecretsLocked == Spec => []SecretsStayLocked
<1>1. TypeOK /\ TableMatchesOs /\ NeverUndercounted => SecretsStayLocked
  <2>. SUFFICES ASSUME TypeOK, TableMatchesOs, NeverUndercounted, failedLocks = 0,
                       ~cleared, NEW o \in Objects, stage[o] = "live", NEW p \in Touched(o)
                PROVE  p \in os_locked
    BY DEF SecretsStayLocked
  <2>1. p \in Pages
    BY DEF Touched
  <2>2. o \in Holders(p)
    BY DEF Holders, Held
  <2>3. Cardinality(Holders(p)) # 0
    BY <2>2, HoldersFinite, FS_EmptySet
  <2>4. locked_pages[p] > 0
    BY <2>1, <2>3, HoldersFinite DEF NeverUndercounted, TypeOK
  <2>. QED
    BY <2>1, <2>4 DEF TableMatchesOs
<1>. QED
  BY <1>1, TypeCorrect, TableCorrect, Undercount, PTL
=============================================================================
