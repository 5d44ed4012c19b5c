---------------------------- MODULE LockedPages -----------------------------
(***************************************************************************)
(* zen::LockedPagesManagerBase (src/zen/core/common/memory.hpp), the table *)
(* of the memory pages locked against page-out, and its client             *)
(* zen::secure_allocator (src/zen/core/common/secure_bytes.hpp).           *)
(*                                                                         *)
(* Each object is allocated, locked, used, wiped, unlocked and released by *)
(* some thread; the steps of different objects interleave.  lock_range,    *)
(* unlock_range and clear hold the manager's mutex from end to end and are *)
(* one step each.  Addresses are bytes 0 .. Bytes - 1 and pages are        *)
(* numbered; the operating system's mlock and munlock, which do not nest   *)
(* and may fail, and the heap, which hands out disjoint blocks, are        *)
(* external.                                                               *)
(***************************************************************************)
EXTENDS Naturals, FiniteSets

CONSTANTS
  Objects,   \* the blocks the program allocates
  Bytes,     \* bound: the size of the address space
  PageSize,  \* page_size_
  MaxSize,   \* bound: the size of a block
  MaxFails   \* bound: how often mlock and munlock fail

ASSUME PagesAssumption ==
  /\ IsFiniteSet(Objects)
  /\ Bytes \in Nat /\ PageSize \in Nat \ {0} /\ MaxSize \in Nat /\ MaxFails \in Nat

VARIABLES
  stage,         \* where each object is in its life
  base,          \* its address
  size,          \* its size in bytes
  locked_pages,  \* the lock count of each page; 0 stands for no entry
  os_locked,     \* the pages the operating system keeps in memory
  failedLocks,   \* history: failures of mlock
  failedUnlocks, \* history: failures of munlock
  cleared        \* history: clear() was called over a block that was still held

vars == <<stage, base, size, locked_pages, os_locked, failedLocks, failedUnlocks, cleared>>

Stages == {"free", "raw", "live", "wiped", "unlocked"}

Addresses == 0 .. Bytes - 1
Pages == 0 .. Bytes

\* get_range_boundaries: the first and the last page of a block that is not empty.
StartPage(o) == base[o] \div PageSize

\* MUTANT of EndPage: the byte after the last one.
EndPageWide(o) == (base[o] + size[o]) \div PageSize

EndPage(o) == (base[o] + size[o] - 1) \div PageSize

\* An empty range is turned away by lock_range and unlock_range alike.
PagesOf(o) == {p \in Pages : size[o] > 0 /\ StartPage(o) <= p /\ p <= EndPage(o)}

Block(o) == {a \in Addresses : base[o] <= a /\ a < base[o] + size[o]}

\* The loops visit the pages in order and break at the page stop; Beyond breaks none.
Beyond == Bytes + 1
Visited(o, stop) == {p \in PagesOf(o) : p < stop}

Init ==
  /\ stage = [o \in Objects |-> "free"]
  /\ base = [o \in Objects |-> 0]
  /\ size = [o \in Objects |-> 0]
  /\ locked_pages = [p \in Pages |-> 0]
  /\ os_locked = {}
  /\ failedLocks = 0
  /\ failedUnlocks = 0
  /\ cleared = FALSE

Move(o, from, to) ==
  /\ stage[o] = from
  /\ stage' = [stage EXCEPT ![o] = to]

-----------------------------------------------------------------------------
(* The heap: std::allocator::allocate and deallocate                       *)

HeapAllocate(o, a, n) ==
  /\ Move(o, "free", "raw")
  /\ a + n <= Bytes
  /\ \A q \in Objects : stage[q] # "free" =>
       \A b \in Block(q) : b < a \/ b >= a + n
  /\ base' = [base EXCEPT ![o] = a]
  /\ size' = [size EXCEPT ![o] = n]
  /\ UNCHANGED <<locked_pages, os_locked, failedLocks, failedUnlocks, cleared>>

HeapDeallocate(o) ==
  /\ Move(o, "unlocked", "free")
  /\ base' = [base EXCEPT ![o] = 0]
  /\ size' = [size EXCEPT ![o] = 0]
  /\ UNCHANGED <<locked_pages, os_locked, failedLocks, failedUnlocks, cleared>>

-----------------------------------------------------------------------------
(* lock_range, called by secure_allocator::allocate, which ignores its     *)
(* result and hands the block out                                          *)

\* MUTANT of LockRange: a page that is locked already is not counted again.
LockRangeOnce(o, stop) ==
  /\ Move(o, "raw", "live")
  /\ stop = Beyond \/ (stop \in PagesOf(o) /\ locked_pages[stop] = 0)
  /\ locked_pages' = [p \in Pages |-> IF p \in Visited(o, stop) THEN 1 ELSE locked_pages[p]]
  /\ os_locked' = os_locked \cup {p \in Visited(o, stop) : locked_pages[p] = 0}
  /\ failedLocks' = IF stop = Beyond THEN failedLocks ELSE failedLocks + 1
  /\ failedLocks' <= MaxFails
  /\ UNCHANGED <<base, size, failedUnlocks, cleared>>

\* MUTANT of LockRange: the page that could not be locked is entered all the same.
LockRangeEnterFirst(o, stop) ==
  /\ Move(o, "raw", "live")
  /\ stop = Beyond \/ (stop \in PagesOf(o) /\ locked_pages[stop] = 0)
  /\ locked_pages' = [p \in Pages |-> IF p \in Visited(o, stop) \cup {stop}
                                        THEN locked_pages[p] + 1 ELSE locked_pages[p]]
  /\ os_locked' = os_locked \cup {p \in Visited(o, stop) : locked_pages[p] = 0}
  /\ failedLocks' = IF stop = Beyond THEN failedLocks ELSE failedLocks + 1
  /\ failedLocks' <= MaxFails
  /\ UNCHANGED <<base, size, failedUnlocks, cleared>>

\* The pages before stop are counted, those that had no entry after an mlock; the
\* mlock of stop fails and ends the loop, and what was counted stays.
LockRange(o, stop) ==
  /\ Move(o, "raw", "live")
  /\ stop = Beyond \/ (stop \in PagesOf(o) /\ locked_pages[stop] = 0)
  /\ locked_pages' = [p \in Pages |-> IF p \in Visited(o, stop) THEN locked_pages[p] + 1
                                                                ELSE locked_pages[p]]
  /\ os_locked' = os_locked \cup {p \in Visited(o, stop) : locked_pages[p] = 0}
  /\ failedLocks' = IF stop = Beyond THEN failedLocks ELSE failedLocks + 1
  /\ failedLocks' <= MaxFails
  /\ UNCHANGED <<base, size, failedUnlocks, cleared>>

-----------------------------------------------------------------------------
(* secure_allocator::deallocate: wipe, unlock_range, release               *)

Wipe(o) ==
  /\ Move(o, "live", "wiped")
  /\ UNCHANGED <<base, size, locked_pages, os_locked, failedLocks, failedUnlocks, cleared>>

\* MUTANT of UnlockRange: every page of the range is unlocked at once.
UnlockRangeAll(o, stop) ==
  /\ Move(o, "wiped", "unlocked")
  /\ stop = Beyond
  /\ locked_pages' = [p \in Pages |-> IF p \in PagesOf(o) THEN 0 ELSE locked_pages[p]]
  /\ os_locked' = os_locked \ PagesOf(o)
  /\ UNCHANGED <<base, size, failedLocks, failedUnlocks, cleared>>

\* MUTANT of UnlockRange: a page without an entry is counted down too.
UnlockRangeNoFind(o, stop) ==
  /\ Move(o, "wiped", "unlocked")
  /\ stop = Beyond
  /\ locked_pages' = [p \in Pages |-> IF p \in PagesOf(o) THEN locked_pages[p] - 1
                                                           ELSE locked_pages[p]]
  /\ os_locked' = os_locked \ {p \in PagesOf(o) : locked_pages[p] = 1}
  /\ UNCHANGED <<base, size, failedLocks, failedUnlocks, cleared>>

\* Pages without an entry are passed over; an entry that comes down to 0 is erased
\* after its munlock.  The munlock of stop fails: its count is put back and the loop
\* ends, with the pages after it still counted.
UnlockRange(o, stop) ==
  /\ Move(o, "wiped", "unlocked")
  /\ stop = Beyond \/ (stop \in PagesOf(o) /\ locked_pages[stop] = 1)
  /\ LET visited == {p \in Visited(o, stop) : locked_pages[p] > 0}
     IN  /\ locked_pages' = [p \in Pages |-> IF p \in visited THEN locked_pages[p] - 1
                                                              ELSE locked_pages[p]]
         /\ os_locked' = os_locked \ {p \in visited : locked_pages[p] = 1}
  /\ failedUnlocks' = IF stop = Beyond THEN failedUnlocks ELSE failedUnlocks + 1
  /\ failedUnlocks' <= MaxFails
  /\ UNCHANGED <<base, size, failedLocks, cleared>>

\* The objects between their lock_range and their unlock_range.
Held(o) == stage[o] \in {"live", "wiped"}

\* clear(), from the manager's destructor or called outright, whoever still holds pages:
\* an entry whose munlock fails stays.
Clear(failing) ==
  /\ failing \subseteq {p \in Pages : locked_pages[p] > 0}
  /\ failing = {} \/ failedUnlocks < MaxFails
  /\ locked_pages' = [p \in Pages |-> IF p \in failing THEN locked_pages[p] ELSE 0]
  /\ os_locked' = os_locked \ {p \in Pages : locked_pages[p] > 0 /\ p \notin failing}
  /\ failedUnlocks' = IF failing = {} THEN failedUnlocks ELSE failedUnlocks + 1
  /\ cleared' = (cleared \/ \E o \in Objects : Held(o))
  /\ UNCHANGED <<stage, base, size, failedLocks>>

-----------------------------------------------------------------------------
Next ==
  \/ \E o \in Objects :
       \/ \E a \in Addresses, n \in 0 .. MaxSize : HeapAllocate(o, a, n)
       \/ \E stop \in Pages \cup {Beyond} : LockRange(o, stop) \/ UnlockRange(o, stop)
       \/ Wipe(o)
       \/ HeapDeallocate(o)
  \/ \E failing \in SUBSET {p \in Pages : locked_pages[p] > 0} : Clear(failing)

Spec == Init /\ [][Next]_vars

-----------------------------------------------------------------------------
(* Properties                                                              *)

\* Every variable holds a value of its type.
TypeOK ==
  /\ stage \in [Objects -> Stages]
  /\ base \in [Objects -> Nat]
  /\ size \in [Objects -> Nat]
  /\ locked_pages \in [Pages -> Nat]
  /\ os_locked \subseteq Pages
  /\ failedLocks \in Nat /\ failedUnlocks \in Nat /\ cleared \in BOOLEAN

\* The pages some byte of the block is on, whatever get_range_boundaries makes of it.
Touched(o) == {p \in Pages : \E a \in Block(o) : a \div PageSize = p}

\* The objects that count on page p.
Holders(p) == {o \in Objects : Held(o) /\ p \in Touched(o)}

\* The table says what the operating system does: a page has an entry exactly when
\* it is locked, through every failure of mlock and munlock (memory.hpp:54-67, 77-89,
\* 114-120).
TableMatchesOs == os_locked = {p \in Pages : locked_pages[p] > 0}

\* As long as no mlock failed and nobody cleared the table under a block, no page is
\* counted less often than it is held, whatever munlock does (memory.hpp:81-86).
NeverUndercounted ==
  failedLocks = 0 /\ ~cleared =>
    \A p \in Pages : locked_pages[p] >= Cardinality(Holders(p))

\* As long as no munlock failed, no page is counted more often than it is held: what
\* all have released is unlocked, a page that a block ends just before is not locked on
\* its account, although mlock may have failed halfway through some range
\* (memory.hpp:62-66, 79, 132-133).
NeverOvercounted ==
  failedUnlocks = 0 => \A p \in Pages : locked_pages[p] <= Cardinality(Holders(p))

\* As long as no mlock failed and nobody cleared the table under a block, the contents
\* of a block cannot be paged out before they are wiped (secure_bytes.hpp:19, 32-46).
SecretsStayLocked ==
  failedLocks = 0 /\ ~cleared =>
    \A o \in Objects : stage[o] = "live" => Touched(o) \subseteq os_locked

\* A page a live block shares with another block is locked if it was when the block was
\* handed out, whether or not some other block's mlock failed: the allocator "ensures
\* allocated memory is ... locked against page-out" (secure_bytes.hpp:19), and
\* unlock_range takes back what lock_range counted (memory.hpp:48, 71).  clear() apart,
\* which "removes all locks".
LockedStaysLocked ==
  [][\A o \in Objects :
       stage[o] = "live" /\ stage'[o] = "live" /\ Touched(o) \subseteq os_locked /\ ~cleared'
         => Touched(o) \subseteq os_locked']_vars
=============================================================================
