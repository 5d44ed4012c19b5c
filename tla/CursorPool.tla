----------------------------- MODULE CursorPool -----------------------------
(* Cursor of mdbx.cpp and the thread-local ObjectPool its MDBX handles come  *)
(* from and go to: who holds which handle, through moves, rebinding, closing,*)
(* failed constructors, ends of transactions and ends of threads. MDBX is    *)
(* external: a handle knows the live transaction it is bound to, and loses   *)
(* it when that transaction ends.                                            *)
EXTENDS Integers, Sequences, FiniteSets

CONSTANTS
  Threads,          \* each with a pool of its own
  Cursors,          \* Cursor objects
  Handles,          \* MDBX_cursor addresses; bounds the handles alive at once
  Txns,             \* transactions
  TxnId(_),         \* their ids: readers of one snapshot share one
  Null

ASSUME CursorPoolAssumption == Null \notin Handles /\ {"none", "closed"} \intersect Txns = {}

VARIABLES
  pool,             \* per thread: handles ready for reuse, the top first
  held,             \* per cursor: handle_ or Null
  alive,            \* cursors between construction and destruction
  bound,            \* per handle: its transaction, "none" when unbound, "closed"
  live,             \* transactions that are open
  leaked            \* handles of constructors that threw (history)

cursorpoolVars == <<pool, held, alive, bound, live, leaked>>

CursorPoolInit ==
  /\ pool = [t \in Threads |-> <<>>]
  /\ held = [c \in Cursors |-> Null] /\ alive = {}
  /\ bound = [h \in Handles |-> "closed"]
  /\ live = {} /\ leaked = {}

-----------------------------------------------------------------------------
(* mdbx_cursor_create gives the address of no other handle. *)
Fresh == {h \in Handles : bound[h] = "closed"}

(* ObjectPool::acquire, else mdbx_cursor_create. *)
Acquire(t) == IF pool[t] = <<>> THEN Fresh ELSE {Head(pool[t])}
Rest(t) == IF pool[t] = <<>> THEN <<>> ELSE Tail(pool[t])

(* Cursor::bind of handle h to transaction x leaves the cursor with handle g:*)
(* one bound to a live transaction with another id is closed and replaced.   *)
(* open_map or the binding itself may fail (ok is FALSE).                    *)
BindTo(h, x, g, ok) ==
  LET foreign == bound[h] \in live /\ TxnId(bound[h]) # TxnId(x)
      old == IF bound[h] \in live THEN bound[h] ELSE "none"
      closed == [bound EXCEPT ![h] = "closed"]
  IN  /\ IF foreign THEN closed[g] = "closed" ELSE g = h
      /\ bound' = [closed EXCEPT ![g] = IF ok THEN x ELSE IF foreign THEN "none" ELSE old]

(* The constructor. When the binding throws no destructor runs, and the      *)
(* handle is neither closed nor given back.                                  *)
Construct(t, c, x) ==
  /\ c \notin alive /\ x \in live
  /\ \E h \in Acquire(t), g \in Handles, ok \in BOOLEAN :
       /\ BindTo(h, x, g, ok)
       /\ alive' = IF ok THEN alive \union {c} ELSE alive
       /\ held' = [held EXCEPT ![c] = IF ok THEN g ELSE Null]
       /\ leaked' = IF ok THEN leaked ELSE leaked \union {g}
  /\ pool' = [pool EXCEPT ![t] = Rest(t)]
  /\ UNCHANGED live

(* ObjectPool::add: the last one in is the first one out. *)
Add(t, h) == [pool EXCEPT ![t] = <<h>> \o @]

(* The destructor, on any thread: the handle goes to that thread's pool. *)
Destroy(t, c) ==
  /\ c \in alive
  /\ alive' = alive \ {c}
  /\ held' = [held EXCEPT ![c] = Null]
  /\ pool' = IF held[c] = Null THEN pool ELSE Add(t, held[c])
  /\ UNCHANGED <<bound, live, leaked>>

(* Move construction and move assignment swap handle_. *)
Move(c, d) ==
  /\ c \in alive /\ c # d
  /\ alive' = alive \union {d}
  /\ held' = [held EXCEPT ![c] = held[d], ![d] = held[c]]
  /\ UNCHANGED <<pool, bound, live, leaked>>

(* bind throws on a cursor that has no handle. *)
Rebind(c, x) ==
  /\ c \in alive /\ x \in live /\ held[c] # Null
  /\ \E g \in Handles, ok \in BOOLEAN :
       BindTo(held[c], x, g, ok) /\ held' = [held EXCEPT ![c] = g]
  /\ UNCHANGED <<pool, alive, live, leaked>>

\* Mutant: handle_ keeps the address of the handle that was closed.
CloseKeeps(c) ==
  /\ c \in alive /\ held[c] # Null
  /\ bound' = [bound EXCEPT ![held[c]] = "closed"]
  /\ UNCHANGED <<pool, held, alive, live, leaked>>

Close(c) ==
  /\ c \in alive /\ held[c] # Null
  /\ bound' = [bound EXCEPT ![held[c]] = "closed"]
  /\ held' = [held EXCEPT ![c] = Null]
  /\ UNCHANGED <<pool, alive, live, leaked>>

(* The end of a thread destroys its pool, whose deleter closes the handles. *)
ThreadExit(t) ==
  /\ bound' = [h \in Handles |-> IF \E i \in 1..Len(pool[t]) : pool[t][i] = h THEN "closed" ELSE bound[h]]
  /\ pool' = [pool EXCEPT ![t] = <<>>]
  /\ UNCHANGED <<held, alive, live, leaked>>

BeginTxn(x) ==
  /\ x \notin live /\ live' = live \union {x}
  /\ UNCHANGED <<pool, held, alive, bound, leaked>>

(* MDBX unbinds the handles of a transaction that ends. *)
EndTxn(x) ==
  /\ x \in live /\ live' = live \ {x}
  /\ bound' = [h \in Handles |-> IF bound[h] = x THEN "none" ELSE bound[h]]
  /\ UNCHANGED <<pool, held, alive, leaked>>

CursorPoolNext ==
  \/ \E t \in Threads, c \in Cursors : Destroy(t, c) \/ \E x \in Txns : Construct(t, c, x)
  \/ \E c, d \in Cursors : Move(c, d)
  \/ \E c \in Cursors : Close(c) \/ \E x \in Txns : Rebind(c, x)
  \/ \E t \in Threads : ThreadExit(t)
  \/ \E x \in Txns : BeginTxn(x) \/ EndTxn(x)

CursorPoolSpec == CursorPoolInit /\ [][CursorPoolNext]_cursorpoolVars

-----------------------------------------------------------------------------
(* The state is well typed. *)
CursorPoolTypeOK ==
  /\ pool \in [Threads -> Seq(Handles)]
  /\ held \in [Cursors -> Handles \union {Null}] /\ alive \subseteq Cursors
  /\ bound \in [Handles -> Txns \union {"none", "closed"}]
  /\ live \subseteq Txns /\ leaked \subseteq Handles

Places(h) ==
  {<<c, 0>> : c \in {c \in alive : held[c] = h}}
  \union UNION {{<<t, i>> : i \in {i \in 1..Len(pool[t]) : pool[t][i] = h}} : t \in Threads}

(* Through moves, rebinding, closing, pooling on other threads and the ends  *)
(* of transactions: an open handle is in exactly one place, one cursor or    *)
(* one pool (or lost by a constructor that threw), and a closed one in none, *)
(* so that none is closed twice, used after it was closed or used by two     *)
(* cursors; and none stays bound to a transaction that has ended.            *)
HandlesAccounted ==
  \A h \in Handles :
    /\ Cardinality(Places(h)) = IF bound[h] = "closed" \/ h \in leaked THEN 0 ELSE 1
    /\ bound[h] \in Txns => bound[h] \in live

=============================================================================
