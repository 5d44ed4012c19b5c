--------------------------- MODULE DatabaseProofs ---------------------------
(***************************************************************************)
(* Proofs about CursorPool for any threads, cursors, handles and           *)
(* transactions, about Env for any processes, page sizes and bound of the  *)
(* data file, and about the specification that puts the parts of the       *)
(* database layer side by side.                                            *)
(***************************************************************************)
EXTENDS MCDatabase, StageDbProofs, FiniteSetTheorems

-----------------------------------------------------------------------------
(* The cursors. HandlesAccounted counts the places of a handle. The        *)
(* inductive invariant, Ownership, says the same without counting, and     *)
(* adds what the count leaves out: a cursor that is not alive holds        *)
(* nothing, so that its next construction loses nothing, and a lost handle *)
(* is never closed, so that MDBX never hands its address out again.        *)

Held(h) == \E c \in Cursors : held[c] = h
Pooled(h) == \E t \in Threads : \E i \in 1..Len(pool[t]) : pool[t][i] = h

\* No handle is twice in the pools.
PoolsApart ==
  \A t, u \in Threads : \A i \in 1..Len(pool[t]), j \in 1..Len(pool[u]) :
    pool[t][i] = pool[u][j] => t = u /\ i = j

\* No two cursors hold one handle, and only those alive hold any.
CursorsApart ==
  /\ \A c, d \in Cursors : held[c] = held[d] /\ held[c] # Null => c = d
  /\ \A c \in Cursors : c \notin alive => held[c] = Null

\* An open handle is held, pooled or lost, and a closed one is none of these.
OpenOwned ==
  \A h \in Handles :
    /\ ~(Held(h) /\ Pooled(h))
    /\ Held(h) \/ Pooled(h) <=> bound[h] # "closed" /\ h \notin leaked
    /\ h \in leaked => bound[h] # "closed"

BoundLive == \A h \in Handles : bound[h] \in Txns => bound[h] \in live

Ownership == PoolsApart /\ CursorsApart /\ OpenOwned /\ BoundLive

CursorInv == CursorPoolTypeOK /\ Ownership

-----------------------------------------------------------------------------
\* What the elements of a sequence without its head are.
LEMMA PopProperties ==
  ASSUME NEW s \in Seq(Handles), s # <<>>
  PROVE  /\ Head(s) \in Handles /\ Head(s) = s[1] /\ Len(s) \in Nat \ {0}
         /\ Tail(s) \in Seq(Handles) /\ Len(Tail(s)) = Len(s) - 1
         /\ \A i \in 1..Len(Tail(s)) : Tail(s)[i] = s[i + 1]
  OBVIOUS

\* What the elements of a sequence with a new head are.
LEMMA PushProperties ==
  ASSUME NEW s \in Seq(Handles), NEW h \in Handles
  PROVE  /\ <<h>> \o s \in Seq(Handles) /\ Len(<<h>> \o s) = Len(s) + 1 /\ Len(s) \in Nat
         /\ (<<h>> \o s)[1] = h
         /\ \A i \in 1..Len(s) : (<<h>> \o s)[i + 1] = s[i]
  OBVIOUS

\* Binding a handle closes at most that one, opens at most a closed one, and leaves the one
\* the cursor ends up with open and on a live transaction or on none.
LEMMA Bound ==
  ASSUME CursorPoolTypeOK, NEW h \in Handles, NEW g \in Handles, NEW x \in live,
         NEW ok \in BOOLEAN, BindTo(h, x, g, ok)
  PROVE  /\ bound' \in [Handles -> Txns \union {"none", "closed"}]
         /\ bound'[g] # "closed" /\ (bound'[g] \in Txns => bound'[g] \in live)
         /\ g # h => bound'[h] = "closed" /\ bound[g] = "closed"
         /\ \A k \in Handles \ {g, h} : bound'[k] = bound[k]
<1> DEFINE foreign == bound[h] \in live /\ TxnId(bound[h]) # TxnId(x)
           old == IF bound[h] \in live THEN bound[h] ELSE "none"
           closed == [bound EXCEPT ![h] = "closed"]
           new == IF ok THEN x ELSE IF foreign THEN "none" ELSE old
<1>1. /\ IF foreign THEN closed[g] = "closed" ELSE g = h
      /\ bound' = [closed EXCEPT ![g] = new]
  BY DEF BindTo
<1>2. /\ bound \in [Handles -> Txns \union {"none", "closed"}] /\ live \subseteq Txns
      /\ closed \in [Handles -> Txns \union {"none", "closed"}]
      /\ "closed" \notin Txns /\ "none" \notin Txns
  BY CursorPoolAssumption DEF CursorPoolTypeOK
<1>3. new \in live \union {"none"}
  <2>1. old \in live \union {"none"}
    OBVIOUS
  <2> QED
    BY <2>1
<1>4. closed[h] = "closed" /\ \A k \in Handles \ {h} : closed[k] = bound[k]
  BY <1>2
<1> HIDE DEF foreign, old, closed, new
<1> QED
  BY <1>1, <1>2, <1>3, <1>4

-----------------------------------------------------------------------------
\* Taking the head of a pool takes that handle out of the pools and no other.
LEMMA Popped ==
  ASSUME CursorPoolTypeOK, PoolsApart, NEW t \in Threads, pool[t] # <<>>,
         pool' = [pool EXCEPT ![t] = Tail(pool[t])]
  PROVE  /\ pool' \in [Threads -> Seq(Handles)] /\ PoolsApart'
         /\ Head(pool[t]) \in Handles /\ Pooled(Head(pool[t]))
         /\ \A k \in Handles : Pooled(k)' <=> Pooled(k) /\ k # Head(pool[t])
<1> DEFINE p == Tail(pool[t])
<1>1. pool \in [Threads -> Seq(Handles)] /\ pool[t] \in Seq(Handles)
  BY DEF CursorPoolTypeOK
<1>2. /\ Head(pool[t]) \in Handles /\ Head(pool[t]) = pool[t][1]
      /\ p \in Seq(Handles) /\ Len(p) = Len(pool[t]) - 1 /\ Len(pool[t]) \in Nat \ {0}
      /\ \A i \in 1..Len(p) : p[i] = pool[t][i + 1]
  BY <1>1, PopProperties
<1>3. pool'[t] = p /\ \A u \in Threads \ {t} : pool'[u] = pool[u]
  BY <1>1
<1>4. pool' \in [Threads -> Seq(Handles)]
  BY <1>1, <1>2
<1> HIDE DEF p
<1>5. PoolsApart'
  <2> SUFFICES ASSUME NEW u \in Threads, NEW v \in Threads,
                      NEW i \in 1..Len(pool'[u]), NEW j \in 1..Len(pool'[v]),
                      pool'[u][i] = pool'[v][j]
               PROVE  u = v /\ i = j
    BY DEF PoolsApart
  <2>1. \E k \in 1..Len(pool[u]) : pool[u][k] = pool'[u][i] /\ k = IF u = t THEN i + 1 ELSE i
    BY <1>2, <1>3
  <2>2. \E k \in 1..Len(pool[v]) : pool[v][k] = pool'[v][j] /\ k = IF v = t THEN j + 1 ELSE j
    BY <1>2, <1>3
  <2> QED
    BY <2>1, <2>2 DEF PoolsApart
<1>6. Pooled(Head(pool[t]))
  BY <1>2 DEF Pooled
<1>7. ASSUME NEW k \in Handles, Pooled(k)'
      PROVE  Pooled(k) /\ k # Head(pool[t])
  <2>p. PICK u \in Threads : \E i \in 1..Len(pool'[u]) : pool'[u][i] = k
    BY <1>7 DEF Pooled
  <2>1. PICK i \in 1..Len(pool'[u]) : pool'[u][i] = k
    BY <2>p
  <2>2. CASE u = t
    <3>1. i + 1 \in 1..Len(pool[t]) /\ pool[t][i + 1] = k /\ 1 \in 1..Len(pool[t]) /\ i + 1 # 1
      BY <1>2, <1>3, <2>1, <2>2
    <3> QED
      BY <1>2, <3>1 DEF Pooled, PoolsApart
  <2>3. CASE u # t
    <3>1. i \in 1..Len(pool[u]) /\ pool[u][i] = k /\ 1 \in 1..Len(pool[t])
      BY <1>2, <1>3, <2>1, <2>3
    <3> QED
      BY <1>2, <2>3, <3>1 DEF Pooled, PoolsApart
  <2> QED
    BY <2>2, <2>3
<1>8. ASSUME NEW k \in Handles, Pooled(k), k # Head(pool[t])
      PROVE  Pooled(k)'
  <2>p. PICK u \in Threads : \E i \in 1..Len(pool[u]) : pool[u][i] = k
    BY <1>8 DEF Pooled
  <2>1. PICK i \in 1..Len(pool[u]) : pool[u][i] = k
    BY <2>p
  <2>2. CASE u = t
    <3>1. i - 1 \in 1..Len(p) /\ p[i - 1] = k
      BY <1>2, <1>8, <2>1, <2>2
    <3> QED
      BY <1>3, <3>1 DEF Pooled
  <2>3. CASE u # t
    BY <1>3, <2>1, <2>3 DEF Pooled
  <2> QED
    BY <2>2, <2>3
<1> QED
  BY <1>2, <1>4, <1>5, <1>6, <1>7, <1>8

\* A handle that is in no pool may be added to one.
LEMMA Pushed ==
  ASSUME CursorPoolTypeOK, PoolsApart, NEW t \in Threads, NEW h \in Handles, ~Pooled(h),
         pool' = Add(t, h)
  PROVE  /\ pool' \in [Threads -> Seq(Handles)] /\ PoolsApart'
         /\ \A k \in Handles : Pooled(k)' <=> Pooled(k) \/ k = h
<1> DEFINE p == <<h>> \o pool[t]
<1>1. pool \in [Threads -> Seq(Handles)] /\ pool[t] \in Seq(Handles)
  BY DEF CursorPoolTypeOK
<1>2. /\ p \in Seq(Handles) /\ Len(p) = Len(pool[t]) + 1 /\ Len(pool[t]) \in Nat
      /\ p[1] = h /\ \A i \in 1..Len(pool[t]) : p[i + 1] = pool[t][i]
  BY <1>1, PushProperties
<1>3. pool' = [pool EXCEPT ![t] = p]
  BY DEF Add
<1> HIDE DEF p
<1>4. /\ pool' \in [Threads -> Seq(Handles)]
      /\ pool'[t] = p /\ \A u \in Threads \ {t} : pool'[u] = pool[u]
  BY <1>1, <1>2, <1>3
<1>5. \A i \in 1..Len(p) : i = 1 \/ (i - 1 \in 1..Len(pool[t]) /\ p[i] = pool[t][i - 1])
  <2> TAKE i \in 1..Len(p)
  <2>1. i # 1 => i - 1 \in 1..Len(pool[t]) /\ (i - 1) + 1 = i
    BY <1>2
  <2> QED
    BY <1>2, <2>1
<1>6. \A u \in Threads : \A i \in 1..Len(pool[u]) : pool[u][i] # h
  BY DEF Pooled
<1>0. \A u \in Threads : \A i \in 1..Len(pool'[u]) :
        IF u = t /\ i = 1 THEN pool'[u][i] = h
        ELSE \E k \in 1..Len(pool[u]) : pool'[u][i] = pool[u][k] /\ k = IF u = t THEN i - 1 ELSE i
  <2> TAKE u \in Threads
  <2> TAKE i \in 1..Len(pool'[u])
  <2>1. CASE u = t
    <3>1. i \in 1..Len(p) /\ pool'[u][i] = p[i]
      BY <1>4, <2>1
    <3> QED
      BY <1>2, <1>5, <2>1, <3>1
  <2>2. CASE u # t
    BY <1>4, <2>2
  <2> QED
    BY <2>1, <2>2
<1>7. PoolsApart'
  <2> SUFFICES ASSUME NEW u \in Threads, NEW v \in Threads,
                      NEW i \in 1..Len(pool'[u]), NEW j \in 1..Len(pool'[v]),
                      pool'[u][i] = pool'[v][j]
               PROVE  u = v /\ i = j
    BY DEF PoolsApart
  <2>1. (u = t /\ i = 1) <=> (v = t /\ j = 1)
    BY <1>0, <1>6
  <2>2. ASSUME ~(u = t /\ i = 1)
        PROVE  u = v /\ i = j
    <3>1. PICK k \in 1..Len(pool[u]) :
            pool'[u][i] = pool[u][k] /\ k = IF u = t THEN i - 1 ELSE i
      BY <1>0, <2>2
    <3>2. PICK l \in 1..Len(pool[v]) :
            pool'[v][j] = pool[v][l] /\ l = IF v = t THEN j - 1 ELSE j
      BY <1>0, <2>1, <2>2
    <3>5. pool[u][k] = pool[v][l]
      BY <3>1, <3>2
    <3>3. u = v /\ k = l
      BY <3>5 DEF PoolsApart
    <3>4. i \in Int /\ j \in Int
      BY <1>4
    <3> QED
      BY <3>1, <3>2, <3>3, <3>4
  <2> QED
    BY <2>1, <2>2
<1>8. ASSUME NEW k \in Handles, Pooled(k)'
      PROVE  Pooled(k) \/ k = h
  BY <1>0, <1>8 DEF Pooled
<1>9. ASSUME NEW k \in Handles, Pooled(k) \/ k = h
      PROVE  Pooled(k)'
  <2>1. CASE k = h
    <3>1. 1 \in 1..Len(p)
      BY <1>2
    <3> QED
      BY <1>2, <1>4, <2>1, <3>1 DEF Pooled
  <2>2. CASE Pooled(k)
    <3>p. PICK u \in Threads : \E i \in 1..Len(pool[u]) : pool[u][i] = k
      BY <2>2 DEF Pooled
    <3>1. PICK i \in 1..Len(pool[u]) : pool[u][i] = k
      BY <3>p
    <3>2. u = t => i + 1 \in 1..Len(p) /\ p[i + 1] = k
      BY <1>2, <3>1
    <3> QED
      BY <1>4, <3>1, <3>2 DEF Pooled
  <2> QED
    BY <1>9, <2>1, <2>2
<1> QED
  BY <1>4, <1>7, <1>8, <1>9

\* The end of a thread takes the handles of its pool out of the pools.
LEMMA Dropped ==
  ASSUME CursorPoolTypeOK, PoolsApart, NEW t \in Threads, pool' = [pool EXCEPT ![t] = <<>>]
  PROVE  /\ pool' \in [Threads -> Seq(Handles)] /\ PoolsApart'
         /\ \A k \in Handles :
              Pooled(k)' <=> Pooled(k) /\ ~\E i \in 1..Len(pool[t]) : pool[t][i] = k
<1>1. /\ pool' \in [Threads -> Seq(Handles)]
      /\ Len(pool'[t]) = 0 /\ \A u \in Threads \ {t} : pool'[u] = pool[u]
  BY DEF CursorPoolTypeOK
<1>2. 1..0 = {}
  OBVIOUS
<1>3. PoolsApart'
  BY <1>1, <1>2 DEF PoolsApart
<1>4. \A k \in Handles :
        Pooled(k)' <=> Pooled(k) /\ ~\E i \in 1..Len(pool[t]) : pool[t][i] = k
  BY <1>1, <1>2 DEF Pooled, PoolsApart
<1> QED
  BY <1>1, <1>3, <1>4

-----------------------------------------------------------------------------
\* Every step keeps each open handle in one place.
LEMMA CursorStepped ==
  ASSUME CursorInv, [CursorPoolNext]_cursorpoolVars
  PROVE  CursorInv'
<1> USE DEF CursorInv, Ownership
<1>t. /\ pool \in [Threads -> Seq(Handles)]
      /\ held \in [Cursors -> Handles \union {Null}] /\ alive \subseteq Cursors
      /\ bound \in [Handles -> Txns \union {"none", "closed"}]
      /\ live \subseteq Txns /\ leaked \subseteq Handles
      /\ Null \notin Handles /\ "none" \notin Txns /\ "closed" \notin Txns
  BY CursorPoolAssumption DEF CursorPoolTypeOK
<1>1. ASSUME NEW t \in Threads, NEW c \in Cursors, Destroy(t, c)
      PROVE  CursorInv'
  <2>1. /\ c \in alive /\ alive' = alive \ {c} /\ held' = [held EXCEPT ![c] = Null]
        /\ UNCHANGED <<bound, live, leaked>>
    BY <1>1 DEF Destroy
  <2>2. CASE held[c] = Null
    <3>1. held' = held /\ pool' = pool
      BY <1>1, <1>t, <2>1, <2>2 DEF Destroy
    <3>2. \A k \in Handles : (Held(k)' <=> Held(k)) /\ (Pooled(k)' <=> Pooled(k))
      BY <3>1 DEF Held, Pooled
    <3>3. CursorsApart'
      BY <2>1, <2>2, <3>1 DEF CursorsApart
    <3>4. PoolsApart' /\ OpenOwned' /\ BoundLive'
      BY <2>1, <3>1, <3>2 DEF PoolsApart, OpenOwned, BoundLive
    <3> QED
      BY <1>t, <2>1, <3>1, <3>3, <3>4 DEF CursorPoolTypeOK
  <2>3. CASE held[c] # Null
    <3>1. held[c] \in Handles /\ Held(held[c]) /\ ~Pooled(held[c])
      BY <1>t, <2>3 DEF Held, OpenOwned
    <3>2. pool' = Add(t, held[c])
      BY <1>1, <2>3 DEF Destroy
    <3>3. /\ pool' \in [Threads -> Seq(Handles)] /\ PoolsApart'
          /\ \A k \in Handles : Pooled(k)' <=> Pooled(k) \/ k = held[c]
      BY <3>1, <3>2, Pushed
    <3>4. \A k \in Handles : Held(k)' <=> Held(k) /\ k # held[c]
      BY <1>t, <2>1, <2>3 DEF Held, CursorsApart
    <3>5. CursorsApart'
      BY <1>t, <2>1 DEF CursorsApart
    <3>6. OpenOwned' /\ BoundLive'
      BY <2>1, <3>1, <3>3, <3>4 DEF OpenOwned, BoundLive
    <3> QED
      BY <1>t, <2>1, <3>3, <3>5, <3>6 DEF CursorPoolTypeOK
  <2> QED
    BY <2>2, <2>3
<1>2. ASSUME NEW t \in Threads, NEW c \in Cursors, NEW x \in Txns, Construct(t, c, x)
      PROVE  CursorInv'
  <2>1. c \notin alive /\ x \in live /\ live' = live /\ pool' = [pool EXCEPT ![t] = Rest(t)]
    BY <1>2 DEF Construct
  <2>2. PICK h \in Acquire(t), g \in Handles, ok \in BOOLEAN :
          /\ BindTo(h, x, g, ok)
          /\ alive' = IF ok THEN alive \union {c} ELSE alive
          /\ held' = [held EXCEPT ![c] = IF ok THEN g ELSE Null]
          /\ leaked' = IF ok THEN leaked ELSE leaked \union {g}
    BY <1>2 DEF Construct
  <2>3. /\ pool' \in [Threads -> Seq(Handles)] /\ PoolsApart' /\ h \in Handles /\ ~Held(h)
        /\ (Pooled(h) \/ bound[h] = "closed") /\ h \notin leaked
        /\ \A k \in Handles : Pooled(k)' <=> Pooled(k) /\ k # h
    <3>1. CASE pool[t] = <<>>
      <4>1. h \in Handles /\ bound[h] = "closed" /\ pool' = pool
        BY <1>t, <2>1, <2>2, <3>1 DEF Acquire, Rest, Fresh
      <4> QED
        BY <1>t, <4>1 DEF OpenOwned, PoolsApart, Pooled
    <3>2. CASE pool[t] # <<>>
      <4>1. h = Head(pool[t]) /\ pool' = [pool EXCEPT ![t] = Tail(pool[t])]
        BY <2>1, <2>2, <3>2 DEF Acquire, Rest
      <4> QED
        BY <3>2, <4>1, Popped DEF OpenOwned
    <3> QED
      BY <3>1, <3>2
  <2>4. h \notin leaked
    BY <2>3 DEF OpenOwned
  <2>5. /\ bound' \in [Handles -> Txns \union {"none", "closed"}]
        /\ bound'[g] # "closed" /\ (bound'[g] \in Txns => bound'[g] \in live)
        /\ g # h => bound'[h] = "closed" /\ bound[g] = "closed"
        /\ \A k \in Handles \ {g, h} : bound'[k] = bound[k]
    BY <2>1, <2>2, <2>3, Bound
  <2>6. g \notin leaked /\ ~Held(g) /\ ~Pooled(g)'
    BY <2>3, <2>4, <2>5 DEF OpenOwned
  <2>7. held[c] = Null
    BY <2>1 DEF CursorsApart
  <2>8. \A k \in Handles : Held(k)' <=> Held(k) \/ (ok /\ k = g)
    <3> TAKE k \in Handles
    <3>1. held'[c] = (IF ok THEN g ELSE Null) /\ \A d \in Cursors \ {c} : held'[d] = held[d]
      BY <1>t, <2>2
    <3> QED
      BY <1>t, <2>7, <3>1 DEF Held
  <2>9. CursorsApart'
    <3>1. held'[c] = (IF ok THEN g ELSE Null) /\ \A d \in Cursors \ {c} : held'[d] = held[d]
      BY <1>t, <2>2
    <3>2. \A d \in Cursors : held[d] # g
      BY <2>6 DEF Held
    <3>3. \A d \in Cursors : d \notin alive' => d \notin alive /\ (ok => d # c)
      BY <2>2
    <3> QED
      BY <1>t, <2>1, <3>1, <3>2, <3>3 DEF CursorsApart
  <2>10. OpenOwned'
    <3> SUFFICES ASSUME NEW k \in Handles
                 PROVE  /\ ~(Held(k)' /\ Pooled(k)')
                        /\ Held(k)' \/ Pooled(k)' <=> bound'[k] # "closed" /\ k \notin leaked'
                        /\ k \in leaked' => bound'[k] # "closed"
      BY DEF OpenOwned
    <3>1. k \in leaked' <=> k \in leaked \/ (~ok /\ k = g)
      BY <2>2
    <3>2. CASE k = g
      BY <2>5, <2>6, <2>8, <3>1, <3>2
    <3>3. CASE k = h /\ h # g
      BY <2>3, <2>4, <2>5, <2>8, <3>1, <3>3
    <3>4. CASE k # g /\ k # h
      BY <2>3, <2>5, <2>8, <3>1, <3>4 DEF OpenOwned
    <3> QED
      BY <3>2, <3>3, <3>4
  <2>11. BoundLive'
    <3> SUFFICES ASSUME NEW k \in Handles, bound'[k] \in Txns
                 PROVE  bound'[k] \in live
      BY <2>1 DEF BoundLive
    <3> QED
      BY <1>t, <2>5 DEF BoundLive
  <2>12. CursorPoolTypeOK'
    BY <1>t, <2>1, <2>2, <2>3, <2>5 DEF CursorPoolTypeOK
  <2> QED
    BY <2>3, <2>9, <2>10, <2>11, <2>12
<1>3. ASSUME NEW c \in Cursors, NEW d \in Cursors, Move(c, d)
      PROVE  CursorInv'
  <2>1. /\ c \in alive /\ c # d /\ alive' = alive \union {d}
        /\ held' = [held EXCEPT ![c] = held[d], ![d] = held[c]]
        /\ UNCHANGED <<pool, bound, live, leaked>>
    BY <1>3 DEF Move
  <2>2. /\ held'[c] = held[d] /\ held'[d] = held[c]
        /\ \A e \in Cursors \ {c, d} : held'[e] = held[e]
        /\ held' \in [Cursors -> Handles \union {Null}]
    BY <1>t, <2>1
  <2>3. \A k \in Handles : (Held(k)' <=> Held(k)) /\ (Pooled(k)' <=> Pooled(k))
    BY <2>1, <2>2 DEF Held, Pooled
  <2>4. CursorsApart'
    BY <2>1, <2>2 DEF CursorsApart
  <2>5. PoolsApart' /\ OpenOwned' /\ BoundLive'
    BY <2>1, <2>3 DEF PoolsApart, OpenOwned, BoundLive
  <2> QED
    BY <1>t, <2>1, <2>2, <2>4, <2>5 DEF CursorPoolTypeOK
<1>4. ASSUME NEW c \in Cursors, NEW x \in Txns, Rebind(c, x)
      PROVE  CursorInv'
  <2>1. /\ c \in alive /\ x \in live /\ held[c] # Null /\ held[c] \in Handles
        /\ UNCHANGED <<pool, alive, live, leaked>>
    BY <1>4, <1>t DEF Rebind
  <2>2. PICK g \in Handles, ok \in BOOLEAN :
          BindTo(held[c], x, g, ok) /\ held' = [held EXCEPT ![c] = g]
    BY <1>4 DEF Rebind
  <2> DEFINE h == held[c]
  <2>3. /\ bound' \in [Handles -> Txns \union {"none", "closed"}]
        /\ bound'[g] # "closed" /\ (bound'[g] \in Txns => bound'[g] \in live)
        /\ g # h => bound'[h] = "closed" /\ bound[g] = "closed"
        /\ \A k \in Handles \ {g, h} : bound'[k] = bound[k]
    BY <2>1, <2>2, Bound
  <2>4. Held(h) /\ ~Pooled(h) /\ h \notin leaked
    BY <2>1 DEF Held, OpenOwned
  <2>5. g # h => ~Held(g) /\ ~Pooled(g) /\ g \notin leaked
    BY <2>3 DEF OpenOwned
  <2>6. held'[c] = g /\ \A d \in Cursors \ {c} : held'[d] = held[d]
    BY <1>t, <2>2
  <2>7. \A k \in Handles : (Pooled(k)' <=> Pooled(k)) /\ (Held(k)' <=> k = g \/ (Held(k) /\ k # h))
    BY <1>t, <2>1, <2>6 DEF Held, Pooled, CursorsApart
  <2>8. CursorsApart'
    BY <1>t, <2>1, <2>5, <2>6 DEF CursorsApart, Held
  <2> HIDE DEF h
  <2>9. OpenOwned'
    BY <2>1, <2>3, <2>4, <2>5, <2>7 DEF OpenOwned
  <2>10. BoundLive' /\ PoolsApart'
    BY <1>t, <2>1, <2>3 DEF BoundLive, PoolsApart, h
  <2>11. CursorPoolTypeOK'
    BY <1>t, <2>1, <2>2, <2>3 DEF CursorPoolTypeOK
  <2> QED
    BY <2>8, <2>9, <2>10, <2>11
<1>5. ASSUME NEW c \in Cursors, Close(c)
      PROVE  CursorInv'
  <2>1. /\ c \in alive /\ held[c] # Null /\ held[c] \in Handles
        /\ bound' = [bound EXCEPT ![held[c]] = "closed"] /\ held' = [held EXCEPT ![c] = Null]
        /\ UNCHANGED <<pool, alive, live, leaked>>
    BY <1>5, <1>t DEF Close
  <2>2. Held(held[c]) /\ ~Pooled(held[c]) /\ held[c] \notin leaked
    BY <2>1 DEF Held, OpenOwned
  <2>3. \A k \in Handles : (Pooled(k)' <=> Pooled(k)) /\ (Held(k)' <=> Held(k) /\ k # held[c])
    BY <1>t, <2>1 DEF Held, Pooled, CursorsApart
  <2>4. CursorsApart' /\ BoundLive' /\ PoolsApart'
    BY <1>t, <2>1 DEF CursorsApart, BoundLive, PoolsApart
  <2>5. OpenOwned'
    BY <1>t, <2>1, <2>2, <2>3 DEF OpenOwned
  <2> QED
    BY <1>t, <2>1, <2>4, <2>5 DEF CursorPoolTypeOK
<1>6. ASSUME NEW t \in Threads, ThreadExit(t)
      PROVE  CursorInv'
  <2> DEFINE Mine(k) == \E i \in 1..Len(pool[t]) : pool[t][i] = k
  <2>1. /\ bound' = [h \in Handles |-> IF Mine(h) THEN "closed" ELSE bound[h]]
        /\ pool' = [pool EXCEPT ![t] = <<>>] /\ UNCHANGED <<held, alive, live, leaked>>
    BY <1>6 DEF ThreadExit
  <2>2. /\ pool' \in [Threads -> Seq(Handles)] /\ PoolsApart'
        /\ \A k \in Handles : Pooled(k)' <=> Pooled(k) /\ ~Mine(k)
    BY <2>1, Dropped
  <2>3. \A k \in Handles : (Mine(k) => Pooled(k)) /\ (Held(k)' <=> Held(k))
    BY <2>1 DEF Pooled, Held
  <2> HIDE DEF Mine
  <2>4. OpenOwned'
    BY <2>1, <2>2, <2>3 DEF OpenOwned
  <2>5. CursorsApart' /\ BoundLive'
    BY <1>t, <2>1 DEF CursorsApart, BoundLive
  <2> QED
    BY <1>t, <2>1, <2>2, <2>4, <2>5 DEF CursorPoolTypeOK
<1>7. ASSUME NEW x \in Txns, BeginTxn(x) \/ EndTxn(x)
      PROVE  CursorInv'
  <2>1. /\ UNCHANGED <<pool, held, alive, leaked>> /\ live' \subseteq Txns
        /\ bound' \in [Handles -> Txns \union {"none", "closed"}]
        /\ \A h \in Handles : bound'[h] = "closed" <=> bound[h] = "closed"
        /\ \A h \in Handles : bound'[h] \in Txns => bound'[h] \in live'
    BY <1>7, <1>t DEF BeginTxn, EndTxn, BoundLive
  <2>2. \A k \in Handles : (Pooled(k)' <=> Pooled(k)) /\ (Held(k)' <=> Held(k))
    BY <2>1 DEF Pooled, Held
  <2>3. OpenOwned' /\ BoundLive' /\ CursorsApart' /\ PoolsApart'
    BY <2>1, <2>2 DEF OpenOwned, BoundLive, CursorsApart, PoolsApart
  <2> QED
    BY <1>t, <2>1, <2>3 DEF CursorPoolTypeOK
<1>8. CASE UNCHANGED cursorpoolVars
  BY <1>8
  DEF cursorpoolVars, CursorPoolTypeOK, PoolsApart, CursorsApart, OpenOwned, BoundLive, Held, Pooled
<1> QED
  BY <1>1, <1>2, <1>3, <1>4, <1>5, <1>6, <1>7, <1>8 DEF CursorPoolNext

LEMMA CursorStarted == CursorPoolInit => CursorInv
<1> SUFFICES ASSUME CursorPoolInit
             PROVE  CursorInv
  OBVIOUS
<1>1. /\ \A t \in Threads : pool[t] = <<>> /\ Len(pool[t]) = 0
      /\ \A c \in Cursors : held[c] = Null
      /\ \A h \in Handles : bound[h] = "closed"
      /\ leaked = {}
  BY DEF CursorPoolInit
<1>2. CursorPoolTypeOK
  BY DEF CursorPoolInit, CursorPoolTypeOK
<1>3. \A h \in Handles : ~Held(h) /\ ~Pooled(h)
  BY <1>1, CursorPoolAssumption DEF Held, Pooled
<1>4. PoolsApart /\ CursorsApart /\ OpenOwned /\ BoundLive
  BY <1>1, <1>3, CursorPoolAssumption DEF PoolsApart, CursorsApart, OpenOwned, BoundLive
<1> QED
  BY <1>2, <1>4 DEF CursorInv, Ownership

LEMMA CursorInvariant == CursorPoolSpec => []CursorInv
<1>1. CursorInv /\ [CursorPoolNext]_cursorpoolVars => CursorInv'
  BY CursorStepped
<1> QED
  BY <1>1, CursorStarted, PTL DEF CursorPoolSpec

\* One place for an open handle, none for a closed or lost one.
LEMMA Accounted == CursorInv => HandlesAccounted
<1> SUFFICES ASSUME CursorInv, NEW h \in Handles
             PROVE  /\ Cardinality(Places(h)) = IF bound[h] = "closed" \/ h \in leaked THEN 0 ELSE 1
                    /\ bound[h] \in Txns => bound[h] \in live
  BY DEF HandlesAccounted
<1> USE DEF CursorInv, Ownership
<1>a. alive \subseteq Cursors /\ \A c \in Cursors : held[c] = h => c \in alive
  BY CursorPoolAssumption DEF CursorPoolTypeOK, CursorsApart
<1>p. \A p : p \in Places(h) <=>
        \/ \E c \in Cursors : held[c] = h /\ p = <<c, 0>>
        \/ \E t \in Threads : \E i \in 1..Len(pool[t]) : pool[t][i] = h /\ p = <<t, i>>
  BY <1>a DEF Places
<1>1. CASE bound[h] = "closed" \/ h \in leaked
  <2>1. ~Held(h) /\ ~Pooled(h)
    BY <1>1 DEF OpenOwned
  <2>2. Places(h) = {}
    BY <1>p, <2>1 DEF Held, Pooled
  <2> QED
    BY <1>1, <2>2, FS_EmptySet DEF BoundLive
<1>2. CASE ~(bound[h] = "closed" \/ h \in leaked)
  <2>1. \E p : Places(h) = {p}
    <3>1. CASE Held(h)
      <4>1. PICK c \in Cursors : held[c] = h
        BY <3>1 DEF Held
      <4>2. \A p : p \in Places(h) <=> p = <<c, 0>>
        BY <1>p, <3>1, <4>1, CursorPoolAssumption DEF OpenOwned, Pooled, CursorsApart
      <4>3. Places(h) = {<<c, 0>>}
        BY <4>2
      <4> QED
        BY <4>3
    <3>2. CASE Pooled(h)
      <4>p. PICK t \in Threads : \E i \in 1..Len(pool[t]) : pool[t][i] = h
        BY <3>2 DEF Pooled
      <4>1. PICK i \in 1..Len(pool[t]) : pool[t][i] = h
        BY <4>p
      <4>2. \A p : p \in Places(h) <=> p = <<t, i>>
        BY <1>p, <3>2, <4>1 DEF OpenOwned, Held, PoolsApart
      <4>3. Places(h) = {<<t, i>>}
        BY <4>2
      <4> QED
        BY <4>3
    <3> QED
      BY <1>2, <3>1, <3>2 DEF OpenOwned
  <2>2. Cardinality(Places(h)) = 1
    BY <2>1, FS_Singleton
  <2> QED
    BY <1>2, <2>2 DEF BoundLive
<1> QED
  BY <1>1, <1>2

\* Types of the cursors and pools, for any number of them (mdbx.cpp, object_pool.hpp).
THEOREM CursorTypes == CursorPoolSpec => []CursorPoolTypeOK
<1>1. CursorInv => CursorPoolTypeOK
  BY DEF CursorInv
<1> QED
  BY <1>1, CursorInvariant, PTL

\* For any threads, cursors, handles and transactions: an open handle is in exactly one place
\* or lost by a constructor that threw, a closed one in none, and none is bound to a transaction
\* that has ended (Cursor of mdbx.cpp, object_pool.hpp).
THEOREM Handled == CursorPoolSpec => []HandlesAccounted
  BY Accounted, CursorInvariant, PTL

-----------------------------------------------------------------------------
(* The environment. OpenSound is inductive with the types: nothing shrinks  *)
(* the data file, and its page size is fixed once it has data.             *)

EnvInv == EnvTypeOK /\ OpenSound

\* open_env up to MDBX: the directory is there once the checks have passed.
LEMMA EnvChecked ==
  ASSUME EnvInv, NEW p \in Processes, NEW config \in EnvConfigs, CheckEnv(p, config)
  PROVE  EnvInv'
<1> DEFINE path == IF disk.path = "absent" THEN "directory" ELSE disk.path
           call == [at |-> "checked", create |-> config.create, readonly |-> config.readonly,
                    page |-> config.page_size, map |-> MapSize(config)]
<1>1. disk \in Disks /\ env \in [Processes -> Envs]
  BY DEF EnvInv, EnvTypeOK
<1>2. /\ config.create \in BOOLEAN /\ config.readonly \in BOOLEAN
      /\ config.page_size \in PageSizes /\ config.max_size \in 1..MaxFile
  BY DEF EnvConfigs
<1>3. disk' = [disk EXCEPT !.path = path]
  BY DEF CheckEnv
<1>4. /\ disk' \in Disks /\ disk'.size = disk.size /\ disk'.page = disk.page
      /\ disk'.path = path
  BY <1>1, <1>3 DEF Disks
<1>5. MapSize(config) \in 0..MaxFile
  BY <1>2, EnvAssumption DEF MapSize, kInMemorySize
<1>6. call \in Envs
  BY <1>2, <1>5 DEF Envs
<1>7. CASE Accepts(config)
  <2>1. env' = [env EXCEPT ![p] = call]
    BY <1>7 DEF CheckEnv
  <2>2. path = "directory" /\ (~config.create => disk.size # 0)
    BY <1>1, <1>7 DEF Accepts, Disks
  <2>3. disk.size \in Nat
    BY <1>1, EnvAssumption DEF Disks
  <2>4. EnvTypeOK'
    BY <1>1, <1>4, <1>6, <2>1 DEF EnvTypeOK
  <2>5. ASSUME NEW q \in Processes
        PROVE  /\ env'[q].at # "closed" =>
                    disk'.path = "directory" /\ (~env'[q].create => disk'.size > 0)
               /\ env'[q].at = "open" => disk'.size > 0 /\ disk'.page = env'[q].page
    <3>1. CASE q = p
      BY <1>1, <1>4, <2>1, <2>2, <2>3, <3>1
    <3>2. CASE q # p
      BY <1>1, <1>4, <2>1, <2>2, <3>2 DEF EnvInv, OpenSound
    <3> QED
      BY <3>1, <3>2
  <2> QED
    BY <2>4, <2>5 DEF EnvInv, OpenSound
<1>8. CASE ~Accepts(config)
  BY <1>1, <1>4, <1>8 DEF CheckEnv, EnvInv, EnvTypeOK, OpenSound
<1> QED
  BY <1>7, <1>8

\* The rest of open_env, whatever other processes did since the checks.
LEMMA EnvOpened ==
  ASSUME EnvInv, NEW p \in Processes, OpenEnv(p)
  PROVE  EnvInv'
<1>1. disk \in Disks /\ env \in [Processes -> Envs] /\ env[p] \in Envs
  BY DEF EnvInv, EnvTypeOK
<1>2. env[p].at = "checked"
  BY DEF OpenEnv
<1>3. Closed \in Envs
  BY EnvAssumption DEF Closed, Envs
<1>4. /\ OpenedDisk(p) \in Disks /\ OpenedDisk(p).path = disk.path
      /\ OpenedDisk(p).size = IF disk.size = 0 THEN 1 ELSE disk.size
      /\ disk.size # 0 => OpenedDisk(p).page = disk.page
  <2>1. 1 \in 0..MaxFile
    BY EnvAssumption DEF kInMemorySize
  <2> QED
    BY <1>1, <2>1 DEF OpenedDisk, Disks, Envs
<1>5. disk.size \in Nat
  BY <1>1, EnvAssumption DEF Disks
<1>6. /\ disk' \in Disks /\ disk'.path = disk.path
      /\ disk'.size \in Nat /\ (disk.size > 0 => disk'.size = disk.size /\ disk'.page = disk.page)
  BY <1>1, <1>4, <1>5 DEF OpenEnv
<1>7. CASE env' = [env EXCEPT ![p] = Closed]
  BY <1>1, <1>3, <1>6, <1>7 DEF EnvInv, EnvTypeOK, OpenSound, Closed
<1>8. CASE /\ OpenedDisk(p).page = env[p].page
           /\ disk' = OpenedDisk(p) /\ env' = [env EXCEPT ![p].at = "open"]
  <2> DEFINE opened == [env[p] EXCEPT !.at = "open"]
  <2>1. /\ opened \in Envs /\ opened.at = "open" /\ opened.page = env[p].page
        /\ opened.create = env[p].create
    BY <1>1 DEF Envs
  <2>2. env' = [env EXCEPT ![p] = opened]
    BY <1>8
  <2> HIDE DEF opened
  <2>3. EnvTypeOK'
    BY <1>1, <1>6, <2>1, <2>2 DEF EnvTypeOK
  <2>4. disk'.path = "directory" /\ disk'.size > 0 /\ disk'.page = env[p].page
    BY <1>2, <1>4, <1>5, <1>8 DEF EnvInv, OpenSound
  <2>5. OpenSound'
    BY <1>1, <1>6, <2>1, <2>2, <2>4 DEF EnvInv, OpenSound
  <2> QED
    BY <2>3, <2>5 DEF EnvInv
<1> QED
  BY <1>7, <1>8 DEF OpenEnv

\* Every step of every process keeps it.
LEMMA EnvStepped ==
  ASSUME EnvInv, [EnvNext]_envVars
  PROVE  EnvInv'
<1>1. ASSUME NEW p \in Processes, GrowFile(p)
      PROVE  EnvInv'
  <2>1. disk.size < MaxFile /\ disk' = [disk EXCEPT !.size = @ + 1] /\ env' = env
    BY <1>1 DEF GrowFile
  <2>2. disk \in Disks
    BY DEF EnvInv, EnvTypeOK
  <2>3. disk.size \in 0..MaxFile /\ disk.size + 1 \in 0..MaxFile
    BY <2>1, <2>2, EnvAssumption DEF Disks
  <2>4. /\ disk' \in Disks
        /\ disk'.path = disk.path /\ disk'.page = disk.page /\ disk'.size = disk.size + 1
    BY <2>1, <2>2, <2>3 DEF Disks
  <2>5. disk'.size > 0
    BY <2>3, <2>4, EnvAssumption
  <2> QED
    BY <2>1, <2>4, <2>5 DEF EnvInv, EnvTypeOK, OpenSound
<1>2. ASSUME NEW p \in Processes, CloseEnv(p)
      PROVE  EnvInv'
  <2>1. Closed \in Envs /\ Closed.at = "closed"
    BY EnvAssumption DEF Closed, Envs
  <2> QED
    BY <1>2, <2>1 DEF CloseEnv, EnvInv, EnvTypeOK, OpenSound
<1>3. CASE UNCHANGED envVars
  BY <1>3 DEF envVars, EnvInv, EnvTypeOK, OpenSound
<1> QED
  BY <1>1, <1>2, <1>3, EnvChecked, EnvOpened DEF EnvNext

\* The initial states are sound.
LEMMA EnvStarted ==
  ASSUME EnvInit
  PROVE  EnvInv
<1>1. Closed \in Envs /\ Closed.at = "closed"
  BY EnvAssumption DEF Closed, Envs
<1>2. disk \in Disks
  BY EnvAssumption DEF EnvInit, Disks
<1>3. env = [p \in Processes |-> Closed]
  BY DEF EnvInit
<1> QED
  BY <1>1, <1>2, <1>3 DEF EnvInv, EnvTypeOK, OpenSound

LEMMA EnvInvariant == EnvSpec => []EnvInv
<1>1. EnvInit => EnvInv
  BY EnvStarted
<1>2. EnvInv /\ [EnvNext]_envVars => EnvInv'
  BY EnvStepped
<1> QED
  BY <1>1, <1>2, PTL DEF EnvSpec

\* However many processes check, create, open, grow and close one data file between each
\* other's steps: no configuration without create makes one, and an open environment has
\* the page size that was asked for (open_env, mdbx.cpp:66-72, 129-135).
THEOREM OpenIsSound == EnvSpec => []OpenSound
<1>1. EnvInv => OpenSound
  BY DEF EnvInv
<1> QED
  BY <1>1, EnvInvariant, PTL

-----------------------------------------------------------------------------
(* The parts together: the specification of the run implements each of     *)
(* them, so that what is proved of a part holds of the whole.              *)

LEMMA Parts == Spec => StageDbSpec /\ EnvSpec /\ CursorPoolSpec
<1> DEFINE vars == <<part, stagedbVars, envVars, cursorpoolVars, walkVars>>
<1>1. Init => StageDbInit /\ EnvInit /\ CursorPoolInit
  BY DEF Init
<1>2. [Next]_vars => [StageDbNext]_stagedbVars
  BY DEF Next
<1>3. [Next]_vars => [EnvNext]_envVars
  BY DEF Next
<1>4. [Next]_vars => [CursorPoolNext]_cursorpoolVars
  BY DEF Next
<1> QED
  BY <1>1, <1>2, <1>3, <1>4, PTL DEF Spec, StageDbSpec, EnvSpec, CursorPoolSpec

\* Every member and every row of the database layer keeps its type (mdbx.cpp, stages.cpp,
\* access_layer.cpp).
THEOREM DatabaseTypes == Spec => []TypeOK
<1>1. EnvInv => EnvTypeOK
  BY DEF EnvInv
<1>2. StageDbTypeOK /\ EnvTypeOK /\ CursorPoolTypeOK => TypeOK
  BY DEF TypeOK
<1> QED
  BY <1>1, <1>2, Parts, StageTypes, EnvInvariant, CursorTypes, PTL

\* The properties of the parts hold of the database layer: handles of cursors, environments,
\* the abstract store and the stages in step.
THEOREM DatabaseSound ==
  Spec => []HandlesAccounted /\ []OpenSound /\ StoreImplements /\ StagesTogether
  BY Parts, Handled, OpenIsSound, Implements, StagesInStep, PTL
=============================================================================
