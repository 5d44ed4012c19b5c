---------------------------- MODULE LibraryProofs ---------------------------
(***************************************************************************)
(* Proofs about the parts of the common library: what several threads      *)
(* share without a lock of the caller's (the flags of Ossignals, for any   *)
(* number of handlers, and the log), the CappedSet, the StopWatch, the     *)
(* directories that several processes create, clear and remove, and the    *)
(* DataStream and the texts for people.                                    *)
(***************************************************************************)
EXTENDS Ossignals, LogBuffer, Helpers, DataStream, HumanText, FiniteSetTheorems,
        SequenceTheorems, WellFoundedInduction, TLAPS

-----------------------------------------------------------------------------
(* Ossignals. The counts alone are not inductive: that the flag is up for  *)
(* every handler past its compare and swap, that one about to store raised *)
(* it, and that a reset under way has all handlers idle is needed too.     *)

SignalTypes ==
  /\ flagged \in BOOLEAN /\ aborted \in BOOLEAN
  /\ sig_code \in Codes \union {NoCode} /\ first \in Codes \union {NoCode}
  /\ sig_count \in 0..PanicCount /\ delivered \in 0..(PanicCount + 1) /\ handled \in Nat
  /\ hpc \in [Handlers -> {"idle", "cas", "store", "count", "custom"}]
  /\ hcode \in [Handlers -> Codes \union {NoCode}]
  /\ rpc \in {"idle", "count"} /\ thrower \in {-2, -1, NoCode} \union Codes

Raised == \A h \in Handlers : hpc[h] \in {"store", "count", "custom"} => flagged
Storing == \A h \in Handlers : hpc[h] = "store" => first = hcode[h]
Stored == flagged /\ (\A h \in Handlers : hpc[h] # "store") => sig_code = first
Resetting == rpc = "count" => ~flagged /\ \A h \in Handlers : hpc[h] = "idle"
Counted ==
  /\ delivered = sig_count + Running({"cas", "store", "count"})
  /\ sig_count = handled + Running({"custom"})
  /\ rpc = "idle" /\ sig_count > 0 => flagged

SignalInv ==
  /\ SignalTypes
  /\ aborted <=> sig_count >= PanicCount
  /\ ResetQuiet => Raised /\ Storing /\ Stored /\ Resetting /\ Counted

\* The number of handlers at some places is a number.
LEMMA RunningIsNat ==
  ASSUME NEW S
  PROVE  /\ Running(S) \in Nat
         /\ Running(S) = 0 <=> \A h \in Handlers : hpc[h] \notin S
<1>1. {h \in Handlers : hpc[h] \in S} \subseteq Handlers
  OBVIOUS
<1>2. IsFiniteSet({h \in Handlers : hpc[h] \in S})
  BY <1>1, OssignalsAssumption, FS_Subset
<1> QED
  BY <1>2, FS_CardinalityType, FS_EmptySet DEF Running

\* One handler moves: it leaves the count of where it was and enters that of where it is.
LEMMA Moved ==
  ASSUME SignalTypes, NEW h \in Handlers, NEW l, hpc' = [hpc EXCEPT ![h] = l], NEW S
  PROVE  /\ hpc[h] \in S /\ l \in S => Running(S)' = Running(S)
         /\ hpc[h] \notin S /\ l \notin S => Running(S)' = Running(S)
         /\ hpc[h] \notin S /\ l \in S => Running(S)' = Running(S) + 1
         /\ hpc[h] \in S /\ l \notin S => Running(S)' = Running(S) - 1
<1> DEFINE A == {k \in Handlers : hpc[k] \in S}
           B == {k \in Handlers : hpc'[k] \in S}
<1>1. IsFiniteSet(A)
  BY OssignalsAssumption, FS_Subset
<1>2. Running(S) = Cardinality(A) /\ Running(S)' = Cardinality(B)
  BY DEF Running
<1>3. hpc'[h] = l /\ \A k \in Handlers : k # h => hpc'[k] = hpc[k]
  BY DEF SignalTypes
<1>4. CASE hpc[h] \in S /\ l \in S
  <2>1. A = B
    BY <1>3, <1>4
  <2> QED
    BY <1>2, <1>4, <2>1
<1>5. CASE hpc[h] \notin S /\ l \notin S
  <2>1. A = B
    BY <1>3, <1>5
  <2> QED
    BY <1>2, <1>5, <2>1
<1>6. CASE hpc[h] \notin S /\ l \in S
  <2>1. B = A \union {h} /\ h \notin A
    BY <1>3, <1>6
  <2>2. Cardinality(B) = Cardinality(A) + 1
    BY <1>1, <2>1, FS_AddElement
  <2> QED
    BY <1>2, <1>6, <2>2
<1>7. CASE hpc[h] \in S /\ l \notin S
  <2>1. B = A \ {h} /\ h \in A
    BY <1>3, <1>7
  <2>2. Cardinality(B) = Cardinality(A) - 1
    BY <1>1, <2>1, FS_RemoveElement
  <2> QED
    BY <1>2, <1>7, <2>2
<1> QED
  BY <1>4, <1>5, <1>6, <1>7

\* Every step keeps the invariant.
LEMMA SignalStepped ==
  ASSUME SignalInv, [OssignalsNext]_ossignalsVars
  PROVE  SignalInv'
<1> DEFINE early == {"cas", "store", "count"}
<1>t. SignalTypes
  BY DEF SignalInv
<1>n. Running(early) \in Nat /\ Running({"custom"}) \in Nat
  BY RunningIsNat
<1>p. PanicCount \in Nat /\ PanicCount > 0
  BY OssignalsAssumption
<1>1. ASSUME NEW h \in Handlers, NEW c \in Codes, ~aborted, Deliver(h, c)
      PROVE  SignalInv'
  <2>1. Running(early)' = Running(early) + 1 /\ Running({"custom"})' = Running({"custom"})
    <3>1. hpc[h] = "idle" /\ hpc' = [hpc EXCEPT ![h] = "cas"]
      BY <1>1 DEF Deliver, Goto
    <3>2. "idle" \notin early /\ "cas" \in early /\ "idle" \notin {"custom"}
            /\ "cas" \notin {"custom"}
      OBVIOUS
    <3> HIDE DEF early
    <3> QED
      BY <1>t, <3>1, <3>2, Moved
  <2>2. SignalTypes'
    BY <1>t, <1>p, <1>1 DEF SignalTypes, Deliver, Goto
  <2>3. ASSUME ResetQuiet
        PROVE  Raised' /\ Storing' /\ Stored' /\ Resetting'
    BY <1>t, <1>1, <2>3 DEF SignalInv, SignalTypes, Deliver, Goto, Raised, Storing, Stored,
         Resetting
  <2>4. ASSUME ResetQuiet
        PROVE  Counted'
    BY <1>t, <1>n, <1>1, <2>1, <2>4 DEF SignalInv, SignalTypes, Deliver, Counted
  <2> QED
    BY <1>1, <2>2, <2>3, <2>4 DEF SignalInv, Deliver
<1>2. ASSUME NEW h \in Handlers, ~aborted, RaiseFlag(h)
      PROVE  SignalInv'
  <2>1. Running(early)' = Running(early) /\ Running({"custom"})' = Running({"custom"})
    BY <1>t, <1>2, Moved DEF RaiseFlag, Goto
  <2>2. SignalTypes'
    BY <1>t, <1>2 DEF SignalTypes, RaiseFlag, Goto
  <2>3. ASSUME ResetQuiet
        PROVE  Raised' /\ Storing' /\ Stored' /\ Resetting'
    <3>1. CASE flagged
      BY <1>t, <1>2, <2>3, <3>1
      DEF SignalInv, SignalTypes, RaiseFlag, Goto, Raised, Storing, Stored, Resetting
    <3>2. CASE ~flagged
      BY <1>t, <1>2, <2>3, <3>2
      DEF SignalInv, SignalTypes, RaiseFlag, Goto, Raised, Storing, Stored, Resetting
    <3> QED
      BY <3>1, <3>2
  <2>4. ASSUME ResetQuiet
        PROVE  Counted'
    BY <1>t, <1>n, <1>2, <2>1, <2>4 DEF SignalInv, SignalTypes, RaiseFlag, Counted
  <2> QED
    BY <1>2, <2>2, <2>3, <2>4 DEF SignalInv, RaiseFlag
<1>3. ASSUME NEW h \in Handlers, ~aborted, StoreCode(h)
      PROVE  SignalInv'
  <2>1. Running(early)' = Running(early) /\ Running({"custom"})' = Running({"custom"})
    <3>1. hpc[h] = "store" /\ hpc' = [hpc EXCEPT ![h] = "count"]
      BY <1>3 DEF StoreCode, Goto
    <3>2. "store" \in early /\ "count" \in early /\ "store" \notin {"custom"}
            /\ "count" \notin {"custom"}
      OBVIOUS
    <3> HIDE DEF early
    <3> QED
      BY <1>t, <3>1, <3>2, Moved
  <2>2. SignalTypes'
    BY <1>t, <1>3 DEF SignalTypes, StoreCode, Goto
  <2>3. ASSUME ResetQuiet
        PROVE  Raised' /\ Storing' /\ Stored' /\ Resetting'
    BY <1>t, <1>3, <2>3
    DEF SignalInv, SignalTypes, StoreCode, Goto, Raised, Storing, Stored, Resetting
  <2>4. ASSUME ResetQuiet
        PROVE  Counted'
    BY <1>t, <1>n, <1>3, <2>1, <2>4 DEF SignalInv, SignalTypes, StoreCode, Counted
  <2> QED
    BY <1>3, <2>2, <2>3, <2>4 DEF SignalInv, StoreCode
<1>4. ASSUME NEW h \in Handlers, ~aborted, CountSignal(h)
      PROVE  SignalInv'
  <2>1. Running(early)' = Running(early) - 1 /\ Running({"custom"})' = Running({"custom"}) + 1
    <3>1. hpc[h] = "count" /\ hpc' = [hpc EXCEPT ![h] = "custom"]
      BY <1>4 DEF CountSignal, Goto
    <3>2. "count" \in early /\ "custom" \notin early /\ "count" \notin {"custom"}
            /\ "custom" \in {"custom"}
      OBVIOUS
    <3> HIDE DEF early
    <3> QED
      BY <1>t, <3>1, <3>2, Moved
  <2>2. sig_count < PanicCount /\ sig_count \in Nat
    BY <1>t, <1>p, <1>4 DEF SignalInv, SignalTypes
  <2>3. SignalTypes'
    BY <1>t, <1>p, <1>4, <2>2 DEF SignalTypes, CountSignal, Goto
  <2>4. ASSUME ResetQuiet
        PROVE  Raised' /\ Storing' /\ Stored' /\ Resetting'
    BY <1>t, <1>4, <2>4
    DEF SignalInv, SignalTypes, CountSignal, Goto, Raised, Storing, Stored, Resetting
  <2>5. ASSUME ResetQuiet
        PROVE  Counted'
    <3>1. flagged'
      BY <1>4, <2>5 DEF SignalInv, CountSignal, Raised
    <3> QED
      BY <1>t, <1>n, <1>4, <2>1, <2>2, <2>5, <3>1 DEF SignalInv, SignalTypes, CountSignal, Counted
  <2> QED
    BY <1>4, <2>3, <2>4, <2>5 DEF SignalInv, CountSignal
<1>5. ASSUME NEW h \in Handlers, ~aborted, CustomHandler(h)
      PROVE  SignalInv'
  <2>1. Running(early)' = Running(early) /\ Running({"custom"})' = Running({"custom"}) - 1
    <3>1. hpc[h] = "custom" /\ hpc' = [hpc EXCEPT ![h] = "idle"]
      BY <1>5 DEF CustomHandler, Goto
    <3>2. "custom" \notin early /\ "idle" \notin early /\ "custom" \in {"custom"}
            /\ "idle" \notin {"custom"}
      OBVIOUS
    <3> HIDE DEF early
    <3> QED
      BY <1>t, <3>1, <3>2, Moved
  <2>2. SignalTypes'
    BY <1>t, <1>5 DEF SignalTypes, CustomHandler, Goto
  <2>3. ASSUME ResetQuiet
        PROVE  Raised' /\ Storing' /\ Stored' /\ Resetting'
    BY <1>t, <1>5, <2>3
    DEF SignalInv, SignalTypes, CustomHandler, Goto, Raised, Storing, Stored, Resetting
  <2>4. ASSUME ResetQuiet
        PROVE  Counted'
    BY <1>t, <1>n, <1>5, <2>1, <2>4 DEF SignalInv, SignalTypes, CustomHandler, Counted
  <2> QED
    BY <1>5, <2>2, <2>3, <2>4 DEF SignalInv, CustomHandler
<1>6. ASSUME ~aborted, ResetFlag
      PROVE  SignalInv'
  <2>1. Running(early)' = Running(early) /\ Running({"custom"})' = Running({"custom"})
    BY <1>6 DEF ResetFlag, Running
  <2>2. SignalTypes'
    BY <1>t, <1>6 DEF SignalTypes, ResetFlag
  <2>3. ASSUME ResetQuiet
        PROVE  Raised' /\ Storing' /\ Stored' /\ Resetting'
    BY <1>6, <2>3 DEF ResetFlag, Raised, Storing, Stored, Resetting
  <2>4. ASSUME ResetQuiet
        PROVE  Counted'
    BY <1>6, <2>1, <2>4 DEF SignalInv, ResetFlag, Counted
  <2> QED
    BY <1>6, <2>2, <2>3, <2>4 DEF SignalInv, ResetFlag
<1>7. ASSUME ~aborted, ResetCount
      PROVE  SignalInv'
  <2>1. SignalTypes'
    BY <1>t, <1>p, <1>7 DEF SignalTypes, ResetCount
  <2>2. ASSUME ResetQuiet
        PROVE  Raised' /\ Storing' /\ Stored' /\ Resetting'
    BY <1>7, <2>2 DEF SignalInv, ResetCount, Raised, Storing, Stored, Resetting
  <2>3. ASSUME ResetQuiet
        PROVE  Counted'
    <3>1. \A h \in Handlers : hpc'[h] = "idle"
      BY <1>7, <2>3 DEF SignalInv, ResetCount, Resetting
    <3>2. Running(early) = 0 /\ Running({"custom"}) = 0
      BY <1>7, <3>1, RunningIsNat DEF ResetCount
    <3>3. Running(early)' = 0 /\ Running({"custom"})' = 0
      BY <1>7, <3>2 DEF ResetCount, Running
    <3> QED
      BY <1>7, <3>3 DEF ResetCount, Counted
  <2>4. aborted' <=> sig_count' >= PanicCount
    BY <1>p, <1>7 DEF ResetCount
  <2> QED
    BY <2>1, <2>2, <2>3, <2>4 DEF SignalInv
<1>8. ASSUME ThrowTest \/ ThrowCode \/ UNCHANGED ossignalsVars
      PROVE  SignalInv'
  <2>1. UNCHANGED <<flagged, sig_code, sig_count, hpc, hcode, rpc, aborted, first, delivered,
          handled>>
    BY <1>8 DEF ThrowTest, ThrowCode, ossignalsVars
  <2>2. SignalTypes'
    BY <1>t, <1>8, <2>1 DEF SignalTypes, ThrowTest, ThrowCode, ossignalsVars
  <2> QED
    BY <2>1, <2>2 DEF SignalInv, Raised, Storing, Stored, Resetting, Counted, Running
<1> QED
  BY <1>1, <1>2, <1>3, <1>4, <1>5, <1>6, <1>7, <1>8 DEF OssignalsNext

\* No signal has arrived at first.
LEMMA SignalStarted ==
  ASSUME OssignalsInit
  PROVE  SignalInv
<1>1. \A h \in Handlers : hpc[h] = "idle"
  BY DEF OssignalsInit
<1>2. Running({"cas", "store", "count"}) = 0 /\ Running({"custom"}) = 0
  BY <1>1, RunningIsNat
<1>3. SignalTypes
  <2>1. 0 \in 0..PanicCount /\ 0 \in 0..(PanicCount + 1)
    BY OssignalsAssumption
  <2> QED
    BY <2>1 DEF OssignalsInit, SignalTypes
<1>4. Raised /\ Storing /\ Stored /\ Resetting /\ Counted
  BY <1>1, <1>2 DEF OssignalsInit, Raised, Storing, Stored, Resetting, Counted
<1> QED
  BY <1>3, <1>4, OssignalsAssumption DEF OssignalsInit, SignalInv

LEMMA SignalInvariant == OssignalsSpec => []SignalInv
<1>1. OssignalsInit => SignalInv
  BY SignalStarted
<1>2. SignalInv /\ [OssignalsNext]_ossignalsVars => SignalInv'
  BY SignalStepped
<1> QED
  BY <1>1, <1>2, PTL DEF OssignalsSpec

\* With resets only while no handler runs: every signal is counted once, the process aborts
\* at the last of PanicCount and not before, the custom handler runs for each and the code
\* is that of the signal that raised the flag (Ossignals::handle).
THEOREM SignalsAccounted == OssignalsSpec => []SignalAccounting
<1>1. ASSUME SignalInv
      PROVE  SignalAccounting
  <2>1. Running({"store"}) = 0 => \A h \in Handlers : hpc[h] # "store"
    BY RunningIsNat
  <2> QED
    BY <1>1, <2>1 DEF SignalInv, SignalAccounting, Stored, Counted
<1> QED
  BY <1>1, SignalInvariant, PTL

\* With the same resets the counters stay within the count that makes the process abort.
THEOREM SignalsTyped ==
  ASSUME ResetQuiet
  PROVE  OssignalsSpec => []OssignalsTypeOK
<1>1. SignalInv => OssignalsTypeOK
  <2> SUFFICES ASSUME SignalInv
               PROVE  OssignalsTypeOK
    OBVIOUS
  <2>1. SignalTypes /\ sig_count = handled + Running({"custom"})
    BY DEF SignalInv, Counted
  <2>2. Running({"custom"}) \in Nat
    BY RunningIsNat
  <2>3. handled \in 0..PanicCount
    BY <2>1, <2>2, OssignalsAssumption DEF SignalTypes
  <2> QED
    BY <2>1, <2>3 DEF SignalTypes, OssignalsTypeOK
<1> QED
  BY <1>1, SignalInvariant, PTL

-----------------------------------------------------------------------------
(* The log. While a line is on the console and not yet in the file the two *)
(* differ by it; nobody else writes then, for its thread has the mutex.    *)

Written == IF \E t \in LogThreads : lpc[t] = "file" THEN Len(console) - 1 ELSE Len(console)

Locked == \A t \in LogThreads : lpc[t] \in {"console", "file"} <=> out_mtx = t
Lined ==
  \A t \in LogThreads :
    IF lpc[t] = "idle" THEN line[t] = NoLine ELSE line[t] \in expected /\ line[t][1] = t
Printed ==
  \A l : (\E i \in 1..Len(console) : console[i] = l)
         <=> l \in expected /\ \A t \in LogThreads : line[t] = l => lpc[t] = "file"
Numbered == \A l \in expected : l[3] <= begun
Recent ==
  \A t \in LogThreads : lpc[t] \in {"flush", "console"} =>
    \A i \in 1..Len(console) : console[i][1] = t => console[i][3] < line[t][3]
InTurns ==
  \A i, j \in 1..Len(console) : i < j /\ console[i][1] = console[j][1]
    => console[i][3] < console[j][3]
Latest == \A t \in LogThreads : lpc[t] = "file" => console # <<>> /\ console[Len(console)] = line[t]
Teed ==
  /\ teedFrom <= Written
  /\ IF teeing THEN /\ Len(file) = Written - teedFrom
                    /\ \A i \in 1..Len(file) : file[i] = console[teedFrom + i]
     ELSE file = <<>>

LogInv ==
  /\ LogBufferTypeOK
  /\ Locked /\ Lined /\ Printed /\ Numbered /\ Recent /\ InTurns /\ Latest /\ Teed

\* A line is a thread, a level and a number, and not the absence of one.
LEMMA LineFields ==
  ASSUME NEW l \in Lines
  PROVE  l # NoLine /\ l[1] \in LogThreads /\ l[3] \in Nat
<1>1. l = <<l[1], l[2], l[3]>> /\ l[1] \in LogThreads /\ l[3] \in 1..LineBound
  BY DEF Lines
<1>2. Len(l) = 3 /\ Len(NoLine) = 0
  BY <1>1 DEF NoLine
<1> QED
  BY <1>1, <1>2

\* A step that writes nothing and begins no line.
LEMMA LogUnwritten ==
  ASSUME LogInv, UNCHANGED <<line, console, file, begun, expected>>,
         verbosity' \in Levels, out_mtx' \in LogThreads \union {NoThread}, teeing' \in BOOLEAN,
         lpc' \in [LogThreads -> {"idle", "flush", "console", "file"}],
         \A t \in LogThreads : /\ lpc'[t] = "file" <=> lpc[t] = "file"
                               /\ lpc'[t] = "idle" <=> lpc[t] = "idle",
         teedFrom' \in 0..Len(console), Locked', Teed'
  PROVE  LogInv'
<1>1. LogBufferTypeOK'
  BY DEF LogInv, LogBufferTypeOK
<1>2. Lined' /\ Printed' /\ Numbered' /\ InTurns' /\ Latest'
  BY DEF LogInv, Lined, Printed, Numbered, InTurns, Latest
<1>3. Recent'
  BY DEF LogInv, LogBufferTypeOK, Recent
<1> QED
  BY <1>1, <1>2, <1>3 DEF LogInv

\* A line that is begun is newer than all others.
LEMMA LineBegun ==
  ASSUME LogInv, NEW t \in LogThreads, NEW level \in Levels, BeginLine(t, level)
  PROVE  LogInv'
<1> DEFINE l == <<t, level, begun + 1>>
<1>1. /\ lpc[t] = "idle" /\ begun < LineBound /\ begun' = begun + 1
      /\ UNCHANGED <<verbosity, out_mtx, console, file, teeing, teedFrom>>
  BY DEF BeginLine
<1>t. LogBufferTypeOK /\ begun \in Nat /\ begun + 1 \in 1..LineBound
  BY <1>1, LogBufferAssumption DEF LogInv, LogBufferTypeOK
<1>2. CASE TestVerbosity(level)
  <2>1. /\ line' = [line EXCEPT ![t] = l] /\ lpc' = [lpc EXCEPT ![t] = "flush"]
        /\ expected' = expected \union {l}
    BY <1>1, <1>2 DEF BeginLine
  <2>2. l \in Lines /\ l[1] = t /\ l[3] = begun + 1
    BY <1>t DEF Lines
  <2>3. l \notin expected
    BY <1>t, <2>2 DEF LogInv, Numbered
  <2> HIDE DEF l
  <2>p. /\ line'[t] = l /\ lpc'[t] = "flush"
        /\ \A u \in LogThreads : u # t => line'[u] = line[u] /\ lpc'[u] = lpc[u]
    BY <1>t, <2>1 DEF LogBufferTypeOK
  <2>4. LogBufferTypeOK'
    BY <1>1, <1>t, <2>1, <2>2 DEF LogBufferTypeOK
  <2>5. Locked'
    BY <1>1, <2>p DEF LogInv, Locked
  <2>6. Lined'
    BY <1>1, <2>1, <2>2, <2>p DEF LogInv, Lined
  <2>7. Printed'
    <3>1. line[t] = NoLine
      BY <1>1 DEF LogInv, Lined
    <3>2. \A k \in expected : k # NoLine /\ k # l
      BY <1>t, <2>3, LineFields DEF LogBufferTypeOK
    <3> QED
      BY <1>1, <2>1, <2>3, <2>p, <3>1, <3>2 DEF LogInv, Printed
  <2>8. Numbered'
    <3>1. \A k \in expected : k[3] \in Nat /\ k[3] <= begun
      BY <1>t, LineFields DEF LogInv, Numbered, LogBufferTypeOK
    <3> QED
      BY <1>1, <1>t, <2>1, <2>2, <3>1 DEF Numbered
  <2>9. Recent'
    <3>1. ASSUME NEW i \in 1..Len(console)
          PROVE  console[i][3] < begun + 1
      <4>1. console[i] \in expected
        BY DEF LogInv, Printed
      <4>2. console[i][3] \in Nat /\ console[i][3] <= begun
        BY <1>t, <4>1, LineFields DEF LogInv, Numbered, LogBufferTypeOK
      <4> QED
        BY <1>t, <4>2
    <3>2. l[3] = begun + 1
      BY <2>2
    <3>3. ASSUME NEW u \in LogThreads, lpc'[u] \in {"flush", "console"},
                 NEW i \in 1..Len(console), console[i][1] = u
          PROVE  console[i][3] < line'[u][3]
      <4>1. CASE u = t
        BY <2>p, <3>1, <3>2, <4>1
      <4>2. CASE u # t
        BY <2>p, <3>3, <4>2 DEF LogInv, Recent
      <4> QED
        BY <4>1, <4>2
    <3> QED
      BY <1>1, <3>3 DEF Recent
  <2>10. InTurns' /\ Latest'
    BY <1>1, <2>p DEF LogInv, InTurns, Latest
  <2>11. Teed'
    <3>1. Written' = Written
      BY <1>1, <2>p DEF Written
    <3> QED
      BY <1>1, <3>1 DEF LogInv, Teed
  <2> QED
    BY <2>4, <2>5, <2>6, <2>7, <2>8, <2>9, <2>10, <2>11 DEF LogInv
<1>3. CASE ~TestVerbosity(level)
  <2>1. UNCHANGED <<line, lpc, expected>>
    BY <1>3 DEF BeginLine
  <2>2. LogBufferTypeOK'
    BY <1>1, <1>t, <2>1 DEF LogBufferTypeOK
  <2>3. Numbered'
    <3>1. \A k \in expected : k[3] \in Nat /\ k[3] <= begun
      BY <1>t, LineFields DEF LogInv, Numbered, LogBufferTypeOK
    <3> QED
      BY <1>1, <1>t, <2>1, <3>1 DEF Numbered
  <2>4. Locked' /\ Lined' /\ Printed'
    BY <1>1, <2>1 DEF LogInv, Locked, Lined, Printed
  <2>5. Recent' /\ InTurns' /\ Latest'
    BY <1>1, <2>1 DEF LogInv, Recent, InTurns, Latest
  <2>6. Teed'
    <3>1. Written' = Written
      BY <1>1, <2>1 DEF Written
    <3> QED
      BY <1>1, <3>1 DEF LogInv, Teed
  <2> QED
    BY <2>2, <2>3, <2>4, <2>5, <2>6 DEF LogInv
<1> QED
  BY <1>2, <1>3

\* The line goes to the console, behind its thread's earlier ones.
LEMMA LineOnConsole ==
  ASSUME LogInv, NEW t \in LogThreads, FlushConsole(t)
  PROVE  LogInv'
<1> DEFINE l == line[t]
           n == Len(console)
<1>1. /\ lpc[t] = "console" /\ console' = Append(console, l) /\ lpc' = [lpc EXCEPT ![t] = "file"]
      /\ UNCHANGED <<verbosity, out_mtx, line, file, teeing, teedFrom, begun, expected>>
  BY DEF FlushConsole
<1>t. LogBufferTypeOK /\ n \in Nat
  BY DEF LogInv, LogBufferTypeOK
<1>2. l \in expected /\ l[1] = t /\ l \in Lines
  BY <1>1 DEF LogInv, Lined, LogBufferTypeOK
<1> HIDE DEF l
<1>3. /\ console' \in Seq(Lines) /\ Len(console') = n + 1 /\ console'[n + 1] = l
      /\ \A i \in 1..n : console'[i] = console[i]
  BY <1>1, <1>t, <1>2, AppendProperties DEF LogBufferTypeOK
<1>p. lpc'[t] = "file" /\ \A u \in LogThreads : u # t => lpc'[u] = lpc[u]
  BY <1>1, <1>t DEF LogBufferTypeOK
<1>m. /\ out_mtx = t
      /\ \A u \in LogThreads : u # t => lpc[u] \notin {"console", "file"}
  BY <1>1 DEF LogInv, Locked
<1> HIDE DEF n
<1>4. LogBufferTypeOK'
  <2>1. teedFrom' \in 0..Len(console')
    BY <1>1, <1>t, <1>3 DEF LogBufferTypeOK, n
  <2> QED
    BY <1>1, <1>t, <1>3, <2>1 DEF LogBufferTypeOK
<1>5. Locked'
  BY <1>1, <1>p, <1>m DEF LogInv, Locked
<1>6. Lined'
  BY <1>1, <1>p DEF LogInv, Lined
<1>7. Printed'
  <2>1. \A k : (\E i \in 1..(n + 1) : console'[i] = k) <=> (\E i \in 1..n : console[i] = k) \/ k = l
    BY <1>t, <1>3
  <2>2. \A k : (\E i \in 1..n : console[i] = k)
               <=> k \in expected /\ \A u \in LogThreads : line[u] = k => lpc[u] = "file"
    BY DEF LogInv, Printed, n
  <2>3. \A u \in LogThreads : line[u] = l => u = t
    BY <1>2, <1>t, LineFields DEF LogInv, Lined
  <2>4. line[t] = l
    BY DEF l
  <2>5. ASSUME NEW k
        PROVE  (\E i \in 1..(n + 1) : console'[i] = k)
               <=> k \in expected /\ \A u \in LogThreads : line[u] = k => lpc'[u] = "file"
    <3>1. CASE k = l
      BY <1>2, <1>p, <2>1, <2>3, <3>1
    <3>2. CASE k # l
      <4>1. ASSUME NEW u \in LogThreads, line[u] = k
            PROVE  lpc'[u] = lpc[u]
        BY <1>p, <2>4, <3>2, <4>1
      <4> QED
        BY <2>1, <2>2, <3>2, <4>1
    <3> QED
      BY <3>1, <3>2
  <2>6. Len(console') = n + 1 /\ line' = line /\ expected' = expected
    BY <1>1, <1>3
  <2> QED
    BY <2>5, <2>6, Zenon DEF Printed
<1>8. Numbered'
  BY <1>1 DEF LogInv, Numbered
<1>9. Recent'
  <2>1. ASSUME NEW u \in LogThreads, lpc'[u] \in {"flush", "console"}, NEW i \in 1..(n + 1),
               console'[i][1] = u
        PROVE  console'[i][3] < line[u][3]
    <3>1. u # t
      BY <1>p, <2>1
    <3>2. i \in 1..n /\ console'[i] = console[i]
      BY <1>t, <1>2, <1>3, <2>1, <3>1
    <3> QED
      BY <1>p, <2>1, <3>1, <3>2 DEF LogInv, Recent, n
  <2> QED
    BY <1>1, <1>3, <2>1 DEF Recent
<1>10. InTurns'
  <2>1. ASSUME NEW i \in 1..(n + 1), NEW j \in 1..(n + 1), i < j, console'[i][1] = console'[j][1]
        PROVE  console'[i][3] < console'[j][3]
    <3>1. i \in 1..n /\ console'[i] = console[i]
      BY <1>t, <1>3, <2>1
    <3>2. CASE j \in 1..n
      BY <1>3, <2>1, <3>1, <3>2 DEF LogInv, InTurns, n
    <3>3. CASE j = n + 1
      BY <1>1, <1>2, <1>3, <2>1, <3>1, <3>3 DEF LogInv, Recent, n, l
    <3> QED
      BY <1>t, <3>2, <3>3
  <2> QED
    BY <1>3, <2>1 DEF InTurns
<1>12. Latest'
  BY <1>1, <1>t, <1>3, <1>p, <1>m DEF Latest, l
<1>11. Teed'
  <2>1. Written = n /\ Written' = n
    BY <1>1, <1>t, <1>3, <1>p, <1>m DEF Written, n
  <2>2. \A i \in 1..Len(file) : teeing => teedFrom + i \in 1..n
    BY <1>t, <2>1 DEF LogInv, Teed, LogBufferTypeOK
  <2> QED
    BY <1>1, <1>3, <2>1, <2>2 DEF LogInv, Teed
<1> QED
  BY <1>4, <1>5, <1>6, <1>7, <1>8, <1>9, <1>10, <1>11, <1>12 DEF LogInv

\* The line goes to the file and the mutex is released.
LEMMA LineInFile ==
  ASSUME LogInv, NEW t \in LogThreads, FlushFile(t)
  PROVE  LogInv'
<1> DEFINE n == Len(console)
           m == Len(file)
<1>1. /\ lpc[t] = "file" /\ file' = IF teeing THEN Append(file, line[t]) ELSE file
      /\ out_mtx' = NoThread
      /\ line' = [line EXCEPT ![t] = NoLine] /\ lpc' = [lpc EXCEPT ![t] = "idle"]
      /\ UNCHANGED <<verbosity, console, teeing, teedFrom, begun, expected>>
  BY DEF FlushFile
<1>t. LogBufferTypeOK /\ n \in Nat /\ m \in Nat
  BY DEF LogInv, LogBufferTypeOK
<1>2. line[t] \in expected /\ line[t][1] = t /\ line[t] \in Lines
  BY <1>1 DEF LogInv, Lined, LogBufferTypeOK
<1>p. /\ line'[t] = NoLine /\ lpc'[t] = "idle"
      /\ \A u \in LogThreads : u # t => line'[u] = line[u] /\ lpc'[u] = lpc[u]
  BY <1>1, <1>t DEF LogBufferTypeOK
<1>m. /\ out_mtx = t
      /\ \A u \in LogThreads : u # t => lpc[u] \notin {"console", "file"}
  BY <1>1 DEF LogInv, Locked
<1>4. LogBufferTypeOK'
  <2>1. file' \in Seq(Lines)
    BY <1>1, <1>t, <1>2, AppendProperties DEF LogBufferTypeOK
  <2> QED
    BY <1>1, <1>t, <2>1 DEF LogBufferTypeOK
<1>5. Locked'
  BY <1>1, <1>p, <1>m, LogBufferAssumption DEF Locked
<1>6. Lined'
  BY <1>1, <1>p DEF LogInv, Lined
<1>7. Printed'
  <2>1. \A k \in expected : k # NoLine
    BY <1>t, LineFields DEF LogBufferTypeOK
  <2>2. ASSUME NEW k
        PROVE  (\E i \in 1..Len(console) : console[i] = k)
               <=> k \in expected /\ \A u \in LogThreads : line'[u] = k => lpc'[u] = "file"
    <3>1. (\E i \in 1..Len(console) : console[i] = k)
          <=> k \in expected /\ \A u \in LogThreads : line[u] = k => lpc[u] = "file"
      BY DEF LogInv, Printed
    <3>2. ASSUME k \in expected
          PROVE  (\A u \in LogThreads : line[u] = k => lpc[u] = "file")
                 <=> (\A u \in LogThreads : line'[u] = k => lpc'[u] = "file")
      BY <1>1, <1>p, <2>1, <3>2
    <3> QED
      BY <3>1, <3>2
  <2> QED
    BY <1>1, <2>2 DEF Printed
<1>8. Numbered' /\ InTurns' /\ Latest'
  BY <1>1, <1>p, <1>m DEF LogInv, Numbered, InTurns, Latest
<1>9. Recent'
  BY <1>1, <1>p DEF LogInv, Recent
<1>11. Teed'
  <2>1. Written = n - 1 /\ Written' = n
    BY <1>1, <1>p, <1>m DEF Written
  <2>2. teedFrom \in 0..n /\ teedFrom <= n - 1
    BY <1>t, <2>1 DEF LogInv, Teed, LogBufferTypeOK
  <2>3. CASE teeing
    <3>1. m = (n - 1) - teedFrom /\ \A i \in 1..m : file[i] = console[teedFrom + i]
      BY <2>1, <2>3 DEF LogInv, Teed
    <3>2. /\ Len(file') = m + 1 /\ file'[m + 1] = line[t]
          /\ \A i \in 1..m : file'[i] = file[i]
      BY <1>1, <1>t, <1>2, <2>3, AppendProperties DEF LogBufferTypeOK
    <3>3. console[n] = line[t]
      BY <1>1 DEF LogInv, Latest
    <3>4. teedFrom + (m + 1) = n /\ m + 1 = n - teedFrom
      BY <1>t, <2>2, <3>1
    <3>5. ASSUME NEW i \in 1..(m + 1)
          PROVE  file'[i] = console[teedFrom + i]
      <4>1. CASE i \in 1..m
        BY <3>1, <3>2, <4>1
      <4>2. CASE i = m + 1
        BY <3>2, <3>3, <3>4, <4>2
      <4> QED
        BY <1>t, <4>1, <4>2
    <3>6. teedFrom <= n
      BY <1>t, <2>2
    <3> HIDE DEF m, n
    <3> QED
      BY <1>1, <2>1, <2>3, <3>2, <3>4, <3>5, <3>6 DEF Teed
  <2>4. CASE ~teeing
    BY <1>1, <1>t, <2>1, <2>2, <2>4 DEF LogInv, Teed
  <2> QED
    BY <2>3, <2>4
<1> QED
  BY <1>4, <1>5, <1>6, <1>7, <1>8, <1>9, <1>11 DEF LogInv

\* Every step of the log keeps the invariant.
LEMMA LogStepped ==
  ASSUME LogInv, [LogBufferNext]_logbufferVars
  PROVE  LogInv'
<1>t. LogBufferTypeOK
  BY DEF LogInv
<1>1. ASSUME NEW level \in Levels, SetVerbosity(level)
      PROVE  LogInv'
  <2>1. verbosity' \in Levels /\ Locked' /\ Teed'
    BY <1>1 DEF SetVerbosity, LogInv, Locked, Teed, Written
  <2> QED
    BY <1>t, <1>1, <2>1, LogUnwritten DEF SetVerbosity, LogBufferTypeOK
<1>2. ASSUME NEW ok \in BOOLEAN, TeeFile(ok)
      PROVE  LogInv'
  <2>1. /\ \A t \in LogThreads : lpc[t] = "idle"
        /\ file = <<>> /\ teeing' = ok /\ teedFrom' = Len(console)
        /\ UNCHANGED <<verbosity, out_mtx, line, lpc, console, file, begun, expected>>
    BY <1>2 DEF TeeFile, Quiet
  <2>2. Written' = Len(console) /\ Len(console) \in Nat
    BY <1>t, <2>1 DEF Written, LogBufferTypeOK
  <2>3. Len(file) = 0
    BY <2>1
  <2>4. Locked' /\ Teed'
    BY <2>1, <2>2, <2>3 DEF LogInv, Locked, Teed
  <2> QED
    BY <1>t, <2>1, <2>2, <2>4, LogUnwritten DEF LogBufferTypeOK
<1>3. ASSUME NEW t \in LogThreads, FlushLock(t)
      PROVE  LogInv'
  <2>1. /\ lpc[t] = "flush" /\ out_mtx = NoThread /\ out_mtx' = t
        /\ lpc' = [lpc EXCEPT ![t] = "console"]
        /\ UNCHANGED <<verbosity, line, console, file, teeing, teedFrom, begun, expected>>
    BY <1>3 DEF FlushLock
  <2>2. lpc'[t] = "console" /\ \A u \in LogThreads : u # t => lpc'[u] = lpc[u]
    BY <1>t, <2>1 DEF LogBufferTypeOK
  <2>3. Locked'
    BY <2>1, <2>2, LogBufferAssumption DEF LogInv, Locked
  <2>4. Teed'
    <3>1. Written' = Written
      BY <2>1, <2>2 DEF Written
    <3> QED
      BY <2>1, <3>1 DEF LogInv, Teed
  <2>5. lpc' \in [LogThreads -> {"idle", "flush", "console", "file"}]
    BY <1>t, <2>1 DEF LogBufferTypeOK
  <2> QED
    BY <1>t, <2>1, <2>2, <2>3, <2>4, <2>5, LogUnwritten DEF LogBufferTypeOK
<1>4. CASE UNCHANGED logbufferVars
  <2>1. Locked' /\ Teed'
    BY <1>4 DEF logbufferVars, LogInv, Locked, Teed, Written
  <2> QED
    BY <1>t, <1>4, <2>1, LogUnwritten DEF logbufferVars, LogBufferTypeOK
<1> QED
  BY <1>1, <1>2, <1>3, <1>4, LineBegun, LineOnConsole, LineInFile DEF LogBufferNext

\* Nothing has been written at first.
LEMMA LogStarted ==
  ASSUME LogBufferInit
  PROVE  LogInv
<1>1. Len(console) = 0 /\ Len(file) = 0 /\ <<>> \in Seq(Lines)
  BY DEF LogBufferInit
<1>2. LogBufferTypeOK
  <2>1. 0 \in 0..LineBound /\ 0 \in 0..Len(console)
    BY <1>1, LogBufferAssumption
  <2>2. /\ line \in [LogThreads -> Lines \union {NoLine}]
        /\ lpc \in [LogThreads -> {"idle", "flush", "console", "file"}]
    BY DEF LogBufferInit
  <2> QED
    BY <1>1, <2>1, <2>2 DEF LogBufferInit, LogBufferTypeOK
<1>3. Locked /\ Lined /\ Numbered /\ Recent /\ Latest
  BY <1>1, LogBufferAssumption DEF LogBufferInit, Locked, Lined, Numbered, Recent, Latest
<1>4. Printed /\ InTurns
  BY <1>1 DEF LogBufferInit, Printed, InTurns
<1>5. Teed
  BY <1>1 DEF LogBufferInit, Teed, Written
<1> QED
  BY <1>2, <1>3, <1>4, <1>5 DEF LogInv

LEMMA LogInvariant == LogBufferSpec => []LogInv
<1>1. LogBufferInit => LogInv
  BY LogStarted
<1>2. LogInv /\ [LogBufferNext]_logbufferVars => LogInv'
  BY LogStepped
<1> QED
  BY <1>1, <1>2, PTL DEF LogBufferSpec

\* The members of the log keep their types, and the file is never opened past the console.
THEOREM LogTyped == LogBufferSpec => []LogBufferTypeOK
<1>1. LogInv => LogBufferTypeOK
  BY DEF LogInv
<1> QED
  BY <1>1, LogInvariant, PTL

\* Whenever the mutex is free the file has what the console got since it was opened, every
\* line due is on the console or with its thread, and a thread's lines are in order
\* (BufferBase::flush), for any number of threads and lines.
THEOREM LogsAgree == LogBufferSpec => []LogAgrees
<1>1. LogInv => LogAgrees
  <2> SUFFICES ASSUME LogInv, out_mtx = NoThread
               PROVE  /\ file = IF teeing THEN SubSeq(console, teedFrom + 1, Len(console)) ELSE <<>>
                      /\ ToSet(console) = expected \ {line[t] : t \in LogThreads}
                      /\ InTurns
    BY DEF LogAgrees, InTurns
  <2>t. LogBufferTypeOK
    BY DEF LogInv
  <2>1. \A t \in LogThreads : lpc[t] \notin {"console", "file"}
    BY LogBufferAssumption DEF LogInv, Locked
  <2>2. ASSUME teeing
        PROVE  file = SubSeq(console, teedFrom + 1, Len(console))
    <3> DEFINE n == Len(console)
               p == teedFrom + 1
               s == SubSeq(console, p, n)
    <3>1. Written = n /\ n \in Nat /\ teedFrom \in 0..n
      BY <2>t, <2>1 DEF Written, LogBufferTypeOK
    <3>2. Len(file) = n - teedFrom /\ \A i \in 1..Len(file) : file[i] = console[teedFrom + i]
      BY <2>2, <3>1 DEF LogInv, Teed
    <3>3. p \in Int /\ n \in Int /\ \A i \in p..n : console[i] \in Lines
      BY <2>t, <3>1 DEF LogBufferTypeOK
    <3>4. /\ s \in Seq(Lines) /\ Len(s) = IF p <= n THEN n - p + 1 ELSE 0
          /\ \A i \in 1..(n - p + 1) : s[i] = console[p + i - 1]
      BY <3>3, SubSeqProperties
    <3>5. Len(s) = n - teedFrom /\ n - p + 1 = n - teedFrom
      BY <3>1, <3>4
    <3>6. \A i \in 1..(n - teedFrom) : p + i - 1 = teedFrom + i
      BY <3>1
    <3>7. \A i \in 1..Len(file) : file[i] = s[i]
      BY <3>2, <3>4, <3>5, <3>6
    <3> HIDE DEF s
    <3>8. file \in Seq(Lines) /\ Len(file) = Len(s)
      BY <2>t, <3>2, <3>5 DEF LogBufferTypeOK
    <3>9. file = s
      BY <3>4, <3>7, <3>8, SeqEqual
    <3> QED
      BY <3>9 DEF s
  <2>3. ~teeing => file = <<>>
    BY DEF LogInv, Teed
  <2>4. ToSet(console) = expected \ {line[t] : t \in LogThreads}
    <3>1. \A l : l \in ToSet(console) <=> \E i \in 1..Len(console) : console[i] = l
      BY <2>t DEF ToSet, LogBufferTypeOK
    <3> QED
      <4>1. ASSUME NEW l
            PROVE  l \in ToSet(console) <=> l \in expected /\ \A t \in LogThreads : line[t] # l
        <5>1. l \in ToSet(console)
              <=> l \in expected /\ \A t \in LogThreads : line[t] = l => lpc[t] = "file"
          BY <3>1 DEF LogInv, Printed
        <5> QED
          BY <2>1, <5>1
      <4> QED
        BY <4>1
  <2> QED
    BY <2>2, <2>3, <2>4 DEF LogInv
<1> QED
  BY <1>1, LogInvariant, PTL

-----------------------------------------------------------------------------
(* CappedSet. That the set and the queue agree on the newest items is not  *)
(* inductive: that no item is queued twice is needed, or the one that      *)
(* leaves the set might be in the queue still.                             *)

\* q is the end of s; no two elements of q are the same; set holds those of q.
Suffix(q, s) == Len(q) <= Len(s) /\ \A i \in 1 .. Len(q) : q[i] = s[Len(s) - Len(q) + i]
Distinct(q) == \A i, j \in 1 .. Len(q) : q[i] = q[j] => i = j
Holding(set, q) ==
  /\ set = {q[i] : i \in 1 .. Len(q)}
  /\ IsFiniteSet(set) /\ Cardinality(set) = Len(q)

\* The queue holds the last insertions, no two of them the same, and the set those.
CappedInv ==
  /\ inserted \in Seq(Elements) /\ cappedQueue \in Seq(Elements)
  /\ Len(cappedQueue) = IF Len(inserted) > Capacity THEN Capacity ELSE Len(inserted)
  /\ Suffix(cappedQueue, inserted)
  /\ Distinct(cappedQueue)
  /\ Holding(cappedItems, cappedQueue)

\* The oldest item leaves.
LEMMA TailKeeps ==
  ASSUME NEW q \in Seq(Elements), NEW s \in Seq(Elements), NEW set, q # <<>>,
         Suffix(q, s), Distinct(q), Holding(set, q)
  PROVE  /\ Tail(q) \in Seq(Elements) /\ Len(Tail(q)) = Len(q) - 1
         /\ Suffix(Tail(q), s) /\ Distinct(Tail(q)) /\ Holding(set \ {Head(q)}, Tail(q))
<1> DEFINE t == Tail(q)
<1>1. Len(q) \in Nat /\ Len(q) > 0 /\ Len(s) \in Nat /\ Head(q) = q[1]
  OBVIOUS
<1>2. t \in Seq(Elements) /\ Len(t) = Len(q) - 1 /\ \A i \in 1 .. Len(t) : t[i] = q[i + 1]
  BY HeadTailProperties
<1> HIDE DEF t
<1>3. Suffix(t, s)
  <2>1. Len(t) <= Len(s)
    BY <1>1, <1>2 DEF Suffix
  <2>2. ASSUME NEW i \in 1 .. Len(t) PROVE t[i] = s[Len(s) - Len(t) + i]
    <3>1. i + 1 \in 1 .. Len(q) /\ Len(s) - Len(q) + (i + 1) = Len(s) - Len(t) + i
      BY <1>1, <1>2
    <3>2. q[i + 1] = s[Len(s) - Len(q) + (i + 1)]
      BY <3>1 DEF Suffix
    <3> QED
      BY <1>2, <3>1, <3>2
  <2> QED
    BY <2>1, <2>2 DEF Suffix
<1>4. Distinct(t)
  <2> SUFFICES ASSUME NEW i \in 1 .. Len(t), NEW j \in 1 .. Len(t), t[i] = t[j] PROVE i = j
    BY DEF Distinct
  <2>1. i + 1 \in 1 .. Len(q) /\ j + 1 \in 1 .. Len(q)
    BY <1>1, <1>2
  <2>2. i + 1 = j + 1
    BY <1>2, <2>1 DEF Distinct
  <2> QED
    BY <2>2, <1>2
<1>5. Holding(set \ {Head(q)}, t)
  <2>1. set \ {q[1]} = {t[i] : i \in 1 .. Len(t)}
    <3>1. ASSUME NEW x \in set, x # q[1] PROVE \E i \in 1 .. Len(t) : x = t[i]
      <4>1. PICK i \in 1 .. Len(q) : x = q[i]
        BY DEF Holding
      <4>2. i - 1 \in 1 .. Len(t) /\ (i - 1) + 1 = i
        BY <3>1, <4>1, <1>1, <1>2
      <4> QED
        BY <4>1, <4>2, <1>2
    <3>2. ASSUME NEW i \in 1 .. Len(t) PROVE t[i] \in set /\ t[i] # q[1]
      <4>1. i + 1 \in 1 .. Len(q) /\ 1 \in 1 .. Len(q) /\ i + 1 # 1 /\ t[i] = q[i + 1]
        BY <1>1, <1>2
      <4> QED
        BY <4>1 DEF Holding, Distinct
    <3> QED
      BY <3>1, <3>2
  <2>2. q[1] \in set
    <3>1. 1 \in 1 .. Len(q)
      BY <1>1
    <3> QED
      BY <3>1 DEF Holding
  <2>3. IsFiniteSet(set \ {q[1]}) /\ Cardinality(set \ {q[1]}) = Cardinality(set) - 1
    BY <2>2, FS_RemoveElement DEF Holding
  <2> QED
    BY <2>1, <2>3, <1>1, <1>2 DEF Holding
<1> QED
  BY <1>2, <1>3, <1>4, <1>5 DEF t

\* A new item enters.
LEMMA AppendKeeps ==
  ASSUME NEW q \in Seq(Elements), NEW s \in Seq(Elements), NEW set, NEW e \in Elements,
         e \notin set,
         Suffix(q, s), Distinct(q), Holding(set, q)
  PROVE  /\ Append(q, e) \in Seq(Elements) /\ Len(Append(q, e)) = Len(q) + 1
         /\ Suffix(Append(q, e), Append(s, e)) /\ Distinct(Append(q, e))
         /\ Holding(set \union {e}, Append(q, e))
<1> DEFINE t == Append(q, e)
           r == Append(s, e)
<1>1. Len(q) \in Nat /\ Len(s) \in Nat /\ Len(q) <= Len(s)
  BY DEF Suffix
<1>2. t \in Seq(Elements) /\ Len(t) = Len(q) + 1 /\ t[Len(q) + 1] = e
        /\ \A i \in 1 .. Len(q) : t[i] = q[i]
  BY AppendProperties
<1>3. r \in Seq(Elements) /\ Len(r) = Len(s) + 1 /\ r[Len(s) + 1] = e
        /\ \A i \in 1 .. Len(s) : r[i] = s[i]
  BY AppendProperties
<1>4. \A i \in 1 .. Len(q) : q[i] \in set
  BY DEF Holding
<1> HIDE DEF t, r
<1>5. Suffix(t, r)
  <2>1. ASSUME NEW i \in 1 .. Len(t) PROVE t[i] = r[Len(r) - Len(t) + i]
    <3>1. CASE i = Len(q) + 1
      <4>1. Len(r) - Len(t) + i = Len(s) + 1
        BY <3>1, <1>1, <1>2, <1>3
      <4> QED
        BY <3>1, <4>1, <1>2, <1>3
    <3>2. CASE i # Len(q) + 1
      <4>1. i \in 1 .. Len(q) /\ Len(r) - Len(t) + i = Len(s) - Len(q) + i
        BY <3>2, <1>1, <1>2, <1>3
      <4>2. Len(s) - Len(q) + i \in 1 .. Len(s)
        BY <4>1, <1>1
      <4>3. q[i] = s[Len(s) - Len(q) + i]
        BY <4>1 DEF Suffix
      <4> QED
        BY <4>1, <4>2, <4>3, <1>2, <1>3
    <3> QED
      BY <3>1, <3>2
  <2>2. Len(t) <= Len(r)
    BY <1>1, <1>2, <1>3
  <2> QED
    BY <2>1, <2>2 DEF Suffix
<1>6. Distinct(t)
  <2> SUFFICES ASSUME NEW i \in 1 .. Len(t), NEW j \in 1 .. Len(t), t[i] = t[j] PROVE i = j
    BY DEF Distinct
  <2>1. \A k \in 1 .. Len(t) : k = Len(q) + 1 \/ (k \in 1 .. Len(q) /\ t[k] = q[k] /\ t[k] # e)
    BY <1>1, <1>2, <1>4
  <2>2. CASE i \in 1 .. Len(q) /\ j \in 1 .. Len(q)
    BY <2>2, <1>2 DEF Distinct
  <2> QED
    BY <2>1, <2>2, <1>2
<1>7. Holding(set \union {e}, t)
  <2>1. set \union {e} = {t[i] : i \in 1 .. Len(t)}
    <3>1. ASSUME NEW x \in set PROVE \E i \in 1 .. Len(t) : x = t[i]
      <4>1. PICK i \in 1 .. Len(q) : x = q[i]
        BY DEF Holding
      <4>2. i \in 1 .. Len(t)
        BY <1>1, <1>2
      <4> QED
        BY <4>1, <4>2, <1>2
    <3>2. Len(q) + 1 \in 1 .. Len(t)
      BY <1>1, <1>2
    <3>3. ASSUME NEW i \in 1 .. Len(t) PROVE t[i] \in set \union {e}
      <4>1. i \in 1 .. Len(q) \/ i = Len(q) + 1
        BY <1>1, <1>2
      <4> QED
        BY <4>1, <1>2, <1>4
    <3> QED
      BY <3>1, <3>2, <3>3, <1>2
  <2>2. IsFiniteSet(set \union {e}) /\ Cardinality(set \union {e}) = Len(q) + 1
    BY FS_AddElement DEF Holding
  <2> QED
    BY <2>1, <2>2, <1>2 DEF Holding
<1> QED
  BY <1>2, <1>5, <1>6, <1>7 DEF t, r

\* Every operation keeps the invariant.
LEMMA CappedStep == CappedInv /\ [CappedSetNext]_cappedsetVars => CappedInv'
<1> SUFFICES ASSUME CappedInv, [CappedSetNext]_cappedsetVars PROVE CappedInv'
  OBVIOUS
<1>a. Capacity \in Nat /\ Capacity > 0
  BY CapacityAssumption
<1>i. /\ inserted \in Seq(Elements) /\ cappedQueue \in Seq(Elements)
      /\ Len(cappedQueue) = (IF Len(inserted) > Capacity THEN Capacity ELSE Len(inserted))
      /\ Suffix(cappedQueue, inserted) /\ Distinct(cappedQueue) /\ Holding(cappedItems, cappedQueue)
      /\ Len(inserted) \in Nat /\ Len(cappedQueue) \in Nat
  BY DEF CappedInv
<1>1. ASSUME NEW e \in Elements, Insert(e) PROVE CappedInv'
  <2>1. e \notin cappedItems /\ inserted' = Append(inserted, e)
    BY <1>1 DEF Insert
  <2>2. inserted' \in Seq(Elements) /\ Len(inserted') = Len(inserted) + 1
    BY <1>i, <2>1, AppendProperties
  <2>3. MakeRoom <=> Len(cappedQueue) = Capacity
    BY <1>i DEF MakeRoom, Holding
  <2>4. CASE MakeRoom
    <3>1. /\ cappedItems' = (cappedItems \ {Head(cappedQueue)}) \union {e}
          /\ cappedQueue' = Append(Tail(cappedQueue), e)
      BY <1>1, <2>4 DEF Insert
    <3>2. cappedQueue # <<>>
      BY <2>3, <2>4, <1>a
    <3>3. /\ Tail(cappedQueue) \in Seq(Elements) /\ Len(Tail(cappedQueue)) = Len(cappedQueue) - 1
          /\ Suffix(Tail(cappedQueue), inserted) /\ Distinct(Tail(cappedQueue))
          /\ Holding(cappedItems \ {Head(cappedQueue)}, Tail(cappedQueue))
      BY <1>i, <3>2, TailKeeps
    <3>4. e \notin cappedItems \ {Head(cappedQueue)}
      BY <2>1
    <3>5. /\ cappedQueue' \in Seq(Elements) /\ Len(cappedQueue') = Len(Tail(cappedQueue)) + 1
          /\ Suffix(cappedQueue', inserted') /\ Distinct(cappedQueue')
               /\ Holding(cappedItems', cappedQueue')
      BY <1>i, <2>1, <3>1, <3>3, <3>4, AppendKeeps
    <3>6. Len(cappedQueue') = Capacity /\ Len(inserted') > Capacity
      BY <1>i, <1>a, <2>2, <2>3, <2>4, <3>3, <3>5
    <3> QED
      BY <2>2, <3>5, <3>6 DEF CappedInv
  <2>5. CASE ~MakeRoom
    <3>1. cappedItems' = cappedItems \union {e} /\ cappedQueue' = Append(cappedQueue, e)
      BY <1>1, <2>5 DEF Insert
    <3>2. /\ cappedQueue' \in Seq(Elements) /\ Len(cappedQueue') = Len(cappedQueue) + 1
          /\ Suffix(cappedQueue', inserted') /\ Distinct(cappedQueue')
               /\ Holding(cappedItems', cappedQueue')
      BY <1>i, <2>1, <3>1, AppendKeeps
    <3>3. Len(cappedQueue') = Len(inserted') /\ ~(Len(inserted') > Capacity)
      BY <1>i, <1>a, <2>2, <2>3, <2>5, <3>2
    <3> QED
      BY <2>2, <3>2, <3>3 DEF CappedInv
  <2> QED
    BY <2>4, <2>5
<1>2. CASE ClearSet
  BY <1>2, <1>a, FS_EmptySet DEF ClearSet, CappedInv, Suffix, Distinct, Holding
<1>3. CASE UNCHANGED cappedsetVars
  BY <1>3 DEF cappedsetVars, CappedInv
<1> QED
  BY <1>1, <1>2, <1>3 DEF CappedSetNext

\* For every capacity and however often the set was full: the set and its queue hold the same
\* items, the last ones inserted, as many as fit (capped_set.hpp).
THEOREM KeepsNewestHolds == CappedSetSpec => []KeepsNewest
<1>1. CappedSetInit => CappedInv
  BY CapacityAssumption, FS_EmptySet DEF CappedSetInit, CappedInv, Suffix, Distinct, Holding
<1>2. CappedInv => KeepsNewest
  <2> SUFFICES ASSUME CappedInv PROVE KeepsNewest
    OBVIOUS
  <2> DEFINE n == Len(inserted)
             from == IF n > Capacity THEN n - Capacity + 1 ELSE 1
             newest == SubSeq(inserted, from, n)
  <2>1. /\ inserted \in Seq(Elements) /\ cappedQueue \in Seq(Elements) /\ n \in Nat
        /\ Capacity \in Nat /\ Len(cappedQueue) = (IF n > Capacity THEN Capacity ELSE n)
    BY CapacityAssumption DEF CappedInv
  <2>2. from \in 1 .. n + 1 /\ Len(cappedQueue) = n - from + 1
    BY <2>1
  <2> HIDE DEF from
  <2>3. \A i \in from .. n : inserted[i] \in Elements
    BY <2>1, <2>2
  <2>4. newest \in Seq(Elements) /\ Len(newest) = n - from + 1
        /\ \A i \in 1 .. n - from + 1 : newest[i] = inserted[from + i - 1]
    BY <2>1, <2>2, <2>3, SubSeqProperties
  <2> HIDE DEF newest
  <2>5. ASSUME NEW i \in 1 .. Len(cappedQueue) PROVE cappedQueue[i] = newest[i]
    <3>1. i \in 1 .. n - from + 1 /\ n - Len(cappedQueue) = from - 1
      BY <2>1, <2>2
    <3>2. n - Len(cappedQueue) + i = from + i - 1
      BY <3>1, <2>2
    <3>3. cappedQueue[i] = inserted[n - Len(cappedQueue) + i]
      BY DEF CappedInv, Suffix
    <3>4. newest[i] = inserted[from + i - 1]
      BY <2>4, <3>1
    <3> QED
      BY <3>2, <3>3, <3>4
  <2>6. cappedQueue = newest
    BY <2>1, <2>2, <2>4, <2>5, SeqEqual
  <2>7. cappedItems = ToSet(newest)
    BY <2>1, <2>6 DEF CappedInv, Holding, ToSet
  <2> QED
    BY <2>6, <2>7 DEF KeepsNewest, newest, from
<1> QED
  BY <1>1, <1>2, CappedStep, PTL DEF CappedSetSpec

-----------------------------------------------------------------------------
(* StopWatch. The sum of the laps follows from each of them: the duration  *)
(* of a lap is the difference of its time and the one before.              *)

\* A non-empty set of numbers has a least one.
LEMMA LeastOf ==
  ASSUME NEW S, S \subseteq Nat, S # {}
  PROVE  \E n \in S : \A m \in S : n <= m
<1>1. PICK n \in S : \A m \in S : ~(<<m, n>> \in OpToRel(<, Nat))
  BY NatLessThanWellFounded, WFMin
<1>2. \A m \in S : ~(m < n)
  BY <1>1 DEF OpToRel
<1> QED
  BY <1>2

\* Durations that are differences add up to the difference of the ends.
LEMMA TotalIs ==
  ASSUME NEW ls \in Seq(Nat \X Int), ls # <<>>,
         \A i \in 1 .. Len(ls) : ls[i][2] = IF i = 1 THEN 0 ELSE ls[i][1] - ls[i - 1][1]
  PROVE  LapTotal(ls) = ls[Len(ls)][1] - ls[1][1]
<1> DEFINE N == Len(ls)
           time(i) == ls[i][1]
           IsTotal(f) == f = [n \in 0 .. N |-> IF n = 0 THEN 0 ELSE f[n - 1] + ls[n][2]]
           g == [n \in 0 .. N |-> IF n = 0 THEN 0 ELSE time(n) - time(1)]
           f == CHOOSE f : IsTotal(f)
<1>1. N \in Nat /\ N > 0
  OBVIOUS
<1>2. \A i \in 1 .. N : time(i) \in Int
  OBVIOUS
<1>3. \A i \in 1 .. N : ls[i][2] = IF i = 1 THEN 0 ELSE time(i) - time(i - 1)
  OBVIOUS
<1> HIDE DEF N, time
<1>4. IsTotal(g)
  <2>1. ASSUME NEW n \in 1 .. N PROVE time(n) - time(1) = g[n - 1] + ls[n][2]
    <3>1. CASE n = 1
      <4>1. g[n - 1] = 0 /\ ls[n][2] = 0
        BY <3>1, <1>1, <1>3
      <4> QED
        BY <3>1, <4>1, <1>2
    <3>2. CASE n # 1
      <4>1. n - 1 \in 1 .. N /\ n - 1 \in 0 .. N /\ n - 1 # 0 /\ 1 \in 1 .. N
        BY <3>2, <1>1
      <4>2. g[n - 1] = time(n - 1) - time(1) /\ ls[n][2] = time(n) - time(n - 1)
        BY <3>2, <4>1, <1>3
      <4> QED
        BY <4>1, <4>2, <1>2
    <3> QED
      BY <3>1, <3>2
  <2>2. \A n \in 0 .. N : (IF n = 0 THEN 0 ELSE time(n) - time(1))
                           = IF n = 0 THEN 0 ELSE g[n - 1] + ls[n][2]
    <3> HIDE DEF g
    <3>1. TAKE n \in 0 .. N
    <3>2. CASE n = 0
      BY <3>2
    <3>3. CASE n # 0
      <4>1. n \in 1 .. N
        BY <3>3, <1>1
      <4> QED
        BY <3>3, <4>1, <2>1
    <3> QED
      BY <3>2, <3>3
  <2> QED
    BY <2>2
<1>5. IsTotal(f)
  <2>1. \E x : IsTotal(x)
    BY <1>4
  <2> HIDE DEF IsTotal
  <2> QED
    BY <2>1
<1>6. LapTotal(ls) = f[N]
  BY DEF LapTotal, N
<1> HIDE DEF f
<1>7. /\ f[0] = 0
      /\ \A n \in 1 .. N : f[n] = f[n - 1] + ls[n][2]
      /\ g[0] = 0
      /\ \A n \in 1 .. N : g[n] = g[n - 1] + ls[n][2]
  <2>1. ASSUME NEW h, IsTotal(h)
        PROVE  h[0] = 0 /\ \A n \in 1 .. N : h[n] = h[n - 1] + ls[n][2]
    <3>1. \A n \in 0 .. N : h[n] = IF n = 0 THEN 0 ELSE h[n - 1] + ls[n][2]
      BY <2>1
    <3> HIDE DEF IsTotal
    <3> QED
      BY <3>1, <1>1
  <2> HIDE DEF g, IsTotal
  <2> QED
    BY <2>1, <1>4, <1>5
<1> DEFINE wrong == {n \in 0 .. N : f[n] # g[n]}
<1>8. wrong = {}
  <2> SUFFICES ASSUME wrong # {} PROVE FALSE
    OBVIOUS
  <2>1. PICK n \in wrong : \A m \in wrong : n <= m
    <3>1. wrong \subseteq Nat
      BY <1>1
    <3> HIDE DEF wrong
    <3> QED
      BY <3>1, LeastOf
  <2> HIDE DEF g
  <2>2. n \in 1 .. N /\ n - 1 \in 0 .. N
    BY <2>1, <1>1, <1>7
  <2>3. f[n - 1] = g[n - 1]
    BY <2>1, <2>2
  <2> QED
    BY <2>1, <2>2, <2>3, <1>7
<1>9. f[N] = time(N) - time(1)
  <2>1. N \in 0 .. N /\ N # 0
    BY <1>1
  <2>2. g[N] = time(N) - time(1)
    BY <2>1
  <2> HIDE DEF g
  <2> QED
    BY <2>1, <2>2, <1>8
<1> QED
  BY <1>6, <1>9 DEF N, time

\* The laps are times from the start to now, each with the time since the one before.
WatchInv ==
  /\ clock \in Nat /\ clock > 0 /\ start_time \in 0 .. clock /\ started \in BOOLEAN
  /\ laps \in Seq(Nat \X Int)
  /\ (laps # <<>>) = (start_time # 0)
  /\ started => laps # <<>>
  /\ \A i \in 1 .. Len(laps) :
       /\ laps[i][1] \in start_time .. clock
       /\ laps[i][2] = IF i = 1 THEN 0 ELSE laps[i][1] - laps[i - 1][1]
       /\ laps[i][2] < 0 => laps[i][1] = start_time
  /\ laps # <<>> => laps[1][1] = start_time

\* A lap at the time of the clock, or at the start of a watch that was stopped.
LEMMA LapKeeps ==
  ASSUME WatchInv, laps # <<>>, NEW t, t = clock \/ t = start_time,
         laps' = Recorded(laps, t), UNCHANGED <<clock, start_time>>, started' \in BOOLEAN
  PROVE  WatchInv'
<1> DEFINE n == Len(laps)
           new == <<t, t - laps[n][1]>>
<1>1. /\ laps \in Seq(Nat \X Int) /\ n \in Nat /\ n > 0 /\ n \in 1 .. n /\ start_time # 0
      /\ clock \in Nat /\ clock > 0 /\ start_time \in 0 .. clock
  BY DEF WatchInv
<1>2. laps[n][1] \in start_time .. clock /\ laps[n][1] \in Int
  BY <1>1 DEF WatchInv
<1>3. t \in start_time .. clock /\ t \in Nat /\ (t - laps[n][1] < 0 => t = start_time)
  BY <1>1, <1>2
<1>4. laps' = Append(laps, new)
  BY <1>1 DEF Recorded, Last
<1>5. new \in Nat \X Int /\ new[1] = t /\ new[2] = t - laps[n][1]
  BY <1>2, <1>3
<1> HIDE DEF new
<1>6. /\ laps' \in Seq(Nat \X Int) /\ Len(laps') = n + 1 /\ laps' # <<>>
      /\ laps'[n + 1] = new /\ \A i \in 1 .. n : laps'[i] = laps[i]
  BY <1>1, <1>4, <1>5, AppendProperties
<1> HIDE DEF n
<1>7. ASSUME NEW i \in 1 .. n + 1
      PROVE  /\ laps'[i][1] \in start_time .. clock
             /\ laps'[i][2] = IF i = 1 THEN 0 ELSE laps'[i][1] - laps'[i - 1][1]
             /\ laps'[i][2] < 0 => laps'[i][1] = start_time
  <2>1. CASE i \in 1 .. n
    <3>1. laps'[i] = laps[i]
      BY <2>1, <1>6
    <3>2. i # 1 => laps'[i - 1] = laps[i - 1]
      <4>1. i # 1 => i - 1 \in 1 .. n
        BY <2>1, <1>1
      <4> QED
        BY <4>1, <1>6
    <3>3. /\ laps[i][1] \in start_time .. clock
          /\ laps[i][2] = IF i = 1 THEN 0 ELSE laps[i][1] - laps[i - 1][1]
          /\ laps[i][2] < 0 => laps[i][1] = start_time
      BY <2>1 DEF WatchInv, n
    <3> QED
      BY <3>1, <3>2, <3>3
  <2>2. CASE i = n + 1
    <3>1. laps'[i] = new /\ laps'[i - 1] = laps[n] /\ i # 1
      BY <2>2, <1>1, <1>6
    <3> QED
      BY <3>1, <1>3, <1>5
  <2> QED
    BY <2>1, <2>2, <1>1
<1>8. laps'[1] = laps[1] /\ laps[1][1] = start_time
  BY <1>1, <1>6 DEF WatchInv
<1> QED
  BY <1>1, <1>6, <1>7, <1>8 DEF WatchInv

\* The first lap of a watch is its start.
LEMMA FirstLap ==
  ASSUME WatchInv, laps' = Recorded(<<>>, clock), start_time' = clock, clock' = clock,
         started' \in BOOLEAN
  PROVE  WatchInv'
<1>1. clock \in Nat /\ clock > 0
  BY DEF WatchInv
<1>2. laps' = Append(<<>>, <<clock, 0>>)
  BY DEF Recorded
<1> DEFINE new == <<clock, 0>>
           none == <<>>
<1>3. none \in Seq(Nat \X Int) /\ Len(none) = 0 /\ new \in Nat \X Int /\ new[1] = clock
        /\ new[2] = 0
  BY <1>1
<1>n. laps' = Append(none, new)
  BY <1>2
<1> HIDE DEF new, none
<1>4. laps' \in Seq(Nat \X Int) /\ Len(laps') = 1 /\ laps'[1] = new /\ laps' # <<>>
  BY <1>3, <1>n, AppendProperties
<1> QED
  BY <1>1, <1>3, <1>4 DEF WatchInv

\* A watch that was never started, or was reset.
EmptyWatch == clock \in Nat /\ clock > 0 /\ started = FALSE /\ start_time = 0 /\ laps = <<>>

\* Such a watch is in order.
LEMMA EmptyKeeps == EmptyWatch => WatchInv
<1> SUFFICES ASSUME EmptyWatch PROVE WatchInv
  OBVIOUS
<1>1. laps \in Seq(Nat \X Int) /\ ~(laps # <<>>) /\ Len(laps) = 0 /\ start_time = 0
  BY DEF EmptyWatch
<1>2. (laps # <<>>) = (start_time # 0)
  BY <1>1
<1>3. \A i \in 1 .. Len(laps) : FALSE
  BY <1>1
<1>4. started \in BOOLEAN /\ ~started
  BY DEF EmptyWatch
<1>5. clock \in Nat /\ clock > 0 /\ start_time \in 0 .. clock
  BY DEF EmptyWatch
<1> QED
  BY <1>1, <1>2, <1>3, <1>4, <1>5 DEF WatchInv

\* Every operation keeps the invariant.
LEMMA WatchStep == WatchInv /\ [StopWatchNext]_stopwatchVars => WatchInv'
<1> SUFFICES ASSUME WatchInv, [StopWatchNext]_stopwatchVars PROVE WatchInv'
  OBVIOUS
<1>1. CASE Tick
  <2>1. clock' = clock + 1 /\ UNCHANGED <<started, start_time, laps>>
    BY <1>1 DEF Tick
  <2>2. clock \in Nat /\ start_time \in 0 .. clock
    BY DEF WatchInv
  <2>3. \A i \in 1 .. Len(laps) : laps[i][1] \in start_time .. clock'
    BY <2>1, <2>2 DEF WatchInv
  <2> QED
    BY <2>1, <2>2, <2>3 DEF WatchInv
<1>2. CASE Lap
  BY <1>2, LapKeeps DEF Lap, WatchInv
<1>3. CASE StopLap
  BY <1>3, LapKeeps DEF StopLap, WatchInv
<1>4. CASE ResetWatch
  <2>1. EmptyWatch'
    BY <1>4 DEF ResetWatch, WatchInv, EmptyWatch
  <2>2. EmptyWatch' => WatchInv'
    BY EmptyKeeps, PTL
  <2> QED
    BY <2>1, <2>2
<1>5. ASSUME NEW r \in BOOLEAN, StartWatch(r) PROVE WatchInv'
  <2>1. /\ started' = TRUE /\ clock' = clock
        /\ start_time' = FirstStart(IF r THEN 0 ELSE start_time)
        /\ laps' = Recorded(IF r THEN <<>> ELSE laps, start_time')
    BY <1>5 DEF StartWatch
  <2>2. CASE r \/ start_time = 0
    <3>1. start_time' = clock
      BY <2>1, <2>2 DEF FirstStart
    <3>2. laps' = Recorded(<<>>, clock)
      BY <2>1, <2>2, <3>1 DEF WatchInv
    <3> QED
      BY <2>1, <3>1, <3>2, FirstLap
  <2>3. CASE ~r /\ start_time # 0
    <3>1. start_time' = start_time /\ laps' = Recorded(laps, start_time) /\ laps # <<>>
      BY <2>1, <2>3 DEF FirstStart, WatchInv
    <3> QED
      BY <2>1, <3>1, LapKeeps
  <2> QED
    BY <2>2, <2>3
<1>6. CASE UNCHANGED stopwatchVars
  BY <1>6 DEF stopwatchVars, WatchInv
<1> QED
  BY <1>1, <1>2, <1>3, <1>4, <1>5, <1>6 DEF StopWatchNext

\* However often the watch was stopped, started again and reset: the first lap is the start,
\* and the durations of the laps add up to the time from it to the last (stopwatch.cpp).
THEOREM LapsAddUpHolds == StopWatchSpec => []LapsAddUp
<1>1. StopWatchInit => WatchInv
  <2>1. ASSUME StopWatchInit PROVE EmptyWatch
    BY <2>1 DEF StopWatchInit, EmptyWatch
  <2> QED
    BY <2>1, EmptyKeeps
<1>2. WatchInv => LapsAddUp
  <2> SUFFICES ASSUME WatchInv, laps # <<>>
               PROVE  /\ laps[1] = <<start_time, 0>>
                      /\ LapTotal(laps) = SinceStart(Last(laps)[1])
    BY DEF LapsAddUp, WatchInv
  <2>1. laps \in Seq(Nat \X Int) /\ 1 \in 1 .. Len(laps) /\ laps[1][1] = start_time
          /\ start_time # 0
    BY DEF WatchInv
  <2>2. laps[1][2] = 0 /\ laps[1] \in Nat \X Int
    BY <2>1 DEF WatchInv
  <2>3. LapTotal(laps) = laps[Len(laps)][1] - laps[1][1]
    BY <2>1, TotalIs DEF WatchInv
  <2> QED
    BY <2>1, <2>2, <2>3 DEF SinceStart, Last
<1> QED
  BY <1>1, <1>2, WatchStep, PTL DEF StopWatchSpec

-----------------------------------------------------------------------------
(* Directories. First the paths; then that each process has a name of its  *)
(* own, and that every temporary directory belongs to one that is alive.   *)

\* A sequence is the tuple of its elements.
LEMMA OneName ==
  ASSUME NEW S, NEW t \in Seq(S), Len(t) = 1
  PROVE  t = <<t[1]>>
<1> DEFINE u == <<t[1]>>
<1>1. u \in Seq(S) /\ Len(u) = 1 /\ u[1] = t[1]
  OBVIOUS
<1> HIDE DEF u
<1>2. t = u
  BY <1>1, SeqEqual
<1> QED
  BY <1>2 DEF u

\* So is one of two names.
LEMMA TwoNames ==
  ASSUME NEW S, NEW t \in Seq(S), Len(t) = 2
  PROVE  t = <<t[1], t[2]>>
<1> DEFINE u == <<t[1], t[2]>>
<1>e. \A i \in 1 .. Len(t) : t[i] \in S
  BY ElementOfSeq
<1>a. t[1] \in S /\ t[2] \in S
  BY <1>e
<1>b. \A x, y \in S : /\ <<x, y>> \in Seq(S) /\ Len(<<x, y>>) = 2
                       /\ <<x, y>>[1] = x /\ <<x, y>>[2] = y
  OBVIOUS
<1>1. u \in Seq(S) /\ Len(u) = 2 /\ u[1] = t[1] /\ u[2] = t[2]
  BY <1>a, <1>b
<1> HIDE DEF u
<1>2. \A i \in 1 .. Len(t) : t[i] = u[i]
  BY <1>1
<1>3. t = u
  BY <1>1, <1>2, SeqEqual
<1> QED
  BY <1>3 DEF u

\* So is one of three.
LEMMA ThreeNames ==
  ASSUME NEW S, NEW t \in Seq(S), Len(t) = 3
  PROVE  t = <<t[1], t[2], t[3]>>
<1> DEFINE u == <<t[1], t[2], t[3]>>
<1>e. \A i \in 1 .. Len(t) : t[i] \in S
  BY ElementOfSeq
<1>a. t[1] \in S /\ t[2] \in S /\ t[3] \in S
  BY <1>e
<1>b. \A x \in S, y \in S, z \in S : <<x, y, z>> \in Seq(S) /\ Len(<<x, y, z>>) = 3
  OBVIOUS
<1>1. u \in Seq(S) /\ Len(u) = 3 /\ u[1] = t[1] /\ u[2] = t[2] /\ u[3] = t[3]
  BY <1>a, <1>b
<1> HIDE DEF u
<1>2. \A i \in 1 .. Len(t) : t[i] = u[i]
  BY <1>1
<1>3. t = u
  BY <1>1, <1>2, SeqEqual
<1> QED
  BY <1>3 DEF u

\* The first names of a path.
LEMMA FirstName ==
  ASSUME NEW S, NEW s \in Seq(S), NEW x, Len(s) >= 1, s[1] = x
  PROVE  SubSeq(s, 1, 1) = <<x>>
<1> DEFINE t == SubSeq(s, 1, 1)
<1>1. \A i \in 1 .. 1 : s[i] \in S
  OBVIOUS
<1>2. t \in Seq(S) /\ Len(t) = 1 /\ t[1] = s[1]
  BY <1>1, SubSeqProperties
<1> HIDE DEF t
<1>3. t = <<s[1]>>
  BY <1>2, OneName
<1> QED
  BY <1>3 DEF t

\* The first two.
LEMMA FirstTwo ==
  ASSUME NEW S, NEW s \in Seq(S), NEW x, NEW y, Len(s) >= 2, s[1] = x, s[2] = y
  PROVE  SubSeq(s, 1, 2) = <<x, y>>
<1> DEFINE t == SubSeq(s, 1, 2)
<1>1. \A i \in 1 .. 2 : s[i] \in S
  OBVIOUS
<1>2. t \in Seq(S) /\ Len(t) = 2 /\ t[1] = s[1] /\ t[2] = s[2]
  BY <1>1, SubSeqProperties
<1> HIDE DEF t
<1>3. t = <<s[1], s[2]>>
  BY <1>2, TwoNames
<1> QED
  BY <1>3 DEF t

\* A name more.
LEMMA OneMore ==
  ASSUME NEW S, NEW a \in S, NEW b \in S, NEW x \in S
  PROVE  <<a>> \o <<x>> = <<a, x>> /\ <<a, b>> \o <<x>> = <<a, b, x>>
<1>1. ASSUME NEW s \in Seq(S), NEW t, t = s \o <<x>>
      PROVE  t \in Seq(S) /\ Len(t) = Len(s) + 1 /\ t[Len(s) + 1] = x
               /\ \A i \in 1 .. Len(s) : t[i] = s[i]
  <2>1. t = Append(s, x)
    BY <1>1, AppendIsConcat
  <2> QED
    BY <2>1, AppendProperties
<1>2. <<a>> \in Seq(S) /\ Len(<<a>>) = 1 /\ <<a>>[1] = a
  OBVIOUS
<1>3. <<a, b>> \in Seq(S) /\ Len(<<a, b>>) = 2 /\ <<a, b>>[1] = a /\ <<a, b>>[2] = b
  OBVIOUS
<1>4. <<a>> \o <<x>> = <<a, x>>
  <2> DEFINE t == <<a>> \o <<x>>
             s == <<a>>
  <2>1. t = s \o <<x>>
    OBVIOUS
  <2>2. s \in Seq(S) /\ Len(s) = 1 /\ s[1] = a
    BY <1>2
  <2> HIDE DEF t, s
  <2>3. t \in Seq(S) /\ Len(t) = 2 /\ t[2] = x /\ t[1] = a
    <3>1. /\ t \in Seq(S) /\ Len(t) = Len(s) + 1 /\ t[Len(s) + 1] = x
          /\ \A i \in 1 .. Len(s) : t[i] = s[i]
      BY <1>1, <2>1, <2>2, Zenon
    <3>2. Len(s) + 1 = 2 /\ 1 \in 1 .. Len(s)
      BY <2>2
    <3>3. t[1] = s[1]
      BY <3>1, <3>2, Zenon
    <3>4. Len(t) = 2 /\ t[2] = x
      BY <3>1, <3>2, Zenon
    <3> QED
      BY <3>1, <3>3, <3>4, <2>2, Zenon
  <2>4. t = <<a, x>>
    BY <2>3, TwoNames
  <2> QED
    BY <2>4 DEF t
<1>5. <<a, b>> \o <<x>> = <<a, b, x>>
  <2> DEFINE t == <<a, b>> \o <<x>>
             s == <<a, b>>
  <2>1. t = s \o <<x>>
    OBVIOUS
  <2>2. s \in Seq(S) /\ Len(s) = 2 /\ s[1] = a /\ s[2] = b
    BY <1>3
  <2> HIDE DEF t, s
  <2>3. t \in Seq(S) /\ Len(t) = 3 /\ t[3] = x /\ t[1] = a /\ t[2] = b
    <3>1. /\ t \in Seq(S) /\ Len(t) = Len(s) + 1 /\ t[Len(s) + 1] = x
          /\ \A i \in 1 .. Len(s) : t[i] = s[i]
      BY <1>1, <2>1, <2>2, Zenon
    <3>2. Len(s) + 1 = 3 /\ 1 \in 1 .. Len(s) /\ 2 \in 1 .. Len(s)
      BY <2>2
    <3>3. t[1] = s[1] /\ t[2] = s[2]
      BY <3>1, <3>2, Zenon
    <3>4. Len(t) = 3 /\ t[3] = x
      BY <3>1, <3>2, Zenon
    <3> QED
      BY <3>1, <3>3, <3>4, <2>2, Zenon
  <2>4. t = <<a, b, x>>
    BY <2>3, ThreeNames
  <2> QED
    BY <2>4 DEF t
<1> QED
  BY <1>4, <1>5

\* The paths there are.
Root == <<>>
Top(n) == <<n>>
Sub(n) == <<n, "sub">>
TopFile(n) == <<n, "file">>
SubFile(n) == <<n, "sub", "file">>
Data == <<"data">>
DataFile(d) == d \o <<"file">>
Inside(n) == {Sub(n), TopFile(n), SubFile(n)}

\* What their names are.
Names == TempNames \union {"data", "sub", "file", "chaindata", "etl-tmp", "nodes"}

\* Their lengths and names tell them apart.
LEMMA Shapes ==
  ASSUME NEW n \in TempNames
  PROVE  /\ Top(n) \in Seq(Names) /\ Len(Top(n)) = 1 /\ Top(n)[1] = n
         /\ Sub(n) \in Seq(Names) /\ Len(Sub(n)) = 2 /\ Sub(n)[1] = n /\ Sub(n)[2] = "sub"
         /\ TopFile(n) \in Seq(Names) /\ Len(TopFile(n)) = 2 /\ TopFile(n)[1] = n
              /\ TopFile(n)[2] = "file"
         /\ SubFile(n) \in Seq(Names) /\ Len(SubFile(n)) = 3 /\ SubFile(n)[1] = n
              /\ SubFile(n)[2] = "sub"
<1> USE DEF Names
<1>1. Top(n) \in Seq(Names) /\ Len(Top(n)) = 1 /\ Top(n)[1] = n
  BY DEF Top
<1>2. Sub(n) \in Seq(Names) /\ Len(Sub(n)) = 2 /\ Sub(n)[1] = n /\ Sub(n)[2] = "sub"
  BY DEF Sub
<1>3. TopFile(n) \in Seq(Names) /\ Len(TopFile(n)) = 2 /\ TopFile(n)[1] = n
        /\ TopFile(n)[2] = "file"
  BY DEF TopFile
<1>4. SubFile(n) \in Seq(Names) /\ Len(SubFile(n)) = 3 /\ SubFile(n)[1] = n /\ SubFile(n)[2] = "sub"
  BY DEF SubFile
<1> HIDE DEF Names
<1> QED
  BY <1>1, <1>2, <1>3, <1>4

\* So do those of the data directory.
LEMMA DataShapes ==
  ASSUME NEW d \in DataSubdirs
  PROVE  /\ Len(Root) = 0
         /\ Data \in Seq(Names) /\ Len(Data) = 1 /\ Data[1] = "data"
         /\ d \in Seq(Names) /\ Len(d) = 2 /\ d[1] = "data"
         /\ DataFile(d) \in Seq(Names) /\ Len(DataFile(d)) = 3 /\ DataFile(d)[1] = "data"
              /\ DataFile(d)[2] = d[2]
<1> USE DEF Names
<1>1. Len(Root) = 0
  BY DEF Root
<1>2. Data \in Seq(Names) /\ Len(Data) = 1 /\ Data[1] = "data"
  BY DEF Data
<1>3. PICK y \in Names : d = <<"data", y>>
  BY DEF DataSubdirs
<1>4. d \in Seq(Names) /\ Len(d) = 2 /\ d[1] = "data"
  <2>1. <<"data", y>> \in Seq(Names)
    OBVIOUS
  <2> QED
    BY <1>3, <2>1
<1>5. DataFile(d) \in Seq(Names) /\ Len(DataFile(d)) = 3 /\ DataFile(d)[1] = "data"
        /\ DataFile(d)[2] = d[2]
  <2>1. "file" \in Names /\ "data" \in Names
    OBVIOUS
  <2> HIDE DEF Names
  <2>2. DataFile(d) = <<"data", y, "file">> /\ d[2] = y
    BY <1>3, <2>1, OneMore DEF DataFile
  <2>3. <<"data", y, "file">> \in Seq(Names)
    BY <2>1
  <2> QED
    BY <2>2, <2>3
<1> HIDE DEF Names
<1> QED
  BY <1>1, <1>2, <1>4, <1>5

\* How they are made of each other.
LEMMA ShapesMade ==
  ASSUME NEW n \in TempNames
  PROVE  /\ Top(n) \o <<"sub">> = Sub(n) /\ Top(n) \o <<"file">> = TopFile(n)
         /\ Sub(n) \o <<"file">> = SubFile(n)
         /\ SubSeq(Sub(n), 1, 1) = Top(n) /\ SubSeq(TopFile(n), 1, 1) = Top(n)
         /\ SubSeq(SubFile(n), 1, 1) = Top(n)
         /\ SubSeq(Sub(n), 1, 2) = Sub(n) /\ SubSeq(TopFile(n), 1, 2) = TopFile(n)
         /\ SubSeq(SubFile(n), 1, 2) = Sub(n)
         /\ SubSeq(Top(n), 1, 1) = Top(n)
<1>1. "sub" \in Names /\ "file" \in Names /\ n \in Names
  BY DEF Names
<1>2. Top(n) \o <<"sub">> = Sub(n) /\ Top(n) \o <<"file">> = TopFile(n)
        /\ Sub(n) \o <<"file">> = SubFile(n)
  BY <1>1, OneMore DEF Top, Sub, TopFile, SubFile
<1>3. SubSeq(Sub(n), 1, 1) = Top(n) /\ SubSeq(Sub(n), 1, 2) = Sub(n)
  <2>1. Sub(n) \in Seq(Names) /\ Len(Sub(n)) >= 2 /\ Len(Sub(n)) >= 1 /\ Sub(n)[1] = n
          /\ Sub(n)[2] = "sub"
    BY Shapes
  <2>2. SubSeq(Sub(n), 1, 1) = <<n>> /\ SubSeq(Sub(n), 1, 2) = <<n, "sub">>
    BY <2>1, FirstName, FirstTwo
  <2> QED
    BY <2>2 DEF Top, Sub
<1>4. SubSeq(TopFile(n), 1, 1) = Top(n) /\ SubSeq(TopFile(n), 1, 2) = TopFile(n)
  <2>1. /\ TopFile(n) \in Seq(Names) /\ Len(TopFile(n)) >= 2 /\ Len(TopFile(n)) >= 1
        /\ TopFile(n)[1] = n /\ TopFile(n)[2] = "file"
    BY Shapes
  <2>2. SubSeq(TopFile(n), 1, 1) = <<n>> /\ SubSeq(TopFile(n), 1, 2) = <<n, "file">>
    BY <2>1, FirstName, FirstTwo
  <2> QED
    BY <2>2 DEF Top, TopFile
<1>5. SubSeq(SubFile(n), 1, 1) = Top(n) /\ SubSeq(SubFile(n), 1, 2) = Sub(n)
  <2>1. /\ SubFile(n) \in Seq(Names) /\ Len(SubFile(n)) >= 2 /\ Len(SubFile(n)) >= 1
        /\ SubFile(n)[1] = n /\ SubFile(n)[2] = "sub"
    BY Shapes
  <2>2. SubSeq(SubFile(n), 1, 1) = <<n>> /\ SubSeq(SubFile(n), 1, 2) = <<n, "sub">>
    BY <2>1, FirstName, FirstTwo
  <2> QED
    BY <2>2 DEF Top, Sub
<1>6. SubSeq(Top(n), 1, 1) = Top(n)
  <2>1. Top(n) \in Seq(Names) /\ Len(Top(n)) >= 1 /\ Top(n)[1] = n
    BY Shapes
  <2>2. SubSeq(Top(n), 1, 1) = <<n>>
    BY <2>1, FirstName
  <2> QED
    BY <2>2 DEF Top
<1> QED
  BY <1>2, <1>3, <1>4, <1>5, <1>6

\* So are those of the data directory.
LEMMA DataMade ==
  ASSUME NEW d \in DataSubdirs
  PROVE  /\ SubSeq(d, 1, 1) = Data /\ SubSeq(d, 1, 2) = d /\ SubSeq(Data, 1, 1) = Data
         /\ SubSeq(DataFile(d), 1, 1) = Data /\ SubSeq(DataFile(d), 1, 2) = d
<1>1. PICK y : d = <<"data", y>> /\ d[2] = y
  BY DEF DataSubdirs
<1>2. /\ d \in Seq(Names) /\ Len(d) >= 2 /\ Len(d) >= 1 /\ d[1] = "data"
      /\ DataFile(d) \in Seq(Names) /\ Len(DataFile(d)) >= 2 /\ Len(DataFile(d)) >= 1
      /\ DataFile(d)[1] = "data" /\ DataFile(d)[2] = y
      /\ Data \in Seq(Names) /\ Len(Data) >= 1 /\ Data[1] = "data"
  BY <1>1, DataShapes
<1>3. d[2] = y
  BY <1>1
<1>4. SubSeq(d, 1, 1) = <<"data">> /\ SubSeq(d, 1, 2) = <<"data", y>>
  BY <1>2, <1>3, FirstName, FirstTwo
<1>5. SubSeq(DataFile(d), 1, 1) = <<"data">> /\ SubSeq(DataFile(d), 1, 2) = <<"data", y>>
  BY <1>2, FirstName, FirstTwo
<1>6. SubSeq(Data, 1, 1) = <<"data">>
  BY <1>2, FirstName
<1> QED
  BY <1>1, <1>4, <1>5, <1>6 DEF Data

\* A directory is created with its parents.
LEMMA CreatedAre ==
  ASSUME NEW n \in TempNames
  PROVE  Created(Top(n)) = {Root, Top(n)} /\ Created(Sub(n)) = {Root, Top(n), Sub(n)}
<1>1. \A t : SubSeq(t, 1, 0) = Root
  BY SubSeqEmpty DEF Root
<1>2. 0 .. 1 = {0, 1} /\ 0 .. 2 = {0, 1, 2}
  OBVIOUS
<1>3. Created(Top(n)) = {Root, Top(n)}
  <2>1. Created(Top(n)) = {SubSeq(Top(n), 1, i) : i \in {0, 1}}
    BY <1>2, Shapes DEF Created
  <2>2. {SubSeq(Top(n), 1, i) : i \in {0, 1}} = {SubSeq(Top(n), 1, 0), SubSeq(Top(n), 1, 1)}
    OBVIOUS
  <2> QED
    BY <2>1, <2>2, <1>1, ShapesMade
<1>4. Created(Sub(n)) = {Root, Top(n), Sub(n)}
  <2>1. Created(Sub(n)) = {SubSeq(Sub(n), 1, i) : i \in {0, 1, 2}}
    BY <1>2, Shapes DEF Created
  <2>2. {SubSeq(Sub(n), 1, i) : i \in {0, 1, 2}}
          = {SubSeq(Sub(n), 1, 0), SubSeq(Sub(n), 1, 1), SubSeq(Sub(n), 1, 2)}
    OBVIOUS
  <2> QED
    BY <2>1, <2>2, <1>1, ShapesMade
<1> QED
  BY <1>3, <1>4

\* So is one of the data directory.
LEMMA CreatedData ==
  ASSUME NEW d \in DataSubdirs
  PROVE  Created(d) = {Root, Data, d}
<1>1. SubSeq(d, 1, 0) = Root
  BY SubSeqEmpty DEF Root
<1>2. 0 .. 2 = {0, 1, 2}
  OBVIOUS
<1>3. Created(d) = {SubSeq(d, 1, i) : i \in {0, 1, 2}}
  BY <1>2, DataShapes DEF Created
<1>4. {SubSeq(d, 1, i) : i \in {0, 1, 2}} = {SubSeq(d, 1, 0), SubSeq(d, 1, 1), SubSeq(d, 1, 2)}
  OBVIOUS
<1> QED
  BY <1>1, <1>3, <1>4, DataMade

-----------------------------------------------------------------------------
(* The file system holds such paths only, each in a directory.             *)

TreeInv ==
  /\ \A q \in dirs : \/ q = Root \/ q = Data \/ q \in DataSubdirs
                     \/ \E n \in TempNames : q = Top(n) \/ q = Sub(n)
  /\ \A q \in files : \/ \E d \in DataSubdirs : q = DataFile(d)
                      \/ \E n \in TempNames : q = Top(n) \/ q = TopFile(n) \/ q = SubFile(n)
  /\ Root \in dirs
  /\ \A d \in DataSubdirs : (d \in dirs => Data \in dirs) /\ (DataFile(d) \in files => d \in dirs)
  /\ \A n \in TempNames :
       /\ Sub(n) \in dirs \/ TopFile(n) \in files => Top(n) \in dirs
       /\ SubFile(n) \in files => Sub(n) \in dirs
  /\ \A q \in stored : q \in files /\ \E d \in DataSubdirs : q = DataFile(d)

\* A process with a name.
Busy(p) == dirPc[p] \in {"found", "alive"}

\* No two processes have the same name. A temporary directory belongs to a process, which
\* put in it what there is.
UsersInv ==
  /\ dirPc \in [DirUsers -> {"idle", "found", "alive"}]
  /\ dirName \in [DirUsers -> TempNames \union {"none"}]
  /\ put = [p \in DirUsers |-> IF Has(p) THEN Existing \intersect Inside(dirName[p]) ELSE {}]
  /\ \A p \in DirUsers : Busy(p) => dirName[p] \in TempNames
  /\ \A p, q \in DirUsers : p # q /\ Busy(p) /\ Busy(q) => dirName[p] # dirName[q]
  /\ \A p \in DirUsers : Has(p) => Top(dirName[p]) \in dirs
  /\ \A n \in TempNames : Top(n) \in dirs => \E p \in DirUsers : Has(p) /\ dirName[p] = n

DirInv == TreeInv /\ UsersInv

\* The paths are apart.
LEMMA PathsApart ==
  ASSUME NEW n \in TempNames, NEW m \in TempNames, NEW d \in DataSubdirs
  PROVE  /\ (Top(n) = Top(m) \/ Sub(n) = Sub(m) \/ TopFile(n) = TopFile(m)
              \/ SubFile(n) = SubFile(m)) => n = m
         /\ Top(n) \notin Inside(m) \union {Root, Data, d, DataFile(d)}
         /\ Sub(n) \notin {Top(m), TopFile(m), SubFile(m), Root, Data, d, DataFile(d)}
         /\ TopFile(n) \notin {Top(m), Sub(m), SubFile(m), Root, Data, d, DataFile(d)}
         /\ SubFile(n) \notin {Top(m), Sub(m), TopFile(m), Root, Data, d, DataFile(d)}
<1>1. "data" # n /\ "data" # m
  BY NamesAssumption
<1>n. /\ Len(Top(n)) = 1 /\ Len(Sub(n)) = 2 /\ Len(TopFile(n)) = 2 /\ Len(SubFile(n)) = 3
      /\ Top(n)[1] = n /\ Sub(n)[1] = n /\ TopFile(n)[1] = n /\ SubFile(n)[1] = n
      /\ Sub(n)[2] = "sub" /\ TopFile(n)[2] = "file"
  BY Shapes
<1>m. /\ Len(Top(m)) = 1 /\ Len(Sub(m)) = 2 /\ Len(TopFile(m)) = 2 /\ Len(SubFile(m)) = 3
      /\ Top(m)[1] = m /\ Sub(m)[1] = m /\ TopFile(m)[1] = m /\ SubFile(m)[1] = m
      /\ Sub(m)[2] = "sub" /\ TopFile(m)[2] = "file"
  BY Shapes
<1>d. /\ Len(Root) = 0 /\ Len(Data) = 1 /\ Len(d) = 2 /\ Len(DataFile(d)) = 3
      /\ Data[1] = "data" /\ d[1] = "data" /\ DataFile(d)[1] = "data"
  BY DataShapes
<1>2. (Top(n) = Top(m) \/ Sub(n) = Sub(m) \/ TopFile(n) = TopFile(m)
        \/ SubFile(n) = SubFile(m)) => n = m
  BY <1>n, <1>m
<1>3. Top(n) \notin Inside(m) \union {Root, Data, d, DataFile(d)}
  BY <1>1, <1>n, <1>m, <1>d DEF Inside
<1>s. Sub(n) # TopFile(m) /\ TopFile(n) # Sub(m)
  <2>1. "sub" # "file"
    OBVIOUS
  <2> QED
    BY <1>n, <1>m, <2>1
<1>u. Sub(n) # d /\ TopFile(n) # d
  BY <1>1, <1>n, <1>d
<1>l. /\ Sub(n) # Top(m) /\ Sub(n) # SubFile(m) /\ Sub(n) # Root /\ Sub(n) # Data
           /\ Sub(n) # DataFile(d)
      /\ TopFile(n) # Top(m) /\ TopFile(n) # SubFile(m) /\ TopFile(n) # Root /\ TopFile(n) # Data
      /\ TopFile(n) # DataFile(d)
  <2>1. \A x, y : Len(x) # Len(y) => x # y
    OBVIOUS
  <2>2. /\ Len(Sub(n)) = 2 /\ Len(TopFile(n)) = 2 /\ Len(Top(m)) = 1 /\ Len(SubFile(m)) = 3
        /\ Len(Root) = 0 /\ Len(Data) = 1 /\ Len(DataFile(d)) = 3
    BY <1>n, <1>m, <1>d
  <2>3. 2 # 1 /\ 2 # 3 /\ 2 # 0
    OBVIOUS
  <2> QED
    BY <2>1, <2>2, <2>3, Zenon
<1>4. Sub(n) \notin {Top(m), TopFile(m), SubFile(m), Root, Data, d, DataFile(d)}
  BY <1>s, <1>u, <1>l
<1>5. TopFile(n) \notin {Top(m), Sub(m), SubFile(m), Root, Data, d, DataFile(d)}
  BY <1>s, <1>u, <1>l
<1>6. SubFile(n) \notin {Top(m), Sub(m), TopFile(m), Root, Data, d, DataFile(d)}
  BY <1>1, <1>n, <1>m, <1>d
<1> QED
  BY <1>2, <1>3, <1>4, <1>5, <1>6

\* What there is below a temporary directory.
LEMMA BelowIs ==
  ASSUME TreeInv, NEW n \in TempNames
  PROVE  /\ Below(Top(n)) = Existing \intersect Inside(n)
         /\ Below(Sub(n)) = Existing \intersect {SubFile(n)}
<1>0. PICK e \in DataSubdirs : TRUE
  BY DEF DataSubdirs
<1>1. Len(Top(n)) = 1 /\ Len(Sub(n)) = 2
  BY Shapes
<1> DEFINE one(q) == SubSeq(q, 1, 1)
           two(q) == SubSeq(q, 1, 2)
           InTop(q) == Len(q) > 1 /\ one(q) = Top(n)
           InSub(q) == Len(q) > 2 /\ two(q) = Sub(n)
<1>2. ASSUME NEW m \in TempNames
      PROVE  /\ InTop(Top(m)) <=> Top(m) \in Inside(n)
             /\ InTop(Sub(m)) <=> Sub(m) \in Inside(n)
             /\ InTop(TopFile(m)) <=> TopFile(m) \in Inside(n)
             /\ InTop(SubFile(m)) <=> SubFile(m) \in Inside(n)
             /\ ~InSub(Top(m)) /\ ~InSub(Sub(m)) /\ ~InSub(TopFile(m))
             /\ Top(m) # SubFile(n) /\ Sub(m) # SubFile(n) /\ TopFile(m) # SubFile(n)
             /\ InSub(SubFile(m)) <=> SubFile(m) = SubFile(n)
  <2>1. Len(Top(m)) = 1 /\ Len(Sub(m)) = 2 /\ Len(TopFile(m)) = 2 /\ Len(SubFile(m)) = 3
    BY Shapes
  <2>2. one(Sub(m)) = Top(m) /\ one(TopFile(m)) = Top(m) /\ one(SubFile(m)) = Top(m)
          /\ two(SubFile(m)) = Sub(m)
    BY ShapesMade
  <2>3. /\ Top(m) = Top(n) <=> n = m
        /\ Sub(m) = Sub(n) <=> n = m
        /\ TopFile(m) = TopFile(n) <=> n = m
        /\ SubFile(m) = SubFile(n) <=> n = m
    BY <1>0, PathsApart
  <2>4. /\ Top(m) \notin Inside(n) /\ Sub(m) \notin {TopFile(n), SubFile(n)}
        /\ TopFile(m) \notin {Sub(n), SubFile(n)} /\ SubFile(m) \notin {Sub(n), TopFile(n)}
        /\ Top(m) # SubFile(n)
    BY <1>0, PathsApart DEF Inside
  <2> HIDE DEF one, two
  <2> QED
    BY <2>1, <2>2, <2>3, <2>4 DEF Inside
<1>3. ASSUME NEW d \in DataSubdirs
      PROVE  /\ ~InTop(Root) /\ ~InTop(Data) /\ ~InTop(d) /\ ~InTop(DataFile(d))
             /\ ~InSub(Root) /\ ~InSub(Data) /\ ~InSub(d) /\ ~InSub(DataFile(d))
             /\ \A q \in Inside(n) : q # Root /\ q # Data /\ q # d /\ q # DataFile(d)
  <2>1. Len(Root) = 0 /\ Len(Data) = 1 /\ Len(d) = 2 /\ Len(DataFile(d)) = 3
    BY DataShapes
  <2>2. one(d) = Data /\ one(DataFile(d)) = Data /\ two(DataFile(d)) = d
    BY DataMade
  <2>3. Top(n) # Data /\ Sub(n) # d /\ \A q \in Inside(n) : q # Root /\ q # Data /\ q # d
          /\ q # DataFile(d)
    BY PathsApart DEF Inside
  <2> HIDE DEF one, two
  <2> QED
    BY <2>1, <2>2, <2>3
<1>4. ASSUME NEW q \in Existing
      PROVE  (InTop(q) <=> q \in Inside(n)) /\ (InSub(q) <=> q = SubFile(n))
  <2>1. \/ \E m \in TempNames : q = Top(m) \/ q = Sub(m) \/ q = TopFile(m) \/ q = SubFile(m)
        \/ \E d \in DataSubdirs : q = Root \/ q = Data \/ q = d \/ q = DataFile(d)
    BY <1>0 DEF TreeInv, Existing
  <2>2. SubFile(n) \in Inside(n)
    BY DEF Inside
  <2> HIDE DEF InTop, InSub
  <2>3. ASSUME NEW m \in TempNames, q = Top(m) \/ q = Sub(m) \/ q = TopFile(m) \/ q = SubFile(m)
        PROVE  (InTop(q) <=> q \in Inside(n)) /\ (InSub(q) <=> q = SubFile(n))
    BY <1>2, <2>3
  <2>4. ASSUME NEW d \in DataSubdirs, q = Root \/ q = Data \/ q = d \/ q = DataFile(d)
        PROVE  (InTop(q) <=> q \in Inside(n)) /\ (InSub(q) <=> q = SubFile(n))
    <3>1. ~InTop(q) /\ ~InSub(q) /\ \A r \in Inside(n) : r # q
      BY <1>3, <2>4
    <3> QED
      BY <3>1, <2>2
  <2> QED
    BY <2>1, <2>3, <2>4
<1>5. Below(Top(n)) = {q \in Existing : InTop(q)} /\ Below(Sub(n)) = {q \in Existing : InSub(q)}
  BY <1>1 DEF Below, Existing
<1> HIDE DEF InTop, InSub
<1> QED
  BY <1>4, <1>5

\* A process and its paths.
LEMMA OwnPaths ==
  ASSUME DirInv, NEW p \in DirUsers, Busy(p)
  PROVE  /\ dirName[p] \in TempNames /\ Mine(p) = Top(dirName[p])
         /\ Mine(p) \o <<"sub">> = Sub(dirName[p]) /\ Mine(p) \o <<"file">> = TopFile(dirName[p])
         /\ Below(Mine(p)) = Existing \intersect Inside(dirName[p])
<1>1. dirName[p] \in TempNames /\ Mine(p) = Top(dirName[p])
  BY DEF DirInv, UsersInv, Mine, Top
<1>2. TreeInv
  BY DEF DirInv
<1> QED
  BY <1>1, <1>2, ShapesMade, BelowIs

\* A name is taken that no process has: nobody found it, and the directory of one alive is
\* there.
LEMMA UniquePathKeeps ==
  ASSUME DirInv, DrawnApart, NEW p \in DirUsers, UniquePath(p)
  PROVE  DirInv'
<1>1. PICK n \in TempNames :
         /\ <<n>> \notin Existing
         /\ \A q \in DirUsers : dirPc[q] = "found" => dirName[q] # n
         /\ dirName' = [dirName EXCEPT ![p] = n]
  BY DEF UniquePath
<1>2. /\ dirPc[p] = "idle" /\ dirPc' = [dirPc EXCEPT ![p] = "found"]
      /\ UNCHANGED <<files, dirs, put, stored>>
  BY DEF UniquePath
<1>3. /\ dirPc \in [DirUsers -> {"idle", "found", "alive"}]
      /\ dirName \in [DirUsers -> TempNames \union {"none"}]
  BY DEF DirInv, UsersInv
<1>4. /\ dirPc'[p] = "found" /\ dirName'[p] = n
      /\ \A q \in DirUsers : q # p => dirPc'[q] = dirPc[q] /\ dirName'[q] = dirName[q]
      /\ dirPc' \in [DirUsers -> {"idle", "found", "alive"}]
      /\ dirName' \in [DirUsers -> TempNames \union {"none"}]
  BY <1>1, <1>2, <1>3
<1>5. \A q \in DirUsers : Has(q)' = Has(q) /\ (Has(q) => dirName'[q] = dirName[q])
  BY <1>2, <1>4 DEF Has
<1>6. Existing' = Existing
  BY <1>2 DEF Existing
<1>7. \A q \in DirUsers : q # p /\ Busy(q) => dirName[q] # n
  <2> SUFFICES ASSUME NEW q \in DirUsers, Has(q) PROVE dirName[q] # n
    BY <1>1 DEF Busy, Has
  <2>1. Top(dirName[q]) \in Existing
    BY DEF DirInv, UsersInv, Existing
  <2> QED
    BY <2>1, <1>1 DEF Top
<1>8. TreeInv'
  BY <1>2 DEF DirInv, TreeInv
<1>9. put' = [q \in DirUsers |-> IF Has(q)' THEN Existing' \intersect Inside(dirName'[q]) ELSE {}]
  <2>1. put = [q \in DirUsers |-> IF Has(q) THEN Existing \intersect Inside(dirName[q]) ELSE {}]
    BY DEF DirInv, UsersInv
  <2>2. ASSUME NEW q \in DirUsers
        PROVE  (IF Has(q) THEN Existing \intersect Inside(dirName[q]) ELSE {})
                 = IF Has(q)' THEN Existing' \intersect Inside(dirName'[q]) ELSE {}
    BY <1>5, <1>6
  <2> QED
    BY <1>2, <2>1, <2>2
<1>10. \A q \in DirUsers : Busy(q)' => dirName'[q] \in TempNames
  BY <1>4 DEF DirInv, UsersInv, Busy
<1>11. \A q, r \in DirUsers : q # r /\ Busy(q)' /\ Busy(r)' => dirName'[q] # dirName'[r]
  BY <1>4, <1>7 DEF DirInv, UsersInv, Busy
<1>12. \A q \in DirUsers : Has(q)' => Top(dirName'[q]) \in dirs'
  BY <1>2, <1>5 DEF DirInv, UsersInv
<1>13. \A m \in TempNames : Top(m) \in dirs' => \E q \in DirUsers : Has(q)' /\ dirName'[q] = m
  BY <1>2, <1>5 DEF DirInv, UsersInv
<1> QED
  BY <1>4, <1>8, <1>9, <1>10, <1>11, <1>12, <1>13 DEF DirInv, UsersInv

\* What a process did below its own directory changes nothing of the others.
LEMMA OwnChange ==
  ASSUME DirInv, TreeInv', NEW p \in DirUsers, Has(p), UNCHANGED <<dirPc, dirName>>,
         put' = [put EXCEPT ![p] = Existing' \intersect Inside(dirName[p])],
         \A m \in TempNames : Top(m) \in dirs' <=> Top(m) \in dirs,
         \A m \in TempNames : m # dirName[p]
           => Existing' \intersect Inside(m) = Existing \intersect Inside(m)
  PROVE  DirInv'
<1>1. put = [q \in DirUsers |-> IF Has(q) THEN Existing \intersect Inside(dirName[q]) ELSE {}]
  BY DEF DirInv, UsersInv
<1>2. \A q \in DirUsers : Has(q)' = Has(q) /\ dirName'[q] = dirName[q] /\ Busy(q)' = Busy(q)
  BY DEF Has, Busy
<1>3. \A q \in DirUsers : Has(q) /\ q # p => dirName[q] \in TempNames /\ dirName[q] # dirName[p]
  BY DEF DirInv, UsersInv, Has, Busy
<1>4. ASSUME NEW q \in DirUsers
      PROVE  put'[q] = IF Has(q)' THEN Existing' \intersect Inside(dirName'[q]) ELSE {}
  BY <1>1, <1>2, <1>3
<1>5. put' = [q \in DirUsers |-> IF Has(q)' THEN Existing' \intersect Inside(dirName'[q]) ELSE {}]
  <2>1. put' = [q \in DirUsers |-> put'[q]]
    BY <1>1
  <2> QED
    BY <1>4, <2>1
<1>6. /\ \A q \in DirUsers : Has(q)' => Top(dirName'[q]) \in dirs'
      /\ \A m \in TempNames : Top(m) \in dirs' => \E q \in DirUsers : Has(q)' /\ dirName'[q] = m
  <2>1. \A q \in DirUsers : Has(q) => dirName[q] \in TempNames
    BY DEF DirInv, UsersInv, Has, Busy
  <2> QED
    BY <1>2, <2>1 DEF DirInv, UsersInv
<1>7. /\ dirPc' \in [DirUsers -> {"idle", "found", "alive"}]
      /\ dirName' \in [DirUsers -> TempNames \union {"none"}]
      /\ \A q \in DirUsers : Busy(q)' => dirName'[q] \in TempNames
      /\ \A q, r \in DirUsers : q # r /\ Busy(q)' /\ Busy(r)' => dirName'[q] # dirName'[r]
  BY <1>2 DEF DirInv, UsersInv
<1> QED
  BY <1>5, <1>6, <1>7 DEF DirInv, UsersInv

\* What others do elsewhere changes nothing of the temporary directories.
LEMMA OtherChange ==
  ASSUME DirInv, TreeInv', UNCHANGED <<dirPc, dirName, put>>,
         \A m \in TempNames : Top(m) \in dirs' <=> Top(m) \in dirs,
         \A m \in TempNames : Existing' \intersect Inside(m) = Existing \intersect Inside(m)
  PROVE  DirInv'
<1>1. put = [q \in DirUsers |-> IF Has(q) THEN Existing \intersect Inside(dirName[q]) ELSE {}]
  BY DEF DirInv, UsersInv
<1>2. \A q \in DirUsers : Has(q)' = Has(q) /\ dirName'[q] = dirName[q] /\ Busy(q)' = Busy(q)
  BY DEF Has, Busy
<1>3. \A q \in DirUsers : Has(q) => dirName[q] \in TempNames
  BY DEF DirInv, UsersInv, Has, Busy
<1>4. ASSUME NEW q \in DirUsers
      PROVE  (IF Has(q) THEN Existing \intersect Inside(dirName[q]) ELSE {})
               = IF Has(q)' THEN Existing' \intersect Inside(dirName'[q]) ELSE {}
  BY <1>2, <1>3
<1>5. put' = [q \in DirUsers |-> IF Has(q)' THEN Existing' \intersect Inside(dirName'[q]) ELSE {}]
  BY <1>1, <1>4
<1>6. /\ \A q \in DirUsers : Has(q)' => Top(dirName'[q]) \in dirs'
      /\ \A m \in TempNames : Top(m) \in dirs' => \E q \in DirUsers : Has(q)' /\ dirName'[q] = m
  BY <1>2, <1>3 DEF DirInv, UsersInv
<1>7. /\ dirPc' \in [DirUsers -> {"idle", "found", "alive"}]
      /\ dirName' \in [DirUsers -> TempNames \union {"none"}]
      /\ \A q \in DirUsers : Busy(q)' => dirName'[q] \in TempNames
      /\ \A q, r \in DirUsers : q # r /\ Busy(q)' /\ Busy(r)' => dirName'[q] # dirName'[r]
  BY <1>2 DEF DirInv, UsersInv
<1> QED
  BY <1>5, <1>6, <1>7 DEF DirInv, UsersInv

\* The directory is new: if it existed it would belong to another process of that name.
LEMMA TempCreateKeeps ==
  ASSUME DirInv, NEW p \in DirUsers, TempCreate(p)
  PROVE  DirInv'
<1> DEFINE n == dirName[p]
<1>1. /\ dirPc[p] = "found" /\ UNCHANGED <<files, dirName, put, stored>>
      /\ dirPc \in [DirUsers -> {"idle", "found", "alive"}]
  BY DEF TempCreate, DirInv, UsersInv
<1>2. n \in TempNames /\ Mine(p) = Top(n)
  BY <1>1, OwnPaths DEF Busy
<1>3. ~Has(p) /\ put[p] = {}
  BY <1>1 DEF Has, DirInv, UsersInv
<1>4. CASE Mine(p) \in files
  <2>1. dirPc' = [dirPc EXCEPT ![p] = "idle"] /\ dirs' = dirs
    BY <1>4 DEF TempCreate
  <2>2. \A q \in DirUsers : Has(q)' = Has(q) /\ (Busy(q)' => Busy(q))
    BY <1>1, <2>1 DEF Has, Busy
  <2>3. TreeInv'
    BY <1>1, <2>1 DEF DirInv, TreeInv
  <2>4. Existing' = Existing
    BY <1>1, <2>1 DEF Existing
  <2>5. put' = [q \in DirUsers |-> IF Has(q)' THEN Existing' \intersect Inside(dirName'[q]) ELSE {}]
    BY <1>1, <2>2, <2>4 DEF DirInv, UsersInv
  <2>6. dirPc' \in [DirUsers -> {"idle", "found", "alive"}]
    BY <1>1, <2>1
  <2> QED
    BY <1>1, <2>1, <2>2, <2>3, <2>5, <2>6 DEF DirInv, UsersInv
<1>5. CASE Mine(p) \notin files
  <2>0. PICK e \in DataSubdirs : TRUE
    BY DEF DataSubdirs
  <2>1. dirPc' = [dirPc EXCEPT ![p] = "alive"] /\ dirs' = dirs \union {Root, Top(n)}
    BY <1>2, <1>5, CreatedAre DEF TempCreate
  <2>2. /\ Has(p)' /\ \A q \in DirUsers : (q # p => Has(q)' = Has(q)) /\ (Busy(q)' = Busy(q))
    BY <1>1, <2>1 DEF Has, Busy
  <2>3. Top(n) \notin dirs
    BY <1>1, <1>2, <1>3 DEF DirInv, UsersInv, Has, Busy
  <2>4. Existing \intersect Inside(n) = {}
    <3>1. Sub(n) \notin dirs /\ TopFile(n) \notin files /\ SubFile(n) \notin files
      BY <1>2, <2>3 DEF DirInv, TreeInv
    <3>2. Sub(n) \notin files /\ TopFile(n) \notin dirs /\ SubFile(n) \notin dirs
      BY <1>2, <2>0, PathsApart DEF DirInv, TreeInv
    <3> QED
      BY <3>1, <3>2 DEF Inside, Existing
  <2>5. TreeInv'
    BY <1>1, <1>2, <2>0, <2>1, PathsApart DEF DirInv, TreeInv
  <2>6. \A m \in TempNames : Existing' \intersect Inside(m) = Existing \intersect Inside(m)
    <3>1. \A m \in TempNames : Root \notin Inside(m) /\ Top(n) \notin Inside(m)
      BY <1>2, <2>0, PathsApart DEF Inside
    <3> QED
      BY <1>1, <2>1, <3>1 DEF Existing
  <2>7. put' = [q \in DirUsers |-> IF Has(q)' THEN Existing' \intersect Inside(dirName'[q]) ELSE {}]
    <3>1. put = [q \in DirUsers |-> IF Has(q) THEN Existing \intersect Inside(dirName[q]) ELSE {}]
      BY DEF DirInv, UsersInv
    <3>2. ASSUME NEW q \in DirUsers
          PROVE  (IF Has(q) THEN Existing \intersect Inside(dirName[q]) ELSE {})
                   = IF Has(q)' THEN Existing' \intersect Inside(dirName'[q]) ELSE {}
      <4>1. CASE q = p
        BY <4>1, <1>1, <1>2, <1>3, <2>2, <2>4, <2>6
      <4>2. CASE q # p
        <5>1. Has(q) => dirName[q] \in TempNames
          BY DEF DirInv, UsersInv, Has, Busy
        <5> QED
          BY <4>2, <5>1, <1>1, <2>2, <2>6
      <4> QED
        BY <4>1, <4>2
    <3> QED
      BY <1>1, <3>1, <3>2
  <2>8. \A q \in DirUsers : Has(q)' => Top(dirName'[q]) \in dirs'
    BY <1>1, <2>1, <2>2 DEF DirInv, UsersInv
  <2>9. \A m \in TempNames : Top(m) \in dirs' => \E q \in DirUsers : Has(q)' /\ dirName'[q] = m
    <3> SUFFICES ASSUME NEW m \in TempNames, Top(m) \in dirs'
                 PROVE  \E q \in DirUsers : Has(q)' /\ dirName'[q] = m
      OBVIOUS
    <3>1. CASE m = n
      BY <3>1, <1>1, <2>2
    <3>2. CASE m # n
      <4>1. Top(m) \in dirs
        BY <3>2, <1>2, <2>0, <2>1, PathsApart
      <4>2. PICK q \in DirUsers : Has(q) /\ dirName[q] = m
        BY <4>1 DEF DirInv, UsersInv
      <4> QED
        BY <4>2, <3>2, <1>1, <2>2
    <3> QED
      BY <3>1, <3>2
  <2>10. dirPc' \in [DirUsers -> {"idle", "found", "alive"}]
    BY <1>1, <2>1
  <2> QED
    BY <1>1, <2>2, <2>5, <2>7, <2>8, <2>9, <2>10 DEF DirInv, UsersInv
<1> QED
  BY <1>4, <1>5

\* remove_all takes the directory and all below it, and nothing else.
LEMMA TempDestroyKeeps ==
  ASSUME DirInv, NEW p \in DirUsers, TempDestroy(p)
  PROVE  DirInv'
<1> DEFINE n == dirName[p]
           gone == Inside(n) \union {Top(n)}
<1>0. PICK e \in DataSubdirs : TRUE
  BY DEF DataSubdirs
<1>1. /\ Has(p) /\ dirPc' = [dirPc EXCEPT ![p] = "idle"] /\ UNCHANGED <<dirName, stored>>
      /\ put' = [put EXCEPT ![p] = {}]
      /\ dirPc \in [DirUsers -> {"idle", "found", "alive"}]
  BY DEF TempDestroy, DirInv, UsersInv
<1>2. n \in TempNames /\ Mine(p) = Top(n) /\ Below(Mine(p)) = Existing \intersect Inside(n)
  BY <1>1, OwnPaths DEF Has, Busy
<1>3. files' = files \ gone /\ dirs' = dirs \ gone
  BY <1>2 DEF TempDestroy, Existing
<1>4. ~Has(p)' /\ ~Busy(p)' /\ \A q \in DirUsers : q # p => Has(q)' = Has(q) /\ Busy(q)' = Busy(q)
  BY <1>1 DEF Has, Busy
<1>5. \A q \in DirUsers : q # p /\ Busy(q) => dirName[q] \in TempNames /\ dirName[q] # n
  BY <1>1 DEF DirInv, UsersInv, Has, Busy
<1>6. TreeInv'
  <2>1. \A m \in TempNames : m # n => Top(m) \notin gone /\ Sub(m) \notin gone
    BY <1>0, <1>2, PathsApart DEF Inside
  <2>2. Root \notin gone /\ Data \notin gone /\ \A d \in DataSubdirs : d \notin gone
          /\ DataFile(d) \notin gone
    BY <1>0, <1>2, PathsApart DEF Inside
  <2>3. Top(n) \in gone /\ Sub(n) \in gone /\ TopFile(n) \in gone /\ SubFile(n) \in gone
    BY DEF Inside
  <2> HIDE DEF gone
  <2> QED
    BY <1>1, <1>3, <2>1, <2>2, <2>3 DEF DirInv, TreeInv
<1>7. \A m \in TempNames :
        m # n => /\ Existing' \intersect Inside(m) = Existing \intersect Inside(m)
                 /\ Top(m) \in dirs' <=> Top(m) \in dirs
  <2>1. \A m \in TempNames : m # n => Top(m) \notin gone /\ \A q \in Inside(m) : q \notin gone
    BY <1>0, <1>2, PathsApart DEF Inside
  <2> HIDE DEF gone
  <2> QED
    BY <1>3, <2>1 DEF Existing
<1>8. put' = [q \in DirUsers |-> IF Has(q)' THEN Existing' \intersect Inside(dirName'[q]) ELSE {}]
  <2>1. put = [q \in DirUsers |-> IF Has(q) THEN Existing \intersect Inside(dirName[q]) ELSE {}]
    BY DEF DirInv, UsersInv
  <2>2. ASSUME NEW q \in DirUsers
        PROVE  put'[q] = IF Has(q)' THEN Existing' \intersect Inside(dirName'[q]) ELSE {}
    <3>1. CASE q = p
      BY <3>1, <1>1, <1>4, <2>1
    <3>2. CASE q # p
      <4>1. Has(q) => dirName[q] \in TempNames /\ dirName[q] # n
        BY <3>2, <1>5 DEF Has, Busy
      <4>2. put'[q] = put[q] /\ dirName'[q] = dirName[q] /\ Has(q)' = Has(q)
        BY <3>2, <1>1, <1>4, <2>1
      <4>3. put[q] = IF Has(q) THEN Existing \intersect Inside(dirName[q]) ELSE {}
        BY <2>1
      <4>4. Has(q) => Existing' \intersect Inside(dirName[q])
              = Existing \intersect Inside(dirName[q])
        <5> SUFFICES ASSUME Has(q)
                     PROVE  Existing' \intersect Inside(dirName[q]) = Existing \intersect Inside(dirName[q])
          OBVIOUS
        <5>1. PICK m \in TempNames : m = dirName[q] /\ m # n
          BY <4>1
        <5>2. Existing' \intersect Inside(m) = Existing \intersect Inside(m)
          BY <5>1, <1>7
        <5> QED
          BY <5>1, <5>2
      <4> QED
        BY <4>2, <4>3, <4>4
    <3> QED
      BY <3>1, <3>2
  <2>3. put' = [q \in DirUsers |-> put'[q]]
    BY <1>1, <2>1
  <2> QED
    BY <2>2, <2>3
<1>9. \A q \in DirUsers : Has(q)' => Top(dirName'[q]) \in dirs'
  <2> SUFFICES ASSUME NEW q \in DirUsers, Has(q)' PROVE Top(dirName'[q]) \in dirs'
    OBVIOUS
  <2>1. q # p /\ Has(q) /\ dirName'[q] = dirName[q]
    BY <1>1, <1>4
  <2>2. dirName[q] \in TempNames /\ dirName[q] # n /\ Top(dirName[q]) \in dirs
    BY <2>1, <1>5 DEF DirInv, UsersInv, Has, Busy
  <2> QED
    BY <2>1, <2>2, <1>7
<1>10. \A m \in TempNames : Top(m) \in dirs' => \E q \in DirUsers : Has(q)' /\ dirName'[q] = m
  <2> SUFFICES ASSUME NEW m \in TempNames, Top(m) \in dirs'
               PROVE  \E q \in DirUsers : Has(q)' /\ dirName'[q] = m
    OBVIOUS
  <2>1. m # n /\ Top(m) \in dirs
    BY <1>3
  <2>2. PICK q \in DirUsers : Has(q) /\ dirName[q] = m
    BY <2>1 DEF DirInv, UsersInv
  <2> QED
    BY <2>1, <2>2, <1>1, <1>4
<1>11. dirPc' \in [DirUsers -> {"idle", "found", "alive"}]
  BY <1>1
<1>12. /\ \A q \in DirUsers : Busy(q)' => dirName'[q] \in TempNames
       /\ \A q, r \in DirUsers : q # r /\ Busy(q)' /\ Busy(r)' => dirName'[q] # dirName'[r]
  BY <1>1, <1>4 DEF DirInv, UsersInv
<1>13. dirName' \in [DirUsers -> TempNames \union {"none"}]
  BY <1>1 DEF DirInv, UsersInv
<1> QED
  BY <1>6, <1>8, <1>9, <1>10, <1>11, <1>12, <1>13 DEF DirInv, UsersInv

\* A subdirectory is below its process' directory.
LEMMA SubdirKeeps ==
  ASSUME DirInv, NEW p \in DirUsers, Subdir(p)
  PROVE  DirInv'
<1> DEFINE n == dirName[p]
<1>0. PICK e \in DataSubdirs : TRUE
  BY DEF DataSubdirs
<1>1. Has(p) /\ Top(n) \in dirs /\ Root \in dirs /\ UNCHANGED <<files, dirPc, dirName, stored>>
  BY DEF Subdir, DirInv, UsersInv, TreeInv
<1>2. n \in TempNames /\ Mine(p) \o <<"sub">> = Sub(n)
  BY <1>1, OwnPaths DEF Has, Busy
<1>3. dirs' = dirs \union {Sub(n)} /\ put' = [put EXCEPT ![p] = put[p] \union {Sub(n)}]
  BY <1>1, <1>2, CreatedAre DEF Subdir
<1>4. Existing' = Existing \union {Sub(n)}
  BY <1>1, <1>3 DEF Existing
<1>5. TreeInv'
  BY <1>0, <1>1, <1>2, <1>3, PathsApart DEF DirInv, TreeInv
<1>6. put[p] \union {Sub(n)} = Existing' \intersect Inside(n)
  <2>1. put[p] = Existing \intersect Inside(n) /\ Sub(n) \in Inside(n)
    BY <1>1 DEF DirInv, UsersInv, Inside
  <2> QED
    BY <1>4, <2>1
<1>7. \A m \in TempNames : Top(m) \in dirs' <=> Top(m) \in dirs
  BY <1>0, <1>2, <1>3, PathsApart
<1>8. \A m \in TempNames : m # n => Existing' \intersect Inside(m) = Existing \intersect Inside(m)
  <2>1. \A m \in TempNames : m # n => Sub(n) \notin Inside(m)
    BY <1>0, <1>2, PathsApart DEF Inside
  <2> QED
    BY <1>4, <2>1
<1> QED
  BY <1>1, <1>3, <1>5, <1>6, <1>7, <1>8, OwnChange

\* So is a file.
LEMMA PutFileKeeps ==
  ASSUME DirInv, NEW p \in DirUsers, PutFile(p)
  PROVE  DirInv'
<1> DEFINE n == dirName[p]
<1>0. PICK e \in DataSubdirs : TRUE
  BY DEF DataSubdirs
<1>1. Has(p) /\ UNCHANGED <<dirs, dirPc, dirName, stored>>
  BY DEF PutFile
<1>2. n \in TempNames /\ Mine(p) = Top(n) /\ Mine(p) \o <<"sub">> = Sub(n)
        /\ Mine(p) \o <<"file">> = TopFile(n)
  BY <1>1, OwnPaths DEF Has, Busy
<1>3. Sub(n) \o <<"file">> = SubFile(n)
  BY <1>2, ShapesMade
<1>4. PICK f : /\ \/ f = TopFile(n) /\ Top(n) \in dirs
                  \/ f = SubFile(n) /\ Sub(n) \in dirs
               /\ files' = files \union {f} /\ put' = [put EXCEPT ![p] = put[p] \union {f}]
  <2>1. PICK d \in dirs \intersect {Mine(p), Mine(p) \o <<"sub">>} :
              /\ files' = files \union {d \o <<"file">>}
              /\ put' = [put EXCEPT ![p] = put[p] \union {d \o <<"file">>}]
    BY DEF PutFile
  <2>2. CASE d = Mine(p)
    BY <2>1, <2>2, <1>2
  <2>3. CASE d = Mine(p) \o <<"sub">>
    <3>1. d = Sub(n) /\ d \o <<"file">> = SubFile(n) /\ Sub(n) \in dirs
      BY <2>1, <2>3, <1>2, <1>3
    <3> QED
      BY <2>1, <3>1
  <2> QED
    BY <2>1, <2>2, <2>3
<1>5. Existing' = Existing \union {f}
  BY <1>1, <1>4 DEF Existing
<1>6. TreeInv'
  BY <1>0, <1>1, <1>2, <1>4, PathsApart DEF DirInv, TreeInv
<1>7. put[p] \union {f} = Existing' \intersect Inside(n)
  <2>1. put[p] = Existing \intersect Inside(n) /\ f \in Inside(n)
    BY <1>1, <1>4 DEF DirInv, UsersInv, Inside
  <2> QED
    BY <1>5, <2>1
<1>8. \A m \in TempNames : m # n => Existing' \intersect Inside(m) = Existing \intersect Inside(m)
  <2>1. \A m \in TempNames : m # n => f \notin Inside(m)
    BY <1>0, <1>2, <1>4, PathsApart DEF Inside
  <2> QED
    BY <1>5, <2>1
<1> QED
  BY <1>1, <1>4, <1>6, <1>7, <1>8, OwnChange

\* clear() leaves the subdirectory and what is in it unless it recurses.
LEMMA ClearKeeps ==
  ASSUME DirInv, NEW p \in DirUsers, NEW recurse \in BOOLEAN, ClearDir(p, recurse)
  PROVE  DirInv'
<1> DEFINE n == dirName[p]
           gone == {q \in Below(Mine(p)) : recurse \/ SubSeq(q, 1, 2) \notin dirs}
           taken == IF recurse THEN Inside(n) ELSE {TopFile(n)}
<1>0. PICK e \in DataSubdirs : TRUE
  BY DEF DataSubdirs
<1>1. Has(p) /\ UNCHANGED <<dirPc, dirName, stored>> /\ files' = files \ gone /\ dirs' = dirs \ gone
  BY DEF ClearDir
<1>2. /\ n \in TempNames /\ Below(Mine(p)) = Existing \intersect Inside(n)
      /\ Mine(p) \o <<"file">> = TopFile(n)
  BY <1>1, OwnPaths DEF Has, Busy
<1>3. put[p] = Existing \intersect Inside(n)
  BY <1>1 DEF DirInv, UsersInv
<1>4. put' = [put EXCEPT ![p] = IF recurse THEN {} ELSE put[p] \ {TopFile(n)}]
  BY <1>2 DEF ClearDir
<1>5. gone = Existing \intersect taken
  <2>1. CASE recurse
    BY <2>1, <1>2
  <2>2. CASE ~recurse
    <3>1. /\ SubSeq(Sub(n), 1, 2) = Sub(n) /\ SubSeq(TopFile(n), 1, 2) = TopFile(n)
          /\ SubSeq(SubFile(n), 1, 2) = Sub(n)
      BY <1>2, ShapesMade
    <3>2. TopFile(n) \notin dirs /\ Sub(n) \notin files /\ SubFile(n) \notin dirs
      BY <1>0, <1>2, PathsApart DEF DirInv, TreeInv
    <3>3. Sub(n) \in Existing \/ SubFile(n) \in Existing => Sub(n) \in dirs
      BY <1>2, <3>2 DEF DirInv, TreeInv, Existing
    <3>4. Sub(n) # TopFile(n) /\ SubFile(n) # TopFile(n)
      BY <1>0, <1>2, PathsApart
    <3>5. \A q \in Existing \intersect Inside(n) : SubSeq(q, 1, 2) \notin dirs <=> q = TopFile(n)
      BY <3>1, <3>2, <3>3, <3>4 DEF Inside
    <3>6. TopFile(n) \in Inside(n)
      BY DEF Inside
    <3> QED
      BY <2>2, <1>2, <3>5, <3>6
  <2> QED
    BY <2>1, <2>2
<1> HIDE DEF gone
<1>6. files' = files \ taken /\ dirs' = dirs \ taken
  BY <1>1, <1>5 DEF Existing
<1>7. taken \subseteq Inside(n) /\ TopFile(n) \in taken
  BY DEF Inside
<1>8. recurse => taken = Inside(n)
  OBVIOUS
<1>9. ~recurse => taken = {TopFile(n)}
  OBVIOUS
<1> HIDE DEF taken
<1>10. TreeInv'
  <2>1. \A m \in TempNames : Top(m) \notin taken /\ (m # n => Sub(m) \notin taken)
    BY <1>0, <1>2, <1>7, PathsApart DEF Inside
  <2>2. Root \notin taken /\ Data \notin taken /\ \A d \in DataSubdirs : d \notin taken
          /\ DataFile(d) \notin taken
    BY <1>0, <1>2, <1>7, PathsApart DEF Inside
  <2>3. Sub(n) \in taken => SubFile(n) \in taken
    BY <1>0, <1>2, <1>8, <1>9, PathsApart DEF Inside
  <2> QED
    BY <1>1, <1>6, <2>1, <2>2, <2>3 DEF DirInv, TreeInv
<1>11. Existing' = Existing \ taken
  BY <1>6 DEF Existing
<1>12. put' = [put EXCEPT ![p] = Existing' \intersect Inside(n)]
  <2>1. (IF recurse THEN {} ELSE put[p] \ {TopFile(n)}) = Existing' \intersect Inside(n)
    BY <1>3, <1>8, <1>9, <1>11
  <2> QED
    BY <1>4, <2>1
<1>13. \A m \in TempNames : Top(m) \in dirs' <=> Top(m) \in dirs
  BY <1>0, <1>2, <1>6, <1>7, PathsApart
<1>14. \A m \in TempNames : m # n => Existing' \intersect Inside(m) = Existing \intersect Inside(m)
  <2>1. \A m \in TempNames : m # n => \A q \in Inside(m) : q \notin Inside(n)
    BY <1>0, <1>2, PathsApart DEF Inside
  <2> QED
    BY <1>7, <1>11, <2>1
<1> QED
  BY <1>1, <1>10, <1>12, <1>13, <1>14, OwnChange

\* A file in place of a temporary directory is no directory.
LEMMA StrangerKeeps ==
  ASSUME DirInv, Stranger
  PROVE  DirInv'
<1>0. PICK e \in DataSubdirs : TRUE
  BY DEF DataSubdirs
<1>1. PICK n \in TempNames : files' = files \union {Top(n)} \/ files' = files \ {Top(n)}
  BY DEF Stranger, Top
<1>2. UNCHANGED <<dirs, dirPc, dirName, put, stored>>
  BY DEF Stranger
<1>3. /\ \A d \in DataSubdirs : DataFile(d) # Top(n)
      /\ \A m \in TempNames : TopFile(m) # Top(n) /\ SubFile(m) # Top(n) /\ Sub(m) # Top(n)
  BY <1>1, PathsApart, <1>0
<1>4. TreeInv'
  BY <1>1, <1>2, <1>3 DEF DirInv, TreeInv
<1>5. \A m \in TempNames : Existing' \intersect Inside(m) = Existing \intersect Inside(m)
  <2>1. \A m \in TempNames : Top(n) \notin Inside(m)
    BY <1>3 DEF Inside
  <2>2. \A q : q # Top(n) => (q \in Existing' <=> q \in Existing)
    BY <1>1, <1>2 DEF Existing
  <2> QED
    BY <2>1, <2>2
<1> QED
  BY <1>2, <1>4, <1>5, OtherChange

\* The data directory is apart from the temporary ones.
LEMMA DeployKeeps ==
  ASSUME DirInv, Deploy
  PROVE  DirInv'
<1>0. PICK e \in DataSubdirs : TRUE
  BY DEF DataSubdirs
<1>1. UNCHANGED <<files, dirPc, dirName, put, stored>>
        /\ dirs' = dirs \union UNION {Created(d) : d \in DataSubdirs}
  BY DEF Deploy
<1>2. UNION {Created(d) : d \in DataSubdirs} = {Root, Data} \union DataSubdirs
  <2>1. \A d \in DataSubdirs : Created(d) = {Root, Data, d}
    BY CreatedData
  <2> QED
    BY <1>0, <2>1
<1>3. dirs' = dirs \union ({Root, Data} \union DataSubdirs)
  BY <1>1, <1>2
<1>4. \A m \in TempNames : /\ Top(m) \notin {Root, Data} \union DataSubdirs
                           /\ Inside(m) \intersect ({Root, Data} \union DataSubdirs) = {}
                           /\ Sub(m) \notin {Root, Data} \union DataSubdirs
  BY <1>0, PathsApart DEF Inside
<1>5. TreeInv'
  BY <1>1, <1>3, <1>4 DEF DirInv, TreeInv
<1>6. \A m \in TempNames :
        /\ Existing' \intersect Inside(m) = Existing \intersect Inside(m)
        /\ Top(m) \in dirs' <=> Top(m) \in dirs
  BY <1>1, <1>3, <1>4 DEF Existing
<1> QED
  BY <1>1, <1>5, <1>6, OtherChange

\* So are its files.
LEMMA StoreKeeps ==
  ASSUME DirInv, StoreData
  PROVE  DirInv'
<1>1. PICK d \in DataSubdirs : d \in dirs /\ files' = files \union {DataFile(d)}
             /\ stored' = stored \union {DataFile(d)}
  BY DEF StoreData, DataFile
<1>2. UNCHANGED <<dirs, dirPc, dirName, put>>
  BY DEF StoreData
<1>3. \A m \in TempNames : TopFile(m) # DataFile(d) /\ SubFile(m) # DataFile(d)
        /\ DataFile(d) \notin Inside(m)
  BY PathsApart DEF Inside
<1>4. \A c \in DataSubdirs : DataFile(c) = DataFile(d) => c = d
  <2>1. \A c \in DataSubdirs : SubSeq(DataFile(c), 1, 2) = c
    BY DataMade
  <2> QED
    BY <2>1
<1>5. TreeInv'
  BY <1>1, <1>2, <1>3, <1>4 DEF DirInv, TreeInv
<1>6. \A m \in TempNames : Existing' \intersect Inside(m) = Existing \intersect Inside(m)
  BY <1>1, <1>2, <1>3 DEF Existing
<1> QED
  BY <1>2, <1>5, <1>6, OtherChange

\* Every step keeps the invariant when names are drawn apart.
LEMMA DirStep == DrawnApart /\ DirInv /\ [DirectoriesNext]_directoriesVars => DirInv'
<1> SUFFICES ASSUME DrawnApart, DirInv, [DirectoriesNext]_directoriesVars PROVE DirInv'
  OBVIOUS
<1>1. ASSUME NEW p \in DirUsers,
             UniquePath(p) \/ TempCreate(p) \/ TempDestroy(p) \/ Subdir(p) \/ PutFile(p)
      PROVE  DirInv'
  BY <1>1, UniquePathKeeps, TempCreateKeeps, TempDestroyKeeps, SubdirKeeps, PutFileKeeps
<1>2. ASSUME NEW p \in DirUsers, NEW recurse \in BOOLEAN, ClearDir(p, recurse)
      PROVE  DirInv'
  BY <1>2, ClearKeeps
<1>3. CASE UNCHANGED directoriesVars
  <2>1. UNCHANGED <<files, dirs, dirPc, dirName, put, stored>>
    BY <1>3 DEF directoriesVars
  <2>2. Existing' = Existing /\ \A q \in DirUsers : Has(q)' = Has(q) /\ Busy(q)' = Busy(q)
    BY <2>1 DEF Existing, Has, Busy
  <2>3. TreeInv'
    BY <2>1 DEF DirInv, TreeInv
  <2> QED
    BY <2>1, <2>2, <2>3, OtherChange
<1> QED
  BY <1>1, <1>2, <1>3, StrangerKeeps, DeployKeeps, StoreKeeps DEF DirectoriesNext

\* At first there is only the base.
LEMMA DirBegins == DirectoriesInit => DirInv
<1> SUFFICES ASSUME DirectoriesInit PROVE DirInv
  OBVIOUS
<1>1. /\ files = {} /\ dirs = {Root} /\ stored = {}
      /\ dirPc = [p \in DirUsers |-> "idle"] /\ dirName = [p \in DirUsers |-> "none"]
      /\ put = [p \in DirUsers |-> {}]
  BY DEF DirectoriesInit, Root
<1>0. PICK e \in DataSubdirs : TRUE
  BY DEF DataSubdirs
<1>2. /\ \A n \in TempNames : Sub(n) # Root /\ Top(n) # Root
      /\ \A d \in DataSubdirs : d # Root
  <2>1. \A n \in TempNames : Sub(n) # Root /\ Top(n) # Root
    BY <1>0, PathsApart
  <2>2. ASSUME NEW d \in DataSubdirs PROVE d # Root
    <3>1. Len(d) = 2 /\ Len(Root) = 0
      BY DataShapes
    <3> QED
      BY <3>1
  <2> QED
    BY <2>1, <2>2
<1>3. TreeInv
  BY <1>1, <1>2 DEF TreeInv
<1>4. \A p \in DirUsers : ~Has(p) /\ ~Busy(p)
  BY <1>1 DEF Has, Busy
<1>5. put = [p \in DirUsers |-> IF Has(p) THEN Existing \intersect Inside(dirName[p]) ELSE {}]
  BY <1>1, <1>4
<1> QED
  BY <1>1, <1>2, <1>3, <1>4, <1>5 DEF DirInv, UsersInv

\* The files of a temporary directory and of its subdirectory add up.
LEMMA SizesAdd ==
  ASSUME TreeInv, NEW n \in TempNames
  PROVE  DirSize(Top(n), TRUE) = DirSize(Top(n), FALSE) + DirSize(Sub(n), TRUE)
<1> DEFINE S == files \intersect {TopFile(n)}
           T == files \intersect {SubFile(n)}
<1>0. PICK e \in DataSubdirs : TRUE
  BY DEF DataSubdirs
<1>1. Below(Top(n)) = Existing \intersect Inside(n)
        /\ Below(Sub(n)) = Existing \intersect {SubFile(n)}
  BY BelowIs
<1>2. Sub(n) \notin files /\ TopFile(n) # SubFile(n)
  BY <1>0, PathsApart DEF TreeInv
<1>3. Below(Top(n)) \intersect files = S \union T /\ Below(Sub(n)) \intersect files = T
  BY <1>1, <1>2 DEF Inside, Existing
<1>4. Len(Top(n)) = 1 /\ Len(TopFile(n)) = 2 /\ Len(SubFile(n)) = 3
  BY Shapes
<1>5. DirSize(Top(n), TRUE) = Cardinality(S \union T) /\ DirSize(Sub(n), TRUE) = Cardinality(T)
  <2>1. \A A : {q \in A : TRUE \/ Len(q) = Len(Top(n)) + 1} = A
          /\ {q \in A : TRUE \/ Len(q) = Len(Sub(n)) + 1} = A
    OBVIOUS
  <2> QED
    BY <1>3, <2>1 DEF DirSize
<1>6. DirSize(Top(n), FALSE) = Cardinality(S)
  <2>1. {q \in S \union T : FALSE \/ Len(q) = Len(Top(n)) + 1} = S
    BY <1>4
  <2> QED
    BY <1>3, <2>1 DEF DirSize
<1>7. IsFiniteSet(S) /\ IsFiniteSet(T) /\ S \intersect T = {}
  <2>1. IsFiniteSet({TopFile(n)}) /\ IsFiniteSet({SubFile(n)})
    BY FS_Singleton
  <2>2. S \subseteq {TopFile(n)} /\ T \subseteq {SubFile(n)} /\ S \intersect T = {}
    BY <1>2
  <2> QED
    BY <2>1, <2>2, FS_Subset
<1> HIDE DEF S, T
<1>8. Cardinality(S \union T) = Cardinality(S) + Cardinality(T) - Cardinality(S \intersect T)
  BY <1>7, FS_Union
<1>9. Cardinality(S \intersect T) = 0 /\ Cardinality(S) \in Nat /\ Cardinality(T) \in Nat
  BY <1>7, FS_EmptySet, FS_CardinalityType
<1>10. Cardinality(S \union T) = Cardinality(S) + Cardinality(T)
  BY <1>8, <1>9
<1> QED
  BY <1>5, <1>6, <1>10

\* Every path is in a directory.
LEMMA InDirectory ==
  ASSUME TreeInv, NEW q \in Existing, Len(q) > 0
  PROVE  SubSeq(q, 1, Len(q) - 1) \in dirs
<1>1. ASSUME NEW n \in TempNames, q = Top(n) PROVE SubSeq(q, 1, Len(q) - 1) \in dirs
  <2>1. Len(q) - 1 = 0 /\ SubSeq(q, 1, 0) = Root
    BY <1>1, Shapes, SubSeqEmpty DEF Root
  <2> QED
    BY <2>1 DEF TreeInv
<1>2. ASSUME NEW n \in TempNames, q = Sub(n) \/ q = TopFile(n)
      PROVE  SubSeq(q, 1, Len(q) - 1) \in dirs
  <2>0. PICK e \in DataSubdirs : TRUE
    BY DEF DataSubdirs
  <2>1. Len(q) - 1 = 1 /\ SubSeq(q, 1, 1) = Top(n)
    <3>1. Len(q) = 2
      BY <1>2, Shapes
    <3> QED
      BY <3>1, <1>2, ShapesMade
  <2>2. Sub(n) \notin files /\ TopFile(n) \notin dirs
    BY <2>0, PathsApart DEF TreeInv
  <2>3. Top(n) \in dirs
    BY <1>2, <2>2 DEF TreeInv, Existing
  <2> QED
    BY <2>1, <2>3
<1>3. ASSUME NEW n \in TempNames, q = SubFile(n) PROVE SubSeq(q, 1, Len(q) - 1) \in dirs
  <2>0. PICK e \in DataSubdirs : TRUE
    BY DEF DataSubdirs
  <2>1. Len(q) - 1 = 2 /\ SubSeq(q, 1, 2) = Sub(n)
    <3>1. Len(q) = 3
      BY <1>3, Shapes
    <3> QED
      BY <3>1, <1>3, ShapesMade
  <2>2. SubFile(n) \notin dirs
    BY <2>0, PathsApart DEF TreeInv
  <2> QED
    BY <1>3, <2>1, <2>2 DEF TreeInv, Existing
<1>4. ASSUME NEW d \in DataSubdirs, q = d, d \in dirs PROVE SubSeq(q, 1, Len(q) - 1) \in dirs
  <2>1. Len(q) - 1 = 1 /\ SubSeq(q, 1, 1) = Data
    <3>1. Len(q) = 2
      BY <1>4, DataShapes
    <3> QED
      BY <3>1, <1>4, DataMade
  <2> QED
    BY <1>4, <2>1 DEF TreeInv
<1>5. ASSUME NEW d \in DataSubdirs, q = DataFile(d), DataFile(d) \in files
      PROVE  SubSeq(q, 1, Len(q) - 1) \in dirs
  <2>1. Len(q) - 1 = 2 /\ SubSeq(q, 1, 2) = d
    <3>1. Len(q) = 3
      BY <1>5, DataShapes
    <3> QED
      BY <3>1, <1>5, DataMade
  <2> QED
    BY <1>5, <2>1 DEF TreeInv
<1>6. ASSUME q = Data PROVE SubSeq(q, 1, Len(q) - 1) \in dirs
  <2>1. Len(q) - 1 = 0 /\ SubSeq(q, 1, 0) = Root
    BY <1>6, SubSeqEmpty DEF Data, Root
  <2> QED
    BY <2>1 DEF TreeInv
<1>7. q # Root
  BY DEF Root
<1> QED
  BY <1>1, <1>2, <1>3, <1>4, <1>5, <1>6, <1>7 DEF TreeInv, Existing

\* For any number of processes that draw their names apart: a temporary directory holds what
\* its own process put there, none is left behind, what is stored in the data directory
\* stays, whoever creates, clears and removes theirs meanwhile (directories.cpp).
THEOREM TempsApartHolds == DirectoriesSpec => []TempsApart
<1> DEFINE Inv == DrawnApart => DirInv
<1>1. DirectoriesInit => Inv
  BY DirBegins
<1>2. Inv /\ [DirectoriesNext]_directoriesVars => Inv'
  BY DirStep
<1>3. Inv => TempsApart
  <2> SUFFICES ASSUME DrawnApart, DirInv PROVE TempsApart
    BY DEF TempsApart
  <2>1. TreeInv
    BY DEF DirInv
  <2>2. ASSUME NEW p \in DirUsers, Has(p)
        PROVE  /\ Mine(p) \in dirs /\ Below(Mine(p)) = put[p]
               /\ DirSize(Mine(p), TRUE)
                    = DirSize(Mine(p), FALSE) + DirSize(Mine(p) \o <<"sub">>, TRUE)
    <3>1. /\ dirName[p] \in TempNames /\ Mine(p) = Top(dirName[p])
          /\ Mine(p) \o <<"sub">> = Sub(dirName[p])
          /\ Below(Mine(p)) = Existing \intersect Inside(dirName[p])
      BY <2>2, OwnPaths DEF Has, Busy
    <3>2. put[p] = Existing \intersect Inside(dirName[p]) /\ Top(dirName[p]) \in dirs
      BY <2>2 DEF DirInv, UsersInv
    <3>3. DirSize(Top(dirName[p]), TRUE)
            = DirSize(Top(dirName[p]), FALSE) + DirSize(Sub(dirName[p]), TRUE)
      BY <2>1, <3>1, SizesAdd
    <3> QED
      BY <3>1, <3>2, <3>3
  <2>3. \A n \in TempNames : <<n>> \in dirs => \E p \in DirUsers : Has(p) /\ dirName[p] = n
    BY DEF DirInv, UsersInv, Top
  <2>4. \A q \in Existing : Len(q) > 0 => SubSeq(q, 1, Len(q) - 1) \in dirs
    BY <2>1, InDirectory
  <2>5. stored \subseteq files
    BY <2>1 DEF TreeInv
  <2> QED
    BY <2>2, <2>3, <2>4, <2>5 DEF TempsApart
<1> QED
  BY <1>1, <1>2, <1>3, PTL DEF DirectoriesSpec

-----------------------------------------------------------------------------
\* For every capacity, any clock and any number of processes that draw their names apart: a
\* CappedSet holds the newest items, laps add up, and every temporary directory holds what its
\* own process put there (capped_set.hpp, stopwatch.cpp, directories.cpp).
THEOREM HelpersHold == HelpersSpec => []HelpersSound
<1>1. KeepsNewest /\ LapsAddUp /\ TempsApart => HelpersSound
  BY DEF HelpersSound
<1> QED
  BY <1>1, KeepsNewestHolds, LapsAddUpHolds, TempsApartHolds, PTL DEF HelpersSpec

-----------------------------------------------------------------------------
(* DataStream. What the recursive definitions compute is shown by least    *)
(* counterexamples: powers, integers as bytes, and items in a row.         *)

\* A value for every number up to N, each made from the one before.
Chain(f, N, T, a, step) ==
  /\ f \in [0 .. N -> T]
  /\ f[0] = a
  /\ \A k \in 1 .. N : f[k] = step[<<k, f[k - 1]>>]

\* There is one such function.
LEMMA ChainExists ==
  ASSUME NEW T, NEW a \in T, NEW N \in Nat, NEW step \in [(1 .. N) \X T -> T]
  PROVE  \E f : Chain(f, N, T, a, step)
<1> DEFINE wrong == {n \in 0 .. N : ~ \E f : Chain(f, n, T, a, step)}
<1>1. wrong = {}
  <2> SUFFICES ASSUME wrong # {} PROVE FALSE
    OBVIOUS
  <2>1. PICK n \in wrong : \A m \in wrong : n <= m
    <3>1. wrong \subseteq Nat
      OBVIOUS
    <3> HIDE DEF wrong
    <3> QED
      BY <3>1, LeastOf
  <2>2. CASE n = 0
    <3> DEFINE f == [k \in 0 .. 0 |-> a]
    <3>1. Chain(f, 0, T, a, step)
      BY DEF Chain
    <3> QED
      BY <3>1, <2>1, <2>2
  <2>3. CASE n # 0
    <3>1. n - 1 \in 0 .. N /\ n \in 1 .. N /\ n - 1 \in Nat /\ ~ (n <= n - 1)
      BY <2>1, <2>3
    <3>2. n - 1 \notin wrong
      BY <2>1, <3>1
    <3>3. PICK f : Chain(f, n - 1, T, a, step)
      BY <3>1, <3>2
    <3>4. step[<<n, f[n - 1]>>] \in T
      <4>1. f[n - 1] \in T
        BY <3>1, <3>3 DEF Chain
      <4> QED
        BY <4>1, <3>1
    <3> DEFINE g == [k \in 0 .. n |-> IF k = n THEN step[<<n, f[n - 1]>>] ELSE f[k]]
    <3>5. g \in [0 .. n -> T]
      <4>1. \A k \in 0 .. n : k # n => f[k] \in T
        BY <3>1, <3>3 DEF Chain
      <4> QED
        BY <3>4, <4>1
    <3>6. g[0] = a
      BY <3>1, <3>3 DEF Chain
    <3>7. \A k \in 1 .. n : g[k] = step[<<k, g[k - 1]>>]
      <4> TAKE k \in 1 .. n
      <4>1. k \in 0 .. n /\ k - 1 \in 0 .. n /\ k - 1 # n /\ (k # n => k \in 1 .. n - 1)
        BY <3>1
      <4>2. g[k - 1] = f[k - 1]
        BY <4>1
      <4>3. CASE k = n
        BY <4>1, <4>2, <4>3
      <4>4. CASE k # n
        <5>1. g[k] = f[k]
          BY <4>1, <4>4
        <5>2. f[k] = step[<<k, f[k - 1]>>]
          BY <4>1, <4>4, <3>3 DEF Chain
        <5> QED
          BY <5>1, <5>2, <4>2
      <4> QED
        BY <4>3, <4>4
    <3> HIDE DEF g
    <3>8. Chain(g, n, T, a, step)
      BY <3>5, <3>6, <3>7 DEF Chain
    <3> QED
      BY <3>8, <2>1
  <2> QED
    BY <2>2, <2>3
<1> QED
  BY <1>1

\* Powers: the recursive definition is met.
LEMMA PowerIs ==
  /\ Power \in [0 .. Size64 -> Nat] /\ Power[0] = 1
  /\ \A k \in 1 .. Size64 : Power[k] = Base * Power[k - 1] /\ Power[k - 1] > 0
<1> DEFINE Is(f) == f = [k \in 0 .. Size64 |-> IF k = 0 THEN 1 ELSE Base * f[k - 1]]
           step == [p \in (1 .. Size64) \X Nat |-> Base * p[2]]
<1>1. Base \in Nat /\ Base > 3 /\ Size64 \in Nat
  BY SizesAssumption
<1>2. step \in [(1 .. Size64) \X Nat -> Nat]
  BY <1>1
<1>3. PICK f : Chain(f, Size64, Nat, 1, step)
  <2> HIDE DEF step
  <2> QED
    BY <1>1, <1>2, ChainExists
<1>4. f \in [0 .. Size64 -> Nat] /\ f[0] = 1 /\ \A k \in 1 .. Size64 : f[k] = Base * f[k - 1]
  <2>1. \A k \in 1 .. Size64 : k - 1 \in 0 .. Size64
    BY <1>1
  <2> QED
    BY <1>3, <2>1 DEF Chain
<1>5. Is(f)
  <2>1. \A k \in 0 .. Size64 : f[k] = IF k = 0 THEN 1 ELSE Base * f[k - 1]
    BY <1>4, <1>1
  <2> QED
    BY <1>4, <2>1
<1>6. Is(Power)
  <2>1. Power = CHOOSE g : Is(g)
    BY DEF Power
  <2>2. \E g : Is(g)
    BY <1>5
  <2> HIDE DEF Is
  <2> QED
    BY <2>1, <2>2
<1>7. Power[0] = 1 /\ \A k \in 1 .. Size64 : Power[k] = Base * Power[k - 1]
  <2>1. \A k \in 0 .. Size64 : Power[k] = IF k = 0 THEN 1 ELSE Base * Power[k - 1]
    BY <1>6
  <2> QED
    BY <2>1, <1>1
<1> DEFINE wrong == {k \in 0 .. Size64 : ~ (Power[k] \in Nat /\ Power[k] > 0)}
<1>8. wrong = {}
  <2> SUFFICES ASSUME wrong # {} PROVE FALSE
    OBVIOUS
  <2>1. PICK n \in wrong : \A m \in wrong : n <= m
    <3>1. wrong \subseteq Nat
      OBVIOUS
    <3> HIDE DEF wrong
    <3> QED
      BY <3>1, LeastOf
  <2>2. n \in 1 .. Size64 /\ n - 1 \in 0 .. Size64
    BY <2>1, <1>1, <1>7
  <2>3. Power[n - 1] \in Nat /\ Power[n - 1] > 0
    BY <2>1, <2>2
  <2>4. \A x \in Nat : x > 0 => Base * x \in Nat /\ Base * x > 0
    BY <1>1
  <2> QED
    BY <2>1, <2>2, <2>3, <2>4, <1>7
<1>9. Power = [k \in 0 .. Size64 |-> Power[k]]
  <2>1. DOMAIN Power = 0 .. Size64 /\ Power = [k \in DOMAIN Power |-> Power[k]]
    BY <1>6
  <2> QED
    BY <2>1
<1>10. \A k \in 0 .. Size64 : Power[k] \in Nat /\ Power[k] > 0
  BY <1>8
<1>11. Power \in [0 .. Size64 -> Nat]
  BY <1>9, <1>10
<1>12. \A k \in 1 .. Size64 : k - 1 \in 0 .. Size64
  BY <1>1
<1> HIDE DEF wrong
<1> QED
  BY <1>7, <1>10, <1>11, <1>12

\* Division by a positive number has one result.
LEMMA DividedOnce ==
  ASSUME NEW b \in Nat, NEW p \in Nat, NEW q \in Nat, NEW r \in 0 .. b - 1, NEW s \in 0 .. b - 1,
         p * b + r = q * b + s
  PROVE  p = q /\ r = s
<1>1. \A x, y \in Nat : x < y => x * b + b <= y * b
  <2> TAKE x, y \in Nat
  <2> HAVE x < y
  <2>1. PICK d \in Nat : y = x + 1 + d
    <3>1. y - x - 1 \in Nat /\ y = x + 1 + (y - x - 1)
      OBVIOUS
    <3> QED
      BY <3>1
  <2>2. y * b = x * b + b + d * b /\ d * b >= 0
    BY <2>1
  <2> QED
    BY <2>2
<1>2. p * b \in Nat /\ q * b \in Nat
  OBVIOUS
<1>3. ~ (p < q)
  BY <1>1, <1>2
<1>4. ~ (q < p)
  BY <1>1, <1>2
<1>5. p = q
  BY <1>3, <1>4
<1> QED
  BY <1>2, <1>5

\* A digit more keeps a number below the next power.
LEMMA DigitBelow ==
  ASSUME NEW b \in Nat, NEW p \in Nat, NEW v \in Nat, v < p, NEW x \in 0 .. b - 1
  PROVE  v * b + x < b * p
<1>1. PICK d \in Nat : p = v + 1 + d
  <2>1. p - v - 1 \in Nat /\ p = v + 1 + (p - v - 1)
    OBVIOUS
  <2> QED
    BY <2>1
<1>2. b * p = v * b + b + d * b /\ d * b >= 0 /\ v * b \in Nat
  BY <1>1
<1> QED
  BY <1>2

\* Division by a product is division by its factors.
LEMMA DividedTwice ==
  ASSUME NEW n \in Nat, NEW b \in Nat, NEW p \in Nat, b > 0, p > 0
  PROVE  /\ n \div p \in Nat /\ n \div (b * p) \in Nat
         /\ n \div p = (n \div (b * p)) * b + ((n \div p) % b)
         /\ (n \div p) % b \in 0 .. b - 1
<1> DEFINE x == n \div p
           r == n % p
           y == x \div b
           s == x % b
           z == n \div (b * p)
           t == n % (b * p)
<1>a. \A k, c \in Nat : c > 0 => k \div c \in Nat /\ k % c \in 0 .. c - 1 /\ k = (k \div c) * c + (k % c)
  OBVIOUS
<1>b. b * p \in Nat /\ b * p > 0
  OBVIOUS
<1>1. x \in Nat /\ r \in 0 .. p - 1 /\ n = x * p + r
  BY <1>a, Zenon
<1>2. y \in Nat /\ s \in 0 .. b - 1 /\ x = y * b + s
  BY <1>a, <1>1
<1>3. z \in Nat /\ t \in 0 .. (b * p) - 1 /\ n = z * (b * p) + t
  BY <1>a, <1>b
<1> HIDE DEF x, r, y, s, z, t
<1>4. x * p = (y * b) * p + s * p
  BY <1>2
<1>5. (y * b) * p = y * (b * p)
  BY <1>2
<1>6. n = y * (b * p) + (s * p + r)
  <2>1. y * (b * p) \in Nat /\ s * p \in Nat
    BY <1>b, <1>2
  <2>2. n = (y * (b * p) + s * p) + r
    BY <1>1, <1>4, <1>5
  <2> QED
    BY <2>1, <2>2, <1>1
<1>7. s * p + r < p * b
  BY <1>1, <1>2, DigitBelow
<1>8. s * p + r \in 0 .. (b * p) - 1
  <2>1. s * p \in Nat /\ p * b = b * p
    BY <1>2
  <2> QED
    BY <2>1, <1>7, <1>1, <1>b
<1>9. y = z
  <2>1. PICK w \in Nat : w = b * p
    BY <1>b
  <2>2. PICK u \in Nat : u = s * p + r
    BY <1>8, <1>b
  <2>3. y * w + u = z * w + t /\ u \in 0 .. w - 1 /\ t \in 0 .. w - 1
    BY <2>1, <2>2, <1>3, <1>6, <1>8
  <2> QED
    BY <2>3, <1>2, <1>3, DividedOnce
<1>10. x \in Nat /\ z \in Nat /\ x = z * b + s /\ s \in 0 .. b - 1
  BY <1>1, <1>2, <1>3, <1>9
<1>11. n \div p = x /\ n \div (b * p) = z /\ (n \div p) % b = s
  BY Zenon DEF x, s, z
<1> QED
  BY <1>10, <1>11, Zenon

-----------------------------------------------------------------------------
(* Integers as bytes                                                       *)

\* v is what the last k bytes of b are worth, for every k.
Worth(v, b) ==
  /\ v \in [0 .. Len(b) -> Nat] /\ v[0] = 0
  /\ \A k \in 1 .. Len(b) : v[k] = v[k - 1] * Base + b[Len(b) - k + 1]

\* The recursive definition is met.
LEMMA FromLittleIs ==
  ASSUME NEW b \in Seq(Bytes)
  PROVE  \E v : Worth(v, b) /\ FromLittle(b) = v[Len(b)]
<1> DEFINE N == Len(b)
           Is(f) == f = [k \in 0 .. N |-> IF k = 0 THEN 0 ELSE f[k - 1] * Base + b[N - k + 1]]
           step == [p \in (1 .. N) \X Nat |-> p[2] * Base + b[N - p[1] + 1]]
           v == CHOOSE f : Is(f)
<1>1. Base \in Nat /\ N \in Nat
  BY SizesAssumption
<1>2. \A k \in 1 .. N : b[N - k + 1] \in Nat
  <2>1. \A k \in 1 .. N : N - k + 1 \in 1 .. N
    BY <1>1
  <2>2. \A i \in 1 .. N : b[i] \in Nat
    BY <1>1 DEF Bytes
  <2> QED
    BY <2>1, <2>2
<1>0. FromLittle(b) = v[N]
  BY DEF FromLittle
<1> HIDE DEF N
<1>3. step \in [(1 .. N) \X Nat -> Nat]
  <2>1. \A k \in 1 .. N, x \in Nat : x * Base + b[N - k + 1] \in Nat
    BY <1>1, <1>2
  <2> QED
    BY <2>1
<1>4. PICK f : Chain(f, N, Nat, 0, step)
  <2> HIDE DEF step
  <2> QED
    BY <1>1, <1>3, ChainExists
<1>5. f \in [0 .. N -> Nat] /\ f[0] = 0 /\ \A k \in 1 .. N : f[k] = f[k - 1] * Base + b[N - k + 1]
  <2>1. \A k \in 1 .. N : k - 1 \in 0 .. N
    BY <1>1
  <2> QED
    BY <1>4, <2>1 DEF Chain
<1>6. Is(f)
  <2>1. \A k \in 0 .. N : f[k] = IF k = 0 THEN 0 ELSE f[k - 1] * Base + b[N - k + 1]
    BY <1>5, <1>1
  <2> QED
    BY <1>5, <2>1
<1>7. Is(v)
  <2>1. \E g : Is(g)
    BY <1>6
  <2> HIDE DEF Is
  <2> QED
    BY <2>1
<1> HIDE DEF v
<1>8. v[0] = 0 /\ \A k \in 1 .. N : v[k] = v[k - 1] * Base + b[N - k + 1]
  <2>1. \A k \in 0 .. N : v[k] = IF k = 0 THEN 0 ELSE v[k - 1] * Base + b[N - k + 1]
    BY <1>7
  <2> QED
    BY <2>1, <1>1
<1> DEFINE wrong == {k \in 0 .. N : v[k] \notin Nat}
<1>9. wrong = {}
  <2> SUFFICES ASSUME wrong # {} PROVE FALSE
    OBVIOUS
  <2>1. PICK n \in wrong : \A m \in wrong : n <= m
    <3>1. wrong \subseteq Nat
      OBVIOUS
    <3> HIDE DEF wrong
    <3> QED
      BY <3>1, LeastOf
  <2>2. n \in 1 .. N /\ n - 1 \in 0 .. N
    BY <2>1, <1>1, <1>8
  <2>3. v[n - 1] \in Nat
    BY <2>1, <2>2
  <2>4. v[n - 1] * Base + b[N - n + 1] \in Nat
    <3>1. \A x, y \in Nat : x * Base + y \in Nat
      BY <1>1
    <3> QED
      BY <2>2, <2>3, <3>1, <1>2
  <2> QED
    BY <2>1, <2>2, <2>4, <1>8
<1>10. v \in [0 .. N -> Nat]
  <2>1. DOMAIN v = 0 .. N /\ v = [k \in DOMAIN v |-> v[k]]
    BY <1>7
  <2>2. \A k \in 0 .. N : v[k] \in Nat
    BY <1>9
  <2> QED
    BY <2>1, <2>2
<1>11. Worth(v, b)
  BY <1>8, <1>10 DEF Worth, N
<1> QED
  BY <1>0, <1>11 DEF N

\* A byte is one of the bytes.
LEMMA ByteAt ==
  ASSUME NEW b \in Seq(Bytes), NEW k \in 1 .. Len(b)
  PROVE  Len(b) - k + 1 \in 1 .. Len(b) /\ b[Len(b) - k + 1] \in 0 .. Base - 1
<1>1. Len(b) - k + 1 \in 1 .. Len(b)
  OBVIOUS
<1>2. \A i \in 1 .. Len(b) : b[i] \in Bytes
  OBVIOUS
<1> QED
  BY <1>1, <1>2 DEF Bytes

\* A number of some bytes is below the power for them.
LEMMA FromLittleBelow ==
  ASSUME NEW b \in Seq(Bytes), Len(b) <= Size64
  PROVE  FromLittle(b) \in Nat /\ FromLittle(b) < Power[Len(b)]
<1>1. PICK v : Worth(v, b) /\ FromLittle(b) = v[Len(b)]
  BY FromLittleIs
<1> DEFINE N == Len(b)
           wrong == {k \in 0 .. N : ~ (v[k] < Power[k])}
<1>2. N \in Nat /\ N <= Size64 /\ Base \in Nat /\ Size64 \in Nat
  BY SizesAssumption
<1>3. /\ \A k \in 0 .. N : v[k] \in Nat /\ k \in 0 .. Size64 /\ Power[k] \in Nat
      /\ v[0] = 0 /\ Power[0] = 1
      /\ \A k \in 1 .. N : /\ v[k] = v[k - 1] * Base + b[N - k + 1] /\ Power[k] = Base * Power[k - 1]
                           /\ k - 1 \in 0 .. N /\ b[N - k + 1] \in 0 .. Base - 1
  <2>1. \A k \in 0 .. N : k \in 0 .. Size64
    BY <1>2
  <2>2. \A k \in 1 .. N : k \in 1 .. Size64 /\ k - 1 \in 0 .. N
    BY <1>2
  <2> QED
    BY <1>1, <2>1, <2>2, PowerIs, ByteAt DEF Worth
<1> HIDE DEF N
<1>4. wrong = {}
  <2> SUFFICES ASSUME wrong # {} PROVE FALSE
    OBVIOUS
  <2>1. PICK n \in wrong : \A m \in wrong : n <= m
    <3>1. wrong \subseteq Nat
      OBVIOUS
    <3> HIDE DEF wrong
    <3> QED
      BY <3>1, LeastOf
  <2>2. n \in 1 .. N /\ n - 1 \in 0 .. N
    BY <2>1, <1>2, <1>3
  <2>3. v[n - 1] < Power[n - 1]
    BY <2>1, <2>2
  <2>4. v[n - 1] * Base + b[N - n + 1] < Base * Power[n - 1]
    BY <2>2, <2>3, <1>2, <1>3, DigitBelow
  <2> QED
    BY <2>1, <2>2, <2>4, <1>3
<1>5. N \in 0 .. N
  BY <1>2
<1> QED
  BY <1>1, <1>3, <1>4, <1>5 DEF N

\* Bytes that are worth the same are the same.
LEMMA SameBytes ==
  ASSUME NEW b \in Seq(Bytes), NEW c \in Seq(Bytes), Len(b) = Len(c), FromLittle(b) = FromLittle(c)
  PROVE  b = c
<1>1. PICK v : Worth(v, b) /\ FromLittle(b) = v[Len(b)]
  BY FromLittleIs
<1>2. PICK w : Worth(w, c) /\ FromLittle(c) = w[Len(c)]
  BY FromLittleIs
<1> DEFINE N == Len(b)
           wrong == {j \in 0 .. N : v[N - j] # w[N - j]}
<1>3. N \in Nat /\ Base \in Nat
  BY SizesAssumption
<1>4. ASSUME NEW k \in 1 .. N, v[k] = w[k]
      PROVE  v[k - 1] = w[k - 1] /\ b[N - k + 1] = c[N - k + 1]
  <2>1. v[k - 1] \in Nat /\ w[k - 1] \in Nat
    <3>1. k - 1 \in 0 .. N
      BY <1>3
    <3> QED
      BY <3>1, <1>1, <1>2 DEF Worth
  <2>2. b[N - k + 1] \in 0 .. Base - 1 /\ c[N - k + 1] \in 0 .. Base - 1
    BY ByteAt
  <2>3. v[k - 1] * Base + b[N - k + 1] = w[k - 1] * Base + c[N - k + 1]
    BY <1>1, <1>2, <1>4 DEF Worth
  <2> DEFINE p == v[k - 1]
             q == w[k - 1]
             x == b[N - k + 1]
             y == c[N - k + 1]
  <2> HIDE DEF p, q, x, y
  <2>4. p \in Nat /\ q \in Nat /\ x \in 0 .. Base - 1 /\ y \in 0 .. Base - 1 /\ p * Base + x = q * Base + y
    BY <2>1, <2>2, <2>3, Zenon DEF p, q, x, y
  <2>5. p = q /\ x = y
    BY <2>4, <1>3, DividedOnce
  <2> QED
    BY <2>5 DEF p, q, x, y
<1>0. v[N] = w[N]
  BY <1>1, <1>2
<1> HIDE DEF N
<1>5. wrong = {}
  <2> SUFFICES ASSUME wrong # {} PROVE FALSE
    OBVIOUS
  <2>1. PICK j \in wrong : \A m \in wrong : j <= m
    <3>1. wrong \subseteq Nat
      OBVIOUS
    <3> HIDE DEF wrong
    <3> QED
      BY <3>1, LeastOf
  <2>2. j # 0
    <3>1. N - 0 = N
      BY <1>3
    <3> QED
      BY <1>0, <2>1, <3>1
  <2>3. j - 1 \in 0 .. N /\ ~ (j <= j - 1) /\ N - (j - 1) \in 1 .. N /\ (N - (j - 1)) - 1 = N - j
    BY <2>1, <2>2, <1>3
  <2>4. v[N - (j - 1)] = w[N - (j - 1)]
    BY <2>1, <2>3
  <2>5. v[N - j] = w[N - j]
    BY <2>3, <2>4, <1>4
  <2> QED
    BY <2>1, <2>5
<1>6. \A i \in 1 .. N : b[i] = c[i]
  <2> TAKE i \in 1 .. N
  <2>1. N - i + 1 \in 1 .. N /\ N - (N - i + 1) + 1 = i /\ i - 1 \in 0 .. N /\ N - (i - 1) = N - i + 1
    BY <1>3
  <2>2. v[N - i + 1] = w[N - i + 1]
    BY <1>5, <2>1
  <2> QED
    BY <2>1, <2>2, <1>4
<1> QED
  BY <1>6, SeqEqual DEF N

\* Little makes bytes.
LEMMA LittleTyped ==
  ASSUME NEW n \in Nat, NEW size \in 0 .. Size64
  PROVE  /\ Little(n, size) \in Seq(Bytes) /\ Len(Little(n, size)) = size
         /\ \A i \in 1 .. size : /\ Little(n, size)[i] = (n \div Power[i - 1]) % Base
                                 /\ i \in 1 .. Size64 /\ i - 1 \in 0 .. Size64
<1>1. Size64 \in Nat /\ size \in Nat /\ Base \in Nat /\ Base > 3
  BY SizesAssumption
<1>2. \A i \in 1 .. size : i \in 1 .. Size64 /\ i - 1 \in 0 .. Size64
  BY <1>1
<1>3. \A i \in 1 .. size : (n \div Power[i - 1]) % Base \in Bytes
  <2> TAKE i \in 1 .. size
  <2>1. Power[i - 1] \in Nat /\ Power[i - 1] > 0
    BY <1>2, PowerIs
  <2>2. PICK p \in Nat : p = Power[i - 1] /\ p > 0
    BY <2>1
  <2>3. (n \div p) % Base \in 0 .. Base - 1
    BY <2>2, <1>1, DividedTwice
  <2> QED
    BY <2>2, <2>3 DEF Bytes
<1> DEFINE f == [i \in 1 .. size |-> (n \div Power[i - 1]) % Base]
<1>4. f \in [1 .. size -> Bytes]
  BY <1>3
<1>5. f \in Seq(Bytes) /\ Len(f) = size
  <2> HIDE DEF f
  <2> QED
    BY <1>1, <1>4
<1>6. Little(n, size) = f
  BY DEF Little
<1> QED
  BY <1>2, <1>5, <1>6

\* A number that fits is read back from its bytes.
LEMMA LittleReadsBack ==
  ASSUME NEW size \in 0 .. Size64, NEW n \in 0 .. Power[size] - 1
  PROVE  FromLittle(Little(n, size)) = n
<1> DEFINE b == Little(n, size)
<1>1. Size64 \in Nat /\ size \in Nat /\ Base \in Nat /\ Base > 0 /\ n \in Nat
  BY SizesAssumption, PowerIs
<1>2. /\ b \in Seq(Bytes) /\ Len(b) = size
      /\ \A i \in 1 .. size : b[i] = (n \div Power[i - 1]) % Base
  BY <1>1, LittleTyped
<1> HIDE DEF b
<1>3. PICK v : Worth(v, b) /\ FromLittle(b) = v[Len(b)]
  BY <1>2, FromLittleIs
<1> DEFINE wrong == {k \in 0 .. size : v[k] # n \div Power[size - k]}
<1>4. n \div Power[size - 0] = 0
  <2>1. Power[size] \in Nat /\ Power[size] > 0 /\ size - 0 = size
    BY <1>1, PowerIs
  <2>2. n < Power[size]
    BY <1>1, <2>1
  <2> QED
    BY <2>1, <2>2, <1>1
<1>5. ASSUME NEW k \in 1 .. size, v[k - 1] = n \div Power[size - (k - 1)]
      PROVE  v[k] = n \div Power[size - k]
  <2>1. /\ size - (k - 1) \in 1 .. Size64 /\ (size - (k - 1)) - 1 = size - k /\ size - k \in 0 .. Size64
        /\ size - k + 1 \in 1 .. size /\ (size - k + 1) - 1 = size - k
    BY <1>1
  <2>2. PICK p \in Nat : p = Power[size - k] /\ p > 0 /\ Power[size - (k - 1)] = Base * p
    BY <2>1, PowerIs
  <2>3. b[size - k + 1] = (n \div p) % Base
    BY <1>2, <2>1, <2>2
  <2>4. v[k] = (n \div (Base * p)) * Base + ((n \div p) % Base)
    <3>1. v[k] = v[k - 1] * Base + b[size - k + 1]
      BY <1>2, <1>3 DEF Worth
    <3> QED
      BY <3>1, <1>5, <2>2, <2>3, Zenon
  <2> QED
    BY <1>1, <2>2, <2>4, DividedTwice
<1>6. wrong = {}
  <2> SUFFICES ASSUME wrong # {} PROVE FALSE
    OBVIOUS
  <2>1. PICK k \in wrong : \A m \in wrong : k <= m
    <3>1. wrong \subseteq Nat
      OBVIOUS
    <3> HIDE DEF wrong
    <3> QED
      BY <3>1, LeastOf
  <2>2. k # 0
    BY <1>3, <1>4, <2>1 DEF Worth
  <2>3. k \in 1 .. size /\ k - 1 \in 0 .. size /\ ~ (k <= k - 1)
    BY <2>1, <2>2, <1>1
  <2>4. v[k - 1] = n \div Power[size - (k - 1)]
    BY <2>1, <2>3
  <2> QED
    BY <2>1, <2>3, <2>4, <1>5
<1>7. v[size] = n \div 1
  <2>1. size \in 0 .. size /\ size - size = 0
    BY <1>1
  <2> QED
    BY <2>1, <1>6, PowerIs
<1> QED
  BY <1>1, <1>2, <1>3, <1>7 DEF b

\* Bytes are what Little makes of their worth.
LEMMA LittleOfWorth ==
  ASSUME NEW b \in Seq(Bytes), Len(b) <= Size64
  PROVE  Little(FromLittle(b), Len(b)) = b
<1>1. Size64 \in Nat /\ Len(b) \in 0 .. Size64
  BY SizesAssumption
<1>2. FromLittle(b) \in 0 .. Power[Len(b)] - 1
  BY <1>1, FromLittleBelow, PowerIs
<1> DEFINE n == FromLittle(b)
           c == Little(n, Len(b))
<1>3. n \in Nat
  BY FromLittleBelow
<1> HIDE DEF n
<1>4. c \in Seq(Bytes) /\ Len(c) = Len(b)
  BY <1>1, <1>3, LittleTyped
<1>5. FromLittle(c) = n
  BY <1>1, <1>2, LittleReadsBack DEF n
<1> HIDE DEF c
<1>6. c = b
  BY <1>4, <1>5, SameBytes DEF n
<1> QED
  BY <1>6 DEF c, n

-----------------------------------------------------------------------------
(* Compact sizes                                                           *)

\* The widths of the longer forms, and the least values that need them.
Width(k) == <<Size16, Size32, Size64>>[k]
Least(k) == <<Prefix(1), Power[Size16], Power[Size32]>>[k]

\* Powers grow.
LEMMA PowersGrow ==
  ASSUME NEW i \in 0 .. Size64, NEW j \in 0 .. Size64, i <= j
  PROVE  Power[i] <= Power[j]
<1> DEFINE wrong == {k \in i .. Size64 : ~ (Power[i] <= Power[k])}
<1>1. Size64 \in Nat /\ Base \in Nat /\ Base > 3
  BY SizesAssumption
<1>2. \A x \in Nat : x <= Base * x
  BY <1>1
<1>3. wrong = {}
  <2> SUFFICES ASSUME wrong # {} PROVE FALSE
    OBVIOUS
  <2>1. PICK n \in wrong : \A m \in wrong : n <= m
    <3>1. wrong \subseteq Nat
      BY <1>1
    <3> HIDE DEF wrong
    <3> QED
      BY <3>1, LeastOf
  <2>2. n # i
    BY <2>1, PowerIs
  <2>3. n \in 1 .. Size64 /\ n - 1 \in i .. Size64 /\ n - 1 \in 0 .. Size64 /\ ~ (n <= n - 1)
    BY <2>1, <2>2, <1>1
  <2>4. Power[i] <= Power[n - 1]
    BY <2>1, <2>3
  <2>5. Power[n] = Base * Power[n - 1] /\ Power[n - 1] \in Nat /\ Power[i] \in Nat /\ Power[n] \in Nat
    BY <2>3, PowerIs
  <2> QED
    BY <2>1, <2>4, <2>5, <1>2
<1> QED
  BY <1>3, <1>1

\* The sizes and limits.
LEMMA Limits ==
  /\ Base \in Nat /\ Base > 3 /\ Prefix(1) \in Nat /\ Prefix(1) = Base - 3 /\ Prefix(1) > 0
  /\ Power[Size16] \in Nat /\ Power[Size32] \in Nat /\ Power[Size64] \in Nat
  /\ Prefix(1) <= Power[Size16] /\ Power[Size16] <= Power[Size32] /\ Power[Size32] <= Power[Size64]
  /\ Size16 \in 1 .. Size64 /\ Size32 \in 1 .. Size64 /\ Size64 \in 1 .. Size64 /\ 1 \in 0 .. Size64
<1>1. /\ Base \in Nat /\ Base > 3 /\ Size16 \in 1 .. Size64 /\ Size32 \in 1 .. Size64
      /\ Size64 \in 1 .. Size64 /\ 1 \in 0 .. Size64 /\ 0 \in 0 .. Size64
      /\ Size16 <= Size32 /\ Size32 <= Size64 /\ 1 <= Size16 /\ 1 \in 1 .. Size64
  BY SizesAssumption
<1>2. Prefix(1) = Base - 3 /\ Prefix(1) \in Nat /\ Prefix(1) > 0
  BY <1>1 DEF Prefix
<1>3. Power[Size16] \in Nat /\ Power[Size32] \in Nat /\ Power[Size64] \in Nat /\ Power[1] = Base
  <2>1. Power[1] = Base * Power[1 - 1] /\ Power[0] = 1 /\ 1 - 1 = 0
    BY <1>1, PowerIs
  <2>2. Power[1] = Base
    BY <2>1, <1>1
  <2>3. Size16 \in 0 .. Size64 /\ Size32 \in 0 .. Size64 /\ Size64 \in 0 .. Size64
    BY <1>1
  <2> QED
    BY <2>2, <2>3, PowerIs
<1>4. Power[1] <= Power[Size16] /\ Power[Size16] <= Power[Size32] /\ Power[Size32] <= Power[Size64]
  BY <1>1, PowersGrow
<1> QED
  BY <1>1, <1>2, <1>3, <1>4

\* One of the widths for each of the three longer forms.
LEMMA Widths ==
  ASSUME NEW k \in 1 .. 3
  PROVE  /\ Width(k) \in 1 .. Size64 /\ Least(k) \in Nat /\ Prefix(1) <= Least(k)
         /\ Prefix(k) = Prefix(1) - 1 + k /\ Prefix(k) \in Bytes /\ Prefix(k) \in Nat
<1>1. Prefix(k) = Prefix(1) - 1 + k /\ Prefix(k) \in Bytes /\ Prefix(k) \in Nat
  BY SizesAssumption DEF Prefix, Bytes
<1>2. /\ Width(1) = Size16 /\ Width(2) = Size32 /\ Width(3) = Size64
      /\ Least(1) = Prefix(1) /\ Least(2) = Power[Size16] /\ Least(3) = Power[Size32]
  BY DEF Width, Least
<1>3. k = 1 \/ k = 2 \/ k = 3
  OBVIOUS
<1> QED
  BY <1>1, <1>2, <1>3, Limits

\* write_compact: one byte, or a prefix and the shortest width that holds the value.
LEMMA CompactIs ==
  ASSUME NEW n \in Nat
  PROVE  /\ n < Prefix(1) => WriteCompact(n) = Little(n, 1)
         /\ \A k \in 1 .. 3 : Least(k) <= n /\ n < Power[Width(k)] =>
              WriteCompact(n) = <<Prefix(k)>> \o Little(n, Width(k))
<1>1. SizesAssumption
  BY SizesAssumption
<1>2. /\ Width(1) = Size16 /\ Width(2) = Size32 /\ Width(3) = Size64
      /\ Least(1) = Prefix(1) /\ Least(2) = Power[Size16] /\ Least(3) = Power[Size32]
  BY DEF Width, Least
<1>3. ASSUME n < Prefix(1) PROVE WriteCompact(n) = Little(n, 1)
  <2>1. CompactSizeof(n) = 1
    BY <1>3, Limits DEF CompactSizeof
  <2> QED
    BY <2>1, SizesAssumption DEF WriteCompact
<1>4. ASSUME Prefix(1) <= n, n < Power[Size16] PROVE WriteCompact(n) = <<Prefix(1)>> \o Little(n, Size16)
  <2>1. CompactSizeof(n) = 1 + Size16
    BY <1>4, Limits DEF CompactSizeof
  <2>2. CompactSizeof(n) - 1 = Size16 /\ Size16 # 0 /\ Size16 # Size32
    BY <2>1, SizesAssumption
  <2> QED
    BY <2>2 DEF WriteCompact
<1>5. ASSUME Power[Size16] <= n, n < Power[Size32] PROVE WriteCompact(n) = <<Prefix(2)>> \o Little(n, Size32)
  <2>1. CompactSizeof(n) = 1 + Size32
    BY <1>5, Limits DEF CompactSizeof
  <2>2. CompactSizeof(n) - 1 = Size32 /\ Size32 # 0 /\ Size32 # Size16
    BY <2>1, SizesAssumption
  <2> QED
    BY <2>2 DEF WriteCompact
<1>6. ASSUME Power[Size32] <= n PROVE WriteCompact(n) = <<Prefix(3)>> \o Little(n, Size64)
  <2>1. CompactSizeof(n) = 1 + Size64
    BY <1>6, Limits DEF CompactSizeof
  <2>2. CompactSizeof(n) - 1 = Size64 /\ Size64 # 0 /\ Size64 # Size16 /\ Size64 # Size32
    BY <2>1, SizesAssumption
  <2> QED
    BY <2>2 DEF WriteCompact
<1>7. \A k \in 1 .. 3 : k = 1 \/ k = 2 \/ k = 3
  OBVIOUS
<1> QED
  BY <1>2, <1>3, <1>4, <1>5, <1>6, <1>7

\* Every value has one of these forms.
LEMMA CompactForms ==
  ASSUME NEW n \in 0 .. Power[Size64] - 1
  PROVE  n < Prefix(1) \/ \E k \in 1 .. 3 : Least(k) <= n /\ n < Power[Width(k)]
<1>1. /\ Width(1) = Size16 /\ Width(2) = Size32 /\ Width(3) = Size64
      /\ Least(1) = Prefix(1) /\ Least(2) = Power[Size16] /\ Least(3) = Power[Size32]
  BY DEF Width, Least
<1>2. \/ n < Prefix(1)
      \/ Prefix(1) <= n /\ n < Power[Size16]
      \/ Power[Size16] <= n /\ n < Power[Size32]
      \/ Power[Size32] <= n /\ n < Power[Size64]
  BY Limits
<1>3. 1 \in 1 .. 3 /\ 2 \in 1 .. 3 /\ 3 \in 1 .. 3
  OBVIOUS
<1> QED
  BY <1>1, <1>2, <1>3

\* A byte is worth itself.
LEMMA OneByte ==
  ASSUME NEW n \in Bytes
  PROVE  Little(n, 1) = <<n>> /\ FromLittle(<<n>>) = n /\ <<n>> \in Seq(Bytes) /\ Len(<<n>>) = 1
<1>1. <<n>> \in Seq(Bytes) /\ Len(<<n>>) = 1 /\ <<n>>[1] = n
  OBVIOUS
<1>2. n \in Nat /\ n < Base /\ Base \in Nat
  BY Limits DEF Bytes
<1> DEFINE b == <<n>>
<1> HIDE DEF b
<1>3. PICK v : Worth(v, b) /\ FromLittle(b) = v[Len(b)]
  BY <1>1, FromLittleIs DEF b
<1>4. v[1] = v[0] * Base + b[1] /\ v[0] = 0
  <2>1. Len(b) = 1 /\ 1 \in 1 .. Len(b) /\ 1 - 1 = 0 /\ Len(b) - 1 + 1 = 1
    BY <1>1 DEF b
  <2> QED
    BY <1>3, <2>1 DEF Worth
<1>5. FromLittle(b) = n
  BY <1>1, <1>2, <1>3, <1>4 DEF b
<1>6. Little(n, 1) = b
  <2>1. Len(b) <= Size64 /\ b \in Seq(Bytes) /\ Len(b) = 1
    BY <1>1, Limits, SizesAssumption DEF b
  <2>2. Little(FromLittle(b), Len(b)) = b
    BY <2>1, LittleOfWorth
  <2> QED
    BY <2>1, <2>2, <1>5
<1> QED
  BY <1>1, <1>5, <1>6 DEF b

-----------------------------------------------------------------------------
(* Reading                                                                 *)

Errors == {"kSuccess", "kReadBeyondData", "kNonCanonicalCompactSize", "kCompactSizeTooBig"}
Streams == [buffer : Seq(Bytes), pos : Nat, value : Int, err : Errors]

\* A failure leaves the stream where it is.
LEMMA FailedIs ==
  ASSUME NEW s \in Streams, NEW e \in Errors
  PROVE  /\ Failed(s, e) \in Streams /\ Failed(s, e).buffer = s.buffer /\ Failed(s, e).pos = s.pos
         /\ Failed(s, e).err = e
<1>1. s.buffer \in Seq(Bytes) /\ s.pos \in Nat
  BY DEF Streams
<1>2. Failed(s, e) = [buffer |-> s.buffer, pos |-> s.pos, value |-> -1, err |-> e]
  BY DEF Failed
<1>3. -1 \in Int
  OBVIOUS
<1> QED
  BY <1>1, <1>2, <1>3 DEF Streams

\* read_data.
LEMMA ReadDataIs ==
  ASSUME NEW s \in Streams, NEW size \in 0 .. Size64
  PROVE  /\ ReadData(s, size) \in Streams
         /\ s.pos + size > Len(s.buffer) => ReadData(s, size) = Failed(s, "kReadBeyondData")
         /\ s.pos + size <= Len(s.buffer) =>
              ReadData(s, size) =
                [buffer |-> SubSeq(s.buffer, s.pos + size + 1, Len(s.buffer)), pos |-> 0, err |-> "kSuccess",
                 value |-> FromLittle(SubSeq(s.buffer, s.pos + 1, s.pos + size))]
<1>1. s.buffer \in Seq(Bytes) /\ s.pos \in Nat /\ size \in Nat /\ size <= Size64
  BY SizesAssumption DEF Streams
<1>2. CASE s.pos + size > Len(s.buffer)
  <2>1. ReadData(s, size) = Failed(s, "kReadBeyondData")
    BY <1>2 DEF ReadData
  <2>2. "kReadBeyondData" \in Errors
    BY DEF Errors
  <2>3. ~ (s.pos + size <= Len(s.buffer))
    BY <1>1, <1>2
  <2> QED
    BY <2>1, <2>2, <2>3, FailedIs
<1>3. CASE s.pos + size <= Len(s.buffer)
  <2> DEFINE y == SubSeq(s.buffer, s.pos + 1, s.pos + size)
             z == SubSeq(s.buffer, s.pos + size + 1, Len(s.buffer))
  <2>1. y \in Seq(Bytes) /\ Len(y) = size
    BY <1>1, <1>3, SubSeqProperties
  <2>2. z \in Seq(Bytes)
    BY <1>1, <1>3, SubSeqProperties
  <2> HIDE DEF y, z
  <2>3. FromLittle(y) \in Int
    BY <1>1, <2>1, FromLittleBelow
  <2>4. ReadData(s, size) = [buffer |-> z, pos |-> 0, err |-> "kSuccess", value |-> FromLittle(y)]
    BY <1>1, <1>3 DEF ReadData, y, z
  <2>5. ReadData(s, size) \in Streams
    BY <2>2, <2>3, <2>4 DEF Streams, Errors
  <2> QED
    BY <1>1, <1>3, <2>4, <2>5 DEF y, z
<1> QED
  BY <1>1, <1>2, <1>3

\* The parts of three sequences in a row.
LEMMA Middle ==
  ASSUME NEW x \in Seq(Bytes), NEW y \in Seq(Bytes), NEW z \in Seq(Bytes), NEW b, b = (x \o y) \o z
  PROVE  /\ b \in Seq(Bytes) /\ Len(b) = Len(x) + Len(y) + Len(z)
         /\ SubSeq(b, Len(x) + 1, Len(x) + Len(y)) = y
         /\ SubSeq(b, Len(x) + Len(y) + 1, Len(b)) = z
<1> DEFINE a == x \o y
           u == SubSeq(b, Len(x) + 1, Len(x) + Len(y))
           w == SubSeq(b, Len(x) + Len(y) + 1, Len(b))
<1>0. Len(x) \in Nat /\ Len(y) \in Nat /\ Len(z) \in Nat
  OBVIOUS
<1>1. /\ a \in Seq(Bytes) /\ Len(a) = Len(x) + Len(y)
      /\ \A i \in 1 .. Len(x) + Len(y) : a[i] = IF i <= Len(x) THEN x[i] ELSE y[i - Len(x)]
  BY ConcatProperties
<1>e. b = a \o z
  OBVIOUS
<1> HIDE DEF a
<1>2. /\ b \in Seq(Bytes) /\ Len(b) = Len(a) + Len(z)
      /\ \A i \in 1 .. Len(a) + Len(z) : b[i] = IF i <= Len(a) THEN a[i] ELSE z[i - Len(a)]
  <2>1. /\ a \o z \in Seq(Bytes) /\ Len(a \o z) = Len(a) + Len(z)
        /\ \A i \in 1 .. Len(a) + Len(z) : (a \o z)[i] = IF i <= Len(a) THEN a[i] ELSE z[i - Len(a)]
    <3>1. a \in Seq(Bytes)
      BY <1>1
    <3> QED
      BY <3>1, ConcatProperties
  <2> QED
    BY <2>1, <1>e, Zenon
<1>3. Len(b) = Len(x) + Len(y) + Len(z) /\ Len(b) \in Nat
  BY <1>0, <1>1, <1>2
<1>4. u = y
  <2>1. /\ u \in Seq(Bytes) /\ Len(u) = Len(y)
        /\ \A i \in 1 .. Len(u) : u[i] = b[Len(x) + 1 + i - 1]
    <3>1. Len(x) + 1 \in 1 .. Len(b) + 1 /\ Len(x) + Len(y) \in Len(x) .. Len(b)
      BY <1>0, <1>3
    <3>2. \A i \in 1 .. Len(b) : b[i] \in Bytes
      BY <1>2
    <3> QED
      BY <3>1, <1>0, <1>2, <1>3, SubSeqProperties
  <2>2. \A i \in 1 .. Len(y) : u[i] = y[i]
    <3> TAKE i \in 1 .. Len(y)
    <3>1. /\ Len(x) + 1 + i - 1 = Len(x) + i /\ Len(x) + i \in 1 .. Len(a) + Len(z)
          /\ Len(x) + i <= Len(a) /\ Len(x) + i \in 1 .. Len(x) + Len(y)
          /\ ~ (Len(x) + i <= Len(x)) /\ (Len(x) + i) - Len(x) = i
      BY <1>0, <1>1
    <3> HIDE DEF u
    <3> QED
      BY <3>1, <2>1, <1>1, <1>2
  <2> HIDE DEF u
  <2> QED
    BY <2>1, <2>2, SeqEqual
<1>5. w = z
  <2>1. /\ w \in Seq(Bytes) /\ Len(w) = Len(z)
        /\ \A i \in 1 .. Len(w) : w[i] = b[Len(x) + Len(y) + 1 + i - 1]
    <3>1. Len(x) + Len(y) + 1 \in 1 .. Len(b) + 1 /\ Len(b) \in Len(x) + Len(y) .. Len(b)
      BY <1>0, <1>3
    <3> QED
      BY <3>1, <1>0, <1>2, <1>3, SubSeqProperties
  <2>2. \A i \in 1 .. Len(z) : w[i] = z[i]
    <3> TAKE i \in 1 .. Len(z)
    <3>1. /\ Len(x) + Len(y) + 1 + i - 1 = Len(a) + i /\ Len(a) + i \in 1 .. Len(a) + Len(z)
          /\ ~ (Len(a) + i <= Len(a)) /\ (Len(a) + i) - Len(a) = i
      BY <1>0, <1>1
    <3> HIDE DEF w
    <3> QED
      BY <3>1, <2>1, <1>2
  <2> HIDE DEF w
  <2> QED
    BY <2>1, <2>2, SeqEqual
<1> QED
  BY <1>2, <1>3, <1>4, <1>5

\* read_data of the bytes at the read position.
LEMMA ReadsNext ==
  ASSUME NEW x \in Seq(Bytes), NEW y \in Seq(Bytes), NEW z \in Seq(Bytes), NEW s \in Streams,
         s.buffer = (x \o y) \o z, s.pos = Len(x), Len(y) <= Size64
  PROVE  /\ ReadData(s, Len(y)) = [buffer |-> z, pos |-> 0, err |-> "kSuccess", value |-> FromLittle(y)]
         /\ ReadData(s, Len(y)) \in Streams
<1>1. /\ Len(s.buffer) = Len(x) + Len(y) + Len(z)
      /\ SubSeq(s.buffer, Len(x) + 1, Len(x) + Len(y)) = y
      /\ SubSeq(s.buffer, Len(x) + Len(y) + 1, Len(s.buffer)) = z
  BY Middle
<1>2. Len(y) \in 0 .. Size64 /\ s.pos + Len(y) <= Len(s.buffer)
  <2>1. Len(x) \in Nat /\ Len(y) \in Nat /\ Len(z) \in Nat /\ Size64 \in Nat
    BY SizesAssumption
  <2> QED
    BY <2>1, <1>1
<1>3. s.pos + Len(y) = Len(x) + Len(y) /\ s.pos + 1 = Len(x) + 1 /\ s.pos + Len(y) + 1 = Len(x) + Len(y) + 1
  OBVIOUS
<1>4. /\ ReadData(s, Len(y)) \in Streams
      /\ ReadData(s, Len(y)) =
           [buffer |-> SubSeq(s.buffer, s.pos + Len(y) + 1, Len(s.buffer)), pos |-> 0, err |-> "kSuccess",
            value |-> FromLittle(SubSeq(s.buffer, s.pos + 1, s.pos + Len(y)))]
  BY <1>2, ReadDataIs
<1> QED
  BY <1>1, <1>3, <1>4, Zenon

\* read_compact, case by case.
LEMMA ReadCompactIs ==
  ASSUME NEW s \in Streams, NEW p, p = ReadData(s, 1)
  PROVE  /\ p.err # "kSuccess" => ReadCompact(s) = p
         /\ p.err = "kSuccess" /\ p.value < Prefix(1) =>
              ReadCompact(s) = IF p.value > kMaxSerializedCompactSize THEN Failed(p, "kCompactSizeTooBig") ELSE p
         /\ \A k \in 1 .. 3 : p.err = "kSuccess" /\ p.value = Prefix(k) =>
              LET l == ReadData(p, Width(k))
              IN  ReadCompact(s) =
                    IF l.err # "kSuccess" THEN l
                    ELSE IF l.value < Least(k) THEN Failed(l, "kNonCanonicalCompactSize")
                    ELSE IF l.value > kMaxSerializedCompactSize THEN Failed(l, "kCompactSizeTooBig") ELSE l
<1>1. p \in Streams
  BY ReadDataIs, Limits
<1>2. p.value \in Int /\ Prefix(1) \in Nat
  BY <1>1, Limits DEF Streams
<1> DEFINE k == p.value - Prefix(1) + 1
           long == ReadData(p, Width(k))
           r == IF p.err # "kSuccess" \/ k < 1 THEN p
                ELSE IF long.err = "kSuccess" /\ long.value < Least(k) THEN Failed(long, "kNonCanonicalCompactSize")
                ELSE long
<1>3. ReadCompact(s) = IF r.err = "kSuccess" /\ r.value > kMaxSerializedCompactSize
                       THEN Failed(r, "kCompactSizeTooBig") ELSE r
  BY DEF ReadCompact, Width, Least
<1>4. ASSUME p.err # "kSuccess" PROVE ReadCompact(s) = p
  BY <1>3, <1>4
<1>5. ASSUME p.err = "kSuccess", p.value < Prefix(1)
      PROVE  ReadCompact(s) = IF p.value > kMaxSerializedCompactSize THEN Failed(p, "kCompactSizeTooBig") ELSE p
  <2>1. k < 1
    BY <1>2, <1>5
  <2>2. r = p
    BY <2>1
  <2> QED
    BY <2>2, <1>3, <1>5
<1>6. ASSUME NEW j \in 1 .. 3, p.err = "kSuccess", p.value = Prefix(j), NEW l, l = ReadData(p, Width(j))
      PROVE  ReadCompact(s) =
               IF l.err # "kSuccess" THEN l
               ELSE IF l.value < Least(j) THEN Failed(l, "kNonCanonicalCompactSize")
               ELSE IF l.value > kMaxSerializedCompactSize THEN Failed(l, "kCompactSizeTooBig") ELSE l
  <2>1. k = j /\ ~ (k < 1)
    <3>1. Prefix(j) = Prefix(1) - 1 + j
      BY Widths
    <3> QED
      BY <3>1, <1>2, <1>6
  <2>2. long = l
    BY <2>1, <1>6
  <2>3. l \in Streams
    <3>1. Width(j) \in 0 .. Size64
      BY Widths, SizesAssumption
    <3> QED
      BY <1>1, <1>6, <3>1, ReadDataIs
  <2>4. r = IF l.err = "kSuccess" /\ l.value < Least(j) THEN Failed(l, "kNonCanonicalCompactSize") ELSE l
    BY <2>1, <2>2, <1>6
  <2> HIDE DEF r
  <2>5. Failed(l, "kNonCanonicalCompactSize").err # "kSuccess"
    <3>1. "kNonCanonicalCompactSize" \in Errors
      BY DEF Errors
    <3> QED
      BY <2>3, <3>1, FailedIs
  <2> QED
    BY <2>4, <2>5, <1>3
<1> QED
  BY <1>4, <1>5, <1>6

\* Bytes in a row are bytes.
LEMMA BytesJoined ==
  ASSUME NEW s \in Seq(Bytes), NEW t \in Seq(Bytes)
  PROVE  s \o t \in Seq(Bytes) /\ Len(s \o t) = Len(s) + Len(t)
  BY ConcatProperties

\* In whatever groups.
Regroups(a, b, c, d) == (a \o (b \o c)) \o d = (a \o b) \o (c \o d)

\* Bytes are joined in whatever groups.
LEMMA Regrouped ==
  ASSUME NEW a \in Seq(Bytes), NEW b \in Seq(Bytes), NEW c \in Seq(Bytes), NEW d \in Seq(Bytes)
  PROVE  Regroups(a, b, c, d)
<1>1. b \o c \in Seq(Bytes) /\ a \o b \in Seq(Bytes)
  BY BytesJoined
<1>2. a \o (b \o c) = (a \o b) \o c
  BY SMTT(60)
<1>3. ((a \o b) \o c) \o d = (a \o b) \o (c \o d)
  BY <1>1, SMTT(60)
<1> QED
  BY <1>2, <1>3, Zenon DEF Regroups

\* A prefix and a width of bytes: what write_compact makes of a value of that form.
LEMMA LongForm ==
  ASSUME NEW k \in 1 .. 3, NEW n \in Nat, Least(k) <= n, n < Power[Width(k)]
  PROVE  /\ WriteCompact(n) = <<Prefix(k)>> \o Little(n, Width(k))
         /\ <<Prefix(k)>> \in Seq(Bytes) /\ Len(<<Prefix(k)>>) = 1 /\ FromLittle(<<Prefix(k)>>) = Prefix(k)
         /\ Little(n, Width(k)) \in Seq(Bytes) /\ Len(Little(n, Width(k))) = Width(k)
         /\ FromLittle(Little(n, Width(k))) = n
<1>1. Width(k) \in 0 .. Size64 /\ Prefix(k) \in Bytes
  <2>1. Width(k) \in 1 .. Size64 /\ Prefix(k) \in Bytes
    BY Widths
  <2> QED
    BY <2>1, SizesAssumption
<1>2. n \in 0 .. Power[Width(k)] - 1
  <2>1. Power[Width(k)] \in Nat
    BY <1>1, PowerIs
  <2> QED
    BY <2>1
<1>3. WriteCompact(n) = <<Prefix(k)>> \o Little(n, Width(k))
  BY CompactIs
<1>4. <<Prefix(k)>> \in Seq(Bytes) /\ Len(<<Prefix(k)>>) = 1 /\ FromLittle(<<Prefix(k)>>) = Prefix(k)
  BY <1>1, OneByte
<1>5. Little(n, Width(k)) \in Seq(Bytes) /\ Len(Little(n, Width(k))) = Width(k)
  BY <1>1, LittleTyped
<1>6. FromLittle(Little(n, Width(k))) = n
  BY <1>1, <1>2, LittleReadsBack
<1> QED
  BY <1>3, <1>4, <1>5, <1>6

\* One byte.
LEMMA ShortForm ==
  ASSUME NEW n \in Nat, n < Prefix(1)
  PROVE  n \in Bytes /\ WriteCompact(n) = <<n>>
<1>1. n \in Bytes
  BY Limits DEF Bytes
<1> QED
  BY <1>1, OneByte, CompactIs

\* What write_compact writes is bytes, and not nothing.
LEMMA CompactTyped ==
  ASSUME NEW n \in 0 .. Power[Size64] - 1
  PROVE  WriteCompact(n) \in Seq(Bytes) /\ Len(WriteCompact(n)) > 0
<1>1. n \in Nat
  BY Limits
<1>2. CASE n < Prefix(1)
  <2>1. n \in Bytes /\ WriteCompact(n) = <<n>>
    BY <1>1, <1>2, ShortForm
  <2> QED
    BY <2>1, OneByte
<1>3. ASSUME NEW k \in 1 .. 3, Least(k) <= n, n < Power[Width(k)]
      PROVE  WriteCompact(n) \in Seq(Bytes) /\ Len(WriteCompact(n)) > 0
  <2> DEFINE y == <<Prefix(k)>>
             w == Little(n, Width(k))
  <2>1. WriteCompact(n) = y \o w /\ y \in Seq(Bytes) /\ w \in Seq(Bytes) /\ Len(y) = 1
    BY <1>1, <1>3, LongForm
  <2> HIDE DEF y, w
  <2>2. y \o w \in Seq(Bytes) /\ Len(y \o w) = Len(y) + Len(w) /\ Len(w) \in Nat
    <3>1. Len(w) \in Nat
      BY <2>1
    <3> QED
      BY <2>1, <3>1, BytesJoined
  <2> QED
    BY <2>1, <2>2
<1> QED
  BY <1>2, <1>3, CompactForms

\* What is left after a compact size was read, and what was read.
ReadsBack(r, z, n) ==
  /\ r.buffer = z /\ r.pos = 0
  /\ IF n > kMaxSerializedCompactSize THEN r.err = "kCompactSizeTooBig"
     ELSE r.err = "kSuccess" /\ r.value = n

\* read_compact reads back what write_compact wrote, and refuses it above the limit.
LEMMA CompactReadsBack ==
  ASSUME NEW x \in Seq(Bytes), NEW z \in Seq(Bytes), NEW n \in 0 .. Power[Size64] - 1,
         NEW s \in Streams, s.buffer = (x \o WriteCompact(n)) \o z, s.pos = Len(x)
  PROVE  ReadsBack(ReadCompact(s), z, n)
<1> USE DEF ReadsBack
<1>1. n \in Nat /\ Size64 \in Nat /\ 1 <= Size64
  BY Limits, SizesAssumption
<1>2. "kCompactSizeTooBig" \in Errors
  BY DEF Errors
<1>3. ASSUME NEW r \in Streams, r.buffer = z, r.pos = 0, r.err = "kSuccess", r.value = n,
             ReadCompact(s) = IF n > kMaxSerializedCompactSize THEN Failed(r, "kCompactSizeTooBig") ELSE r
      PROVE  /\ ReadCompact(s).buffer = z /\ ReadCompact(s).pos = 0
             /\ IF n > kMaxSerializedCompactSize THEN ReadCompact(s).err = "kCompactSizeTooBig"
                ELSE ReadCompact(s).err = "kSuccess" /\ ReadCompact(s).value = n
  <2>1. /\ Failed(r, "kCompactSizeTooBig").buffer = z /\ Failed(r, "kCompactSizeTooBig").pos = 0
        /\ Failed(r, "kCompactSizeTooBig").err = "kCompactSizeTooBig"
    BY <1>2, <1>3, FailedIs
  <2> QED
    BY <2>1, <1>3
<1>4. CASE n < Prefix(1)
  <2> DEFINE y == <<n>>
             p == ReadData(s, 1)
  <2>1. n \in Bytes /\ WriteCompact(n) = y
    BY <1>1, <1>4, ShortForm
  <2>2. y \in Seq(Bytes) /\ Len(y) = 1 /\ FromLittle(y) = n
    BY <2>1, OneByte
  <2> HIDE DEF y
  <2>3. p = [buffer |-> z, pos |-> 0, err |-> "kSuccess", value |-> n] /\ p \in Streams
    <3>1. Len(y) <= Size64 /\ s.buffer = (x \o y) \o z
      BY <1>1, <2>1, <2>2
    <3>2. /\ ReadData(s, Len(y)) = [buffer |-> z, pos |-> 0, err |-> "kSuccess", value |-> FromLittle(y)]
          /\ ReadData(s, Len(y)) \in Streams
      BY <2>2, <3>1, ReadsNext
    <3> QED
      BY <2>2, <3>2
  <2>4. p.err = "kSuccess" /\ p.value = n /\ p.buffer = z /\ p.pos = 0
    BY <2>3
  <2>5. ReadCompact(s) = IF n > kMaxSerializedCompactSize THEN Failed(p, "kCompactSizeTooBig") ELSE p
    BY <1>4, <2>4, ReadCompactIs
  <2> HIDE DEF p
  <2> QED
    BY <1>3, <2>3, <2>4, <2>5
<1>5. ASSUME NEW k \in 1 .. 3, Least(k) <= n, n < Power[Width(k)]
      PROVE  /\ ReadCompact(s).buffer = z /\ ReadCompact(s).pos = 0
             /\ IF n > kMaxSerializedCompactSize THEN ReadCompact(s).err = "kCompactSizeTooBig"
                ELSE ReadCompact(s).err = "kSuccess" /\ ReadCompact(s).value = n
  <2> DEFINE y == <<Prefix(k)>>
             w == Little(n, Width(k))
             p == ReadData(s, 1)
             l == ReadData(p, Width(k))
  <2>1. /\ WriteCompact(n) = y \o w /\ y \in Seq(Bytes) /\ w \in Seq(Bytes)
        /\ Len(y) = 1 /\ Len(w) = Width(k) /\ FromLittle(y) = Prefix(k) /\ FromLittle(w) = n
    BY <1>1, <1>5, LongForm
  <2> HIDE DEF y, w
  <2>2. s.buffer = (x \o y) \o (w \o z) /\ w \o z \in Seq(Bytes)
    <3>1. w \o z \in Seq(Bytes)
      BY <2>1, ConcatProperties
    <3>2. (x \o (y \o w)) \o z = (x \o y) \o (w \o z)
      <4>1. y \in Seq(Bytes) /\ w \in Seq(Bytes)
        BY <2>1
      <4>2. Regroups(x, y, w, z)
        BY <4>1, Regrouped, Zenon
      <4> QED
        BY <4>2 DEF Regroups
    <3> QED
      BY <2>1, <3>1, <3>2
  <2>3. p = [buffer |-> w \o z, pos |-> 0, err |-> "kSuccess", value |-> Prefix(k)] /\ p \in Streams
    <3>1. Len(y) <= Size64
      BY <1>1, <2>1
    <3>2. /\ ReadData(s, Len(y)) = [buffer |-> w \o z, pos |-> 0, err |-> "kSuccess", value |-> FromLittle(y)]
          /\ ReadData(s, Len(y)) \in Streams
      BY <2>1, <2>2, <3>1, ReadsNext
    <3> QED
      BY <2>1, <3>2
  <2>4. p.err = "kSuccess" /\ p.value = Prefix(k) /\ p.buffer = w \o z /\ p.pos = 0
    BY <2>3
  <2> HIDE DEF p
  <2>5. l = [buffer |-> z, pos |-> 0, err |-> "kSuccess", value |-> n] /\ l \in Streams
    <3>1. Len(w) <= Size64
      <4>1. Width(k) \in 1 .. Size64
        BY Widths
      <4> QED
        BY <2>1, <4>1, <1>1
    <3> DEFINE e == <<>>
    <3>2. e \in Seq(Bytes) /\ Len(e) = 0 /\ e \o w = w
      BY <2>1
    <3> HIDE DEF e
    <3>3. p.buffer = (e \o w) \o z /\ p.pos = Len(e) /\ p \in Streams
      BY <2>3, <2>4, <3>2
    <3>4. /\ ReadData(p, Len(w)) = [buffer |-> z, pos |-> 0, err |-> "kSuccess", value |-> FromLittle(w)]
          /\ ReadData(p, Len(w)) \in Streams
      <4>1. w \in Seq(Bytes) /\ e \in Seq(Bytes)
        BY <2>1, <3>2
      <4> QED
        BY <4>1, <3>1, <3>3, ReadsNext
    <3> QED
      BY <2>1, <3>4
  <2>6. l.err = "kSuccess" /\ l.value = n /\ l.buffer = z /\ l.pos = 0
    BY <2>5
  <2> HIDE DEF l
  <2>7. ReadCompact(s) = IF l.err # "kSuccess" THEN l
                         ELSE IF l.value < Least(k) THEN Failed(l, "kNonCanonicalCompactSize")
                         ELSE IF l.value > kMaxSerializedCompactSize THEN Failed(l, "kCompactSizeTooBig") ELSE l
    BY <2>4, ReadCompactIs DEF p, l
  <2>8. ~ (n < Least(k))
    <3>1. Least(k) \in Nat
      BY Widths
    <3> QED
      BY <3>1, <1>1, <1>5
  <2>9. ReadCompact(s) = IF n > kMaxSerializedCompactSize THEN Failed(l, "kCompactSizeTooBig") ELSE l
    BY <2>6, <2>7, <2>8
  <2> QED
    BY <1>3, <2>5, <2>6, <2>9
<1> QED
  BY <1>4, <1>5, CompactForms

\* The front of a sequence: its first element and some that follow.
LEMMA FrontOf ==
  ASSUME NEW b \in Seq(Bytes), NEW w \in Nat, 1 + w <= Len(b), NEW z, z = SubSeq(b, 2, Len(b))
  PROVE  /\ z \in Seq(Bytes) /\ Len(z) = Len(b) - 1
         /\ SubSeq(b, 1, 1 + w) = <<b[1]>> \o SubSeq(z, 1, w)
         /\ SubSeq(z, 1, w) \in Seq(Bytes) /\ Len(SubSeq(z, 1, w)) = w /\ b[1] \in Bytes
         /\ SubSeq(z, w + 1, Len(z)) \in Seq(Bytes) /\ Len(SubSeq(z, w + 1, Len(z))) = Len(b) - (1 + w)
<1> DEFINE u == SubSeq(z, 1, w)
           v == SubSeq(z, w + 1, Len(z))
           f == SubSeq(b, 1, 1 + w)
           g == <<b[1]>> \o u
<1>0. Len(b) \in Nat /\ \A i \in 1 .. Len(b) : b[i] \in Bytes
  OBVIOUS
<1>1. /\ z \in Seq(Bytes) /\ Len(z) = Len(b) - 1
      /\ \A i \in 1 .. Len(b) - 1 : z[i] = b[1 + i]
  <2>1. \A i \in 2 .. Len(b) : b[i] \in Bytes
    BY <1>0
  <2>2. /\ z \in Seq(Bytes) /\ Len(z) = IF 2 <= Len(b) THEN Len(b) - 2 + 1 ELSE 0
        /\ \A i \in 1 .. Len(b) - 2 + 1 : z[i] = b[2 + i - 1]
    BY <2>1, <1>0, SubSeqProperties
  <2>3. Len(b) - 2 + 1 = Len(b) - 1 /\ \A i \in Int : 2 + i - 1 = 1 + i
    BY <1>0
  <2>4. Len(z) = Len(b) - 1
    BY <2>2, <2>3, <1>0
  <2> QED
    BY <2>2, <2>3, <2>4
<1>2. \A i \in 1 .. Len(z) : z[i] \in Bytes
  BY <1>1
<1>3. u \in Seq(Bytes) /\ Len(u) = w /\ \A i \in 1 .. w : u[i] = z[i]
  <2>1. \A i \in 1 .. w : z[i] \in Bytes
    BY <1>0, <1>1, <1>2
  <2>2. /\ u \in Seq(Bytes) /\ Len(u) = IF 1 <= w THEN w - 1 + 1 ELSE 0
        /\ \A i \in 1 .. w - 1 + 1 : u[i] = z[1 + i - 1]
    BY <2>1, SubSeqProperties
  <2>3. w - 1 + 1 = w /\ \A i \in Int : 1 + i - 1 = i
    OBVIOUS
  <2> QED
    BY <2>2, <2>3
<1>4. v \in Seq(Bytes) /\ Len(v) = Len(b) - (1 + w)
  <2>1. \A i \in w + 1 .. Len(z) : z[i] \in Bytes
    BY <1>0, <1>1, <1>2
  <2>2. v \in Seq(Bytes) /\ Len(v) = IF w + 1 <= Len(z) THEN Len(z) - (w + 1) + 1 ELSE 0
    BY <2>1, <1>0, <1>1, SubSeqProperties
  <2> QED
    BY <2>2, <1>0, <1>1
<1> HIDE DEF u, v
<1>5. f \in Seq(Bytes) /\ Len(f) = 1 + w /\ \A i \in 1 .. 1 + w : f[i] = b[i]
  <2>1. \A i \in 1 .. 1 + w : b[i] \in Bytes
    BY <1>0
  <2>2. /\ f \in Seq(Bytes) /\ Len(f) = IF 1 <= 1 + w THEN 1 + w - 1 + 1 ELSE 0
        /\ \A i \in 1 .. 1 + w - 1 + 1 : f[i] = b[1 + i - 1]
    BY <2>1, SubSeqProperties
  <2>3. 1 + w - 1 + 1 = 1 + w /\ \A i \in Int : 1 + i - 1 = i
    OBVIOUS
  <2> QED
    BY <2>2, <2>3
<1>6. b[1] \in Bytes
  BY <1>0
<1>7. /\ g \in Seq(Bytes) /\ Len(g) = 1 + w
      /\ \A i \in 1 .. 1 + w : g[i] = IF i <= 1 THEN b[1] ELSE u[i - 1]
  <2> DEFINE h == <<b[1]>>
  <2>1. h \in Seq(Bytes) /\ Len(h) = 1 /\ h[1] = b[1]
    BY <1>6
  <2> HIDE DEF h
  <2>2. /\ h \o u \in Seq(Bytes) /\ Len(h \o u) = Len(h) + Len(u)
        /\ \A i \in 1 .. Len(h) + Len(u) : (h \o u)[i] = IF i <= Len(h) THEN h[i] ELSE u[i - Len(h)]
    <3>1. u \in Seq(Bytes) /\ h \in Seq(Bytes)
      BY <1>3, <2>1
    <3> QED
      BY <3>1, ConcatProperties
  <2>3. \A i \in 1 .. 1 + w : i <= 1 => i = 1
    OBVIOUS
  <2>4. g = h \o u
    BY DEF h
  <2> HIDE DEF g
  <2> QED
    BY <2>1, <2>2, <2>3, <2>4, <1>3
<1> HIDE DEF f, g
<1>8. \A i \in 1 .. 1 + w : f[i] = g[i]
  <2> TAKE i \in 1 .. 1 + w
  <2>1. CASE i = 1
    BY <2>1, <1>5, <1>7
  <2>2. CASE i # 1
    <3>1. i - 1 \in 1 .. w /\ i - 1 \in 1 .. Len(b) - 1 /\ 1 + (i - 1) = i /\ ~ (i <= 1)
      BY <2>2, <1>0
    <3>2. f[i] = b[i]
      BY <1>5
    <3>3. g[i] = u[i - 1]
      BY <3>1, <1>7
    <3>4. u[i - 1] = z[i - 1] /\ z[i - 1] = b[1 + (i - 1)]
      BY <3>1, <1>1, <1>3, Zenon
    <3> QED
      BY <3>1, <3>2, <3>3, <3>4
  <2> QED
    BY <2>1, <2>2
<1>9. f = g
  BY <1>5, <1>7, <1>8, SeqEqual
<1> QED
  BY <1>1, <1>3, <1>4, <1>6, <1>9 DEF f, g, u, v

\* From a message read_compact accepts only what write_compact writes for its result.
LEMMA ReceivedIs ==
  ASSUME NEW b \in Seq(Bytes), b # <<>>, NEW s \in Streams, s.buffer = b, s.pos = 0,
         NEW r, r = ReadCompact(s)
  PROVE  /\ r.buffer \in Seq(Bytes) /\ r.pos = 0 /\ Len(r.buffer) <= Len(b)
         /\ r.err = "kSuccess" =>
              /\ SubSeq(b, 1, Len(b) - Len(r.buffer)) = WriteCompact(r.value)
              /\ r.value <= kMaxSerializedCompactSize
<1> DEFINE p == ReadData(s, 1)
           z == SubSeq(b, 2, Len(b))
           c == b[1]
<1>0. /\ Len(b) \in Nat /\ Len(b) >= 1 /\ 1 \in 0 .. Size64 /\ Size64 \in Nat
      /\ kMaxSerializedCompactSize \in Nat
  BY Limits, SizesAssumption
<1>1. /\ z \in Seq(Bytes) /\ Len(z) = Len(b) - 1 /\ c \in Bytes
      /\ SubSeq(b, 1, 1) = <<c>>
  <2>1. 0 \in Nat /\ 1 + 0 <= Len(b) /\ 1 + 0 = 1
    BY <1>0
  <2>2. /\ z \in Seq(Bytes) /\ Len(z) = Len(b) - 1 /\ c \in Bytes
        /\ SubSeq(b, 1, 1 + 0) = <<c>> \o SubSeq(z, 1, 0)
    BY <2>1, FrontOf
  <2>3. SubSeq(z, 1, 0) = <<>>
    BY SubSeqEmpty
  <2>4. <<c>> \in Seq(Bytes) /\ <<c>> \o <<>> = <<c>>
    BY <2>2
  <2> HIDE DEF z, c
  <2> QED
    BY <2>1, <2>2, <2>3, <2>4
<1> HIDE DEF z, c
<1>2. p = [buffer |-> z, pos |-> 0, err |-> "kSuccess", value |-> c] /\ p \in Streams
  <2>1. s.pos + 1 <= Len(s.buffer) /\ s.pos + 1 + 1 = 2 /\ s.pos + 1 = 1
    BY <1>0
  <2>2. /\ p = [buffer |-> SubSeq(s.buffer, s.pos + 1 + 1, Len(s.buffer)), pos |-> 0, err |-> "kSuccess",
                value |-> FromLittle(SubSeq(s.buffer, s.pos + 1, s.pos + 1))]
        /\ p \in Streams
    BY <2>1, <1>0, ReadDataIs
  <2>3. FromLittle(<<c>>) = c
    BY <1>1, OneByte
  <2>4. SubSeq(s.buffer, s.pos + 1 + 1, Len(s.buffer)) = z /\ SubSeq(s.buffer, s.pos + 1, s.pos + 1) = <<c>>
    BY <2>1, <1>1 DEF z
  <2> HIDE DEF p
  <2> QED
    BY <2>2, <2>3, <2>4, Zenon
<1>3. p.buffer = z /\ p.pos = 0 /\ p.err = "kSuccess" /\ p.value = c
  BY <1>2
<1>4. c \in Nat /\ Prefix(1) \in Nat /\ c <= Base - 1 /\ Base \in Nat /\ Prefix(1) = Base - 3
  BY <1>1, Limits DEF Bytes
<1>e. "kReadBeyondData" \in Errors /\ "kCompactSizeTooBig" \in Errors /\ "kNonCanonicalCompactSize" \in Errors
  BY DEF Errors
<1>5. CASE c < Prefix(1)
  <2>1. r = IF c > kMaxSerializedCompactSize THEN Failed(p, "kCompactSizeTooBig") ELSE p
    BY <1>3, <1>5, ReadCompactIs
  <2> HIDE DEF p
  <2>2. r.buffer = z /\ r.pos = 0 /\ (r.err = "kSuccess" => r.value = c /\ c <= kMaxSerializedCompactSize)
    <3>1. CASE c > kMaxSerializedCompactSize
      BY <3>1, <2>1, <1>2, <1>3, <1>e, FailedIs
    <3>2. CASE ~ (c > kMaxSerializedCompactSize)
      BY <3>2, <2>1, <1>3, <1>4, <1>0
    <3> QED
      BY <3>1, <3>2
  <2>3. WriteCompact(c) = <<c>>
    BY <1>4, <1>5, ShortForm
  <2>4. Len(b) - Len(z) = 1 /\ Len(z) <= Len(b)
    BY <1>0, <1>1
  <2> QED
    BY <2>2, <2>3, <2>4, <1>1
<1>6. CASE ~ (c < Prefix(1))
  <2>1. PICK k \in 1 .. 3 : c = Prefix(k)
    <3>1. c - Prefix(1) + 1 \in 1 .. 3
      BY <1>4, <1>6
    <3>2. \A k \in 1 .. 3 : Prefix(k) = Prefix(1) - 1 + k
      BY Widths
    <3>3. Prefix(c - Prefix(1) + 1) = Prefix(1) - 1 + (c - Prefix(1) + 1)
      BY <3>1, <3>2
    <3>4. Prefix(c - Prefix(1) + 1) = c
      BY <3>3, <1>4
    <3> QED
      BY <3>1, <3>4
  <2> DEFINE w == Width(k)
             l == ReadData(p, w)
  <2>2. w \in 1 .. Size64 /\ w \in 0 .. Size64 /\ Least(k) \in Nat /\ w \in Nat
    <3>1. w \in 1 .. Size64 /\ Least(k) \in Nat
      BY Widths
    <3> QED
      BY <3>1, <1>0
  <2>3. r = IF l.err # "kSuccess" THEN l
            ELSE IF l.value < Least(k) THEN Failed(l, "kNonCanonicalCompactSize")
            ELSE IF l.value > kMaxSerializedCompactSize THEN Failed(l, "kCompactSizeTooBig") ELSE l
    BY <1>3, <2>1, ReadCompactIs
  <2> HIDE DEF p
  <2>4. l \in Streams
    BY <1>2, <2>2, ReadDataIs
  <2>5. r.buffer = l.buffer /\ r.pos = l.pos /\ l.buffer \in Seq(Bytes) /\ l.value \in Int
    <3>1. l.buffer \in Seq(Bytes) /\ l.value \in Int
      BY <2>4 DEF Streams
    <3> HIDE DEF l
    <3> QED
      BY <3>1, <2>3, <2>4, <1>e, FailedIs
  <2>6. r.err = "kSuccess" => /\ l.err = "kSuccess" /\ r.value = l.value
                              /\ Least(k) <= l.value /\ l.value <= kMaxSerializedCompactSize
    <3>1. Failed(l, "kNonCanonicalCompactSize").err # "kSuccess" /\ Failed(l, "kCompactSizeTooBig").err # "kSuccess"
      BY <2>4, <1>e, FailedIs
    <3> HIDE DEF l
    <3> QED
      BY <3>1, <2>2, <2>3, <2>5, <1>0
  <2>7. CASE w > Len(z)
    <3>1. l = Failed(p, "kReadBeyondData")
      <4>1. p.pos + w > Len(p.buffer)
        BY <2>7, <2>2, <1>3
      <4> QED
        BY <4>1, <1>2, <2>2, ReadDataIs
    <3>2. l.buffer = z /\ l.pos = 0 /\ l.err # "kSuccess"
      BY <3>1, <1>2, <1>3, <1>e, FailedIs
    <3>3. Len(z) <= Len(b)
      BY <1>0, <1>1
    <3> HIDE DEF l
    <3> QED
      BY <3>2, <3>3, <2>5, <2>6
  <2>8. CASE ~ (w > Len(z))
    <3> DEFINE y == SubSeq(z, 1, w)
               t == SubSeq(z, w + 1, Len(z))
    <3>1. /\ SubSeq(b, 1, 1 + w) = <<c>> \o y /\ y \in Seq(Bytes) /\ Len(y) = w
          /\ t \in Seq(Bytes) /\ Len(t) = Len(b) - (1 + w)
      <4>1. 1 + w <= Len(b)
        BY <2>2, <2>8, <1>0, <1>1
      <4>2. z = SubSeq(b, 2, Len(b)) /\ w \in Nat /\ c = b[1]
        BY <2>2 DEF z, c
      <4> HIDE DEF w
      <4>3. /\ SubSeq(b, 1, 1 + w) = <<b[1]>> \o SubSeq(z, 1, w)
            /\ SubSeq(z, 1, w) \in Seq(Bytes) /\ Len(SubSeq(z, 1, w)) = w
            /\ SubSeq(z, w + 1, Len(z)) \in Seq(Bytes) /\ Len(SubSeq(z, w + 1, Len(z))) = Len(b) - (1 + w)
        BY <4>1, <4>2, FrontOf, SMT
      <4> QED
        BY <4>2, <4>3, Zenon
    <3>2. l = [buffer |-> t, pos |-> 0, err |-> "kSuccess", value |-> FromLittle(y)]
      <4>1. p.pos + w <= Len(p.buffer) /\ p.pos + w + 1 = w + 1 /\ p.pos + 1 = 1 /\ p.pos + w = w
        BY <2>8, <2>2, <1>3, <1>0, <1>1
      <4>2. l = [buffer |-> SubSeq(p.buffer, p.pos + w + 1, Len(p.buffer)), pos |-> 0, err |-> "kSuccess",
                 value |-> FromLittle(SubSeq(p.buffer, p.pos + 1, p.pos + w))]
        BY <4>1, <1>2, <2>2, ReadDataIs
      <4> HIDE DEF l, w
      <4> QED
        BY <4>1, <4>2, <1>3, Zenon
    <3> HIDE DEF y, t, w
    <3>3. l.buffer = t /\ l.pos = 0 /\ l.value = FromLittle(y)
      BY <3>2
    <3>4. Len(b) - Len(t) = 1 + w /\ Len(t) <= Len(b)
      <4> DEFINE m == Len(t)
                 n == Len(b)
      <4>1. m = n - (1 + w)
        BY <3>1, Zenon
      <4>2. n \in Nat /\ w \in Nat
        BY <2>2, <1>0
      <4> HIDE DEF m, n
      <4>3. n - m = 1 + w /\ m <= n
        BY <4>1, <4>2
      <4> QED
        BY <4>3 DEF m, n
    <3>5. ASSUME r.err = "kSuccess"
          PROVE  SubSeq(b, 1, 1 + w) = WriteCompact(r.value)
      <4> DEFINE n == FromLittle(y)
      <4>1. Len(y) <= Size64 /\ Len(y) = w
        BY <3>1, <2>2, <1>0
      <4>2. n \in Nat /\ n < Power[w] /\ Little(n, w) = y
        BY <4>1, <3>1, FromLittleBelow, LittleOfWorth
      <4>3. r.value = n /\ Least(k) <= n
        BY <3>3, <3>5, <2>6
      <4> HIDE DEF n
      <4>4. WriteCompact(n) = <<Prefix(k)>> \o Little(n, w)
        BY <4>2, <4>3, LongForm DEF w
      <4> QED
        BY <4>2, <4>3, <4>4, <3>1, <2>1
    <3> HIDE DEF l
    <3> QED
      BY <3>1, <3>3, <3>4, <3>5, <2>5, <2>6
  <2> QED
    BY <2>7, <2>8
<1> QED
  BY <1>5, <1>6

\* What is written for an item, by its kind.
LEMMA EncodingIs ==
  ASSUME NEW item \in Items
  PROVE  /\ Encoding(item) \in Seq(Bytes)
         /\ \/ /\ item.kind = "compact" /\ item.value \in 0 .. Power[Size64] - 1
               /\ Encoding(item) = WriteCompact(item.value)
            \/ /\ item.kind = "data" /\ item.size = Size32 /\ item.value \in 0 .. Power[Size32] - 1
               /\ Encoding(item) = Little(item.value, Size32) /\ Len(Encoding(item)) = Size32
            \/ item.kind = "bool" /\ item.size = 1 /\ Len(Encoding(item)) = 1
<1>1. CASE \E n \in CompactValues : item = Item("compact", n, 0)
  <2>1. PICK n \in CompactValues : item = Item("compact", n, 0)
    BY <1>1
  <2>2. item.kind = "compact" /\ item.value = n
    BY <2>1 DEF Item
  <2>3. n \in 0 .. Power[Size64] - 1
    BY SizesAssumption
  <2>4. Encoding(item) = WriteCompact(n)
    BY <2>2 DEF Encoding
  <2>5. WriteCompact(n) \in Seq(Bytes)
    BY <2>3, CompactTyped
  <2> QED
    BY <2>2, <2>3, <2>4, <2>5
<1>2. CASE \E n \in DataValues : item = Item("data", n, Size32)
  <2>1. PICK n \in DataValues : item = Item("data", n, Size32)
    BY <1>2
  <2>2. item.kind = "data" /\ item.value = n /\ item.size = Size32
    BY <2>1 DEF Item
  <2>3. n \in 0 .. Power[Size32] - 1 /\ n \in Nat /\ Size32 \in 0 .. Size64
    <3>1. n \in 0 .. Power[Size32] - 1
      BY SizesAssumption
    <3>2. Size32 \in 0 .. Size64
      BY SizesAssumption
    <3> QED
      BY <3>1, <3>2
  <2>4. Encoding(item) = Little(n, Size32)
    BY <2>2 DEF Encoding
  <2>5. Little(n, Size32) \in Seq(Bytes) /\ Len(Little(n, Size32)) = Size32
    BY <2>3, LittleTyped
  <2> QED
    BY <2>2, <2>3, <2>4, <2>5
<1>3. CASE \E n \in 0 .. 1 : item = Item("bool", n, 1)
  <2>1. item.kind = "bool" /\ item.size = 1
    BY <1>3 DEF Item
  <2> DEFINE x == IF item.value = 1 THEN 0 ELSE 1
  <2>2. Encoding(item) = <<x>>
    BY <2>1 DEF Encoding
  <2>3. x \in Bytes
    BY SizesAssumption DEF Bytes
  <2> HIDE DEF x
  <2>4. <<x>> \in Seq(Bytes) /\ Len(<<x>>) = 1
    BY <2>3
  <2> QED
    BY <2>1, <2>2, <2>4
<1> QED
  BY <1>1, <1>2, <1>3 DEF Items

\* Items in a row, up to each of them.
Laid(f, its) ==
  /\ f \in [0 .. Len(its) -> Seq(Bytes)] /\ f[0] = <<>>
  /\ \A k \in 1 .. Len(its) : f[k] = f[k - 1] \o Encoding(its[k])

\* There is no more than one such function.
LEMMA LaidSame ==
  ASSUME NEW its \in Seq(Items), NEW f, NEW g, Laid(f, its), Laid(g, its)
  PROVE  f[Len(its)] = g[Len(its)]
<1> DEFINE N == Len(its)
           wrong == {k \in 0 .. N : f[k] # g[k]}
<1>1. N \in Nat /\ \A k \in 1 .. N : k - 1 \in 0 .. N
  OBVIOUS
<1>2. /\ f[0] = <<>> /\ g[0] = <<>>
      /\ \A k \in 1 .. N : f[k] = f[k - 1] \o Encoding(its[k]) /\ g[k] = g[k - 1] \o Encoding(its[k])
  BY DEF Laid
<1> HIDE DEF N
<1>3. wrong = {}
  <2> SUFFICES ASSUME wrong # {} PROVE FALSE
    OBVIOUS
  <2>1. PICK n \in wrong : \A m \in wrong : n <= m
    <3>1. wrong \subseteq Nat
      BY <1>1
    <3> HIDE DEF wrong
    <3> QED
      BY <3>1, LeastOf
  <2>2. n \in 0 .. N /\ n # 0 /\ f[n] # g[n]
    BY <2>1, <1>2
  <2>3. n \in 1 .. N /\ n - 1 \in 0 .. N /\ ~ (n <= n - 1)
    BY <2>2, <1>1
  <2>4. f[n - 1] = g[n - 1]
    BY <2>1, <2>3
  <2> QED
    BY <2>2, <2>3, <2>4, <1>2, Zenon
<1> QED
  BY <1>1, <1>3 DEF N

\* The recursive definition is met.
LEMMA LayoutIs ==
  ASSUME NEW its \in Seq(Items)
  PROVE  \E v : Laid(v, its) /\ Layout(its) = v[Len(its)]
<1> DEFINE N == Len(its)
           Is(f) == f = [k \in 0 .. N |-> IF k = 0 THEN <<>> ELSE f[k - 1] \o Encoding(its[k])]
           T == Seq(Bytes)
           step == [p \in (1 .. N) \X T |-> p[2] \o Encoding(its[p[1]])]
           v == CHOOSE f : Is(f)
<1>1. N \in Nat /\ <<>> \in T
  OBVIOUS
<1>2. \A k \in 1 .. N : Encoding(its[k]) \in T
  <2>1. \A k \in 1 .. N : its[k] \in Items
    OBVIOUS
  <2> QED
    BY <2>1, EncodingIs
<1>0. Layout(its) = v[N]
  BY DEF Layout
<1>j. \A x, y \in T : x \o y \in T
  BY BytesJoined
<1> HIDE DEF N, T
<1>3. step \in [(1 .. N) \X T -> T]
  <2>1. \A k \in 1 .. N, x \in T : x \o Encoding(its[k]) \in T
    BY <1>2, <1>j
  <2> QED
    BY <2>1
<1>4. PICK f : Chain(f, N, T, <<>>, step)
  <2> HIDE DEF step
  <2> QED
    BY <1>1, <1>3, ChainExists
<1>5. f \in [0 .. N -> T] /\ f[0] = <<>> /\ \A k \in 1 .. N : f[k] = f[k - 1] \o Encoding(its[k])
  <2>1. \A k \in 1 .. N : k - 1 \in 0 .. N
    BY <1>1
  <2>2. /\ f \in [0 .. N -> T] /\ f[0] = <<>> /\ \A k \in 1 .. N : f[k] = step[<<k, f[k - 1]>>]
    BY <1>4 DEF Chain
  <2>3. \A k \in 1 .. N, x \in T : step[<<k, x>>] = x \o Encoding(its[k])
    OBVIOUS
  <2> HIDE DEF step
  <2>4. \A k \in 1 .. N : f[k - 1] \in T
    BY <2>1, <2>2
  <2> QED
    BY <2>2, <2>3, <2>4
<1>6. Is(f)
  <2>1. \A k \in 0 .. N : f[k] = IF k = 0 THEN <<>> ELSE f[k - 1] \o Encoding(its[k])
    BY <1>5, <1>1
  <2> QED
    BY <1>5, <2>1
<1>7. Is(v)
  <2>1. \E g : Is(g)
    BY <1>6
  <2> HIDE DEF Is
  <2> QED
    BY <2>1
<1> HIDE DEF v
<1>8. DOMAIN v = 0 .. N /\ v[0] = <<>> /\ \A k \in 1 .. N : v[k] = v[k - 1] \o Encoding(its[k])
  <2>0. DOMAIN v = 0 .. N
    BY <1>7
  <2>1. \A k \in 0 .. N : v[k] = IF k = 0 THEN <<>> ELSE v[k - 1] \o Encoding(its[k])
    BY <1>7
  <2> QED
    BY <2>0, <2>1, <1>1
<1> DEFINE wrong == {k \in 0 .. N : v[k] \notin T}
<1>9. wrong = {}
  <2> SUFFICES ASSUME wrong # {} PROVE FALSE
    OBVIOUS
  <2>1. PICK n \in wrong : \A m \in wrong : n <= m
    <3>1. wrong \subseteq Nat
      BY <1>1
    <3> HIDE DEF wrong
    <3> QED
      BY <3>1, LeastOf
  <2>2. n \in 0 .. N /\ n # 0 /\ v[n] \notin T
    BY <2>1, <1>1, <1>8
  <2>3. n \in 1 .. N /\ n - 1 \in 0 .. N /\ ~ (n <= n - 1)
    BY <2>2, <1>1
  <2>4. v[n - 1] \in T
    BY <2>1, <2>3
  <2>5. v[n - 1] \o Encoding(its[n]) \in T
    BY <2>3, <2>4, <1>2, <1>j
  <2> QED
    BY <2>2, <2>3, <2>5, <1>8
<1>10. v \in [0 .. N -> T]
  <2>1. v = [k \in DOMAIN v |-> v[k]]
    BY <1>7
  <2>2. \A k \in 0 .. N : v[k] \in T
    BY <1>9
  <2> QED
    BY <2>1, <2>2, <1>8
<1>11. Laid(v, its)
  BY <1>8, <1>10 DEF Laid, N, T
<1> QED
  BY <1>0, <1>11 DEF N

\* Nothing, and one item.
LEMMA LayoutOfOne ==
  /\ Layout(<<>>) = <<>>
  /\ \A x \in Items : Layout(<<x>>) = Encoding(x)
<1>1. Layout(<<>>) = <<>>
  <2>1. <<>> \in Seq(Items) /\ Len(<<>>) = 0
    OBVIOUS
  <2>2. PICK v : Laid(v, <<>>) /\ Layout(<<>>) = v[Len(<<>>)]
    BY <2>1, LayoutIs
  <2> QED
    BY <2>1, <2>2 DEF Laid
<1>2. ASSUME NEW x \in Items PROVE Layout(<<x>>) = Encoding(x)
  <2> DEFINE s == <<x>>
  <2>1. s \in Seq(Items) /\ Len(s) = 1 /\ s[1] = x
    OBVIOUS
  <2> HIDE DEF s
  <2>2. PICK v : Laid(v, s) /\ Layout(s) = v[Len(s)]
    BY <2>1, LayoutIs
  <2>3. v[0] = <<>> /\ \A k \in 1 .. 1 : v[k] = v[k - 1] \o Encoding(s[k])
    BY <2>1, <2>2 DEF Laid
  <2>4. 1 \in 1 .. 1 /\ 1 - 1 = 0
    OBVIOUS
  <2>5. v[1] = <<>> \o Encoding(x)
    BY <2>1, <2>3, <2>4
  <2>6. Encoding(x) \in Seq(Bytes)
    BY EncodingIs
  <2>7. <<>> \o Encoding(x) = Encoding(x)
    BY <2>6, ConcatEmptySeq
  <2> QED
    BY <2>1, <2>2, <2>5, <2>7 DEF s
<1> QED
  BY <1>1, <1>2

\* Rows of items one after the other.
LEMMA LayoutJoined ==
  ASSUME NEW s \in Seq(Items), NEW t \in Seq(Items)
  PROVE  /\ Layout(s) \in Seq(Bytes) /\ Layout(t) \in Seq(Bytes)
         /\ Layout(s \o t) = Layout(s) \o Layout(t)
<1> DEFINE M == Len(s)
           N == Len(t)
           its == s \o t
<1>1. M \in Nat /\ N \in Nat
  OBVIOUS
<1>2. /\ its \in Seq(Items) /\ Len(its) = M + N
      /\ \A i \in 1 .. M + N : its[i] = IF i <= M THEN s[i] ELSE t[i - M]
  BY ConcatProperties
<1>3. PICK f : Laid(f, s) /\ Layout(s) = f[M]
  BY LayoutIs
<1>4. PICK g : Laid(g, t) /\ Layout(t) = g[N]
  BY LayoutIs
<1>5. /\ f[0] = <<>> /\ \A k \in 0 .. M : f[k] \in Seq(Bytes)
      /\ \A k \in 1 .. M : f[k] = f[k - 1] \o Encoding(s[k])
  BY <1>3 DEF Laid
<1>6. /\ g[0] = <<>> /\ \A k \in 0 .. N : g[k] \in Seq(Bytes)
      /\ \A k \in 1 .. N : g[k] = g[k - 1] \o Encoding(t[k])
  BY <1>4 DEF Laid
<1>7. \A k \in 1 .. N : Encoding(t[k]) \in Seq(Bytes)
  <2>1. \A k \in 1 .. N : t[k] \in Items
    OBVIOUS
  <2> QED
    BY <2>1, EncodingIs
<1> HIDE DEF M, N, its
<1> DEFINE F == f[M]
           h == [k \in 0 .. M + N |-> IF k <= M THEN f[k] ELSE F \o g[k - M]]
<1>8. F \in Seq(Bytes) /\ F \o <<>> = F
  <2>1. F \in Seq(Bytes)
    BY <1>1, <1>5
  <2> HIDE DEF F
  <2> QED
    BY <2>1, ConcatEmptySeq
<1>9. \A j \in 0 .. N : h[M + j] = F \o g[j]
  <2> TAKE j \in 0 .. N
  <2>1. M + j \in 0 .. M + N /\ (M + j) - M = j /\ (M + j <= M <=> j = 0)
    BY <1>1
  <2>2. h[M + j] = IF M + j <= M THEN f[M + j] ELSE F \o g[(M + j) - M]
    BY <2>1
  <2>3. CASE j = 0
    <3>1. h[M + j] = f[M + j] /\ M + j = M
      BY <2>1, <2>2, <2>3, <1>1
    <3> QED
      BY <3>1, <2>3, <1>6, <1>8
  <2>4. CASE j # 0
    BY <2>1, <2>2, <2>4
  <2> QED
    BY <2>3, <2>4
<1>10. \A k \in 0 .. M : h[k] = f[k]
  BY <1>1
<1>11. h \in [0 .. M + N -> Seq(Bytes)]
  <2>1. \A j \in 0 .. N : F \o g[j] \in Seq(Bytes)
    BY <1>6, <1>8, BytesJoined
  <2>2. ASSUME NEW k \in 0 .. M + N
        PROVE  h[k] \in Seq(Bytes)
    <3>1. CASE k <= M
      <4>1. k \in 0 .. M
        BY <3>1, <1>1
      <4> HIDE DEF h
      <4> QED
        BY <4>1, <1>5, <1>10
    <3>2. CASE ~ (k <= M)
      <4>1. k - M \in 0 .. N /\ M + (k - M) = k
        BY <3>2, <1>1
      <4>2. h[M + (k - M)] = F \o g[k - M]
        BY <4>1, <1>9
      <4> HIDE DEF h
      <4> QED
        BY <4>1, <4>2, <2>1
    <3> QED
      BY <3>1, <3>2
  <2>3. h = [k \in 0 .. M + N |-> h[k]]
    OBVIOUS
  <2> HIDE DEF h
  <2> QED
    BY <2>2, <2>3
<1>12. DOMAIN h = 0 .. M + N
  OBVIOUS
<1> HIDE DEF h, F
<1>13. \A k \in 1 .. M + N : h[k] = h[k - 1] \o Encoding(its[k])
  <2> TAKE k \in 1 .. M + N
  <2>1. CASE k <= M
    <3>1. k \in 0 .. M /\ k \in 1 .. M /\ k - 1 \in 0 .. M
      BY <2>1, <1>1
    <3>2. its[k] = s[k]
      BY <2>1, <1>2
    <3> QED
      BY <3>1, <3>2, <1>5, <1>10
  <2>2. CASE ~ (k <= M)
    <3> DEFINE j == k - M
    <3>1. j \in 1 .. N /\ j \in 0 .. N /\ j - 1 \in 0 .. N /\ M + j = k /\ M + (j - 1) = k - 1
      BY <2>2, <1>1
    <3>2. its[k] = t[j]
      BY <2>2, <1>2
    <3> HIDE DEF j
    <3>3. h[k] = F \o (g[j - 1] \o Encoding(t[j])) /\ h[k - 1] = F \o g[j - 1]
      <4>1. h[M + j] = F \o g[j] /\ h[M + (j - 1)] = F \o g[j - 1]
        BY <3>1, <1>9
      <4>2. g[j] = g[j - 1] \o Encoding(t[j])
        BY <3>1, <1>6
      <4> QED
        BY <4>1, <4>2, <3>1
    <3>4. F \in Seq(Bytes) /\ g[j - 1] \in Seq(Bytes) /\ Encoding(t[j]) \in Seq(Bytes)
      BY <3>1, <1>6, <1>7, <1>8
    <3>5. F \o (g[j - 1] \o Encoding(t[j])) = (F \o g[j - 1]) \o Encoding(t[j])
      <4> DEFINE x == g[j - 1]
                 y == Encoding(t[j])
      <4>1. x \in Seq(Bytes) /\ y \in Seq(Bytes)
        BY <3>4
      <4> HIDE DEF x, y
      <4>2. F \o (x \o y) = (F \o x) \o y
        BY <4>1, <3>4, SMTT(60)
      <4> QED
        BY <4>2 DEF x, y
    <3> QED
      BY <3>2, <3>3, <3>5, Zenon
  <2> QED
    BY <2>1, <2>2
<1>14. Laid(h, its)
  <2>1. h[0] = <<>>
    <3>1. 0 \in 0 .. M
      BY <1>1
    <3> QED
      BY <3>1, <1>5, <1>10
  <2> QED
    BY <2>1, <1>2, <1>11, <1>13 DEF Laid
<1>15. PICK v : Laid(v, its) /\ Layout(its) = v[Len(its)]
  BY <1>2, LayoutIs
<1>16. Layout(its) = h[M + N]
  <2>1. v[Len(its)] = h[Len(its)]
    BY <1>2, <1>14, <1>15, LaidSame
  <2> QED
    BY <2>1, <1>2, <1>15
<1>17. h[M + N] = F \o g[N]
  <2>1. N \in 0 .. N
    BY <1>1
  <2> QED
    BY <2>1, <1>9
<1>18. Layout(s) = F /\ Layout(t) = g[N] /\ g[N] \in Seq(Bytes)
  <2>1. N \in 0 .. N
    BY <1>1
  <2> QED
    BY <2>1, <1>3, <1>4, <1>6 DEF F
<1> QED
  BY <1>8, <1>16, <1>17, <1>18 DEF its

\* A sequence cut at some place.
LEMMA CutAt ==
  ASSUME NEW T, NEW s \in Seq(T), NEW p \in 0 .. Len(s)
  PROVE  /\ SubSeq(s, 1, p) \in Seq(T) /\ SubSeq(s, p + 1, Len(s)) \in Seq(T)
         /\ s = SubSeq(s, 1, p) \o SubSeq(s, p + 1, Len(s))
<1>0. Len(s) \in Nat /\ p \in Nat /\ \A i \in 1 .. Len(s) : s[i] \in T
  OBVIOUS
<1>1. SubSeq(s, 1, p) \in Seq(T)
  <2>1. \A i \in 1 .. p : s[i] \in T
    BY <1>0
  <2> QED
    BY <2>1, <1>0, SubSeqProperties
<1>2. SubSeq(s, p + 1, Len(s)) \in Seq(T)
  <2>1. \A i \in p + 1 .. Len(s) : s[i] \in T
    BY <1>0
  <2>2. p + 1 \in Int /\ Len(s) \in Int
    BY <1>0
  <2> QED
    BY <2>1, <2>2, SubSeqProperties
<1>3. SubSeq(s, 1, p) \o SubSeq(s, p + 1, Len(s)) = SubSeq(s, 1, Len(s))
  <2>1. 1 \in 1 .. Len(s) + 1 /\ p \in 1 - 1 .. Len(s) /\ Len(s) \in p .. Len(s)
    BY <1>0
  <2> QED
    BY <2>1, ConcatAdjacentSubSeq
<1>4. SubSeq(s, 1, Len(s)) = s
  BY SubSeqFull
<1> QED
  BY <1>1, <1>2, <1>3, <1>4

\* The bytes x of the first p items, and z of the others.
Halves(its, p, x, z) ==
  /\ x \in Seq(Bytes) /\ z \in Seq(Bytes) /\ SubSeq(its, p + 1, Len(its)) \in Seq(Items)
  /\ Layout(its) = x \o z /\ Len(x) \in 0 .. Len(Layout(its))
  /\ SubSeq(Layout(its), Len(x) + 1, Len(Layout(its))) = z

\* The bytes x of the first p items, those of the next one, and z of the others.
Thirds(its, p, x, z) ==
  /\ x \in Seq(Bytes) /\ z \in Seq(Bytes) /\ SubSeq(its, p + 2, Len(its)) \in Seq(Items)
  /\ its[p + 1] \in Items
  /\ Layout(SubSeq(its, 1, p + 1)) = x \o Encoding(its[p + 1])
  /\ Layout(its) = (x \o Encoding(its[p + 1])) \o z

\* Items cut at some place.
LEMMA ItemsCut ==
  ASSUME NEW its \in Seq(Items), NEW p \in 0 .. Len(its)
  PROVE  Halves(its, p, Layout(SubSeq(its, 1, p)), Layout(SubSeq(its, p + 1, Len(its))))
<1> DEFINE a == SubSeq(its, 1, p)
           c == SubSeq(its, p + 1, Len(its))
           x == Layout(SubSeq(its, 1, p))
           z == Layout(SubSeq(its, p + 1, Len(its)))
<1>1. a \in Seq(Items) /\ c \in Seq(Items) /\ its = a \o c
  BY CutAt
<1>e. x = Layout(a) /\ z = Layout(c)
  OBVIOUS
<1> HIDE DEF a, c, x, z
<1>2. x \in Seq(Bytes) /\ z \in Seq(Bytes) /\ Layout(a \o c) = x \o z
  BY <1>1, <1>e, LayoutJoined
<1>3. Layout(its) = x \o z
  BY <1>1, <1>2
<1>4. <<>> \in Seq(Bytes) /\ Len(<<>>) = 0 /\ (x \o <<>>) \o z = x \o z
  BY <1>2, ConcatEmptySeq
<1>5. Len(x) \in Nat /\ Len(z) \in Nat
  BY <1>2
<1> DEFINE b == Layout(its)
<1>6. b = (x \o <<>>) \o z
  BY <1>3, <1>4
<1> HIDE DEF b
<1>7. /\ Len(b) = Len(x) + Len(<<>>) + Len(z)
      /\ SubSeq(b, Len(x) + Len(<<>>) + 1, Len(b)) = z
  BY <1>2, <1>4, <1>6, Middle
<1>8. Len(x) + Len(<<>>) + 1 = Len(x) + 1 /\ Len(x) \in 0 .. Len(b)
  BY <1>4, <1>5, <1>7
<1>9. SubSeq(b, Len(x) + 1, Len(b)) = z
  BY <1>7, <1>8
<1>10. Halves(its, p, x, z)
  BY <1>1, <1>2, <1>3, <1>8, <1>9 DEF Halves, b, c
<1> QED
  BY <1>10 DEF x, z

\* The item after some place.
LEMMA ItemNext ==
  ASSUME NEW its \in Seq(Items), NEW p \in 0 .. Len(its), p < Len(its)
  PROVE  Thirds(its, p, Layout(SubSeq(its, 1, p)), Layout(SubSeq(its, p + 2, Len(its))))
<1> DEFINE a == SubSeq(its, 1, p)
           d == SubSeq(its, 1, p + 1)
           c == SubSeq(its, p + 2, Len(its))
           i == its[p + 1]
           x == Layout(SubSeq(its, 1, p))
           z == Layout(SubSeq(its, p + 2, Len(its)))
<1>0. Len(its) \in Nat /\ p \in Nat /\ p + 1 \in 1 .. Len(its) /\ p + 1 \in 0 .. Len(its) /\ (p + 1) + 1 = p + 2
  OBVIOUS
<1>1. i \in Items
  BY <1>0
<1>2. a \in Seq(Items)
  BY CutAt
<1>3. d \in Seq(Items) /\ c \in Seq(Items) /\ its = d \o c
  <2>1. /\ d \in Seq(Items) /\ SubSeq(its, (p + 1) + 1, Len(its)) \in Seq(Items)
        /\ its = d \o SubSeq(its, (p + 1) + 1, Len(its))
    BY <1>0, CutAt
  <2> QED
    BY <2>1, <1>0
<1>4. d = a \o <<i>>
  <2>1. 1 \in 1 .. Len(its) /\ p + 1 \in 1 .. Len(its) /\ (p + 1) - 1 = p
    BY <1>0
  <2>2. d = SubSeq(its, 1, (p + 1) - 1) \o <<its[p + 1]>>
    BY <2>1, SubSeqRecursiveSecond
  <2> QED
    BY <2>1, <2>2
<1>5. x = Layout(a) /\ z = Layout(c)
  OBVIOUS
<1> HIDE DEF a, c, d, i, x, z
<1>6. <<i>> \in Seq(Items) /\ Layout(<<i>>) = Encoding(i)
  BY <1>1, LayoutOfOne
<1>7. x \in Seq(Bytes) /\ Layout(d) = x \o Encoding(i)
  BY <1>2, <1>4, <1>5, <1>6, LayoutJoined
<1>8. z \in Seq(Bytes) /\ Layout(its) = Layout(d) \o z
  BY <1>3, <1>5, LayoutJoined
<1>9. Thirds(its, p, x, z)
  BY <1>1, <1>3, <1>7, <1>8 DEF Thirds, a, c, d, i
<1> QED
  BY <1>9 DEF x, z

\* The bytes are those of the items, and the read position is after the items passed.
Placed(b, its, p, r) ==
  /\ b \in Seq(Bytes) /\ its \in Seq(Items)
  /\ p \in 0 .. Len(its) /\ r = Len(Layout(SubSeq(its, 1, p)))
  /\ its # <<>> => b = Layout(its)

\* What the last read returned is what was written.
GotSound(g) ==
  /\ g.item.kind = "data" => g.err = "kSuccess" /\ g.value = g.item.value
  /\ g.item.kind = "compact" =>
       IF g.item.value > kMaxSerializedCompactSize THEN g.err = "kCompactSizeTooBig"
       ELSE g.err = "kSuccess" /\ g.value = g.item.value
  /\ g.bytes # <<>> /\ g.err = "kSuccess" =>
       g.bytes = WriteCompact(g.value) /\ g.value <= kMaxSerializedCompactSize

StreamInv == Placed(buffer, items, passed, read_position) /\ GotSound(got)

\* A stream at its beginning.
LEMMA AtBeginning ==
  ASSUME NEW b \in Seq(Bytes), NEW its \in Seq(Items), its # <<>> => b = Layout(its)
  PROVE  Placed(b, its, 0, 0)
<1>1. SubSeq(its, 1, 0) = <<>>
  BY SubSeqEmpty
<1>2. Len(Layout(<<>>)) = 0
  <2>1. Len(<<>>) = 0
    OBVIOUS
  <2> QED
    BY <2>1, LayoutOfOne
<1>3. 0 \in 0 .. Len(its)
  OBVIOUS
<1> QED
  BY <1>1, <1>2, <1>3 DEF Placed

\* What is before the read position dropped: shrink and get_clear.
LEMMA PlacedRest ==
  ASSUME NEW b, NEW its, NEW p, NEW r, Placed(b, its, p, r)
  PROVE  /\ r \in 0 .. Len(b)
         /\ Placed(SubSeq(b, r + 1, Len(b)), SubSeq(its, p + 1, Len(its)), 0, 0)
<1>0. /\ b \in Seq(Bytes) /\ its \in Seq(Items) /\ p \in 0 .. Len(its)
      /\ r = Len(Layout(SubSeq(its, 1, p))) /\ (its # <<>> => b = Layout(its))
  BY DEF Placed
<1>1. CASE its = <<>>
  <2>1. Len(its) = 0 /\ p = 0
    BY <1>0, <1>1
  <2>2. r = 0
    <3>1. SubSeq(its, 1, 0) = <<>>
      BY SubSeqEmpty
    <3>2. Layout(<<>>) = <<>>
      BY LayoutOfOne
    <3>3. r = Len(<<>>)
      BY <3>1, <3>2, <2>1, <1>0, Zenon
    <3> QED
      BY <3>3
  <2>3. SubSeq(b, 1, Len(b)) = b /\ SubSeq(its, 1, Len(its)) = its
    BY <1>0, SubSeqFull
  <2>4. r + 1 = 1 /\ p + 1 = 1 /\ r \in 0 .. Len(b)
    BY <2>1, <2>2, <1>0
  <2>5. Placed(b, its, 0, 0)
    BY <1>0, <1>1, AtBeginning
  <2> QED
    BY <2>3, <2>4, <2>5
<1>2. CASE its # <<>>
  <2> DEFINE c == SubSeq(its, p + 1, Len(its))
             x == Layout(SubSeq(its, 1, p))
             z == Layout(SubSeq(its, p + 1, Len(its)))
  <2>1. /\ Layout(c) \in Seq(Bytes) /\ c \in Seq(Items) /\ Len(x) \in 0 .. Len(Layout(its))
        /\ SubSeq(Layout(its), Len(x) + 1, Len(Layout(its))) = Layout(c)
    <3>1. Halves(its, p, x, z)
      BY <1>0, ItemsCut, Zenon
    <3>2. z = Layout(c) /\ c = SubSeq(its, p + 1, Len(its))
      OBVIOUS
    <3> HIDE DEF x, z, c
    <3> QED
      BY <3>1, <3>2 DEF Halves
  <2>2. b = Layout(its) /\ r = Len(x)
    BY <1>0, <1>2
  <2> HIDE DEF c, x
  <2>3. Placed(Layout(c), c, 0, 0)
    BY <2>1, AtBeginning
  <2>4. r \in 0 .. Len(b) /\ SubSeq(b, r + 1, Len(b)) = Layout(c)
    BY <2>1, <2>2
  <2> QED
    BY <2>3, <2>4 DEF c
<1> QED
  BY <1>1, <1>2

\* One more item at the end.
LEMMA PlacedMore ==
  ASSUME NEW b, NEW its, NEW p, NEW r, Placed(b, its, p, r), its # <<>> \/ b = <<>>, NEW item \in Items
  PROVE  Placed(b \o Encoding(item), Append(its, item), p, r)
<1>0. /\ b \in Seq(Bytes) /\ its \in Seq(Items) /\ p \in 0 .. Len(its)
      /\ r = Len(Layout(SubSeq(its, 1, p))) /\ (its # <<>> => b = Layout(its))
  BY DEF Placed
<1>1. b = Layout(its)
  <2>1. Layout(<<>>) = <<>>
    BY LayoutOfOne
  <2>2. CASE its = <<>>
    BY <2>1, <2>2, Zenon
  <2>3. CASE its # <<>>
    BY <2>3, <1>0
  <2> QED
    BY <2>2, <2>3
<1> DEFINE more == its \o <<item>>
<1>2. more = Append(its, item) /\ Append(its, item) \in Seq(Items) /\ Len(Append(its, item)) = Len(its) + 1
  BY <1>0, AppendIsConcat, AppendProperties
<1>3. <<item>> \in Seq(Items) /\ Layout(<<item>>) = Encoding(item) /\ Encoding(item) \in Seq(Bytes)
  BY LayoutOfOne, EncodingIs
<1>4. Layout(more) = b \o Encoding(item)
  BY <1>0, <1>1, <1>3, LayoutJoined
<1>5. SubSeq(more, 1, p) = SubSeq(its, 1, p)
  <2>1. CASE p = 0
    <3>1. SubSeq(more, 1, 0) = <<>> /\ SubSeq(its, 1, 0) = <<>>
      BY SubSeqEmpty
    <3> QED
      BY <3>1, <2>1
  <2>2. CASE p # 0
    <3>1. 1 \in 1 .. Len(its) /\ p \in 1 .. Len(its)
      BY <2>2, <1>0
    <3> QED
      BY <3>1, <1>0, <1>3, SubSeqOfConcat1
  <2> QED
    BY <2>1, <2>2
<1>6. b \o Encoding(item) \in Seq(Bytes)
  BY <1>0, <1>3, BytesJoined
<1>7. p \in 0 .. Len(its) + 1
  BY <1>0
<1> HIDE DEF more
<1> QED
  BY <1>0, <1>2, <1>4, <1>5, <1>6, <1>7 DEF Placed

\* skip over an item.
LEMMA PlacedPast ==
  ASSUME NEW b, NEW its, NEW p, NEW r, Placed(b, its, p, r), p < Len(its),
         NEW next, next = r + Len(Encoding(its[p + 1]))
  PROVE  Placed(b, its, p + 1, IF next < Len(b) THEN next ELSE Len(b))
<1>0. /\ b \in Seq(Bytes) /\ its \in Seq(Items) /\ p \in 0 .. Len(its)
      /\ r = Len(Layout(SubSeq(its, 1, p))) /\ (its # <<>> => b = Layout(its))
  BY DEF Placed
<1>1. b = Layout(its) /\ p + 1 \in 0 .. Len(its)
  BY <1>0
<1> DEFINE x == Layout(SubSeq(its, 1, p))
           e == Encoding(its[p + 1])
           d == Layout(SubSeq(its, 1, p + 1))
           y == Layout(SubSeq(its, p + 2, Len(its)))
           z == Layout(SubSeq(its, (p + 1) + 1, Len(its)))
<1>2. x \in Seq(Bytes) /\ its[p + 1] \in Items /\ d = x \o e
  <2>1. Thirds(its, p, x, y)
    BY <1>0, ItemNext, Zenon
  <2> HIDE DEF x, y
  <2> QED
    BY <2>1 DEF Thirds
<1>3. e \in Seq(Bytes)
  BY <1>2, EncodingIs
<1>4. r = Len(x)
  BY <1>0
<1>5. Len(d) \in 0 .. Len(Layout(its))
  <2>1. Halves(its, p + 1, d, z)
    BY <1>0, <1>1, ItemsCut, Zenon
  <2> HIDE DEF d, z
  <2> QED
    BY <2>1 DEF Halves
<1>6. Len(x \o e) = Len(x) + Len(e)
  BY <1>2, <1>3, BytesJoined
<1>7. next = r + Len(e)
  OBVIOUS
<1> HIDE DEF x, e, d
<1>8. next = Len(d) /\ next \in 0 .. Len(b)
  BY <1>1, <1>2, <1>4, <1>5, <1>6, <1>7
<1>9. (IF next < Len(b) THEN next ELSE Len(b)) = Len(d)
  <2>1. Len(b) \in Nat
    BY <1>0
  <2> QED
    BY <2>1, <1>8
<1> QED
  BY <1>0, <1>1, <1>9 DEF Placed, d

\* A stream as the reads take it.
LEMMA StreamIs ==
  ASSUME NEW b \in Seq(Bytes), NEW r \in Nat
  PROVE  Stream(b, r) \in Streams /\ Stream(b, r).buffer = b /\ Stream(b, r).pos = r
<1>1. "kSuccess" \in Errors /\ -1 \in Int
  BY DEF Errors
<1> QED
  BY <1>1 DEF Stream, Streams

\* The item at the read position is read back, whatever its kind.
LEMMA PlacedRead ==
  ASSUME NEW b, NEW its, NEW p, NEW r, Placed(b, its, p, r), p < Len(its), NEW item, item = its[p + 1],
         NEW s, s = IF item.kind = "compact" THEN ReadCompact(Stream(b, r)) ELSE ReadData(Stream(b, r), item.size)
  PROVE  /\ Placed(s.buffer, SubSeq(its, p + 2, Len(its)), 0, s.pos)
         /\ GotSound([item |-> item, bytes |-> <<>>, value |-> s.value, err |-> s.err])
<1>0. /\ b \in Seq(Bytes) /\ its \in Seq(Items) /\ p \in 0 .. Len(its)
      /\ r = Len(Layout(SubSeq(its, 1, p))) /\ (its # <<>> => b = Layout(its))
  BY DEF Placed
<1>1. b = Layout(its)
  BY <1>0
<1> DEFINE x == Layout(SubSeq(its, 1, p))
           e == Encoding(item)
           c == SubSeq(its, p + 2, Len(its))
           z == Layout(SubSeq(its, p + 2, Len(its)))
           t == Stream(b, r)
           g == [item |-> item, bytes |-> <<>>, value |-> s.value, err |-> s.err]
<1>2. /\ x \in Seq(Bytes) /\ z \in Seq(Bytes) /\ c \in Seq(Items) /\ item \in Items
      /\ b = (x \o e) \o z
  <2>1. Thirds(its, p, x, z)
    BY <1>0, ItemNext, Zenon
  <2> HIDE DEF x, z
  <2> QED
    BY <2>1, <1>1 DEF Thirds
<1>3. r = Len(x) /\ z = Layout(c) /\ r \in Nat
  <2>1. r = Len(x) /\ z = Layout(c)
    BY <1>0
  <2> HIDE DEF x, z, c
  <2> QED
    BY <2>1, <1>2
<1>4. t \in Streams /\ t.buffer = b /\ t.pos = r
  BY <1>0, <1>3, StreamIs
<1>5. /\ e \in Seq(Bytes)
      /\ \/ item.kind = "compact" /\ item.value \in 0 .. Power[Size64] - 1 /\ e = WriteCompact(item.value)
         \/ /\ item.kind = "data" /\ item.size = Size32 /\ item.value \in 0 .. Power[Size32] - 1
            /\ e = Little(item.value, Size32) /\ Len(e) = Size32
         \/ item.kind = "bool" /\ item.size = 1 /\ Len(e) = 1
  BY <1>2, EncodingIs
<1>6. s = IF item.kind = "compact" THEN ReadCompact(t) ELSE ReadData(t, item.size)
  OBVIOUS
<1>g. g.item = item /\ g.bytes = <<>> /\ g.value = s.value /\ g.err = s.err
  OBVIOUS
<1> HIDE DEF x, e, c, z, t, g
<1>7. SUFFICES s.buffer = z /\ s.pos = 0 /\ GotSound(g)
  <2> SUFFICES ASSUME s.buffer = z, s.pos = 0, GotSound(g)
               PROVE  /\ Placed(s.buffer, SubSeq(its, p + 2, Len(its)), 0, s.pos)
                      /\ GotSound([item |-> item, bytes |-> <<>>, value |-> s.value, err |-> s.err])
    OBVIOUS
  <2>1. Placed(z, c, 0, 0)
    BY <1>2, <1>3, AtBeginning
  <2> QED
    BY <2>1 DEF c, g
<1>8. CASE item.kind = "compact"
  <2> DEFINE n == item.value
  <2>1. n \in 0 .. Power[Size64] - 1 /\ e = WriteCompact(n) /\ s = ReadCompact(t)
    BY <1>5, <1>6, <1>8
  <2> HIDE DEF n
  <2>2. /\ s.buffer = z /\ s.pos = 0
        /\ IF n > kMaxSerializedCompactSize THEN s.err = "kCompactSizeTooBig"
           ELSE s.err = "kSuccess" /\ s.value = n
    <3>1. /\ x \in Seq(Bytes) /\ z \in Seq(Bytes) /\ n \in 0 .. Power[Size64] - 1 /\ t \in Streams
          /\ t.buffer = (x \o WriteCompact(n)) \o z /\ t.pos = Len(x)
      BY <2>1, <1>2, <1>3, <1>4, Zenon
    <3>2. ReadsBack(ReadCompact(t), z, n)
      BY <3>1, CompactReadsBack, Zenon
    <3> QED
      BY <3>2, <2>1 DEF ReadsBack
  <2>3. g.item.value = n /\ g.item.kind = "compact"
    BY <1>g, <1>8 DEF n
  <2>4. GotSound(g)
    BY <2>2, <2>3, <1>g DEF GotSound
  <2> QED
    BY <2>2, <2>4
<1>9. CASE item.kind # "compact"
  <2>1. s = ReadData(t, Len(e)) /\ Len(e) = item.size /\ Len(e) <= Size64
    <3>1. Size32 <= Size64 /\ 1 <= Size64
      BY SizesAssumption
    <3> QED
      BY <3>1, <1>5, <1>6, <1>9
  <2>2. s = [buffer |-> z, pos |-> 0, err |-> "kSuccess", value |-> FromLittle(e)]
    <3>1. /\ x \in Seq(Bytes) /\ e \in Seq(Bytes) /\ z \in Seq(Bytes) /\ t \in Streams
          /\ t.buffer = (x \o e) \o z /\ t.pos = Len(x) /\ Len(e) <= Size64
      BY <2>1, <1>2, <1>3, <1>4, <1>5, Zenon
    <3>2. ReadData(t, Len(e)) = [buffer |-> z, pos |-> 0, err |-> "kSuccess", value |-> FromLittle(e)]
      BY <3>1, ReadsNext, Zenon
    <3> QED
      BY <3>2, <2>1
  <2>3. s.buffer = z /\ s.pos = 0 /\ s.err = "kSuccess" /\ s.value = FromLittle(e)
    BY <2>2
  <2>4. item.kind = "data" => FromLittle(e) = item.value
    <3> SUFFICES ASSUME item.kind = "data" PROVE FromLittle(e) = item.value
      OBVIOUS
    <3> DEFINE n == item.value
    <3>1. n \in 0 .. Power[Size32] - 1 /\ e = Little(n, Size32)
      BY <1>5
    <3>2. Size32 \in 0 .. Size64
      BY SizesAssumption
    <3> HIDE DEF n
    <3>3. FromLittle(Little(n, Size32)) = n
      BY <3>1, <3>2, LittleReadsBack
    <3> QED
      BY <3>1, <3>3 DEF n
  <2>5. GotSound(g)
    BY <2>3, <2>4, <1>g, <1>9 DEF GotSound
  <2> QED
    BY <2>3, <2>5
<1> QED
  BY <1>8, <1>9

\* A compact size read from a message.
LEMMA MessageRead ==
  ASSUME NEW b \in Seq(Bytes), b # <<>>, NEW s, s = ReadCompact(Stream(b, 0))
  PROVE  /\ Placed(s.buffer, <<>>, 0, s.pos)
         /\ GotSound([item |-> Item("none", -1, 0), value |-> s.value, err |-> s.err,
                      bytes |-> SubSeq(b, 1, Len(b) - Len(s.buffer))])
<1> DEFINE t == Stream(b, 0)
           front == SubSeq(b, 1, Len(b) - Len(s.buffer))
           g == [item |-> Item("none", -1, 0), value |-> s.value, err |-> s.err, bytes |-> front]
<1>1. t \in Streams /\ t.buffer = b /\ t.pos = 0
  BY StreamIs
<1>2. s = ReadCompact(t)
  OBVIOUS
<1>g. g.item.kind = "none" /\ g.value = s.value /\ g.err = s.err /\ g.bytes = front
  BY DEF Item
<1>3. /\ s.buffer \in Seq(Bytes) /\ s.pos = 0
      /\ s.err = "kSuccess" => front = WriteCompact(s.value) /\ s.value <= kMaxSerializedCompactSize
  <2> HIDE DEF t
  <2> QED
    BY <1>1, <1>2, ReceivedIs
<1> HIDE DEF t, front, g
<1>4. Placed(s.buffer, <<>>, 0, 0)
  <2>1. <<>> \in Seq(Items)
    OBVIOUS
  <2> QED
    BY <2>1, <1>3, AtBeginning
<1>5. GotSound(g)
  BY <1>3, <1>g DEF GotSound
<1> QED
  BY <1>3, <1>4, <1>5 DEF g, front

\* An empty stream, or a message, places nothing.
LEMMA StreamStarted == DataStreamInit => StreamInv
<1> SUFFICES ASSUME DataStreamInit PROVE StreamInv
  OBVIOUS
<1>1. buffer \in Seq(Bytes)
  <2>1. buffer \in UNION {[1 .. n -> Bytes] : n \in 0 .. Size64 + 1}
    BY DEF DataStreamInit, BoundedSeq, SeqOf
  <2>2. PICK n \in 0 .. Size64 + 1 : buffer \in [1 .. n -> Bytes]
    BY <2>1
  <2>3. n \in Nat
    BY SizesAssumption
  <2> QED
    BY <2>2, <2>3
<1>2. <<>> \in Seq(Items)
  OBVIOUS
<1>3. Placed(buffer, <<>>, 0, 0)
  BY <1>1, <1>2, AtBeginning
<1>4. read_position = 0 /\ items = <<>> /\ passed = 0 /\ got = NothingRead
  BY DEF DataStreamInit
<1>5. GotSound(NothingRead)
  <2>1. NothingRead.item.kind = "none" /\ NothingRead.bytes = <<>>
    BY DEF NothingRead, Item
  <2> QED
    BY <2>1 DEF GotSound
<1> QED
  BY <1>3, <1>4, <1>5 DEF StreamInv

\* Every operation keeps the bytes and the items together.
LEMMA StreamStepped == StreamInv /\ [DataStreamNext]_datastreamVars => StreamInv'
<1> SUFFICES ASSUME StreamInv, [DataStreamNext]_datastreamVars PROVE StreamInv'
  OBVIOUS
<1>0. Placed(buffer, items, passed, read_position) /\ GotSound(got)
  BY DEF StreamInv
<1>p. /\ buffer \in Seq(Bytes) /\ items \in Seq(Items) /\ passed \in 0 .. Len(items)
      /\ read_position = Len(Layout(SubSeq(items, 1, passed))) /\ (items # <<>> => buffer = Layout(items))
  BY <1>0 DEF Placed
<1>1. CASE Write
  <2>1. PICK item \in Items : buffer' = buffer \o Encoding(item) /\ items' = Append(items, item)
    BY <1>1 DEF Write
  <2>2. items # <<>> \/ buffer = <<>>
    BY <1>1 DEF Write, Own
  <2>3. Placed(buffer \o Encoding(item), Append(items, item), passed, read_position)
    BY <1>0, <2>2, PlacedMore
  <2>4. read_position' = read_position /\ passed' = passed /\ got' = got
    BY <1>1 DEF Write
  <2> QED
    BY <1>0, <2>1, <2>3, <2>4 DEF StreamInv
<1>2. CASE ReadItem
  <2> DEFINE item == items[passed + 1]
             r == IF item.kind = "compact" THEN ReadCompact(Stream(buffer, read_position))
                  ELSE ReadData(Stream(buffer, read_position), item.size)
  <2>1. /\ passed < Len(items) /\ buffer' = r.buffer /\ read_position' = r.pos /\ passed' = 0
        /\ items' = SubSeq(items, passed + 2, Len(items))
        /\ got' = [item |-> item, bytes |-> <<>>, value |-> r.value, err |-> r.err]
    BY <1>2 DEF ReadItem
  <2>2. item = items[passed + 1]
    OBVIOUS
  <2> HIDE DEF item
  <2>3. r = IF item.kind = "compact" THEN ReadCompact(Stream(buffer, read_position))
            ELSE ReadData(Stream(buffer, read_position), item.size)
    OBVIOUS
  <2> HIDE DEF r
  <2>4. /\ Placed(r.buffer, SubSeq(items, passed + 2, Len(items)), 0, r.pos)
        /\ GotSound([item |-> item, bytes |-> <<>>, value |-> r.value, err |-> r.err])
    BY <1>0, <2>1, <2>2, <2>3, PlacedRead
  <2> QED
    BY <2>1, <2>4 DEF StreamInv
<1>3. CASE ReadReceived
  <2> DEFINE r == ReadCompact(Stream(buffer, read_position))
             g == [item |-> Item("none", -1, 0), value |-> r.value, err |-> r.err,
                   bytes |-> SubSeq(buffer, 1, Len(buffer) - Len(r.buffer))]
  <2>1. /\ buffer' = r.buffer /\ read_position' = r.pos /\ items' = items /\ passed' = passed
        /\ got' = g /\ items = <<>> /\ buffer # <<>>
    BY <1>3 DEF ReadReceived, Own
  <2>2. passed = 0 /\ read_position = 0
    <3>1. passed = 0
      BY <2>1, <1>p
    <3>2. SubSeq(items, 1, 0) = <<>> /\ Layout(<<>>) = <<>>
      BY SubSeqEmpty, LayoutOfOne
    <3>3. read_position = Len(<<>>)
      BY <3>1, <3>2, <1>p, Zenon
    <3> QED
      BY <3>1, <3>3
  <2>3. r = ReadCompact(Stream(buffer, 0))
    BY <2>2
  <2>4. g = [item |-> Item("none", -1, 0), value |-> r.value, err |-> r.err,
             bytes |-> SubSeq(buffer, 1, Len(buffer) - Len(r.buffer))]
    OBVIOUS
  <2> HIDE DEF r, g
  <2>5. Placed(r.buffer, <<>>, 0, r.pos) /\ GotSound(g)
    BY <1>p, <2>1, <2>3, <2>4, MessageRead
  <2> QED
    BY <2>1, <2>2, <2>5 DEF StreamInv
<1>4. CASE Skip
  <2> DEFINE next == read_position + Len(Encoding(items[passed + 1]))
  <2>1. /\ passed < Len(items) /\ passed' = passed + 1 /\ buffer' = buffer /\ items' = items /\ got' = got
        /\ read_position' = IF next < Len(buffer) THEN next ELSE Len(buffer)
    BY <1>4 DEF Skip
  <2>2. next = read_position + Len(Encoding(items[passed + 1]))
    OBVIOUS
  <2> HIDE DEF next
  <2>3. Placed(buffer, items, passed + 1, IF next < Len(buffer) THEN next ELSE Len(buffer))
    BY <1>0, <2>1, <2>2, PlacedPast
  <2> QED
    BY <1>0, <2>1, <2>3 DEF StreamInv
<1>5. CASE Seekp
  <2>1. read_position' = 0 /\ passed' = 0 /\ buffer' = buffer /\ items' = items /\ got' = got
    BY <1>5 DEF Seekp
  <2>2. Placed(buffer, items, 0, 0)
    BY <1>p, AtBeginning
  <2> QED
    BY <1>0, <2>1, <2>2 DEF StreamInv
<1>6. CASE Shrink \/ GetClear
  <2>1. /\ buffer' = SubSeq(buffer, read_position + 1, Len(buffer)) /\ read_position' = 0
        /\ items' = SubSeq(items, passed + 1, Len(items)) /\ passed' = 0 /\ got' = got
    BY <1>6 DEF Shrink, GetClear
  <2>2. Placed(SubSeq(buffer, read_position + 1, Len(buffer)), SubSeq(items, passed + 1, Len(items)), 0, 0)
    BY <1>0, PlacedRest
  <2> QED
    BY <1>0, <2>1, <2>2 DEF StreamInv
<1>7. CASE Clear
  <2>1. buffer' = <<>> /\ read_position' = 0 /\ items' = <<>> /\ passed' = 0 /\ got' = got
    BY <1>7 DEF Clear
  <2>2. <<>> \in Seq(Bytes) /\ <<>> \in Seq(Items)
    OBVIOUS
  <2>3. Placed(<<>>, <<>>, 0, 0)
    BY <2>2, AtBeginning
  <2> QED
    BY <1>0, <2>1, <2>3 DEF StreamInv
<1>8. CASE UNCHANGED datastreamVars
  BY <1>0, <1>8 DEF StreamInv, datastreamVars
<1> QED
  BY <1>1, <1>2, <1>3, <1>4, <1>5, <1>6, <1>7, <1>8 DEF DataStreamNext

\* What is placed is well typed and reads back.
LEMMA StreamInvIs == StreamInv => StreamReadsBack
<1> SUFFICES ASSUME StreamInv PROVE StreamReadsBack
  OBVIOUS
<1>0. Placed(buffer, items, passed, read_position) /\ GotSound(got)
  BY DEF StreamInv
<1>1. /\ buffer \in Seq(Bytes) /\ items \in Seq(Items) /\ passed \in 0 .. Len(items)
      /\ (items # <<>> => buffer = Layout(items))
  BY <1>0 DEF Placed
<1>2. read_position \in 0 .. Len(buffer)
  BY <1>0, PlacedRest
<1>3. DataStreamTypeOK
  <2>1. \A i \in 1 .. Len(buffer) : buffer[i] \in Bytes
    BY <1>1
  <2>2. \A i \in 1 .. Len(items) : items[i] \in Items
    BY <1>1
  <2> QED
    BY <1>1, <1>2, <2>1, <2>2 DEF DataStreamTypeOK
<1> QED
  BY <1>0, <1>1, <1>3 DEF StreamReadsBack, GotSound

(* For every width of a byte and of the integers, and however a stream is   *)
(* written, read, skipped, rewound, shrunk, moved into another and cleared:   *)
(* its bytes are those of the items in it, the read position is within them,  *)
(* what write_data and write_compact wrote read_data and read_compact read    *)
(* back (a compact size above kMaxSerializedCompactSize is refused), and what *)
(* read_compact accepts from a message is the one form write_compact writes.  *)
THEOREM StreamReadsBackHolds == DataStreamSpec => []StreamReadsBack
<1>1. DataStreamInit => StreamInv
  BY StreamStarted
<1>2. StreamInv /\ [DataStreamNext]_datastreamVars => StreamInv'
  BY StreamStepped
<1>3. StreamInv => StreamReadsBack
  BY StreamInvIs
<1> QED
  BY <1>1, <1>2, <1>3, PTL DEF DataStreamSpec

-----------------------------------------------------------------------------
(* HumanText. All divisions are by more than zero, and a quotient and a      *)
(* rest are the only ones.                                                   *)

\* Quotient and rest.
LEMMA Divided ==
  ASSUME NEW n \in Nat, NEW u \in Nat, u > 0
  PROVE  n \div u \in Nat /\ n % u \in 0 .. u - 1 /\ n = (n \div u) * u + (n % u)
  OBVIOUS

\* Division by a hundred.
LEMMA Hundred ==
  ASSUME NEW n \in Nat
  PROVE  n \div 100 \in Nat /\ n % 100 \in 0 .. 99 /\ n = 100 * (n \div 100) + (n % 100)
  OBVIOUS

\* A number of hundredths of units.
Hundredths(n, U) == (200 * n + U) \div (2 * U)
FromHundredths(h, U) == (h \div 100) * U + (U * (h % 100)) \div 100

\* Hundredths of a unit, rounded, and read back: less than two off the half of a hundredth.
LEMMA RoundedBack ==
  ASSUME NEW n \in Nat, NEW U \in Nat, U > 0, NEW h, h = Hundredths(n, U), NEW back, back = FromHundredths(h, U)
  PROVE  /\ h \in Nat /\ back \in Nat
         /\ back - n <= U \div 200 + 1 /\ n - back <= U \div 200 + 1
<1> DEFINE a == 200 * n + U
           v == 2 * U
           r == a % v
<1>1. a \in Nat /\ v \in Nat /\ v > 0
  OBVIOUS
<1>2. h \in Nat /\ r \in 0 .. v - 1 /\ a = h * v + r
  <2> HIDE DEF a, v, r
  <2>1. a \div v \in Nat /\ a % v \in 0 .. v - 1 /\ a = (a \div v) * v + (a % v)
    BY <1>1, Divided
  <2>2. h = a \div v /\ r = a % v
    BY DEF a, v, r, Hundredths
  <2> QED
    BY <2>1, <2>2
<1> HIDE DEF r
<1> DEFINE w == h \div 100
           f == h % 100
<1>3. w \in Nat /\ f \in 0 .. 99 /\ h = 100 * w + f
  <2>1. h \in Nat
    BY <1>2
  <2> QED
    BY <2>1, Hundred
<1>4. back = w * U + (U * f) \div 100
  BY DEF FromHundredths
<1> HIDE DEF w, f
<1> DEFINE P == h * U
           Q == U * f
           R == w * U
<1>5. P \in Nat /\ Q \in Nat /\ R \in Nat /\ P = 100 * R + Q
  <2>1. P \in Nat /\ Q \in Nat /\ R \in Nat
    BY <1>2, <1>3
  <2>2. (100 * w + f) * U = 100 * (w * U) + U * f
    BY <1>3
  <2> QED
    BY <2>1, <2>2, <1>3
<1>6. h * v = 2 * P
  BY <1>2
<1>7. back = R + Q \div 100
  BY <1>4
<1>8. 200 * n + U = 2 * P + r /\ r \in 0 .. 2 * U - 1
  BY <1>2, <1>6
<1> HIDE DEF P, Q, R
<1>9. back \in Nat /\ \E e \in 0 .. 99 : P = 100 * back + e
  <2> DEFINE e == Q % 100
             g == Q \div 100
  <2>1. g \in Nat /\ e \in 0 .. 99 /\ Q = 100 * g + e
    <3>1. Q \in Nat
      BY <1>5
    <3> QED
      BY <3>1, Hundred
  <2> HIDE DEF e, g
  <2>2. back = R + g
    BY <1>7 DEF g
  <2>3. P = 100 * back + e /\ back \in Nat
    BY <2>1, <2>2, <1>5
  <2> QED
    BY <2>1, <2>3
<1>10. PICK e \in 0 .. 99 : P = 100 * back + e
  BY <1>9
<1> DEFINE k == U \div 200
           m == U % 200
<1>11. k \in Nat /\ m \in 0 .. 199 /\ U = 200 * k + m
  OBVIOUS
<1> HIDE DEF k, m
<1>12. back - n <= k + 1 /\ n - back <= k + 1
  BY <1>8, <1>9, <1>10, <1>11
<1> QED
  BY <1>2, <1>9, <1>12 DEF k

\* What the suffixes multiply by.
LEMMA MultiplierIs ==
  ASSUME NEW d \in Nat, d > 1
  PROVE  /\ \A i \in 0 .. 5 : Multiplier(d, i) \in Nat /\ Multiplier(d, i) > 0
         /\ Multiplier(d, 0) = 1
         /\ \A i \in 1 .. 5 : Multiplier(d, i) > 1
<1> DEFINE d2 == d * d
           d3 == d * d * d
           d4 == d * d * d * d
           d5 == d * d * d * d * d
<1>0. \A x \in Nat : x > 1 => x * d \in Nat /\ x * d > 1
  <2> TAKE x \in Nat
  <2> HAVE x > 1
  <2>1. x * d = x + x * (d - 1) /\ x * (d - 1) \in Nat
    OBVIOUS
  <2> QED
    BY <2>1
<1>1. d2 \in Nat /\ d2 > 1
  BY <1>0
<1>2. d3 \in Nat /\ d3 > 1
  <2>1. d3 = d2 * d
    OBVIOUS
  <2> HIDE DEF d2, d3
  <2> QED
    BY <2>1, <1>0, <1>1
<1>3. d4 \in Nat /\ d4 > 1
  <2>1. d4 = d3 * d
    OBVIOUS
  <2> HIDE DEF d3, d4
  <2> QED
    BY <2>1, <1>0, <1>2
<1>4. d5 \in Nat /\ d5 > 1
  <2>1. d5 = d4 * d
    OBVIOUS
  <2> HIDE DEF d4, d5
  <2> QED
    BY <2>1, <1>0, <1>3
<1>5. /\ Multiplier(d, 0) = 1 /\ Multiplier(d, 1) = d /\ Multiplier(d, 2) = d2
      /\ Multiplier(d, 3) = d3 /\ Multiplier(d, 4) = d4 /\ Multiplier(d, 5) = d5
  <2>1. \A i : Multiplier(d, i) = <<1, d, d2, d3, d4, d5>>[i + 1]
    BY DEF Multiplier
  <2> HIDE DEF d2, d3, d4, d5
  <2> QED
    BY <2>1
<1> HIDE DEF d2, d3, d4, d5
<1>6. \A i \in 1 .. 5 : i = 1 \/ i = 2 \/ i = 3 \/ i = 4 \/ i = 5
  OBVIOUS
<1>7. \A i \in 1 .. 5 : Multiplier(d, i) \in Nat /\ Multiplier(d, i) > 1
  BY <1>1, <1>2, <1>3, <1>4, <1>5, <1>6
<1>8. \A i \in 0 .. 5 : i = 0 \/ i \in 1 .. 5
  OBVIOUS
<1> QED
  BY <1>5, <1>7, <1>8

\* The loop ends, and below the last limit with a suffix.
LEMMA SuffixIs ==
  ASSUME NEW d \in Nat, d > 1, NEW n \in Nat, n < Multiplier(d, UnitSuffixes)
  PROVE  SuffixIndex(n, d) \in 0 .. 4
<1> DEFINE M(i) == Multiplier(d, i)
           Ends(i) == /\ i = UnitSuffixes \/ n < M(i + 1)
                      /\ \A j \in 0 .. (i - 1) : n >= M(j + 1)
           index == CHOOSE i \in 0 .. UnitSuffixes : Ends(i)
<1>0. UnitSuffixes = 5
  BY DEF UnitSuffixes
<1>m. \A i \in 0 .. 5 : M(i) \in Nat
  BY MultiplierIs
<1>n. n < M(5)
  BY <1>0
<1>d. SuffixIndex(n, d) = index
  BY DEF SuffixIndex
<1> HIDE DEF M
<1>1. \E i \in 0 .. 5 : Ends(i)
  <2>1. CASE n < M(1)
    <3>1. Ends(0)
      BY <2>1, <1>0
    <3> QED
      BY <3>1
  <2>2. CASE n >= M(1) /\ n < M(2)
    <3>1. Ends(1)
      BY <2>2, <1>0
    <3> QED
      BY <3>1
  <2>3. CASE n >= M(1) /\ n >= M(2) /\ n < M(3)
    <3>1. Ends(2)
      BY <2>3, <1>0
    <3> QED
      BY <3>1
  <2>4. CASE n >= M(1) /\ n >= M(2) /\ n >= M(3) /\ n < M(4)
    <3>1. Ends(3)
      BY <2>4, <1>0
    <3> QED
      BY <3>1
  <2>5. CASE n >= M(1) /\ n >= M(2) /\ n >= M(3) /\ n >= M(4)
    <3>1. Ends(4)
      BY <2>5, <1>0, <1>n
    <3> QED
      BY <3>1
  <2> QED
    BY <2>1, <2>2, <2>3, <2>4, <2>5, <1>m
<1>2. index \in 0 .. 5 /\ Ends(index)
  <2> HIDE DEF Ends
  <2> QED
    BY <1>1, <1>0
<1> HIDE DEF index
<1>3. index # 5
  <2> SUFFICES ASSUME index = 5 PROVE FALSE
    OBVIOUS
  <2>1. \A j \in 0 .. 4 : n >= M(j + 1)
    BY <1>2
  <2>2. n >= M(5)
    BY <2>1
  <2> QED
    BY <2>2, <1>n, <1>m
<1> QED
  BY <1>2, <1>3, <1>d

\* A byte count is read back as it was, up to the decimals shown.
LEMMA BytesReadBack ==
  ASSUME NEW d \in Divisors, NEW n \in Nat, n < Multiplier(d, UnitSuffixes),
         NEW text, text = ToHumanBytes(n, d), NEW back, back = ParseHumanBytes(text, d)
  PROVE  /\ text.suffix < UnitSuffixes /\ back \in Nat
         /\ back - n <= Multiplier(d, text.suffix) \div 200 + 1
         /\ n - back <= Multiplier(d, text.suffix) \div 200 + 1
         /\ text.suffix = 0 => back = n
<1> DEFINE i == SuffixIndex(n, d)
           U == Multiplier(d, i)
           h == Hundredths(n, U)
<1>0. d \in Nat /\ d > 1 /\ UnitSuffixes = 5
  BY DivisorsAssumption DEF UnitSuffixes
<1>1. i \in 0 .. 4
  BY <1>0, SuffixIs
<1>t. text = IF i = 0 THEN [whole |-> n, fract |-> 0, digits |-> 0, suffix |-> 0]
             ELSE [whole |-> h \div 100, fract |-> h % 100, digits |-> 2, suffix |-> i]
  BY DEF ToHumanBytes, Hundredths
<1>b. back = text.whole * Multiplier(d, text.suffix)
             + IF Multiplier(d, text.suffix) > 1 /\ text.digits > 0
               THEN (Multiplier(d, text.suffix) * text.fract) \div Bases[text.digits] ELSE 0
  BY DEF ParseHumanBytes
<1>m. /\ \A k \in 0 .. 5 : Multiplier(d, k) \in Nat /\ Multiplier(d, k) > 0
      /\ Multiplier(d, 0) = 1
      /\ \A k \in 1 .. 5 : Multiplier(d, k) > 1
  BY <1>0, MultiplierIs
<1> HIDE DEF i
<1>2. CASE i = 0
  <2>1. text.whole = n /\ text.digits = 0 /\ text.suffix = 0
    BY <1>2, <1>t
  <2>2. back = n * 1 + 0
    BY <2>1, <1>b, <1>m
  <2>3. back = n /\ 1 \div 200 = 0
    BY <2>2
  <2> QED
    BY <2>1, <2>3, <1>m, <1>0
<1>3. CASE i # 0
  <2>0. i \in 1 .. 5 /\ i \in 0 .. 5 /\ i < 5
    BY <1>1, <1>3
  <2>u. U \in Nat /\ U > 1 /\ U > 0
    BY <2>0, <1>m
  <2>1. text.whole = h \div 100 /\ text.fract = h % 100 /\ text.digits = 2 /\ text.suffix = i
    BY <1>3, <1>t
  <2>2. Bases[2] = 100
    BY DEF Bases
  <2>3. U = Multiplier(d, text.suffix)
    BY <2>1
  <2> HIDE DEF U, h
  <2>4. back = (h \div 100) * U + (U * (h % 100)) \div 100
    BY <2>1, <2>2, <2>3, <2>u, <1>b
  <2>5. back = FromHundredths(h, U) /\ h = Hundredths(n, U)
    BY <2>4 DEF FromHundredths, h
  <2>6. back \in Nat /\ back - n <= U \div 200 + 1 /\ n - back <= U \div 200 + 1
    BY <2>5, <2>u, RoundedBack
  <2> QED
    BY <2>0, <2>1, <2>3, <2>6, <1>0
<1> QED
  BY <1>2, <1>3

\* The rest of a duration after a unit is what the next smaller unit counts, and its own rest.
LEMMA RestOfRest ==
  ASSUME NEW n \in Nat, NEW t \in Nat, t > 0, NEW u \in Nat, u > 0, u % t = 0
  PROVE  n % u = (n % t) + ((n % u) \div t) * t /\ (n % u) \div t \in Nat
<1> DEFINE q == n \div u
           r == n % u
           m == u \div t
           s == r \div t
           x == r % t
           y == n \div t
           z == n % t
<1>1. q \in Nat /\ r \in 0 .. u - 1 /\ r \in Nat /\ n = q * u + r
  BY Divided
<1>2. y \in Nat /\ z \in 0 .. t - 1 /\ n = y * t + z
  BY Divided
<1>3. m \in Nat /\ u = m * t
  <2>1. u \div t \in Nat /\ u = (u \div t) * t + (u % t)
    BY Divided
  <2>2. m * t \in Nat
    BY <2>1
  <2> HIDE DEF m
  <2>3. u = m * t + 0
    BY <2>1 DEF m
  <2> QED
    BY <2>1, <2>2, <2>3 DEF m
<1>4. s \in Nat /\ x \in 0 .. t - 1 /\ r = s * t + x
  <2> HIDE DEF r
  <2> QED
    BY <1>1, Divided
<1> HIDE DEF q, r, m, s, x, y, z
<1>5. n = (q * m + s) * t + x
  <2>1. q * u = (q * m) * t
    BY <1>1, <1>3
  <2>2. (q * m + s) * t = (q * m) * t + s * t
    BY <1>1, <1>3, <1>4
  <2>3. q * u \in Nat /\ s * t \in Nat
    BY <1>1, <1>4
  <2>4. n = q * u + (s * t + x)
    BY <1>1, <1>4
  <2>5. q * u + (s * t + x) = (q * u + s * t) + x
    BY <2>3, <1>4
  <2> QED
    BY <2>1, <2>2, <2>4, <2>5
<1>6. x = z
  <2> DEFINE p == q * m + s
  <2>1. p \in Nat
    BY <1>1, <1>3, <1>4
  <2>2. p * t + x = y * t + z
    BY <1>2, <1>5
  <2> HIDE DEF p
  <2> QED
    BY <2>1, <2>2, <1>2, <1>4, DividedOnce
<1>7. r = z + s * t
  <2>1. s * t \in Nat
    BY <1>4
  <2> QED
    BY <2>1, <1>2, <1>4, <1>6
<1> QED
  BY <1>4, <1>7 DEF r, s, z

\* What is left of a duration below each unit: the count of the unit, and what is left below it.
LEMMA CountsAre ==
  ASSUME NEW n \in Nat
  PROVE  /\ \A i \in 1 .. 6 : /\ TimeUnits[i] \in Nat /\ TimeUnits[i] > 0 /\ Count(n, i) \in Nat
                              /\ n % TimeUnits[i] \in 0 .. TimeUnits[i] - 1
                              /\ Count(n, i) * TimeUnits[i] \in Nat
         /\ \A i \in 1 .. 5 : n % TimeUnits[i + 1] = (n % TimeUnits[i]) + Count(n, i) * TimeUnits[i]
         /\ n = (n % TimeUnits[6]) + Count(n, 6) * TimeUnits[6]
<1>1. \A i \in 1 .. 6 : TimeUnits[i] \in Nat /\ TimeUnits[i] > 0
  BY TimeUnitsAssumption
<1>2. \A i \in 1 .. 6 : n % TimeUnits[i] \in 0 .. TimeUnits[i] - 1
  BY <1>1, Divided
<1>3. ASSUME NEW i \in 1 .. 5
      PROVE  Count(n, i) \in Nat /\ n % TimeUnits[i + 1] = (n % TimeUnits[i]) + Count(n, i) * TimeUnits[i]
  <2> DEFINE t == TimeUnits[i]
             u == TimeUnits[i + 1]
  <2>1. i \in 1 .. 6 /\ i + 1 \in 1 .. 6 /\ i # 6
    OBVIOUS
  <2>2. t \in Nat /\ t > 0 /\ u \in Nat /\ u > 0 /\ u % t = 0
    BY <2>1, <1>1, TimeUnitsAssumption
  <2>3. Count(n, i) = (n % u) \div t
    BY <2>1 DEF Count
  <2> HIDE DEF t, u
  <2>4. n % u = (n % t) + ((n % u) \div t) * t /\ (n % u) \div t \in Nat
    BY <2>2, RestOfRest
  <2> QED
    BY <2>3, <2>4 DEF t, u
<1>4. Count(n, 6) \in Nat /\ n = (n % TimeUnits[6]) + Count(n, 6) * TimeUnits[6]
  <2> DEFINE t == TimeUnits[6]
             c == n \div t
             r == n % t
  <2>1. t \in Nat /\ t > 0 /\ Count(n, 6) = c
    BY <1>1 DEF Count
  <2> HIDE DEF t
  <2>2. c \in Nat /\ r \in 0 .. t - 1 /\ n = c * t + r
    BY <2>1, Divided
  <2> HIDE DEF c, r
  <2>3. n = r + c * t
    <3>1. c * t \in Nat
      BY <2>1, <2>2
    <3> QED
      BY <3>1, <2>2
  <2> QED
    BY <2>1, <2>2, <2>3 DEF t, c, r
<1>5. \A i \in 1 .. 6 : Count(n, i) \in Nat
  <2>1. \A i \in 1 .. 6 : i = 6 \/ i \in 1 .. 5
    OBVIOUS
  <2> QED
    BY <2>1, <1>3, <1>4
<1>6. \A i \in 1 .. 6 : Count(n, i) * TimeUnits[i] \in Nat
  <2>1. \A x, y \in Nat : x * y \in Nat
    OBVIOUS
  <2> QED
    BY <2>1, <1>1, <1>5
<1> QED
  BY <1>1, <1>2, <1>3, <1>4, <1>5, <1>6

\* Nothing of a duration is lost above its least unit, and every count is below the next unit.
LEMMA DurationShown ==
  ASSUME NEW n \in Nat, NEW text, text = Format(n)
  PROVE  /\ n - Shown(text) \in 0 .. (TimeUnits[LeastShown(n)] - 1)
         /\ \A i \in 1 .. 5 : text[i] * TimeUnits[i] < TimeUnits[i + 1]
<1> DEFINE L == LeastShown(n)
           T(i) == TimeUnits[i]
           R(i) == n % T(i)
           C(i) == Count(n, i) * T(i)
           S(i) == text[i] * T(i)
<1>0. L \in 1 .. 3
  <2>1. L = 3 \/ L = 2 \/ L = 1
    BY DEF LeastShown
  <2> QED
    BY <2>1
<1>1. \A i \in 1 .. 6 : T(i) \in Nat /\ T(i) > 0 /\ R(i) \in 0 .. T(i) - 1 /\ C(i) \in Nat
  BY CountsAre
<1>2. (\A i \in 1 .. 5 : R(i + 1) = R(i) + C(i)) /\ n = R(6) + C(6)
  BY CountsAre
<1>3. \A i \in 1 .. 6 : text[i] = IF i < L THEN 0 ELSE Count(n, i)
  BY DEF Format
<1>4. Shown(text) = S(1) + S(2) + S(3) + S(4) + S(5) + S(6)
  BY DEF Shown
<1>5. \A i \in 1 .. 6 : S(i) = IF i < L THEN 0 ELSE C(i)
  <2> TAKE i \in 1 .. 6
  <2>1. CASE i < L
    <3>1. text[i] = 0 /\ T(i) \in Nat
      BY <2>1, <1>1, <1>3
    <3>2. 0 * T(i) = 0
      BY <3>1
    <3> QED
      BY <3>1, <3>2, <2>1
  <2>2. CASE ~ (i < L)
    BY <2>2, <1>3
  <2> QED
    BY <2>1, <2>2
<1>t. T(L) = TimeUnits[LeastShown(n)]
  OBVIOUS
<1>s. \A i \in 1 .. 5 : S(i) = text[i] * TimeUnits[i] /\ T(i + 1) = TimeUnits[i + 1]
  OBVIOUS
<1> HIDE DEF L, T, R, C, S
<1>6. /\ R(2) = R(1) + C(1) /\ R(3) = R(2) + C(2) /\ R(4) = R(3) + C(3)
      /\ R(5) = R(4) + C(4) /\ R(6) = R(5) + C(5)
  <2>1. /\ 1 \in 1 .. 5 /\ 2 \in 1 .. 5 /\ 3 \in 1 .. 5 /\ 4 \in 1 .. 5 /\ 5 \in 1 .. 5
        /\ 1 + 1 = 2 /\ 2 + 1 = 3 /\ 3 + 1 = 4 /\ 4 + 1 = 5 /\ 5 + 1 = 6
    OBVIOUS
  <2>2. /\ R(1 + 1) = R(1) + C(1) /\ R(2 + 1) = R(2) + C(2) /\ R(3 + 1) = R(3) + C(3)
        /\ R(4 + 1) = R(4) + C(4) /\ R(5 + 1) = R(5) + C(5)
    BY <2>1, <1>2
  <2> QED
    BY <2>1, <2>2
<1>i. \A i \in 1 .. 6 : R(i) \in Nat /\ C(i) \in Nat
  BY <1>1
<1>7. n - Shown(text) = R(L)
  <2>4. S(4) = C(4) /\ S(5) = C(5) /\ S(6) = C(6)
    BY <1>0, <1>5
  <2>1. CASE L = 1
    <3>1. S(1) = C(1) /\ S(2) = C(2) /\ S(3) = C(3)
      BY <2>1, <1>5
    <3> QED
      BY <3>1, <2>1, <2>4, <1>2, <1>4, <1>6, <1>i
  <2>2. CASE L = 2
    <3>1. S(1) = 0 /\ S(2) = C(2) /\ S(3) = C(3)
      BY <2>2, <1>5
    <3> QED
      BY <3>1, <2>2, <2>4, <1>2, <1>4, <1>6, <1>i
  <2>3. CASE L = 3
    <3>1. S(1) = 0 /\ S(2) = 0 /\ S(3) = C(3)
      BY <2>3, <1>5
    <3> QED
      BY <3>1, <2>3, <2>4, <1>2, <1>4, <1>6, <1>i
  <2> QED
    BY <2>1, <2>2, <2>3, <1>0
<1>8. R(L) \in 0 .. T(L) - 1
  <2>1. L \in 1 .. 6
    BY <1>0
  <2> QED
    BY <2>1, <1>1
<1>9. \A i \in 1 .. 5 : S(i) < T(i + 1)
  <2> TAKE i \in 1 .. 5
  <2>1. i \in 1 .. 6 /\ i + 1 \in 1 .. 6
    OBVIOUS
  <2>2. R(i + 1) = R(i) + C(i) /\ R(i + 1) <= T(i + 1) - 1 /\ T(i + 1) \in Nat /\ T(i + 1) > 0
    BY <2>1, <1>1, <1>2
  <2>3. R(i) \in Nat /\ C(i) \in Nat /\ (S(i) = 0 \/ S(i) = C(i))
    BY <2>1, <1>i, <1>5
  <2> QED
    BY <2>2, <2>3
<1> QED
  BY <1>7, <1>8, <1>9, <1>t, <1>s

(* For every divisor above one and every row of units of time each a multiple *)
(* of the one before (1000 and 1024; a microsecond up to a day): what         *)
(* to_human_bytes writes below a thousand terabytes has a suffix and is read  *)
(* back by parse_human_bytes as the same count up to the two decimals shown,  *)
(* and StopWatch::format loses nothing of a duration above its least unit.    *)
THEOREM HumanSoundHolds == HumanTextSpec => []HumanSound
<1> DEFINE Inv == quantity \in Nat
<1>1. HumanTextInit => Inv
  BY DEF HumanTextInit
<1>2. Inv /\ [HumanTextNext]_humantextVars => Inv'
  BY DEF HumanTextNext, humantextVars
<1>3. Inv => HumanSound
  <2> SUFFICES ASSUME quantity \in Nat PROVE HumanSound
    OBVIOUS
  <2>1. ASSUME NEW d \in Divisors, quantity < Multiplier(d, UnitSuffixes)
        PROVE  LET text == ToHumanBytes(quantity, d)
                   back == ParseHumanBytes(text, d)
                   off == IF back > quantity THEN back - quantity ELSE quantity - back
               IN  /\ text.suffix < UnitSuffixes
                   /\ off <= Multiplier(d, text.suffix) \div 200 + 1
                   /\ text.suffix = 0 => back = quantity
    <3> DEFINE text == ToHumanBytes(quantity, d)
               back == ParseHumanBytes(text, d)
               off == IF back > quantity THEN back - quantity ELSE quantity - back
    <3>0. text = ToHumanBytes(quantity, d) /\ back = ParseHumanBytes(text, d)
      OBVIOUS
    <3> SUFFICES /\ text.suffix < UnitSuffixes /\ off <= Multiplier(d, text.suffix) \div 200 + 1
                 /\ text.suffix = 0 => back = quantity
      OBVIOUS
    <3> HIDE DEF text, back
    <3>1. /\ text.suffix < UnitSuffixes /\ back \in Nat
          /\ back - quantity <= Multiplier(d, text.suffix) \div 200 + 1
          /\ quantity - back <= Multiplier(d, text.suffix) \div 200 + 1
          /\ text.suffix = 0 => back = quantity
      BY <2>1, <3>0, BytesReadBack
    <3> QED
      BY <3>1
  <2>2. LET text == Format(quantity)
        IN  /\ quantity - Shown(text) \in 0 .. (TimeUnits[LeastShown(quantity)] - 1)
            /\ \A i \in 1 .. 5 : text[i] * TimeUnits[i] < TimeUnits[i + 1]
    BY DurationShown
  <2> QED
    BY <2>1, <2>2, Zenon DEF HumanSound
<1> QED
  BY <1>1, <1>2, <1>3, PTL DEF HumanTextSpec
=============================================================================
