---------------------------- MODULE StageDbProofs ---------------------------
(***************************************************************************)
(* Proofs about StageDb for any stages, heights and versions of 32 bits.   *)
(***************************************************************************)
EXTENDS StageDb, SequenceTheorems, TLAPS

-----------------------------------------------------------------------------
(* Words, rows and versions                                                *)

\* A word is stored in four bytes and loaded back unchanged (endian.hpp).
LEMMA WordReadsBack ==
  ASSUME NEW n, IsWord(n)
  PROVE  StoreBig(n) \in Bytes(4) /\ LoadBig(StoreBig(n)) = n
<1> DEFINE a == (n \div 16777216) % 256
           b == (n \div 65536) % 256
           c == (n \div 256) % 256
           d == n % 256
<1>1. n \in Nat /\ n \div 65536 < 65536
  BY SMT DEF IsWord
<1>2. a \in 0..255 /\ b \in 0..255 /\ c \in 0..255 /\ d \in 0..255
  BY <1>1, SMT
<1>3. n = a * 16777216 + b * 65536 + c * 256 + d
  BY <1>1, SMT
<1>4. StoreBig(n) = <<a, b, c, d>>
  BY SMT DEF StoreBig
<1> HIDE DEF a, b, c, d
<1>5. StoreBig(n) \in [1..4 -> Byte]
  BY <1>2, <1>4, SMT DEF Byte
<1> QED
  BY <1>2, <1>3, <1>4, <1>5, SMT DEF LoadBig, Bytes

\* Four bytes are a number.
LEMMA LoadedIsNat ==
  ASSUME NEW b \in Bytes(4)
  PROVE  LoadBig(b) \in Nat
<1>1. b[1] \in Nat /\ b[2] \in Nat /\ b[3] \in Nat /\ b[4] \in Nat
  BY DEF Bytes, Byte
<1>2. ASSUME NEW w \in Nat, NEW x \in Nat, NEW y \in Nat, NEW z \in Nat
      PROVE  w * 16777216 + x * 65536 + y * 256 + z \in Nat
  BY SMT
<1> QED
  BY <1>1, <1>2, SMT DEF LoadBig

\* A function on 1..n is a sequence of that length.
LEMMA FunctionIsSeq ==
  ASSUME NEW S, NEW n \in Nat, NEW f \in [1..n -> S]
  PROVE  f \in Seq(S) /\ Len(f) = n
  OBVIOUS

\* Three words one after the other.
VersionBytes(v) == StoreBig(v[1]) \o StoreBig(v[2]) \o StoreBig(v[3])

\* Any place in the stored version is a number.
LEMMA VersionTyped ==
  ASSUME NEW c, IsContents(c), c.version # <<>>
  PROVE  ReadSchemaVersion(c) \in [1..3 -> Nat]
<1>1. c.version \in [1..12 -> Byte]
  BY DEF IsContents, Bytes
<1>2. ASSUME NEW i \in 1..3
      PROVE  LoadBig(SubSeq(c.version, 4 * i - 3, 4 * i)) \in Nat
  <2> DEFINE s == SubSeq(c.version, 4 * i - 3, 4 * i)
  <2>1. 4 * i - 3 \in Int /\ 4 * i \in Int /\ (4 * i - 3)..(4 * i) \subseteq 1..12
    OBVIOUS
  <2>2. \A j \in (4 * i - 3)..(4 * i) : c.version[j] \in Byte
    BY <1>1, <2>1
  <2>3. s \in Seq(Byte) /\ Len(s) = 4
    BY <2>1, <2>2, SubSeqProperties
  <2>4. s \in [1..4 -> Byte]
    BY <2>3, LenProperties
  <2> HIDE DEF s
  <2> QED
    BY <2>4, LoadedIsNat DEF Bytes, s
<1> QED
  BY <1>2 DEF ReadSchemaVersion

\* A version is read back as it was written (access_layer.cpp).
LEMMA VersionReadsBack ==
  ASSUME NEW v \in Versions, NEW c, c.version = VersionBytes(v)
  PROVE  /\ VersionBytes(v) \in Bytes(12) /\ VersionBytes(v) # <<>>
         /\ \A i \in 1..3 : ReadSchemaVersion(c)[i] = v[i]
<1> DEFINE x == StoreBig(v[1])
           y == StoreBig(v[2])
           z == StoreBig(v[3])
           w == VersionBytes(v)
<1>1. x \in [1..4 -> Byte] /\ y \in [1..4 -> Byte] /\ z \in [1..4 -> Byte]
  BY WordReadsBack, StageDbAssumption DEF Bytes
<1>2. LoadBig(x) = v[1] /\ LoadBig(y) = v[2] /\ LoadBig(z) = v[3]
  BY WordReadsBack, StageDbAssumption
<1>3. w = x \o y \o z
  BY DEF VersionBytes
<1> HIDE DEF x, y, z, w
<1>s. /\ x \in Seq(Byte) /\ y \in Seq(Byte) /\ z \in Seq(Byte)
      /\ Len(x) = 4 /\ Len(y) = 4 /\ Len(z) = 4
  <2>1. \A f \in [1..4 -> Byte] : f \in Seq(Byte) /\ Len(f) = 4
    BY FunctionIsSeq
  <2> QED
    BY <1>1, <2>1
<1>4. /\ w \in Seq(Byte) /\ Len(w) = 12
      /\ \A i \in 1..4 : w[i] = x[i] /\ w[i + 4] = y[i] /\ w[i + 8] = z[i]
  <2> DEFINE u == x \o y
  <2>1. /\ u \in Seq(Byte) /\ Len(u) = 8
        /\ \A i \in 1..8 : u[i] = IF i <= 4 THEN x[i] ELSE y[i - 4]
    <3>1. /\ u \in Seq(Byte) /\ Len(u) = Len(x) + Len(y)
          /\ \A i \in 1..Len(x) + Len(y) : u[i] = IF i <= Len(x) THEN x[i] ELSE y[i - Len(x)]
      BY <1>s, ConcatProperties
    <3> QED
      BY <1>s, <3>1
  <2> HIDE DEF u
  <2>2. /\ w \in Seq(Byte) /\ Len(w) = 12
        /\ \A i \in 1..12 : w[i] = IF i <= 8 THEN u[i] ELSE z[i - 8]
    <3>1. w = u \o z
      BY <1>3 DEF u
    <3>2. /\ w \in Seq(Byte) /\ Len(w) = Len(u) + Len(z)
          /\ \A i \in 1..Len(u) + Len(z) : w[i] = IF i <= Len(u) THEN u[i] ELSE z[i - Len(u)]
      BY <1>s, <2>1, <3>1, ConcatProperties
    <3> QED
      BY <1>s, <2>1, <3>2
  <2>3. ASSUME NEW i \in 1..4
        PROVE  w[i] = x[i] /\ w[i + 4] = y[i] /\ w[i + 8] = z[i]
    <3>1. /\ i \in 1..8 /\ i + 4 \in 1..8 /\ i \in 1..12 /\ i + 4 \in 1..12 /\ i + 8 \in 1..12
          /\ i <= 4 /\ i <= 8 /\ ~(i + 4 <= 4) /\ i + 4 <= 8 /\ ~(i + 8 <= 8)
          /\ (i + 4) - 4 = i /\ (i + 8) - 8 = i
      OBVIOUS
    <3> QED
      BY <2>1, <2>2, <3>1
  <2> QED
    BY <2>2, <2>3
<1>5. w \in [1..12 -> Byte] /\ w # <<>>
  <2>1. w \in [1..Len(w) -> Byte] /\ Len(w) = 12
    BY <1>4, LenProperties
  <2>2. w # <<>>
    <3>1. Len(<<>>) = 0
      BY EmptySeq
    <3>2. Len(w) # 0
      BY <2>1
    <3> QED
      BY <3>1, <3>2, Zenon
  <2> QED
    BY <2>1, <2>2, Zenon
<1>6. SubSeq(w, 1, 4) = x /\ SubSeq(w, 5, 8) = y /\ SubSeq(w, 9, 12) = z
  <2>1. ASSUME NEW s \in Seq(Byte), NEW m \in {0, 4, 8}, Len(s) = 4,
               \A i \in 1..4 : w[i + m] = s[i]
        PROVE  SubSeq(w, m + 1, m + 4) = s
    <3>1. \A i \in (m + 1)..(m + 4) : w[i] \in Byte
      BY <1>5
    <3> DEFINE p == m + 1
               q == m + 4
               t == SubSeq(w, p, q)
    <3>2. p \in Int /\ q \in Int /\ p <= q /\ q - p + 1 = 4 /\ \A i \in 1..4 : p + i - 1 = i + m
      OBVIOUS
    <3> HIDE DEF p, q
    <3>3. /\ t \in Seq(Byte) /\ Len(t) = IF p <= q THEN q - p + 1 ELSE 0
          /\ \A i \in 1..q - p + 1 : t[i] = w[p + i - 1]
      BY <3>1, <3>2, SubSeqProperties DEF p, q
    <3>4. Len(t) = 4 /\ \A i \in 1..4 : t[i] = s[i]
      BY <2>1, <3>2, <3>3
    <3> HIDE DEF t
    <3>5. t = s
      BY <2>1, <3>3, <3>4, SeqEqual
    <3> QED
      BY <3>5 DEF p, q, t
  <2>2. \A i \in 1..4 : w[i + 0] = x[i]
    BY <1>4
  <2>3. SubSeq(w, 0 + 1, 0 + 4) = x /\ SubSeq(w, 4 + 1, 4 + 4) = y /\ SubSeq(w, 8 + 1, 8 + 4) = z
    BY <1>s, <1>4, <2>1, <2>2
  <2> QED
    BY <2>3
<1>7. ReadSchemaVersion(c) = [i \in 1..3 |-> LoadBig(SubSeq(w, 4 * i - 3, 4 * i))]
  BY <1>5 DEF ReadSchemaVersion, w
<1>8. /\ ReadSchemaVersion(c)[1] = LoadBig(SubSeq(w, 1, 4))
      /\ ReadSchemaVersion(c)[2] = LoadBig(SubSeq(w, 5, 8))
      /\ ReadSchemaVersion(c)[3] = LoadBig(SubSeq(w, 9, 12))
  BY <1>7
<1>9. \A i \in 1..3 : i = 1 \/ i = 2 \/ i = 3
  OBVIOUS
<1>10. \A i \in 1..3 : ReadSchemaVersion(c)[i] = v[i]
  BY <1>2, <1>6, <1>8, <1>9
<1> QED
  BY <1>5, <1>10 DEF w, Bytes

\* Contents are records of three fields.
LEMMA Fields ==
  ASSUME NEW c, IsContents(c), NEW x
  PROVE  /\ [c EXCEPT !.tables = x] = [tables |-> x, rows |-> c.rows, version |-> c.version]
         /\ [c EXCEPT !.rows = x] = [tables |-> c.tables, rows |-> x, version |-> c.version]
         /\ [c EXCEPT !.version = x] = [tables |-> c.tables, rows |-> c.rows, version |-> x]
  BY DEF IsContents

\* Writing a row changes what that row reads as and no other, and keeps contents contents.
LEMMA RowWritten ==
  ASSUME NEW c, IsContents(c), NEW key \in Keys, NEW n, IsWord(n),
         NEW d, d = SetStageData(c, key, n)
  PROVE  /\ IsContents(d) /\ d.version = c.version
         /\ d.tables = c.tables \union {"Stages"}
         /\ GetStageData(d, key) = n
         /\ \A k \in Keys \ {key} : GetStageData(d, k) = GetStageData(c, k)
<1> DEFINE rows == [k \in DOMAIN c.rows \union {key} |-> IF k = key THEN StoreBig(n) ELSE c.rows[k]]
<1>1. StoreBig(n) \in Bytes(4) /\ LoadBig(StoreBig(n)) = n
  BY WordReadsBack
<1>o. OpenMap(c, "Stages") = [tables |-> c.tables \union {"Stages"}, rows |-> c.rows, version |-> c.version]
  BY Fields DEF OpenMap
<1>2. /\ d.rows = rows /\ d.tables = c.tables \union {"Stages"} /\ d.version = c.version
      /\ d = [tables |-> d.tables, rows |-> d.rows, version |-> d.version]
  <2> HIDE DEF rows
  <2>1. d = [OpenMap(c, "Stages") EXCEPT !.rows = rows]
    BY DEF SetStageData, rows
  <2> QED
    BY <1>o, <2>1
<1>3. rows \in [DOMAIN rows -> Bytes(4)] /\ DOMAIN rows = DOMAIN c.rows \union {key}
  BY <1>1 DEF IsContents
<1>4. GetStageData(d, key) = n
  BY <1>1, <1>2 DEF GetStageData
<1>5. ASSUME NEW k \in Keys \ {key}
      PROVE  GetStageData(d, k) = GetStageData(c, k)
  BY <1>2 DEF GetStageData
<1>6. IsContents(d)
  <2> HIDE DEF rows
  <2> QED
    BY <1>2, <1>3 DEF IsContents, kChainDataTables
<1> QED
  BY <1>2, <1>4, <1>5, <1>6

\* What a row reads as is a height.
LEMMA RowTyped ==
  ASSUME NEW c, IsContents(c), NEW key
  PROVE  GetStageData(c, key) \in Nat
  BY LoadedIsNat DEF IsContents, GetStageData

\* Contents with the same rows have the same heights.
LEMMA SameRows ==
  ASSUME NEW c, NEW d, d.rows = c.rows
  PROVE  \A key : GetStageData(d, key) = GetStageData(c, key)
  BY DEF GetStageData

\* The keys of the rows of a stage.
LEMMA StageKeys ==
  ASSUME NEW s \in Stages
  PROVE  <<s, "">> \in Keys /\ <<s, "prune_">> \in Keys
  BY DEF Keys

-----------------------------------------------------------------------------
(* The invariant: both contents are in order and have their tables, only a *)
(* write transaction sees more than is durable, and within a cycle the     *)
(* stages before the one in turn are at the target and none is above it.   *)

Tabled(c) ==
  /\ c.rows # <<>> => "Stages" \in c.tables
  /\ c.version # <<>> => "Config" \in c.tables

Good(c) == IsContents(c) /\ Ordered(c) /\ Tabled(c)

InCycle(c) ==
  /\ \A s \in Stages : Progress(c, s) <= target
  /\ \A i \in 1..Len(StageNames) : i < turn => Progress(c, StageNames[i]) = target

StageInv ==
  /\ StageDbTypeOK /\ Good(durable) /\ Good(view)
  /\ txn \in {"none", "readonly"} => view = durable
  /\ Writable => InCycle(view)

\* What an external transaction makes durable brings all stages to the target.
Together ==
  txn = "external" /\ durable'.rows # durable.rows => \A s \in Stages : Progress(durable', s) = target

StoreStep == [Store!Next]_<<durable, view>>

\* The same version is not older.
LEMMA SameVersion ==
  ASSUME NEW c, IsContents(c), NEW d, d.version = c.version
  PROVE  NotOlder(c, d)
<1> SUFFICES ASSUME c.version # <<>>
             PROVE  ~Less(ReadSchemaVersion(c), ReadSchemaVersion(c))
  BY DEF NotOlder, ReadSchemaVersion
<1>1. ReadSchemaVersion(c) \in [1..3 -> Nat]
  BY VersionTyped
<1> QED
  BY <1>1 DEF Less

\* A change of what the transaction sees is a step of the abstract store.
LEMMA Changed ==
  ASSUME StageInv, Writable, Good(view'), NotOlder(view, view'), InCycle(view'),
         UNCHANGED <<durable, txn, turn, target>>
  PROVE  StageInv' /\ StoreStep /\ Together
<1>1. StageInv'
  BY DEF StageInv, StageDbTypeOK, Good, InCycle, Writable
<1>2. StoreStep
  BY DEF StoreStep, Store!Next, Store!Change, Good
<1>3. Together
  BY DEF Together
<1> QED
  BY <1>1, <1>2, <1>3

\* A change of the tables or of the version alone.
LEMMA ChangedBeside ==
  ASSUME StageInv, Writable, IsContents(view'), Tabled(view'), view'.rows = view.rows,
         NotOlder(view, view'), UNCHANGED <<durable, txn, turn, target>>
  PROVE  StageInv' /\ StoreStep /\ Together
<1>1. \A s : Progress(view', s) = Progress(view, s) /\ PruneProgress(view', s) = PruneProgress(view, s)
  BY SameRows DEF Progress, PruneProgress
<1>2. Good(view') /\ InCycle(view')
  BY <1>1 DEF StageInv, Good, InCycle, Writable, Ordered
<1> QED
  BY <1>2, Changed

\* The end of a transaction keeps the durable contents or publishes all it had done.
LEMMA Ended ==
  ASSUME StageInv, view' = durable', txn' = "none", turn' = 1, target' = 0,
         durable' = durable \/ (durable' = view /\ (txn = "external" => turn > Len(StageNames)))
  PROVE  StageInv' /\ StoreStep /\ Together
<1>1. /\ view' = durable' /\ (durable' = durable \/ durable' = view)
      /\ txn' = "none" /\ turn' = 1 /\ target' = 0
  OBVIOUS
<1>2. Good(durable') /\ Good(view')
  BY <1>1 DEF StageInv
<1>3. StageDbTypeOK'
  BY <1>1, <1>2, StageDbAssumption DEF StageDbTypeOK, Good, Heights, IsWord
<1>4. StageInv'
  BY <1>1, <1>2, <1>3 DEF StageInv, Writable
<1>5. StoreStep
  BY <1>1 DEF StoreStep, Store!Next, Store!Publish, Store!Lose
<1>6. Together
  <2> SUFFICES ASSUME txn = "external", durable'.rows # durable.rows, NEW s \in Stages
               PROVE  Progress(durable', s) = target
    BY DEF Together
  <2>1. durable' = view /\ turn > Len(StageNames)
    OBVIOUS
  <2>2. PICK i \in 1..Len(StageNames) : s = StageNames[i]
    BY DEF Stages
  <2>3. i < turn
    BY <2>1, StageDbAssumption DEF StageInv, StageDbTypeOK
  <2> QED
    BY <2>1, <2>2, <2>3 DEF StageInv, InCycle, Writable
<1> QED
  BY <1>4, <1>5, <1>6

-----------------------------------------------------------------------------
\* A height is a number of 32 bits.
LEMMA HeightIsWord ==
  ASSUME NEW n \in Heights
  PROVE  IsWord(n)
<1>1. MaxBlock \in Nat /\ MaxBlock \div 65536 < 65536
  BY StageDbAssumption, SMT DEF IsWord
<1>2. n \in Nat /\ n <= MaxBlock
  BY <1>1, SMT DEF Heights
<1> QED
  BY <1>1, <1>2, SMT DEF IsWord

\* The stage in turn is one of the stages, at its own place alone.
LEMMA StageInTurn ==
  ASSUME StageDbTypeOK, turn <= Len(StageNames)
  PROVE  /\ InTurn \in Stages /\ turn \in 1..Len(StageNames)
         /\ \A i \in 1..Len(StageNames) : StageNames[i] = InTurn <=> i = turn
<1>1. turn \in 1..Len(StageNames)
  BY StageDbAssumption DEF StageDbTypeOK
<1> QED
  BY <1>1, StageDbAssumption DEF InTurn, Stages

\* Taking the next block keeps the order of the stages and the cycle.
LEMMA Forwarded ==
  ASSUME StageInv, Forward
  PROVE  StageInv' /\ StoreStep /\ Together
<1>1. Writable /\ turn <= Len(StageNames) /\ UNCHANGED <<durable, txn, turn, target>>
  BY DEF Forward
<1>2. PICK block \in Heights : /\ block <= target /\ block = Progress(view, InTurn) + 1
                               /\ view' = SetStageData(view, <<InTurn, "">>, block)
  BY DEF Forward
<1>s. /\ InTurn \in Stages /\ turn \in 1..Len(StageNames)
      /\ \A i \in 1..Len(StageNames) : StageNames[i] = InTurn <=> i = turn
  BY <1>1, StageInTurn DEF StageInv
<1>3. /\ IsContents(view') /\ view'.version = view.version
      /\ view'.tables = view.tables \union {"Stages"}
      /\ GetStageData(view', <<InTurn, "">>) = block
      /\ \A k \in Keys \ {<<InTurn, "">>} : GetStageData(view', k) = GetStageData(view, k)
  <2>1. IsContents(view) /\ <<InTurn, "">> \in Keys /\ IsWord(block)
    BY <1>s, HeightIsWord, StageKeys DEF StageInv, Good
  <2> DEFINE key == <<InTurn, "">>
             d == view'
  <2>2. IsContents(view) /\ key \in Keys /\ IsWord(block) /\ d = SetStageData(view, key, block)
    BY <1>2, <2>1
  <2>3. /\ IsContents(d) /\ d.version = view.version /\ d.tables = view.tables \union {"Stages"}
        /\ GetStageData(d, key) = block
        /\ \A k \in Keys \ {key} : GetStageData(d, k) = GetStageData(view, k)
    <3> HIDE DEF key, d
    <3> QED
      BY <2>2, RowWritten
  <2> QED
    BY <2>3
<1>4. Progress(view', InTurn) = block
  BY <1>3 DEF Progress
<1>5. \A s \in Stages : s # InTurn => Progress(view', s) = Progress(view, s)
  BY <1>3, StageKeys DEF Progress
<1>6. \A s \in Stages : PruneProgress(view', s) = PruneProgress(view, s)
  BY <1>3, StageKeys DEF PruneProgress
<1>7. \A s \in Stages : Progress(view, s) \in Nat /\ PruneProgress(view, s) \in Nat
  BY RowTyped DEF StageInv, Good, Progress, PruneProgress
<1>8. \A i \in 1..Len(StageNames) : StageNames[i] \in Stages
  BY DEF Stages
<1>9. InCycle(view')
  <2>1. \A s \in Stages : Progress(view', s) <= target
    BY <1>1, <1>2, <1>4, <1>5 DEF StageInv, InCycle
  <2>2. \A i \in 1..Len(StageNames) : i < turn => Progress(view', StageNames[i]) = target
    BY <1>1, <1>s, <1>5, <1>8 DEF StageInv, InCycle
  <2> QED
    BY <2>1, <2>2 DEF InCycle
<1>10. Ordered(view')
  <2>1. ASSUME NEW i \in 1..Len(StageNames), NEW j \in 1..Len(StageNames), i < j
        PROVE  Progress(view', StageNames[j]) <= Progress(view', StageNames[i])
    <3>0. /\ Progress(view, StageNames[j]) <= Progress(view, StageNames[i])
          /\ Progress(view, StageNames[i]) \in Nat /\ Progress(view, StageNames[j]) \in Nat
      BY <1>7, <1>8, <2>1 DEF StageInv, Good, Ordered
    <3>1. CASE i = turn
      <4>1. StageNames[i] = InTurn /\ StageNames[j] # InTurn
        BY <1>s, <2>1, <3>1
      <4> QED
        <5>1. /\ Progress(view', StageNames[i]) = Progress(view, StageNames[i]) + 1
              /\ Progress(view', StageNames[j]) = Progress(view, StageNames[j])
          BY <1>2, <1>4, <1>5, <1>8, <4>1
        <5> QED
          BY <3>0, <5>1
    <3>2. CASE j = turn
      <4>1. StageNames[j] = InTurn /\ StageNames[i] # InTurn /\ Progress(view', StageNames[i]) = target
        BY <1>s, <1>9, <2>1, <3>2 DEF InCycle
      <4> QED
        BY <1>2, <1>4, <4>1
    <3>3. CASE i # turn /\ j # turn
      <4>1. StageNames[j] # InTurn /\ StageNames[i] # InTurn
        BY <1>s, <3>3
      <4> QED
        BY <1>5, <1>8, <3>0, <4>1
    <3> QED
      BY <3>1, <3>2, <3>3
  <2>2. ASSUME NEW s \in Stages
        PROVE  PruneProgress(view', s) <= Progress(view', s)
    <3>1. PruneProgress(view, s) <= Progress(view, s)
      BY DEF StageInv, Good, Ordered
    <3>2. /\ PruneProgress(view', s) = PruneProgress(view, s)
          /\ Progress(view', s) = Progress(view, s) \/ Progress(view', s) = Progress(view, s) + 1
      BY <1>2, <1>4, <1>5, <1>6
    <3>3. Progress(view, s) \in Nat /\ PruneProgress(view, s) \in Nat
      BY <1>7
    <3> QED
      BY <3>1, <3>2, <3>3
  <2> QED
    BY <2>1, <2>2 DEF Ordered
<1>11. Tabled(view')
  BY <1>3 DEF Tabled, StageInv, Good
<1>12. NotOlder(view, view')
  BY <1>3, SameVersion DEF StageInv, Good
<1> QED
  BY <1>1, <1>3, <1>9, <1>10, <1>11, <1>12, Changed DEF Good

\* Pruning up to a block that has been processed touches no progress.
LEMMA Pruned ==
  ASSUME StageInv, Prune
  PROVE  StageInv' /\ StoreStep /\ Together
<1>1. Writable /\ turn <= Len(StageNames) /\ UNCHANGED <<durable, txn, turn, target>>
  BY DEF Prune
<1>2. PICK block \in Heights : /\ block <= Progress(view, InTurn)
                               /\ view' = SetStageData(view, <<InTurn, "prune_">>, block)
  BY DEF Prune
<1>s. InTurn \in Stages
  BY <1>1, StageInTurn DEF StageInv
<1>3. /\ IsContents(view') /\ view'.version = view.version
      /\ view'.tables = view.tables \union {"Stages"}
      /\ GetStageData(view', <<InTurn, "prune_">>) = block
      /\ \A k \in Keys \ {<<InTurn, "prune_">>} : GetStageData(view', k) = GetStageData(view, k)
  <2>1. IsContents(view) /\ <<InTurn, "prune_">> \in Keys /\ IsWord(block)
    BY <1>s, HeightIsWord, StageKeys DEF StageInv, Good
  <2> QED
    BY <1>2, <2>1, RowWritten
<1>4. PruneProgress(view', InTurn) = block
  BY <1>3 DEF PruneProgress
<1>5. \A s \in Stages : s # InTurn => PruneProgress(view', s) = PruneProgress(view, s)
  BY <1>3, StageKeys DEF PruneProgress
<1>6. \A s \in Stages : Progress(view', s) = Progress(view, s)
  BY <1>3, StageKeys DEF Progress
<1>8. \A i \in 1..Len(StageNames) : StageNames[i] \in Stages
  BY DEF Stages
<1>9. InCycle(view')
  BY <1>1, <1>6, <1>8 DEF StageInv, InCycle
<1>10. Ordered(view')
  BY <1>2, <1>4, <1>5, <1>6, <1>8 DEF StageInv, Good, Ordered
<1>11. Tabled(view')
  BY <1>3 DEF Tabled, StageInv, Good
<1>12. NotOlder(view, view')
  BY <1>3, SameVersion DEF StageInv, Good
<1> QED
  BY <1>1, <1>3, <1>9, <1>10, <1>11, <1>12, Changed DEF Good

\* A version that is written is no older than the one that was there.
LEMMA VersionWritten ==
  ASSUME StageInv, WriteSchemaVersion
  PROVE  StageInv' /\ StoreStep /\ Together
<1> DEFINE prev == ReadSchemaVersion(view)
           opened == OpenMap(view, "Config")
<1>1. txn # "none" /\ UNCHANGED <<durable, txn, turn, target>>
  BY DEF WriteSchemaVersion
<1>2. PICK v \in Versions :
        view' = IF txn = "readonly" THEN view
                ELSE IF prev # <<>> /\ (v = prev \/ Less(v, prev)) THEN opened
                ELSE [opened EXCEPT !.version = VersionBytes(v)]
  BY DEF WriteSchemaVersion, VersionBytes
<1>c. IsContents(view) /\ Tabled(view)
  BY DEF StageInv, Good
<1>o. opened = [tables |-> view.tables \union {"Config"}, rows |-> view.rows, version |-> view.version]
  BY <1>c, Fields DEF OpenMap
<1> HIDE DEF opened, prev
<1>3. CASE txn = "readonly"
  <2>1. UNCHANGED stagedbVars
    BY <1>1, <1>2, <1>3 DEF stagedbVars
  <2> QED
    BY <2>1
    DEF stagedbVars, StageInv, StageDbTypeOK, Writable, InCycle, Together, StoreStep
<1>4. CASE Writable /\ view' = opened
  <2>1. IsContents(view') /\ Tabled(view') /\ view'.rows = view.rows /\ view'.version = view.version
    BY <1>c, <1>o, <1>4 DEF IsContents, Tabled, kChainDataTables
  <2> QED
    BY <1>1, <1>4, <1>c, <2>1, SameVersion, ChangedBeside
<1>5. CASE /\ Writable /\ view' = [opened EXCEPT !.version = VersionBytes(v)]
           /\ ~(prev # <<>> /\ (v = prev \/ Less(v, prev)))
  <2>1. view' = [tables |-> view.tables \union {"Config"}, rows |-> view.rows, version |-> VersionBytes(v)]
    BY <1>o, <1>5
  <2>2. view'.version = VersionBytes(v)
    BY <2>1
  <2>3. /\ VersionBytes(v) \in Bytes(12) /\ VersionBytes(v) # <<>>
        /\ \A i \in 1..3 : ReadSchemaVersion(view')[i] = v[i]
    BY <2>2, VersionReadsBack
  <2>4. IsContents(view') /\ Tabled(view') /\ view'.rows = view.rows
    BY <1>c, <2>1, <2>3 DEF IsContents, Tabled, kChainDataTables
  <2>5. NotOlder(view, view')
    <3> SUFFICES ASSUME view.version # <<>>
                 PROVE  ~Less(ReadSchemaVersion(view'), prev)
      BY <2>2, <2>3 DEF NotOlder, prev
    <3>1. prev \in [1..3 -> Nat]
      BY <1>c, VersionTyped DEF prev
    <3>2. prev # <<>>
      BY <3>1, Z3
    <3>3. ~Less(v, prev)
      BY <1>5, <3>2
    <3>4. Less(ReadSchemaVersion(view'), prev) => Less(v, prev)
      BY <2>3 DEF Less
    <3> QED
      BY <3>3, <3>4
  <2> QED
    BY <1>1, <1>5, <2>4, <2>5, ChangedBeside
<1> QED
  BY <1>1, <1>2, <1>3, <1>4, <1>5 DEF Writable, StageInv, StageDbTypeOK

-----------------------------------------------------------------------------
(* The steps together                                                      *)

\* A new transaction sees what is durable, and asks for no less than that.
LEMMA Begun ==
  ASSUME StageInv, NEW kind \in {"managed", "external", "readonly"}, NEW h \in Heights, Begin(kind, h),
         kind # "readonly" => h >= Progress(durable, StageNames[1])
  PROVE  StageInv' /\ StoreStep /\ Together
<1>1. view' = durable /\ durable' = durable /\ txn' = kind /\ turn' = 1 /\ target' = h
  BY DEF Begin
<1>2. StageDbTypeOK'
  BY <1>1, StageDbAssumption DEF StageInv, StageDbTypeOK
<1>3. ASSUME kind # "readonly"
      PROVE  InCycle(view)'
  <2>1. ASSUME NEW s \in Stages
        PROVE  Progress(durable, s) <= h
    <3>1. PICK i \in 1..Len(StageNames) : s = StageNames[i]
      BY DEF Stages
    <3>2. 1 \in 1..Len(StageNames) /\ StageNames[1] \in Stages
      BY StageDbAssumption DEF Stages
    <3>3. Progress(durable, s) \in Nat /\ Progress(durable, StageNames[1]) \in Nat
      BY RowTyped DEF StageInv, Good, Progress
    <3>4. Progress(durable, s) <= Progress(durable, StageNames[1])
      BY <3>1, <3>2, <3>3 DEF StageInv, Good, Ordered
    <3>5. h \in Nat
      BY HeightIsWord DEF IsWord
    <3> QED
      BY <1>3, <3>3, <3>4, <3>5
  <2>2. \A i \in 1..Len(StageNames) : ~(i < 1)
    BY StageDbAssumption
  <2> QED
    BY <1>1, <2>1, <2>2 DEF InCycle
<1>4. StageInv'
  BY <1>1, <1>2, <1>3 DEF StageInv, Writable
<1>5. StoreStep
  BY <1>1 DEF StoreStep, Store!Next, Store!Lose
<1>6. Together
  BY <1>1 DEF Together
<1> QED
  BY <1>4, <1>5, <1>6

\* Opening or creating tables touches neither rows nor version.
LEMMA Opened ==
  ASSUME StageInv, GetProgress \/ DeployTables
  PROVE  StageInv' /\ StoreStep /\ Together
<1>1. PICK more \in SUBSET kChainDataTables : view' = [view EXCEPT !.tables = @ \union more]
  BY DEF GetProgress, DeployTables, OpenMap, kChainDataTables
<1>2. IsContents(view) /\ Tabled(view)
  BY DEF StageInv, Good
<1>3. view' = [tables |-> view.tables \union more, rows |-> view.rows, version |-> view.version]
  BY <1>1, <1>2, Fields
<1>4. IsContents(view') /\ Tabled(view') /\ view'.rows = view.rows /\ view'.version = view.version
  BY <1>2, <1>3 DEF IsContents, Tabled
<1>5. Writable /\ UNCHANGED <<durable, txn, turn, target>>
  BY DEF GetProgress, DeployTables
<1> QED
  BY <1>2, <1>4, <1>5, SameVersion, ChangedBeside

\* A commit in mid-cycle: nothing with an external transaction, all or nothing with its own.
LEMMA Committed ==
  ASSUME StageInv, StageCommit
  PROVE  StageInv' /\ StoreStep /\ Together
<1>1. CASE /\ Writable
           /\ durable' = IF txn = "external" THEN durable ELSE view
           /\ UNCHANGED <<view, txn, turn, target>>
  <2>1. StageInv'
    BY <1>1 DEF StageInv, StageDbTypeOK, Writable, InCycle
  <2>2. StoreStep
    BY <1>1 DEF StoreStep, Store!Next, Store!Publish
  <2>3. Together
    BY <1>1 DEF Together
  <2> QED
    BY <2>1, <2>2, <2>3
<1>2. CASE txn = "managed" /\ (Gone(durable) \/ Gone(view))
  BY <1>2, Ended DEF Gone
<1> QED
  BY <1>1, <1>2 DEF StageCommit

\* The next stage has its turn when the one before is at the target.
LEMMA Returned ==
  ASSUME StageInv, StageReturns
  PROVE  StageInv' /\ StoreStep /\ Together
<1>1. /\ Writable /\ turn <= Len(StageNames) /\ Progress(view, InTurn) = target
      /\ turn' = turn + 1 /\ UNCHANGED <<durable, view, txn, target>>
  BY DEF StageReturns
<1>2. turn' \in 1..(Len(StageNames) + 1)
  BY <1>1, StageDbAssumption DEF StageInv, StageDbTypeOK
<1>3. StageDbTypeOK'
  BY <1>1, <1>2 DEF StageInv, StageDbTypeOK
<1>4. InCycle(view)'
  <2>1. \A s \in Stages : Progress(view, s) <= target
    BY <1>1 DEF StageInv, InCycle
  <2>2. ASSUME NEW i \in 1..Len(StageNames), i < turn + 1
        PROVE  Progress(view, StageNames[i]) = target
    <3>1. i < turn \/ i = turn
      BY <2>2 DEF StageInv, StageDbTypeOK
    <3> QED
      BY <1>1, <3>1 DEF StageInv, InCycle, InTurn
  <2> QED
    BY <1>1, <2>1, <2>2 DEF InCycle
<1>5. StageInv'
  BY <1>1, <1>3, <1>4 DEF StageInv, Writable
<1> QED
  BY <1>1, <1>5 DEF StoreStep, Together

\* Every step keeps the invariant, is one of the abstract store and moves stages together.
LEMMA Stepped ==
  ASSUME StageInv, [StageDbNext]_stagedbVars
  PROVE  StageInv' /\ StoreStep /\ Together
<1>1. CASE BeginManaged
  BY <1>1, Begun DEF BeginManaged
<1>2. CASE BeginExternal
  BY <1>2, Begun DEF BeginExternal
<1>3. CASE BeginReadonly
  <2>1. 0 \in Heights
    BY StageDbAssumption, SMT DEF Heights, IsWord
  <2> QED
    BY <1>3, <2>1, Begun DEF BeginReadonly
<1>4. CASE GetProgress \/ DeployTables
  BY <1>4, Opened
<1>5. CASE Forward
  BY <1>5, Forwarded
<1>6. CASE Prune
  BY <1>6, Pruned
<1>7. CASE StageFails \/ EndOfScope \/ Crash
  BY <1>7, Ended DEF StageFails, EndOfScope, Crash, Gone
<1>8. CASE CallerCommit
  BY <1>8, Ended DEF CallerCommit, Gone
<1>9. CASE StageCommit
  BY <1>9, Committed
<1>10. CASE WriteSchemaVersion
  BY <1>10, VersionWritten
<1>11. CASE StageReturns
  BY <1>11, Returned
<1>12. CASE UNCHANGED stagedbVars
  BY <1>12 DEF stagedbVars, StageInv, StageDbTypeOK, Writable, InCycle, Together, StoreStep
<1> QED
  BY <1>1, <1>2, <1>3, <1>4, <1>5, <1>6, <1>7, <1>8, <1>9, <1>10, <1>11, <1>12
  DEF StageDbNext

\* An empty database has no rows, no version and all stages at height 0.
LEMMA Started ==
  ASSUME StageDbInit
  PROVE  StageInv
<1>1. DOMAIN <<>> = {}
  OBVIOUS
<1>2. IsContents(NoContents)
  BY <1>1 DEF IsContents, NoContents
<1>3. \A s : Progress(NoContents, s) = 0 /\ PruneProgress(NoContents, s) = 0
  BY <1>1 DEF Progress, PruneProgress, GetStageData, NoContents
<1>4. Ordered(NoContents) /\ Tabled(NoContents)
  BY <1>3 DEF Ordered, Tabled, NoContents
<1>5. 0 \in Heights /\ 1 \in 1..(Len(StageNames) + 1)
  BY StageDbAssumption, SMT DEF Heights, IsWord
<1> QED
  BY <1>2, <1>4, <1>5 DEF StageDbInit, StageInv, StageDbTypeOK, Good, Writable

LEMMA StageInvariant == StageDbSpec => []StageInv
<1>1. StageDbInit => StageInv
  BY Started
<1>2. StageInv /\ [StageDbNext]_stagedbVars => StageInv'
  BY Stepped
<1> QED
  BY <1>1, <1>2, PTL DEF StageDbSpec

-----------------------------------------------------------------------------
(* The theorems                                                            *)

\* The rows and the version stay within their bytes, whatever the stages write and however
\* their transactions end (stages.cpp, access_layer.cpp, RWTxn).
THEOREM StageTypes == StageDbSpec => []StageDbTypeOK
<1>1. StageInv => StageDbTypeOK
  BY DEF StageInv
<1> QED
  BY <1>1, StageInvariant, PTL

\* RWTxn, the stages and write_schema_version implement the abstract store: changes become
\* durable as a whole or not at all and no transaction takes the schema version back.
THEOREM Implements == StageDbSpec => StoreImplements
<1>1. StageDbInit => Store!Init
  BY DEF StageDbInit, Store!Init
<1>2. StageInv /\ [StageDbNext]_stagedbVars => [Store!Next]_<<durable, view>>
  BY Stepped DEF StoreStep
<1> QED
  BY <1>1, <1>2, StageInvariant, PTL DEF StageDbSpec, StoreImplements, Store!Spec

\* What is on disk is never out of the order of the stages, and an external transaction
\* (RWTxn) brings all stages to one height at once.
THEOREM StagesInStep == StageDbSpec => StagesTogether
<1> DEFINE OnDisk == /\ Ordered(durable)
                     /\ durable.rows # <<>> => "Stages" \in durable.tables
                     /\ durable.version # <<>> => "Config" \in durable.tables
           Moved == txn = "external" /\ durable'.rows # durable.rows
                    => \A s \in Stages : Progress(durable', s) = target
<1>1. StageInv => OnDisk
  BY DEF StageInv, Good, Tabled
<1>2. StageInv /\ [StageDbNext]_stagedbVars => [Moved]_stagedbVars
  BY Stepped DEF Together
<1>3. StageDbSpec => []OnDisk
  BY <1>1, StageInvariant, PTL
<1>4. StageDbSpec => [][Moved]_stagedbVars
  BY <1>2, StageInvariant, PTL DEF StageDbSpec
<1> QED
  BY <1>3, <1>4 DEF StagesTogether
=============================================================================
