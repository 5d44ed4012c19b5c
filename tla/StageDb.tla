------------------------------ MODULE StageDb -------------------------------
(* The transactions of the chain database (ROTxn, RWTxn), the rows the sync  *)
(* stages keep in it (stages.cpp, stage.cpp), its schema version             *)
(* (access_layer.cpp) and its tables (mdbx_tables.hpp), through failures and *)
(* crashes.                                                                  *)
(*                                                                           *)
(* MDBX is external: a write transaction works on a copy of the contents     *)
(* that a commit puts in place of the durable ones. The loop that runs the   *)
(* stages is not in the repository; the one here is what the comments of     *)
(* RWTxn and doc/staged_sync.md describe: in order, each up to the target    *)
(* before the next, committing as often as they like, on a transaction of    *)
(* their own or on one that the caller commits after the last stage.         *)
EXTENDS Integers, Sequences

CONSTANTS
  StageNames,       \* the stages in the order they run (part of kAllStages)
  MaxBlock,         \* bound: the highest block
  Versions          \* schema versions a program may ask for: <<Major, Minor, Patch>>

(* A number of 32 bits: BlockNum, and each part of a version. *)
IsWord(n) == n \in Nat /\ n \div 65536 < 65536

ASSUME StageDbAssumption ==
  /\ Len(StageNames) \in Nat \ {0} /\ DOMAIN StageNames = 1..Len(StageNames)
  /\ \A i, j \in 1..Len(StageNames) : StageNames[i] = StageNames[j] => i = j
  /\ IsWord(MaxBlock)
  /\ \A v \in Versions : DOMAIN v = 1..3 /\ \A i \in 1..3 : IsWord(v[i])

VARIABLES
  durable,          \* contents on disk
  view,             \* contents the open transaction sees
  txn,              \* kind of the open transaction
  turn,             \* stage whose turn it is, past the last when all are done
  target            \* height the cycle brings the stages to

stagedbVars == <<durable, view, txn, turn, target>>

Stages == {StageNames[i] : i \in 1..Len(StageNames)}
kChainDataTables == {"Config", "Headers", "Stages"}
Keys == Stages \X {"", "prune_"}     \* a stage's row and the one with the prefix
Heights == 0..MaxBlock

(* Empty database: no table, no row, no version (written as <<>>). *)
NoContents == [tables |-> {}, rows |-> <<>>, version |-> <<>>]

StageDbInit ==
  /\ durable = NoContents /\ view = NoContents
  /\ txn = "none" /\ turn = 1 /\ target = 0

-----------------------------------------------------------------------------
\* Mutant: store_big_u64 in place of store_big_u32.
StoreBig64(n) ==
  <<0, 0, 0, 0, (n \div 16777216) % 256, (n \div 65536) % 256, (n \div 256) % 256, n % 256>>

(* Big-endian words of four bytes, as endian.hpp stores and loads them. *)
StoreBig(n) == <<(n \div 16777216) % 256, (n \div 65536) % 256, (n \div 256) % 256, n % 256>>
LoadBig(b) == b[1] * 16777216 + b[2] * 65536 + b[3] * 256 + b[4]

(* open_map: on a write transaction the table is created when missing. *)
OpenMap(c, table) == [c EXCEPT !.tables = @ \union {table}]

(* A row that is missing counts as height 0. *)
GetStageData(c, key) == IF key \in DOMAIN c.rows THEN LoadBig(c.rows[key]) ELSE 0
SetStageData(c, key, n) ==
  [OpenMap(c, "Stages") EXCEPT
     !.rows = [k \in DOMAIN c.rows \union {key} |-> IF k = key THEN StoreBig(n) ELSE c.rows[k]]]

Progress(c, s) == GetStageData(c, <<s, "">>)
PruneProgress(c, s) == GetStageData(c, <<s, "prune_">>)

ReadSchemaVersion(c) ==
  IF c.version = <<>> THEN <<>>
  ELSE [i \in 1..3 |-> LoadBig(SubSeq(c.version, 4 * i - 3, 4 * i))]

(* The default ordering of Version: Major, then Minor, then Patch. *)
Less(v, w) ==
  \E i \in 1..3 : v[i] < w[i] /\ \A j \in 1..(i - 1) : v[j] = w[j]

-----------------------------------------------------------------------------
Writable == txn \in {"managed", "external"}
InTurn == StageNames[turn]

(* The transaction is gone and whatever it had not committed with it. *)
Gone(contents) ==
  /\ durable' = contents /\ view' = contents
  /\ txn' = "none" /\ turn' = 1 /\ target' = 0

Begin(kind, height) ==
  /\ txn = "none"
  /\ txn' = kind
  /\ view' = durable
  /\ turn' = 1 /\ target' = height
  /\ UNCHANGED durable

(* RWTxn on an environment: its own transaction. *)
BeginManaged ==
  \E h \in Heights : h >= Progress(durable, StageNames[1]) /\ Begin("managed", h)

(* RWTxn on a transaction of the caller. *)
BeginExternal ==
  \E h \in Heights : h >= Progress(durable, StageNames[1]) /\ Begin("external", h)

BeginReadonly == Begin("readonly", 0)

(* get_progress and get_prune_progress open a cursor, which on a write       *)
(* transaction creates the table.                                            *)
GetProgress ==
  /\ Writable
  /\ view' = OpenMap(view, "Stages")
  /\ UNCHANGED <<durable, txn, turn, target>>

(* forward() of the stage in turn takes the next block. A block out of       *)
(* sequence throws kBadChainSequence: see StageFails.                        *)
Forward ==
  /\ Writable /\ turn <= Len(StageNames)
  /\ \E block \in Heights :
       /\ block <= target
       /\ block = Progress(view, InTurn) + 1
       /\ view' = SetStageData(view, <<InTurn, "">>, block)
  /\ UNCHANGED <<durable, txn, turn, target>>

(* prune() of the stage in turn, up to some block it has processed. *)
Prune ==
  /\ Writable /\ turn <= Len(StageNames)
  /\ \E block \in Heights :
       /\ block > PruneProgress(view, InTurn) /\ block <= Progress(view, InTurn)
       /\ view' = SetStageData(view, <<InTurn, "prune_">>, block)
  /\ UNCHANGED <<durable, txn, turn, target>>

(* An exception leaves the stage (a bad sequence, a stop request, a database *)
(* error, a result that is no success) and the transaction is aborted.       *)
StageFails == Writable /\ Gone(durable)

\* Mutant: the external transaction is committed like its own.
StageCommitAlways ==
  /\ Writable
  /\ durable' = view
  /\ UNCHANGED <<view, txn, turn, target>>

(* RWTxn::commit, by a stage at any moment. With an external transaction     *)
(* nothing is committed. With its own: it succeeds and so does the new       *)
(* transaction; or the commit fails and nothing is durable; or only the new  *)
(* one fails, and the caller sees an exception although its data is durable; *)
(* or none is asked for (renew is false), to the same effect on the contents.*)
StageCommit ==
  /\ Writable
  /\ \/ /\ durable' = IF txn = "external" THEN durable ELSE view
        /\ UNCHANGED <<view, txn, turn, target>>
     \/ txn = "managed" /\ Gone(durable)
     \/ txn = "managed" /\ Gone(view)

(* The loop: a stage returns at the target and the next one has its turn. *)
StageReturns ==
  /\ Writable /\ turn <= Len(StageNames)
  /\ Progress(view, InTurn) = target
  /\ turn' = turn + 1
  /\ UNCHANGED <<durable, view, txn, target>>

(* The caller commits its transaction after the last stage, or fails to. *)
CallerCommit ==
  /\ txn = "external" /\ turn > Len(StageNames)
  /\ Gone(view) \/ Gone(durable)

(* The RWTxn or the ROTxn goes out of scope. *)
EndOfScope ==
  /\ txn = "readonly" \/ (txn = "managed" /\ turn > Len(StageNames))
  /\ Gone(durable)

\* Mutant: the check for an older version is missing.
WriteSchemaVersionAny ==
  /\ Writable
  /\ \E v \in Versions :
       view' = [OpenMap(view, "Config") EXCEPT !.version = StoreBig(v[1]) \o StoreBig(v[2]) \o StoreBig(v[3])]
  /\ UNCHANGED <<durable, txn, turn, target>>

(* write_schema_version: nothing on a read only transaction or when the      *)
(* version is there; an older one throws after the table has been opened.    *)
WriteSchemaVersion ==
  /\ txn # "none"
  /\ \E v \in Versions :
       LET prev == ReadSchemaVersion(view)
           opened == OpenMap(view, "Config")
           value == StoreBig(v[1]) \o StoreBig(v[2]) \o StoreBig(v[3])
       IN  view' = IF txn = "readonly" THEN view
                   ELSE IF prev # <<>> /\ (v = prev \/ Less(v, prev)) THEN opened
                   ELSE [opened EXCEPT !.version = value]
  /\ UNCHANGED <<durable, txn, turn, target>>

(* deploy_tables: creates what is missing, throws on a read only one. *)
DeployTables ==
  /\ Writable
  /\ view' = [view EXCEPT !.tables = @ \union kChainDataTables]
  /\ UNCHANGED <<durable, txn, turn, target>>

(* The process dies: what was committed is there when it comes back. *)
Crash == Gone(durable)

StageDbNext ==
  \/ BeginManaged \/ BeginExternal \/ BeginReadonly \/ GetProgress \/ Forward \/ Prune \/ StageFails
  \/ StageCommit \/ StageReturns \/ CallerCommit \/ EndOfScope \/ WriteSchemaVersion
  \/ DeployTables \/ Crash

StageDbSpec == StageDbInit /\ [][StageDbNext]_stagedbVars

-----------------------------------------------------------------------------
Byte == 0..255
Bytes(n) == [1..n -> Byte]
IsContents(c) ==
  /\ c \in [tables : SUBSET kChainDataTables, rows : [DOMAIN c.rows -> Bytes(4)],
            version : {<<>>} \union Bytes(12)]
  /\ DOMAIN c.rows \subseteq Keys

(* The state is well typed. *)
StageDbTypeOK ==
  /\ IsContents(durable) /\ IsContents(view)
  /\ txn \in {"none", "managed", "external", "readonly"}
  /\ turn \in 1..(Len(StageNames) + 1) /\ target \in Heights

NotOlder(c, d) ==
  c.version # <<>> => d.version # <<>> /\ ~Less(ReadSchemaVersion(d), ReadSchemaVersion(c))

Store == INSTANCE StageStore WITH
  Initial <- NoContents, IsContents <- IsContents, NotOlder <- NotOlder,
  store <- durable, pending <- view

(* RWTxn and what the stages write with it implement the abstract store:     *)
(* through failures of a commit, of the renewal after it and of the process, *)
(* changes become durable all together or not at all, and no transaction     *)
(* takes the schema version of the database back (write_schema_version).     *)
StoreImplements == Store!Spec

Ordered(c) ==
  /\ \A i, j \in 1..Len(StageNames) : i < j => Progress(c, StageNames[j]) <= Progress(c, StageNames[i])
  /\ \A s \in Stages : PruneProgress(c, s) <= Progress(c, s)

(* "Running several stages on a handful of blocks atomically" (RWTxn): with  *)
(* an external transaction the recorded progress changes for all stages to   *)
(* the same height at once. And whichever way the cycles run and end, what   *)
(* is on disk never has a stage ahead of the one before it, pruning ahead of *)
(* progress, or a row or a version without its table, at a commit in the     *)
(* middle of a stage too (doc/staged_sync.md:57-59).                         *)
StagesTogether ==
  /\ [](/\ Ordered(durable)
        /\ durable.rows # <<>> => "Stages" \in durable.tables
        /\ durable.version # <<>> => "Config" \in durable.tables)
  /\ [][txn = "external" /\ durable'.rows # durable.rows
        => \A s \in Stages : Progress(durable', s) = target]_stagedbVars

=============================================================================
