----------------------------- MODULE LogBuffer ------------------------------
(* The log (log.cpp, log.hpp): lines built by several threads, each kept or  *)
(* dropped by the verbosity when it was begun, and written to the console    *)
(* and to the file under one mutex. The settings change only while no line   *)
(* is being built, as the notes in log.hpp ask. A line is its thread, level  *)
(* and number; colours and time stamps are left out.                         *)
EXTENDS Integers, Sequences, SequencesExt

CONSTANTS
  LogThreads,
  Levels,           \* 0 is kNone; higher is less severe
  LineBound         \* bound: lines begun

VARIABLES
  verbosity,        \* settings_.log_verbosity
  out_mtx,          \* the thread that holds it, or NoThread
  line,             \* per thread: the line it builds, or NoLine
  lpc,              \* per thread: where its flush is
  console, file,    \* lines written
  teeing,           \* file_ is open
  teedFrom,         \* lines on the console when the file was opened (history)
  begun, expected   \* lines begun; those due on the console (history)

logbufferVars == <<verbosity, out_mtx, line, lpc, console, file, teeing, teedFrom, begun, expected>>

NoThread == "nobody"
NoLine == <<>>

ASSUME LogBufferAssumption == NoThread \notin LogThreads /\ LineBound \in Nat

LogBufferInit ==
  /\ verbosity \in Levels /\ out_mtx = NoThread
  /\ line = [t \in LogThreads |-> NoLine] /\ lpc = [t \in LogThreads |-> "idle"]
  /\ console = <<>> /\ file = <<>> /\ teeing = FALSE /\ teedFrom = 0
  /\ begun = 0 /\ expected = {}

Quiet == \A t \in LogThreads : lpc[t] = "idle"

SetVerbosity(level) ==
  /\ Quiet /\ verbosity' = level
  /\ UNCHANGED <<out_mtx, line, lpc, console, file, teeing, teedFrom, begun, expected>>

(* tee_file: appends to a new file, or leaves none when it cannot be opened. *)
TeeFile(ok) ==
  /\ Quiet /\ file = <<>>
  /\ teeing' = ok /\ teedFrom' = Len(console)
  /\ UNCHANGED <<verbosity, out_mtx, line, lpc, console, file, begun, expected>>

TestVerbosity(level) == level <= verbosity

(* A LogBuffer is built; one that should not print does nothing any more. *)
BeginLine(t, level) ==
  /\ lpc[t] = "idle" /\ begun < LineBound
  /\ begun' = begun + 1
  /\ LET l == <<t, level, begun'>>
     IN  IF TestVerbosity(level)
         THEN /\ line' = [line EXCEPT ![t] = l] /\ lpc' = [lpc EXCEPT ![t] = "flush"]
              /\ expected' = expected \union {l}
         ELSE UNCHANGED <<line, lpc, expected>>
  /\ UNCHANGED <<verbosity, out_mtx, console, file, teeing, teedFrom>>

\* Mutant: the line is written without the mutex.
FlushUnlocked(t) ==
  /\ lpc[t] = "flush"
  /\ lpc' = [lpc EXCEPT ![t] = "console"]
  /\ UNCHANGED <<verbosity, out_mtx, line, console, file, teeing, teedFrom, begun, expected>>

(* flush, from the destructor: the lock, the console, the file. *)
FlushLock(t) ==
  /\ lpc[t] = "flush" /\ out_mtx = NoThread
  /\ out_mtx' = t /\ lpc' = [lpc EXCEPT ![t] = "console"]
  /\ UNCHANGED <<verbosity, line, console, file, teeing, teedFrom, begun, expected>>

FlushConsole(t) ==
  /\ lpc[t] = "console"
  /\ console' = Append(console, line[t]) /\ lpc' = [lpc EXCEPT ![t] = "file"]
  /\ UNCHANGED <<verbosity, out_mtx, line, file, teeing, teedFrom, begun, expected>>

FlushFile(t) ==
  /\ lpc[t] = "file"
  /\ file' = IF teeing THEN Append(file, line[t]) ELSE file
  /\ out_mtx' = NoThread
  /\ line' = [line EXCEPT ![t] = NoLine] /\ lpc' = [lpc EXCEPT ![t] = "idle"]
  /\ UNCHANGED <<verbosity, console, teeing, teedFrom, begun, expected>>

LogBufferNext ==
  \/ \E t \in LogThreads :
       FlushLock(t) \/ FlushConsole(t) \/ FlushFile(t) \/ \E level \in Levels : BeginLine(t, level)
  \/ \E level \in Levels : SetVerbosity(level)
  \/ \E ok \in BOOLEAN : TeeFile(ok)

LogBufferSpec == LogBufferInit /\ [][LogBufferNext]_logbufferVars

-----------------------------------------------------------------------------
Lines == LogThreads \X Levels \X (1..LineBound)

(* The state is well typed. *)
LogBufferTypeOK ==
  /\ verbosity \in Levels /\ out_mtx \in LogThreads \union {NoThread} /\ teeing \in BOOLEAN
  /\ lpc \in [LogThreads -> {"idle", "flush", "console", "file"}]
  /\ line \in [LogThreads -> Lines \union {NoLine}]
  /\ console \in Seq(Lines) /\ file \in Seq(Lines) /\ expected \subseteq Lines
  /\ begun \in 0..LineBound /\ teedFrom \in 0..Len(console)

(* Whenever nobody is writing, the file holds what the console got since it  *)
(* was opened, in the same order; every line that was to be printed is       *)
(* there once or still with its thread; and a thread's lines are in order.   *)
LogAgrees ==
  out_mtx = NoThread =>
    /\ file = IF teeing THEN SubSeq(console, teedFrom + 1, Len(console)) ELSE <<>>
    /\ ToSet(console) = expected \ {line[t] : t \in LogThreads}
    /\ \A i, j \in 1..Len(console) : i < j /\ console[i][1] = console[j][1] => console[i][3] < console[j][3]

=============================================================================
