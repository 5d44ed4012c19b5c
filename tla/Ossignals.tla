----------------------------- MODULE Ossignals ------------------------------
(* Ossignals (ossignals.cpp): handlers of signals that run at the same time  *)
(* on several threads, one step per access to an atomic, against a thread    *)
(* that resets the flags and one that throws when signalled.                 *)
EXTENDS Integers, FiniteSets

CONSTANTS
  Handlers,         \* activations of handle() at the same time
  Codes,            \* signals
  PanicCount,       \* signals that make the process abort (the code: 10)
  ResetQuiet        \* reset() is only called while no handler runs (see the tests)

ASSUME OssignalsAssumption ==
  IsFiniteSet(Handlers) /\ PanicCount \in Nat \ {0} /\ ResetQuiet \in BOOLEAN

VARIABLES
  flagged, sig_code, sig_count,  \* signalled_, sig_code_, sig_count_
  hpc,              \* per handler: where it is
  hcode,            \* per handler: its signal
  rpc,              \* where the resetting thread is
  thrower,          \* where the throwing thread is: idle, saw the flag, or the code it threw
  aborted,
  first,            \* the signal that raised the flag, NoCode when down (history)
  delivered,        \* signals since the reset that have been counted or will be (history)
  handled           \* calls of the custom handler since the reset (history)

ossignalsVars ==
  <<flagged, sig_code, sig_count, hpc, hcode, rpc, thrower, aborted, first, delivered, handled>>

NoCode == 0
OssignalsInit ==
  /\ flagged = FALSE /\ sig_code = NoCode /\ sig_count = 0 /\ aborted = FALSE
  /\ hpc = [h \in Handlers |-> "idle"] /\ hcode = [h \in Handlers |-> NoCode]
  /\ rpc = "idle" /\ thrower = -1
  /\ first = NoCode /\ delivered = 0 /\ handled = 0

Goto(h, l) == hpc' = [hpc EXCEPT ![h] = l]

(* A signal arrives; the kernel holds back none of them. *)
Deliver(h, code) ==
  /\ hpc[h] = "idle" /\ delivered <= PanicCount
  /\ ResetQuiet => rpc = "idle"
  /\ Goto(h, "cas") /\ hcode' = [hcode EXCEPT ![h] = code]
  /\ delivered' = delivered + 1
  /\ UNCHANGED <<flagged, sig_code, sig_count, rpc, thrower, aborted, first, handled>>

(* Only the one that raises the flag stores its signal. *)
RaiseFlag(h) ==
  /\ hpc[h] = "cas"
  /\ IF flagged THEN Goto(h, "count") /\ UNCHANGED first
     ELSE Goto(h, "store") /\ first' = hcode[h]
  /\ flagged' = TRUE
  /\ UNCHANGED <<sig_code, sig_count, hcode, rpc, thrower, aborted, delivered, handled>>

StoreCode(h) ==
  /\ hpc[h] = "store" /\ Goto(h, "count")
  /\ sig_code' = hcode[h]
  /\ UNCHANGED <<flagged, sig_count, hcode, rpc, thrower, aborted, first, delivered, handled>>

\* Mutant: the count is read and written in two accesses, and may lose one.
CountLosing(h) ==
  /\ hpc[h] = "count" /\ Goto(h, "custom")
  /\ sig_count' \in {sig_count + 1, IF sig_count > 0 THEN sig_count ELSE 1}
  /\ aborted' = (sig_count' >= PanicCount)
  /\ UNCHANGED <<flagged, sig_code, hcode, rpc, thrower, first, delivered, handled>>

(* One increment, then the process panics or goes on. *)
CountSignal(h) ==
  /\ hpc[h] = "count" /\ Goto(h, "custom")
  /\ sig_count' = sig_count + 1
  /\ aborted' = (sig_count' >= PanicCount)
  /\ UNCHANGED <<flagged, sig_code, hcode, rpc, thrower, first, delivered, handled>>

CustomHandler(h) ==
  /\ hpc[h] = "custom" /\ Goto(h, "idle")
  /\ handled' = handled + 1
  /\ UNCHANGED <<flagged, sig_code, sig_count, hcode, rpc, thrower, aborted, first, delivered>>

ResetFlag ==
  /\ rpc = "idle" /\ rpc' = "count"
  /\ ResetQuiet => \A h \in Handlers : hpc[h] = "idle"
  /\ flagged' = FALSE /\ first' = NoCode
  /\ UNCHANGED <<sig_code, sig_count, hpc, hcode, thrower, aborted, delivered, handled>>

ResetCount ==
  /\ rpc = "count" /\ rpc' = "idle"
  /\ sig_count' = 0 /\ delivered' = 0 /\ handled' = 0
  /\ UNCHANGED <<flagged, sig_code, hpc, hcode, thrower, aborted, first>>

(* throw_if_signalled reads the flag and then the code. *)
ThrowTest ==
  /\ thrower # -2 /\ flagged /\ thrower' = -2
  /\ UNCHANGED <<flagged, sig_code, sig_count, hpc, hcode, rpc, aborted, first, delivered, handled>>

ThrowCode ==
  /\ thrower = -2 /\ thrower' = sig_code
  /\ UNCHANGED <<flagged, sig_code, sig_count, hpc, hcode, rpc, aborted, first, delivered, handled>>

OssignalsNext ==
  /\ ~aborted
  /\ \/ \E h \in Handlers : RaiseFlag(h) \/ StoreCode(h) \/ CountSignal(h) \/ CustomHandler(h)
     \/ \E h \in Handlers, c \in Codes : Deliver(h, c)
     \/ ResetFlag \/ ResetCount \/ ThrowTest \/ ThrowCode

OssignalsSpec == OssignalsInit /\ [][OssignalsNext]_ossignalsVars

-----------------------------------------------------------------------------
(* The state is well typed. *)
OssignalsTypeOK ==
  /\ flagged \in BOOLEAN /\ aborted \in BOOLEAN
  /\ sig_code \in Codes \union {NoCode} /\ first \in Codes \union {NoCode}
  /\ sig_count \in 0..PanicCount /\ delivered \in 0..(PanicCount + 1) /\ handled \in 0..PanicCount
  /\ hpc \in [Handlers -> {"idle", "cas", "store", "count", "custom"}]
  /\ hcode \in [Handlers -> Codes \union {NoCode}]
  /\ rpc \in {"idle", "count"} /\ thrower \in {-2, -1, NoCode} \union Codes

Running(S) == Cardinality({h \in Handlers : hpc[h] \in S})

(* However handlers overlap, with resets while none runs: every signal is    *)
(* counted once, so that the process aborts at the tenth and not before; the *)
(* custom handler is called for each that was counted; and once the handler  *)
(* that raised the flag has stored its signal, the code is that one's, which *)
(* no later signal overwrites.                                               *)
SignalAccounting ==
  ResetQuiet /\ rpc = "idle" =>
    /\ delivered = sig_count + Running({"cas", "store", "count"})
    /\ sig_count = handled + Running({"custom"})
    /\ aborted <=> sig_count >= PanicCount
    /\ sig_count > 0 => flagged
    /\ flagged /\ Running({"store"}) = 0 => sig_code = first
=============================================================================
