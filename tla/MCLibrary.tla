------------------------------ MODULE MCLibrary ------------------------------
(* The parts of the common library and of its cryptography that stand alone. *)
(* They share no state, so one run explores them side by side: the part      *)
(* chosen at the start moves, the others stay.                               *)
EXTENDS DataStream, Hex, Amounts, HumanText, Helpers, Ossignals, LogBuffer, Digests,
        Hasher, Sha256Transform

VARIABLE part

MCTimeUnits == <<2, 6, 18, 54, 108, 324>>
MCChunks == {AbcChunk, [i \in 1..64 |-> (37 * i) % 256], [i \in 1..64 |-> 255]}

textVars == <<hexVars, amountsVars, humantextVars>>
helperVars == <<cappedsetVars, stopwatchVars, directoriesVars>>
sharedVars == <<ossignalsVars, logbufferVars>>
digestVars == <<hasherVars, compositehashVars, oldhasherVars, shaVars>>

Init ==
  /\ part \in {"stream", "hex", "amounts", "human", "set", "watch", "directories",
               "signals", "log", "hasher", "composite", "old", "transform"}
  /\ DataStreamInit /\ (part # "stream" => buffer = <<>>)
  /\ HexInit /\ AmountsInit /\ HumanTextInit /\ CappedSetInit /\ StopWatchInit
  /\ DirectoriesInit /\ OssignalsInit /\ LogBufferInit /\ (part # "log" => verbosity = 0)
  /\ HasherInit /\ CompositeHashInit /\ (part # "composite" => hashKind = "Hash256")
  /\ OldHasherInit /\ Sha256TransformInit

TextNext ==
  \/ part = "hex" /\ HexNext /\ UNCHANGED <<amountsVars, humantextVars>>
  \/ part = "amounts" /\ AmountsNext /\ UNCHANGED <<hexVars, humantextVars>>
  \/ part = "human" /\ HumanTextNext /\ UNCHANGED <<hexVars, amountsVars>>

HelperNext ==
  \/ part = "set" /\ CappedSetNext /\ UNCHANGED <<stopwatchVars, directoriesVars>>
  \/ part = "watch" /\ StopWatchNext /\ UNCHANGED <<cappedsetVars, directoriesVars>>
  \/ part = "directories" /\ DirectoriesNext /\ UNCHANGED <<cappedsetVars, stopwatchVars>>

SharedNext ==
  \/ part = "signals" /\ OssignalsNext /\ UNCHANGED logbufferVars
  \/ part = "log" /\ LogBufferNext /\ UNCHANGED ossignalsVars

DigestNext ==
  \/ /\ part = "hasher" /\ HasherNext
     /\ UNCHANGED <<compositehashVars, oldhasherVars, shaVars>>
  \/ /\ part = "composite" /\ CompositeHashNext
     /\ UNCHANGED <<hasherVars, oldhasherVars, shaVars>>
  \/ /\ part = "old" /\ OldHasherNext
     /\ UNCHANGED <<hasherVars, compositehashVars, shaVars>>
  \/ /\ part = "transform" /\ Sha256TransformNext
     /\ UNCHANGED <<hasherVars, compositehashVars, oldhasherVars>>

Next ==
  /\ UNCHANGED part
  /\ \/ part = "stream" /\ DataStreamNext /\ UNCHANGED <<textVars, helperVars, sharedVars, digestVars>>
     \/ TextNext /\ UNCHANGED <<datastreamVars, helperVars, sharedVars, digestVars>>
     \/ HelperNext /\ UNCHANGED <<datastreamVars, textVars, sharedVars, digestVars>>
     \/ SharedNext /\ UNCHANGED <<datastreamVars, textVars, helperVars, digestVars>>
     \/ DigestNext /\ UNCHANGED <<datastreamVars, textVars, helperVars, sharedVars>>

Spec == Init /\ [][Next]_<<part, datastreamVars, textVars, helperVars, sharedVars, digestVars>>

-----------------------------------------------------------------------------
(* What the library writes as text it reads back as the same value, and      *)
(* reads nothing else: hexadecimal numbers and hashes (hex.cpp, hash.hpp),   *)
(* amounts (amounts.cpp), quantities and durations for humans (misc.cpp,     *)
(* stopwatch.cpp).                                                           *)
TextCodecs == HexSound /\ AmountSound /\ HumanSound
=============================================================================
