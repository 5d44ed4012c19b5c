----------------------------- MODULE MCDatabase -----------------------------
(* The parts of the database layer. They share no state, so one run explores *)
(* them side by side: the part chosen at the start moves, the others stay.   *)
EXTENDS StageDb, Env, CursorPool, CursorWalk

VARIABLE part

MCStageNames == <<"Headers", "Bodies">>
MCVersions == {<<0, 9, 9>>, <<1, 0, 0>>, <<1, 300, 0>>}
MCTxnId(t) == IF t = "rw" THEN 2 ELSE 1     \* two readers share a snapshot

Init ==
  /\ part \in {"stages", "environment", "cursors", "walks"}
  /\ StageDbInit /\ EnvInit /\ CursorPoolInit /\ WalkInit
  /\ part # "environment" => disk.path = "absent"

Next ==
  /\ UNCHANGED part
  /\ \/ part = "stages" /\ StageDbNext /\ UNCHANGED <<envVars, cursorpoolVars, walkVars>>
     \/ part = "environment" /\ EnvNext /\ UNCHANGED <<stagedbVars, cursorpoolVars, walkVars>>
     \/ part = "cursors" /\ CursorPoolNext /\ UNCHANGED <<stagedbVars, envVars, walkVars>>
     \/ part = "walks" /\ WalkNext /\ UNCHANGED <<stagedbVars, envVars, cursorpoolVars>>

Spec == Init /\ [][Next]_<<part, stagedbVars, envVars, cursorpoolVars, walkVars>>

FairSpec == Spec /\ WalkFairness

(* Every member and every row of the database layer has its type: heights    *)
(* and versions are stored as bytes (stages.cpp, access_layer.cpp), a handle *)
(* is in one place, a file has a page size once it has data.                 *)
TypeOK == StageDbTypeOK /\ EnvTypeOK /\ CursorPoolTypeOK
=============================================================================
