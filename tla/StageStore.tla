----------------------------- MODULE StageStore -----------------------------
(* What the chain database promises the stages: contents that survive, and   *)
(* pending changes on top of them that are either published as a whole or    *)
(* lost as a whole. The schema version never moves back.                     *)
CONSTANTS
  Initial,          \* the contents of a new database
  IsContents(_),    \* whether a value is contents a database can have
  NotOlder(_, _)    \* whether the second contents is no older in its schema

VARIABLES
  store,            \* what a reader finds after a restart
  pending           \* what the writer sees

Init == store = Initial /\ pending = Initial

(* The writer changes what it sees. *)
Change ==
  /\ IsContents(pending')
  /\ NotOlder(pending, pending')
  /\ UNCHANGED store

(* All that the writer did becomes durable at once. *)
Publish == store' = pending /\ UNCHANGED pending

(* All that the writer did since it last published is gone. *)
Lose == pending' = store /\ UNCHANGED store

Next == Change \/ Publish \/ Lose

Spec == Init /\ [][Next]_<<store, pending>>
=============================================================================
