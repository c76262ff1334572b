-------------------------- MODULE MCOperatorStore --------------------------
(* Two entries and two requests at a time: enough for a flush to overlap a *)
(* change of the row it is writing and one of another row.  A request may   *)
(* stop at any step while others come and go.                               *)
EXTENDS OperatorStore
=============================================================================
