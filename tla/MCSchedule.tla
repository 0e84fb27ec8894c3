----------------------------- MODULE MCSchedule -----------------------------
(* Two expressions that share no minute before 3: a change between them may  *)
(* land between the minutes of either.                                       *)
EXTENDS Schedule
MCExprs == {{1, 3}, {2, 3}}
=============================================================================
