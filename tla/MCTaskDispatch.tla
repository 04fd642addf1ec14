---------------------------- MODULE MCTaskDispatch ---------------------------
(* Small instances of TaskDispatch.                                         *)
EXTENDS TaskDispatch, TLC

CONSTANTS t1, t2, t3, f1, f2

MCTasks == {t1, t2, t3}
Two == {t1, t2}

(* All tasks are for the first fleet, the first task is for both.           *)
Shared == [t \in Tasks |-> IF t = t1 THEN Fleets ELSE {f1}]
All == [t \in Tasks |-> Fleets]
=============================================================================
