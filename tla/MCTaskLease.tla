---------------------------- MODULE MCTaskLease ----------------------------
(* Small instances of TaskLease for TLC. *)
EXTENDS TaskLease

\* Of two processes, the clock of the first is one unit behind the database's.
CONSTANT p1

MCSkew == [p \in Process |-> IF p = p1 THEN -1 ELSE 0]
MCNoSkew == [p \in Process |-> 0]
=============================================================================
