------------------------------ MODULE MCDbExec ------------------------------
(* Small instances of DbExec for TLC. *)
EXTENDS DbExec, TLC

CONSTANTS u1, u2, u3, w1, w2, w3, l1, l2

\* A group with two workers and a group with one.
TwoGroups == w1 :> 1 @@ w2 :> 1 @@ w3 :> 2
TwoLoopGroups == l1 :> 1 @@ l2 :> 2

\* SQLite: the one writer and one group, whatever loop submits.
OneWriter == w1 :> 1
SqliteLoops == l1 :> 1 @@ l2 :> 1
=============================================================================
