-------------------------- MODULE MCDbTransaction --------------------------
(* Small instances of DbTransaction.                                         *)
EXTENDS DbTransaction, TLC

CONSTANTS w1, w2, ann, bob

MCOneWorker == {w1}
MCTwoWorkers == {w1, w2}
MCEmail == {ann}
MCEmails == {ann, bob}
MCDraws == 1..2

MCWorkerSymmetry == Permutations(MCTwoWorkers)
=============================================================================
