----------------------------- MODULE MCLogRing -----------------------------
(* Small instances of LogRing.                                               *)
EXTENDS LogRing

CONSTANTS t1, t2

MCTwo == {t1, t2}
MCBoth == BOOLEAN
MCDelaying == {TRUE}
=============================================================================
