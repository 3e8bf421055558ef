------------------------------ MODULE MCMailer ------------------------------
(* Small instances of Mailer.                                                *)
EXTENDS Mailer

CONSTANTS m1, m2, m3

MCThree == {m1, m2, m3}
\* Flush mode, and one worker that starts the second.
MCModes == {0, 1}
=============================================================================
