----------------------------- MODULE MCMailOutbox -----------------------------
(* Finite instances of MailOutbox.                                         *)
EXTENDS MailOutbox, TLC

WatchSymmetry == Permutations(Watches)
=============================================================================
