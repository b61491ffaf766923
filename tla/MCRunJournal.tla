---------------------------- MODULE MCRunJournal ----------------------------
(* RunJournal on a small instance: two processes and one episode. *)
EXTENDS RunJournal

CONSTANTS p1, p2, e1
=============================================================================
