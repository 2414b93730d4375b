---------------------------- MODULE MCJournalFill ----------------------------
(* Values for model-checking JournalFill. *)
EXTENDS JournalFill

\* Thursday, Friday, then Monday and Tuesday after the weekend.
Week == {0, 1, 4, 5}
=============================================================================
