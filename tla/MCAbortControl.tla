---------------------------- MODULE MCAbortControl ----------------------------
(***************************************************************************)
(* Small instances of the control files for TLC.                           *)
(***************************************************************************)
EXTENDS AbortControl, TLC

\* No action tells one run from another.
Symmetric == Permutations(Runs)

=============================================================================
