--------------------------- MODULE MCInvestigation ---------------------------
(***************************************************************************)
(* Small instances of the investigation for TLC: one question the code     *)
(* answers by itself, one that needs a worker.                             *)
(***************************************************************************)
EXTENDS InvestigationImplements

CONSTANTS search, close_read

MCActions == {search, close_read}

MCCloseReads == {close_read}

=============================================================================
