----------------------------- MODULE MCCloseRead -----------------------------
(***************************************************************************)
(* Small instances of a close_read: a slice of two lines, one of which     *)
(* shows the alert's host, and reports made of findings that fail each of  *)
(* the checks.                                                             *)
(***************************************************************************)
EXTENDS CloseRead

CONSTANTS line_1, line_2, host

MCSlice == <<line_1, line_2>>

MCShows == [l \in Lines |-> IF l = line_1 THEN {host} ELSE {}]

Of(refs, first, count, names) ==
  [refs |-> refs, first |-> first, last |-> NoRef, match_count |-> count, names |-> names]

\* Two that hold, and one for each way a finding can be at fault.
MCFindings ==
  {Of(<<line_1>>, line_1, 3, {host}),
   Of(<<line_2>>, NoRef, 1, {}),
   Of(<<line_2>>, line_2, 1, {host}),
   Of(<<>>, line_1, 1, {host}),
   Of(<<Elsewhere>>, NoRef, 1, {}),
   Of(<<line_1>>, Malformed, 1, {}),
   Of(<<line_1>>, line_1, 0, {}),
   Of(<<line_1, line_2>>, line_1, 2, {})}

MCReports ==
  [relevant : BOOLEAN, findings : UNION {[1 .. n -> MCFindings] : n \in 0 .. 2},
   found : BOOLEAN, slice_id_ok : BOOLEAN]

=============================================================================
