----------------------------- MODULE MCCaseFiles -----------------------------
(***************************************************************************)
(* Cases of two files of up to four lines, cheap or wide: three cheap ones *)
(* fit a slice, a wide one fits alone, and a wide comment leaves less than *)
(* the floor.                                                              *)
(***************************************************************************)
EXTENDS CaseFiles, SequencesExt

MCCosts == {2, 6}

File(costs, comments) ==
  [lines |-> Len(costs), comments |-> comments,
   upto |-> [n \in 0 .. Len(costs) |-> FoldSeq(+, 0, SubSeq(costs, 1, n))]]

MCContents ==
  {[lines |-> 0, comments |-> 0, upto |-> [n \in {0} |-> 0]]} \cup
  UNION {{File(costs, k) : costs \in [1 .. n -> MCCosts], k \in 0 .. 1} : n \in 1 .. 4}

=============================================================================
