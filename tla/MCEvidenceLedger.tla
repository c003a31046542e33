--------------------------- MODULE MCEvidenceLedger ---------------------------
(***************************************************************************)
(* A file of six lines, two of them wide; a pattern that matches five, one *)
(* that matches two of which neither has a value to rank, and one for a    *)
(* line whose value is decoded into three texts; a range inside the file,  *)
(* one across its end, one beyond it, of which a worker reads two lines at *)
(* most. Budgets are scaled down with the file: a recent step affords two  *)
(* wide lines and a bit, the record about two steps. Briefs of one         *)
(* citation, of any line or none, and two whose claims mix references,     *)
(* dressed ones, and prose.                                                *)
(***************************************************************************)
EXTENDS EvidenceLedger

CONSTANTS many, few, lone, inside, across, beyond

MCWidth == [l \in Lines |-> IF l \in {2, 4} THEN 9 ELSE 2]

MCPatterns == {many, few, lone}

MCMatches ==
  [p \in MCPatterns |-> CASE p = many -> {1, 2, 3, 4, 6} [] p = few -> {3, 5} [] p = lone -> {1}]

MCRanges == {inside, across, beyond}

MCSpan ==
  [r \in MCRanges |-> CASE r = inside -> 2 .. 4 [] r = across -> 6 .. 8 [] r = beyond -> 8 .. 9]

MCDecoded == [l \in Lines |-> CASE l = 1 -> 3 [] l = 6 -> 1 [] OTHER -> 0]

MCValued == {1, 2, 4, 6}

Ref(l) == [form |-> "ref", line |-> l]
Dressed(l) == [form |-> "dressed", line |-> l]
Prose == [form |-> "prose", line |-> NoRef]

MCBodies ==
  {<<<<Ref(l)>>>> : l \in Lines \cup {NoRef}} \cup
  {<<<<Dressed(2), Ref(5)>>, <<>>>>, <<<<Dressed(5)>>, <<Prose, Dressed(3)>>>>}

=============================================================================
