--------------------------- MODULE MCCommanderTurn ---------------------------
(***************************************************************************)
(* Replies for TLC: for every verb, what it takes and up to two arguments  *)
(* that are wrong, missing or beside the point, in eight kinds of dress.   *)
(***************************************************************************)
EXTENDS CommanderTurn

Good(k) ==
  [kind |-> k,
   pattern |-> IF k \in PatternKinds THEN "ok" ELSE "",
   where |-> "",
   file |-> IF k \in RangeKinds THEN "known" ELSE "",
   field |-> "",
   extract |-> "",
   ref |-> IF k = "context" THEN "whole" ELSE "",
   range |-> IF k \in RangeKinds THEN "inside" ELSE "none",
   question |-> k = "close_read"]

OneOff(a) ==
  UNION {{[a EXCEPT !.pattern = v] : v \in Regexes},
         {[a EXCEPT !.where = v] : v \in Regexes},
         {[a EXCEPT !.file = v] : v \in Names},
         {[a EXCEPT !.field = v] : v \in Names},
         {[a EXCEPT !.extract = v] : v \in Names},
         {[a EXCEPT !.ref = v] : v \in RefForms},
         {[a EXCEPT !.range = v] : v \in Ranges},
         {[a EXCEPT !.question = v] : v \in BOOLEAN}}

MCActions == UNION {UNION {OneOff(a) : a \in OneOff(Good(k))} : k \in Kinds}

Shape(stated, args, aliased, unknown_key) ==
  [stated |-> stated, args |-> args, aliased |-> aliased, unknown_key |-> unknown_key]

MCShapes ==
  {Shape(TRUE, "top", FALSE, FALSE), Shape(TRUE, "top", TRUE, FALSE),
   Shape(TRUE, "top", FALSE, TRUE), Shape(FALSE, "top", FALSE, FALSE),
   Shape(FALSE, "top", TRUE, FALSE), Shape(TRUE, "nested", TRUE, FALSE),
   Shape(FALSE, "nested", FALSE, TRUE), Shape(FALSE, "positional", FALSE, FALSE)}

MCReplies == {Unparsed} \cup {Reply(a, s) : a \in MCActions, s \in MCShapes}

=============================================================================
