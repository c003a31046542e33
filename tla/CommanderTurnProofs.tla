------------------------- MODULE CommanderTurnProofs -------------------------
(***************************************************************************)
(* Theorems about one turn of the commander, for any replies of the model  *)
(* and any number of attempts: what is run is what was asked, and the      *)
(* executor never refuses what the validator let by.                       *)
(***************************************************************************)
EXTENDS CommanderTurn, TLAPS

-----------------------------------------------------------------------------
(***************************************************************************)
(* What it takes to be acceptable.                                         *)
(***************************************************************************)

LEMMA WhenEmpty == ASSUME NEW cond, NEW name PROVE When(cond, name) = {} <=> ~cond
BY DEF When

\* An action without problems has none of any part.
LEMMA NoProblems ==
  ASSUME NEW a, Problems(a) = {}
  PROVE  /\ PatternProblems(a) = {} /\ WhereProblems(a) = {} /\ SelectorProblems(a) = {}
         /\ FileProblems(a) = {} /\ RefProblems(a) = {} /\ RangeProblems(a) = {}
BY DEF Problems

\* What the validator has seen to in an acceptable action.
LEMMA Validated ==
  ASSUME NEW a, Problems(a) = {}
  PROVE  /\ a.where # "bad" /\ a.file # "unknown" /\ a.extract # "unknown"
         /\ a.kind = "context" => a.ref \notin {"", "bare", "elsewhere"}
         /\ a.kind \in RangeKinds => a.file # "" /\ a.range \notin {"none", "reversed"}
<1>1. WhereProblems(a) = {} => a.where # "bad"
  BY WhenEmpty DEF WhereProblems
<1>2. SelectorProblems(a) = {} => a.extract # "unknown"
  <2>1. SelectorProblems(a) = {} => When(a.extract = "unknown", "extract") = {}
    BY DEF SelectorProblems
  <2>2. QED
    BY <2>1, WhenEmpty
<1>3. FileProblems(a) = {} => a.file # "unknown" /\ (a.kind \in RangeKinds => a.file # "")
  BY WhenEmpty DEF FileProblems
<1>4. RefProblems(a) = {} => (a.kind = "context" => a.ref \notin {"", "bare", "elsewhere"})
  BY WhenEmpty DEF RefProblems
<1>5. RangeProblems(a) = {} => (a.kind \in RangeKinds => a.range \notin {"none", "reversed"})
  <2>1. RangeProblems(a) = {}
          => When(a.kind \in RangeKinds /\ a.range \in {"none", "reversed"}, "range") = {}
    BY DEF RangeProblems
  <2>2. QED
    BY <2>1, WhenEmpty
<1>6. QED
  BY <1>1, <1>2, <1>3, <1>4, <1>5, NoProblems

\* The executor finds nothing amiss that the validator looked at.
LEMMA ExecutorAgrees ==
  ASSUME NEW a \in Actions, a.kind # "conclude", Problems(a) = {}
  PROVE  /\ Outcome(a) \notin {"bad_predicate", "no_such_file", "unknown_extract"}
         /\ Outcome(a) = "no_such_line" => a.ref = "beyond"
         /\ Outcome(a) = "no_such_lines" => a.range = "beyond"
<1>1. /\ a.where # "bad" /\ a.file # "unknown" /\ a.extract # "unknown"
      /\ a.kind = "context" => a.ref \notin {"", "bare", "elsewhere"}
      /\ a.kind \in RangeKinds => a.file # "" /\ a.range \notin {"none", "reversed"}
  BY Validated
<1>2. /\ a.kind \in Kinds /\ a.ref \in RefForms /\ a.file \in Names /\ a.range \in Ranges
  BY DEF Actions
<1>3. CASE a.kind \in PatternKinds
  <2>1. Outcome(a) = ReadsAPattern(a)
    BY <1>3 DEF Outcome, PatternKinds, RangeKinds
  <2>2. QED
    BY <1>1, <2>1 DEF ReadsAPattern
<1>4. CASE a.kind = "context"
  <2>1. Outcome(a) = IF a.ref = "whole" THEN "answer" ELSE "no_such_line"
    BY <1>1, <1>4 DEF Outcome, PatternKinds, RangeKinds
  <2>2. QED
    BY <1>1, <1>2, <1>4, <2>1 DEF RefForms
<1>5. CASE a.kind \in RangeKinds
  <2>1. Outcome(a) = IF a.file = "known" /\ a.range = "inside" THEN "answer" ELSE "no_such_lines"
    BY <1>5 DEF Outcome, PatternKinds, RangeKinds
  <2>2. QED
    BY <1>1, <1>2, <1>5, <2>1 DEF Names, Ranges
<1>6. QED
  BY <1>2, <1>3, <1>4, <1>5 DEF Kinds, PatternKinds, RangeKinds

-----------------------------------------------------------------------------
(***************************************************************************)
(* What the rescue makes of a reply.                                       *)
(***************************************************************************)

\* A repaired reference, of an action whose file exists, is the one that is completed.
LEMMA RepairCompletes ==
  ASSUME NEW a \in Actions, a.file # "unknown"
  PROVE  RepairRef(a) = Completed(a) /\ RepairRef(a) \in Actions
BY DEF RepairRef, Completed, Actions, RefForms

\* The repair changes nothing but the reference.
LEMMA RepairKeeps ==
  ASSUME NEW a \in Actions
  PROVE  RepairRef(a) \in Actions /\ RepairRef(a).file = a.file /\ RepairRef(a).kind = a.kind
BY DEF RepairRef, Actions, RefForms

LEMMA SameField ==
  ASSUME NEW a \in Actions
  PROVE  [a EXCEPT !.file = a.file] = a
BY DEF Actions

LEMMA PositionalAsAsked ==
  ASSUME NEW a \in Actions, Problems(Positional(a)) = {}
  PROVE  Positional(a) \in Actions /\ Positional(a) \in {a, Completed(a)}
<1>1. a.kind \in Kinds
  BY DEF Actions
<1>2. CASE a.kind \in PatternKinds
  <2>1. Positional(a) = RepairRef(a)
    BY <1>2 DEF Positional, PatternKinds, RangeKinds
  <2>2. Problems(RepairRef(a)) = {}
    BY <2>1
  <2>3. RepairRef(a).file # "unknown"
    BY <2>2, Validated
  <2>4. a.file # "unknown"
    BY <2>3, RepairKeeps
  <2>5. QED
    BY <2>1, <2>4, RepairCompletes
<1>3. CASE a.kind \in RangeKinds \/ (a.kind = "context" /\ a.ref = "")
  <2>1. Positional(a) = a
    BY <1>3 DEF Positional, RangeKinds, PatternKinds
  <2>2. QED
    BY <2>1
<1>4. CASE a.kind = "context" /\ a.ref # ""
  <2>1. Positional(a) =
          [a EXCEPT !.ref = "", !.file = IF a.file = "" THEN "unknown" ELSE a.file]
    BY <1>4 DEF Positional, RangeKinds, PatternKinds
  <2>2. Positional(a).kind = "context" /\ Positional(a).ref = ""
    BY <1>4, <2>1 DEF Actions
  <2>3. QED
    BY <2>2, Validated
<1>5. CASE a.kind = "conclude"
  <2>1. Positional(a) =
          [RepairRef(a) EXCEPT !.file = IF a.file = "" THEN "unknown" ELSE a.file]
    BY <1>5 DEF Positional, RangeKinds, PatternKinds
  <2>2. Positional(a).file = IF a.file = "" THEN "unknown" ELSE a.file
    BY <2>1, RepairKeeps DEF Actions
  <2>3. a.file # "" /\ a.file # "unknown"
    BY <2>2, Validated
  <2>4. Positional(a) = RepairRef(a)
    BY <2>1, <2>3, RepairKeeps, SameField
  <2>5. QED
    BY <2>3, <2>4, RepairCompletes
<1>6. QED
  BY <1>1, <1>2, <1>3, <1>4, <1>5 DEF Kinds, PatternKinds, RangeKinds

\* An acceptable reply is understood as what it says.
LEMMA UnderstoodAsAsked ==
  ASSUME NEW r, r.action \in Actions, Problems(Understood(r)) = {}
  PROVE  Understood(r) \in Actions /\ Understood(r) \in {r.action, Completed(r.action)}
<1>1. \/ Understood(r) = RepairRef(r.action)
      \/ Understood(r) = Positional(r.action)
      \/ Understood(r) = r.action
  BY DEF Understood, Flattened
<1>2. CASE Understood(r) = RepairRef(r.action)
  <2>1. Understood(r).file # "unknown"
    BY Validated
  <2>2. QED
    BY <1>2, <2>1, RepairCompletes, RepairKeeps
<1>3. CASE Understood(r) = Positional(r.action)
  BY <1>3, PositionalAsAsked
<1>4. QED
  BY <1>1, <1>2, <1>3

-----------------------------------------------------------------------------
(***************************************************************************)
(* The turn. Once an action is chosen the reply it came from stays, and    *)
(* the action is what that reply was understood as when it was judged.     *)
(***************************************************************************)

TurnInv ==
  /\ given.task = "decide" => reply \in Replies \cup {NoReply}
  /\ Chosen => /\ given.task = "decide" /\ Acceptable(reply) /\ reply \in Replies
               /\ result.action = Understood(reply)
  /\ result.stands = "executed" =>
       /\ result.outcome = Outcome(result.action) /\ result.action.kind # "conclude"

LEMMA TurnInit == Init => TurnInv
BY DEF Init, TurnInv, Chosen, Undecided

LEMMA TurnNext == TurnInv /\ [Next]_vars => TurnInv'
<1> SUFFICES ASSUME TurnInv, [Next]_vars PROVE TurnInv'
  OBVIOUS
<1> USE DEF TurnInv, Chosen
<1>1. CASE ReplyArrives
  BY <1>1 DEF ReplyArrives, Asking, Undecided
<1>2. CASE CallFails
  BY <1>2 DEF CallFails, GaveUp
<1>3. CASE ValidationRaises
  BY <1>3 DEF ValidationRaises, Raised
<1>4. CASE Accept
  <2>1. /\ UNCHANGED <<given, reply>> /\ Acceptable(reply) /\ reply.arrived
    BY <1>4 DEF Accept, Judging
  <2>2. CASE given.task = "decide"
    <3>1. result' = Accepted(Understood(reply))
      BY <1>4, <2>2 DEF Accept
    <3>2. reply # NoReply
      BY <2>1 DEF NoReply
    <3>3. Acceptable(reply)' /\ Understood(reply)' = Understood(reply)
      BY <2>1 DEF Acceptable, Parses, Understood, Problems, VerbProblems
    <3>4. QED
      BY <2>1, <2>2, <3>1, <3>2, <3>3 DEF Accepted
  <2>3. CASE given.task # "decide"
    BY <1>4, <2>1, <2>3 DEF Accept, Written
  <2>4. QED
    BY <2>2, <2>3
<1>5. CASE Refuse
  <2>1. result'.stands \notin {"accepted", "executed"}
    BY <1>5 DEF Refuse, Judging, Undecided, GaveUp
  <2>2. reply' = NoReply
    BY <1>5 DEF Refuse
  <2>3. QED
    BY <2>1, <2>2
<1>6. CASE Execute
  <2>1. /\ UNCHANGED <<given, reply>> /\ result.stands = "accepted"
        /\ result.action.kind # "conclude"
        /\ result' = Executed(result.action, Outcome(result.action))
    BY <1>6 DEF Execute
  <2>2. Acceptable(reply)' /\ Understood(reply)' = Understood(reply)
    BY <2>1 DEF Acceptable, Parses, Understood, Problems, VerbProblems
  <2>3. /\ result'.stands = "executed" /\ result'.action = result.action
        /\ result'.outcome = Outcome(result.action)
    BY <2>1 DEF Executed
  <2>4. Outcome(result.action)' = Outcome(result.action)
    BY <2>3
  <2>5. QED
    BY <2>1, <2>2, <2>3, <2>4
<1>7. CASE UNCHANGED vars
  <2>1. UNCHANGED <<given, reply, result>>
    BY <1>7 DEF vars
  <2>2. Acceptable(reply)' = Acceptable(reply) /\ Understood(reply)' = Understood(reply)
    BY <2>1 DEF Acceptable, Parses, Understood, Problems, VerbProblems
  <2>3. QED
    BY <2>1, <2>2
<1>8. QED
  BY <1>1, <1>2, <1>3, <1>4, <1>5, <1>6, <1>7 DEF Next

LEMMA TurnAlways == Spec => []TurnInv
BY TurnInit, TurnNext, PTL DEF Spec

\* A chosen action is an action, asked for and without problems.
LEMMA ChosenIsValid ==
  ASSUME TurnInv, Chosen
  PROVE  /\ result.action \in Actions /\ Problems(result.action) = {}
         /\ result.action \in {reply.action, Completed(reply.action)}
<1>1. /\ given.task = "decide" /\ Acceptable(reply) /\ reply \in Replies
      /\ result.action = Understood(reply)
  BY DEF TurnInv
<1>2. Parses(reply) /\ Problems(Understood(reply)) = {}
  BY <1>1 DEF Acceptable
<1>3. reply # Unparsed
  BY <1>2 DEF Parses, Unparsed
<1>4. reply.action \in Actions
  BY <1>1, <1>3, TurnAssumption
<1>5. QED
  BY <1>1, <1>2, <1>4, UnderstoodAsAsked

\* The rescue loses no argument, invents none and moves none.
THEOREM AskedIsRun == Spec => []RunsWhatWasAsked
<1>1. TurnInv => RunsWhatWasAsked
  BY ChosenIsValid DEF RunsWhatWasAsked
<1>2. QED
  BY <1>1, TurnAlways, PTL

\* Validator and executor read one contract.
THEOREM ExecutorNeverObjects == Spec => []ValidatorSpeaksForExecutor
<1>1. ASSUME TurnInv, result.stands = "executed"
      PROVE  /\ result.outcome \notin {"bad_predicate", "no_such_file", "unknown_extract"}
             /\ result.outcome = "no_such_line" => result.action.ref = "beyond"
             /\ result.outcome = "no_such_lines" => result.action.range = "beyond"
  <2>1. /\ result.outcome = Outcome(result.action) /\ result.action.kind # "conclude"
        /\ result.action \in Actions /\ Problems(result.action) = {}
    BY <1>1, ChosenIsValid DEF TurnInv, Chosen
  <2>2. QED
    BY <2>1, ExecutorAgrees
<1>2. QED
  BY <1>1, TurnAlways, PTL DEF ValidatorSpeaksForExecutor

-----------------------------------------------------------------------------
(***************************************************************************)
(* Refusals. Each complaint names fields in which something acceptable can *)
(* be put; none of the replacements is itself a reason to complain.        *)
(***************************************************************************)

LEMMA InWhen == ASSUME NEW cond, NEW name, NEW x PROVE x \in When(cond, name) <=> cond /\ x = name
BY DEF When

LEMMA InProblems ==
  ASSUME NEW a
  PROVE  Problems(a) = VerbProblems(a) \cup PatternProblems(a) \cup WhereProblems(a) \cup
                       SelectorProblems(a) \cup FileProblems(a) \cup RefProblems(a) \cup
                       RangeProblems(a)
BY DEF Problems

\* What makes the validator complain of a field.
LEMMA Complaints ==
  ASSUME NEW a, NEW P, P = Problems(a)
  PROVE  /\ VerbProblems(a) # {} => "kind" \in P
         /\ (a.kind \in PatternKinds /\ a.pattern = "" /\ (a.kind = "timeline" \/ a.where = ""))
              => "pattern" \in P
         /\ (a.where # "" /\ (a.kind \notin WhereKinds \/ a.where = "bad")) => "where" \in P
         /\ (a.kind \notin SelectorKinds /\ a.field # "") => "field" \in P
         /\ (a.kind \notin SelectorKinds /\ a.field = "" /\ a.extract # "") => "extract" \in P
         /\ ((a.field # "" /\ a.extract # "") \/ a.extract = "unknown") => "extract" \in P
         /\ ((a.file = "" /\ (a.where # "" \/ a.field # "" \/ a.kind \in RangeKinds))
              \/ a.file = "unknown") => "file" \in P
         /\ (a.kind = "context" /\ a.ref \in {"", "bare", "elsewhere"}) => "ref" \in P
         /\ (a.kind \in RangeKinds /\ a.range \in {"none", "reversed"}) => "range" \in P
         /\ (a.kind = "close_read" /\ ~a.question) => "question" \in P
<1>1. VerbProblems(a) # {} => "kind" \in VerbProblems(a)
  BY InWhen DEF VerbProblems
<1>2. (a.kind \in PatternKinds /\ a.pattern = "" /\ (a.kind = "timeline" \/ a.where = ""))
        => "pattern" \in PatternProblems(a)
  BY InWhen DEF PatternProblems
<1>3. (a.where # "" /\ (a.kind \notin WhereKinds \/ a.where = "bad"))
        => "where" \in WhereProblems(a)
  BY InWhen DEF WhereProblems
<1>4. /\ (a.kind \notin SelectorKinds /\ a.field # "") => "field" \in SelectorProblems(a)
      /\ (a.kind \notin SelectorKinds /\ a.field = "" /\ a.extract # "")
           => "extract" \in SelectorProblems(a)
      /\ ((a.field # "" /\ a.extract # "") \/ a.extract = "unknown")
           => "extract" \in SelectorProblems(a)
  BY DEF SelectorProblems, When
<1>5. ((a.file = "" /\ (a.where # "" \/ a.field # "" \/ a.kind \in RangeKinds))
       \/ a.file = "unknown")
        => "file" \in FileProblems(a)
  BY InWhen DEF FileProblems
<1>6. (a.kind = "context" /\ a.ref \in {"", "bare", "elsewhere"}) => "ref" \in RefProblems(a)
  BY InWhen DEF RefProblems
<1>7. /\ (a.kind \in RangeKinds /\ a.range \in {"none", "reversed"}) => "range" \in RangeProblems(a)
      /\ (a.kind = "close_read" /\ ~a.question) => "question" \in RangeProblems(a)
  BY DEF RangeProblems, When
<1>8. QED
  <2>1. /\ VerbProblems(a) \subseteq P /\ PatternProblems(a) \subseteq P
        /\ WhereProblems(a) \subseteq P /\ SelectorProblems(a) \subseteq P
        /\ FileProblems(a) \subseteq P /\ RefProblems(a) \subseteq P
        /\ RangeProblems(a) \subseteq P
    BY InProblems
  <2>2. /\ VerbProblems(a) # {} => "kind" \in P
        /\ (a.kind \in PatternKinds /\ a.pattern = "" /\ (a.kind = "timeline" \/ a.where = ""))
             => "pattern" \in P
        /\ (a.where # "" /\ (a.kind \notin WhereKinds \/ a.where = "bad")) => "where" \in P
    BY <1>1, <1>2, <1>3, <2>1
  <2>3. /\ (a.kind \notin SelectorKinds /\ a.field # "") => "field" \in P
        /\ (a.kind \notin SelectorKinds /\ a.field = "" /\ a.extract # "") => "extract" \in P
        /\ ((a.field # "" /\ a.extract # "") \/ a.extract = "unknown") => "extract" \in P
    BY <1>4, <2>1
  <2>4. ((a.file = "" /\ (a.where # "" \/ a.field # "" \/ a.kind \in RangeKinds))
         \/ a.file = "unknown") => "file" \in P
    BY <1>5, <2>1
  <2>5. /\ (a.kind = "context" /\ a.ref \in {"", "bare", "elsewhere"}) => "ref" \in P
        /\ (a.kind \in RangeKinds /\ a.range \in {"none", "reversed"}) => "range" \in P
        /\ (a.kind = "close_read" /\ ~a.question) => "question" \in P
    BY <1>6, <1>7, <2>1
  <2>6. QED
    BY <2>2, <2>3, <2>4, <2>5

\* Nothing to complain of leaves no complaint.
LEMMA NoComplaint ==
  ASSUME NEW a, VerbProblems(a) = {},
         ~(a.kind \in PatternKinds /\ a.pattern = "" /\ (a.kind = "timeline" \/ a.where = "")),
         ~(a.where # "" /\ (a.kind \notin WhereKinds \/ a.where = "bad")),
         a.kind \notin SelectorKinds => a.field = "" /\ a.extract = "",
         a.field = "" \/ a.extract = "", a.extract # "unknown",
         a.file # "unknown",
         a.file = "" => a.where = "" /\ a.field = "" /\ a.kind \notin RangeKinds,
         a.kind = "context" => a.ref \notin {"", "bare", "elsewhere"},
         a.kind \in RangeKinds => a.range \notin {"none", "reversed"},
         a.kind = "close_read" => a.question
  PROVE  Problems(a) = {}
<1>1. /\ PatternProblems(a) = {} /\ WhereProblems(a) = {}
      /\ FileProblems(a) = {} /\ RefProblems(a) = {}
  BY WhenEmpty DEF PatternProblems, WhereProblems, FileProblems, RefProblems
<1>2. SelectorProblems(a) = {}
  BY DEF SelectorProblems, When
<1>3. RangeProblems(a) = {}
  BY DEF RangeProblems, When
<1>4. QED
  BY <1>1, <1>2, <1>3, InProblems

\* An action that is complained of, with something acceptable in each field named.
Corrected(a) ==
  LET P == Problems(a) IN
  [kind |-> a.kind,
   pattern |-> IF "pattern" \in P THEN "ok" ELSE a.pattern,
   where |-> IF "where" \in P THEN IF a.kind \in WhereKinds THEN "ok" ELSE "" ELSE a.where,
   file |-> IF "file" \in P THEN "known" ELSE a.file,
   field |-> IF "field" \in P THEN "" ELSE a.field,
   extract |-> IF "extract" \in P THEN "" ELSE a.extract,
   ref |-> IF "ref" \in P THEN "whole" ELSE a.ref,
   range |-> IF "range" \in P THEN "inside" ELSE a.range,
   question |-> IF "question" \in P THEN TRUE ELSE a.question]

LEMMA CorrectedIsFine ==
  ASSUME NEW a \in Actions, "kind" \notin Problems(a)
  PROVE  Problems(Corrected(a)) = {}
<1> DEFINE P == Problems(a)
           c == Corrected(a)
<1>1. /\ c.kind = a.kind
      /\ c.pattern = IF "pattern" \in P THEN "ok" ELSE a.pattern
      /\ c.where = IF "where" \in P THEN IF a.kind \in WhereKinds THEN "ok" ELSE "" ELSE a.where
      /\ c.file = IF "file" \in P THEN "known" ELSE a.file
      /\ c.field = IF "field" \in P THEN "" ELSE a.field
      /\ c.extract = IF "extract" \in P THEN "" ELSE a.extract
      /\ c.ref = IF "ref" \in P THEN "whole" ELSE a.ref
      /\ c.range = IF "range" \in P THEN "inside" ELSE a.range
      /\ c.question = IF "question" \in P THEN TRUE ELSE a.question
  BY DEF Corrected
<1> HIDE DEF c, P
<1>2. VerbProblems(c) = {}
  <2>1. VerbProblems(c) = VerbProblems(a)
    BY <1>1 DEF VerbProblems
  <2>2. QED
    BY <2>1, Complaints DEF P
<1>3. ~(c.kind \in PatternKinds /\ c.pattern = "" /\ (c.kind = "timeline" \/ c.where = ""))
  <2>1. a.kind \in PatternKinds => a.kind \in WhereKinds
    BY DEF WhereKinds
  <2>2. (a.kind \in PatternKinds /\ a.pattern = "" /\ (a.kind = "timeline" \/ a.where = ""))
          => "pattern" \in P
    BY Complaints DEF P
  <2>3. QED
    BY <1>1, <2>1, <2>2
<1>4. ~(c.where # "" /\ (c.kind \notin WhereKinds \/ c.where = "bad"))
  <2>1. (a.where # "" /\ (a.kind \notin WhereKinds \/ a.where = "bad")) => "where" \in P
    BY Complaints DEF P
  <2>2. CASE "where" \in P
    BY <1>1, <2>2
  <2>3. CASE "where" \notin P
    <3>1. c.where = a.where /\ c.kind = a.kind
      BY <1>1, <2>3
    <3>2. QED
      BY <2>1, <2>3, <3>1
  <2>4. QED
    BY <2>2, <2>3
<1>5. /\ c.kind \notin SelectorKinds => c.field = "" /\ c.extract = ""
      /\ c.field = "" \/ c.extract = ""
      /\ c.extract # "unknown"
  <2>1. /\ (a.kind \notin SelectorKinds /\ a.field # "") => "field" \in P
        /\ (a.kind \notin SelectorKinds /\ a.field = "" /\ a.extract # "") => "extract" \in P
        /\ ((a.field # "" /\ a.extract # "") \/ a.extract = "unknown") => "extract" \in P
    BY Complaints DEF P
  <2>2. QED
    BY <1>1, <2>1
<1>6. /\ c.file # "unknown"
      /\ c.file = "" => c.where = "" /\ c.field = "" /\ c.kind \notin RangeKinds
  <2>1. /\ ((a.file = "" /\ (a.where # "" \/ a.field # "" \/ a.kind \in RangeKinds))
              \/ a.file = "unknown") => "file" \in P
    BY Complaints DEF P
  <2>2. "where" \in P => a.where # ""
    <3>1. "where" \in WhereProblems(a) => a.where # ""
      BY InWhen DEF WhereProblems
    <3>2. /\ "where" \notin VerbProblems(a) /\ "where" \notin PatternProblems(a)
          /\ "where" \notin FileProblems(a) /\ "where" \notin RefProblems(a)
      BY DEF VerbProblems, PatternProblems, FileProblems, RefProblems, When
    <3>3. "where" \notin SelectorProblems(a)
      BY DEF SelectorProblems, When
    <3>4. "where" \notin RangeProblems(a)
      BY DEF RangeProblems, When
    <3>5. QED
      BY <3>1, <3>2, <3>3, <3>4, InProblems DEF P
  <2>3. CASE "file" \in P
    <3>1. c.file = "known"
      BY <1>1, <2>3
    <3>2. QED
      BY <3>1
  <2>4. CASE "file" \notin P
    <3>1. c.file = a.file /\ c.kind = a.kind
      BY <1>1, <2>4
    <3>2. /\ a.file # "unknown"
          /\ a.file = "" => a.where = "" /\ a.field = "" /\ a.kind \notin RangeKinds
      BY <2>1, <2>4
    <3>3. a.where = "" => c.where = ""
      BY <1>1, <2>2
    <3>4. a.field = "" => c.field = ""
      BY <1>1
    <3>5. QED
      BY <3>1, <3>2, <3>3, <3>4
  <2>5. QED
    BY <2>3, <2>4
<1>7. /\ c.kind = "context" => c.ref \notin {"", "bare", "elsewhere"}
      /\ c.kind \in RangeKinds => c.range \notin {"none", "reversed"}
      /\ c.kind = "close_read" => c.question
  <2>1. /\ (a.kind = "context" /\ a.ref \in {"", "bare", "elsewhere"}) => "ref" \in P
        /\ (a.kind \in RangeKinds /\ a.range \in {"none", "reversed"}) => "range" \in P
        /\ (a.kind = "close_read" /\ ~a.question) => "question" \in P
    BY Complaints DEF P
  <2>2. QED
    BY <1>1, <2>1
<1>8. Problems(c) = {}
  BY <1>2, <1>3, <1>4, <1>5, <1>6, <1>7, NoComplaint
<1>9. QED
  BY <1>8 DEF c

\* So every complaint but the one about the verb can be met where it was made.
LEMMA AlwaysCorrectable ==
  ASSUME NEW a \in Actions, a.where # "fatal", "kind" \notin Problems(a)
  PROVE  Correctable(a, Problems(a))
<1> DEFINE P == Problems(a)
           c == Corrected(a)
<1>1. Problems([kind |-> a.kind, pattern |-> c.pattern, where |-> c.where, file |-> c.file,
                field |-> c.field, extract |-> c.extract, ref |-> c.ref, range |-> c.range,
                question |-> c.question]) = {}
  <2>1. c = [kind |-> a.kind, pattern |-> c.pattern, where |-> c.where, file |-> c.file,
             field |-> c.field, extract |-> c.extract, ref |-> c.ref, range |-> c.range,
             question |-> c.question]
    BY DEF Corrected
  <2>2. QED
    BY <2>1, CorrectedIsFine
<1> DEFINE
      patterns == IF "pattern" \in P THEN Regexes ELSE {a.pattern}
      wheres == IF "where" \in P THEN Regexes \ {"fatal"} ELSE {a.where}
      names == IF "file" \in P THEN Names ELSE {a.file}
      fields == IF "field" \in P THEN Names ELSE {a.field}
      extracts == IF "extract" \in P THEN Names ELSE {a.extract}
      refs == IF "ref" \in P THEN RefForms ELSE {a.ref}
      ranges == IF "range" \in P THEN Ranges ELSE {a.range}
      questions == IF "question" \in P THEN BOOLEAN ELSE {a.question}
      correctable ==
        \E pattern \in patterns, where \in wheres, file \in names, field \in fields,
           extract \in extracts, ref \in refs, range \in ranges, question \in questions :
          Problems([kind |-> a.kind, pattern |-> pattern, where |-> where, file |-> file,
                    field |-> field, extract |-> extract, ref |-> ref, range |-> range,
                    question |-> question]) = {}
<1>2. /\ c.pattern \in patterns /\ c.where \in wheres /\ c.file \in names
      /\ c.field \in fields /\ c.extract \in extracts /\ c.ref \in refs
      /\ c.range \in ranges /\ c.question \in questions
  BY DEF Corrected, Regexes, Names, RefForms, Ranges
<1>3. correctable = Correctable(a, P)
  BY DEF Correctable
<1> HIDE DEF c, P, patterns, wheres, names, fields, extracts, refs, ranges, questions
<1>4. correctable
  BY <1>1, <1>2
<1>5. QED
  BY <1>3, <1>4 DEF P

LEMMA UnderstoodIsAction ==
  ASSUME NEW r, r.action \in Actions
  PROVE  Understood(r) \in Actions
<1>1. RepairRef(r.action) \in Actions
  BY RepairKeeps
<1>2. Positional(r.action) \in Actions
  <2>1. r.action.kind \in Kinds
    BY DEF Actions
  <2>2. CASE r.action.kind \in PatternKinds
    BY <1>1, <2>2 DEF Positional, PatternKinds, RangeKinds
  <2>3. CASE r.action.kind \in RangeKinds \/ (r.action.kind = "context" /\ r.action.ref = "")
    BY <2>3 DEF Positional, PatternKinds, RangeKinds
  <2>4. CASE r.action.kind = "context" /\ r.action.ref # ""
    BY <2>4 DEF Positional, PatternKinds, RangeKinds, Actions, RefForms, Names
  <2>5. CASE r.action.kind = "conclude"
    <3>1. Positional(r.action) =
            [RepairRef(r.action) EXCEPT
               !.file = IF r.action.file = "" THEN "unknown" ELSE r.action.file]
      BY <2>5 DEF Positional, PatternKinds, RangeKinds
    <3>2. (IF r.action.file = "" THEN "unknown" ELSE r.action.file) \in Names
      BY DEF Actions, Names
    <3>3. QED
      BY <1>1, <3>1, <3>2 DEF Actions
  <2>6. QED
    BY <2>1, <2>2, <2>3, <2>4, <2>5 DEF Kinds, PatternKinds, RangeKinds
<1>3. QED
  BY <1>1, <1>2 DEF Understood, Flattened

\* Every refusal can be acted on in the fields it names.
THEOREM RefusalsAreUseful == Spec => []RefusalsNameTheFix
<1>1. ASSUME TurnInv, Judging, Parses(reply), Refusable(reply),
             "kind" \notin Problems(Understood(reply))
      PROVE  Correctable(Understood(reply), Problems(Understood(reply)))
  <2>1. given.task = "decide" /\ Understood(reply).where # "fatal"
    BY <1>1 DEF Refusable
  <2>2. reply \in Replies /\ reply # Unparsed
    BY <1>1, <2>1 DEF TurnInv, Judging, NoReply, Parses, Unparsed
  <2>3. reply.action \in Actions
    BY <2>2, TurnAssumption
  <2>4. QED
    BY <1>1, <2>1, <2>3, UnderstoodIsAction, AlwaysCorrectable
<1>2. TurnInv => RefusalsNameTheFix
  BY <1>1 DEF RefusalsNameTheFix
<1>3. QED
  BY <1>2, TurnAlways, PTL

=============================================================================
