---------------------------- MODULE CommanderTurn ----------------------------
(***************************************************************************)
(* One turn of the commander: the model is asked for an action, its reply  *)
(* is rescued from tool-call clothing, parsed and validated, refused and   *)
(* asked for again, and the accepted action is executed. The brief is      *)
(* asked for through the same loop, with nothing to rescue or to validate. *)
(*                                                                         *)
(* An argument is abstracted to what the code tells apart. A regex is "ok",*)
(* "bad" (re.error) or "fatal" (compiling it raises something else); the   *)
(* other verbs that take a pattern and a selector behave as tally does.    *)
(***************************************************************************)
EXTENDS Naturals, FiniteSets

CONSTANTS
  Replies,       \* bound: what the model may send
  MaxAttempts,   \* max_validation_retries + 1
  MinSteps       \* min_steps_before_conclude

Kinds == {"search", "timeline", "tally", "context", "read_lines", "close_read", "conclude"}
Optional == {"timeline", "tally"}
PatternKinds == {"search", "timeline", "tally"}
SelectorKinds == {"tally"}
WhereKinds == PatternKinds \cup {"context"}
RangeKinds == {"read_lines", "close_read"}

Regexes == {"", "ok", "bad", "fatal"}
Names == {"", "known", "unknown"}
RefForms == {"", "whole", "beyond", "elsewhere", "bare"}
Ranges == {"none", "inside", "beyond", "reversed"}

Actions ==
  [kind : Kinds, pattern : Regexes, where : Regexes, file : Names, field : Names,
   extract : Names, ref : RefForms, range : Ranges, question : BOOLEAN]

\* How a reply is dressed: whether reasoning and expectation are stated at the top, where
\* the arguments are, under their own names or aliases, and beside keys nobody knows.
Shapes ==
  [stated : BOOLEAN, args : {"top", "nested", "positional"}, aliased : BOOLEAN,
   unknown_key : BOOLEAN]

\* A reply that is not JSON, is no object, or has no verb.
Unparsed == [parses |-> FALSE, arrived |-> TRUE]

\* A brief of the right shape; it has no other way to be right or wrong.
BriefReply == [parses |-> TRUE, arrived |-> TRUE]

NoReply == [parses |-> FALSE, arrived |-> FALSE]

Reply(action, shape) ==
  [parses |-> TRUE, arrived |-> TRUE, action |-> action, shape |-> shape]

ASSUME TurnAssumption ==
  /\ \A r \in Replies :
       \/ r = Unparsed
       \/ r.action \in Actions /\ r.shape \in Shapes /\ r = Reply(r.action, r.shape)
  /\ MaxAttempts \in Nat \ {0} /\ MinSteps \in Nat

VARIABLES
  given,       \* what is asked for, the skills enabled, the steps taken
  attempt,     \* the attempt under way
  reply,       \* the reply that is judged, or the one that was accepted
  records,     \* the validation events in the transcript
  result       \* how the turn stands

vars == <<given, attempt, reply, records, result>>

(***************************************************************************)
(* coercion.py                                                             *)
(***************************************************************************)

\* Filling in the case's only file when the action names none.
RepairRef_GuessesTheFile(a) ==
  IF a.ref = "bare" THEN [a EXCEPT !.ref = "whole"] ELSE a

\* A line number is completed from the action's own file, never from another.
RepairRef(a) ==
  CASE a.ref = "bare" /\ a.file = "known" -> [a EXCEPT !.ref = "whole"]
    [] a.ref = "bare" /\ a.file = "unknown" -> [a EXCEPT !.ref = "elsewhere"]
    [] OTHER -> a

\* Pydantic can take it as it is: nothing nested, nothing to fill in.
LooksConformant(s) == s.stated /\ s.args = "top"

\* What the positional argument becomes: the regex of the verbs that take one, the file
\* of the others, whether they take a file or not.
Positional(a) ==
  CASE a.kind \in PatternKinds -> RepairRef(a)
    [] a.kind \in RangeKinds \/ (a.kind = "context" /\ a.ref = "") -> a
    [] a.kind = "context" /\ a.ref # "" ->
         [a EXCEPT !.ref = "", !.file = IF a.file = "" THEN "unknown" ELSE a.file]
    [] a.kind = "conclude" ->
         [RepairRef(a) EXCEPT !.file = IF a.file = "" THEN "unknown" ELSE a.file]

\* _flatten(repair_ref(payload)) and the aliases: the repair looks at the top level and at
\* the names of the schema only.
Flattened(a, s) ==
  CASE s.args = "top" /\ ~s.aliased -> RepairRef(a)
    [] s.args = "positional" -> Positional(a)
    [] OTHER -> a

\* The schema forbids keys it does not have; the rescue drops them.
Parses(r) ==
  /\ r.parses
  /\ given.task = "decide" =>
       (LooksConformant(r.shape) => ~r.shape.aliased /\ ~r.shape.unknown_key)

Understood(r) ==
  IF LooksConformant(r.shape) THEN RepairRef(r.action) ELSE Flattened(r.action, r.shape)

(***************************************************************************)
(* validate_action: the fields it complains about.                         *)
(***************************************************************************)

\* The field, if the condition holds of the action.
When(cond, name) == IF cond THEN {name} ELSE {}

VerbProblems(a) ==
  When(\/ a.kind \in Optional \ given.skills
       \/ a.kind = "conclude" /\ given.steps_taken < MinSteps, "kind")

\* A where-only filter is a complete question, but not for a timeline.
PatternProblems(a) ==
  When(/\ a.kind \in PatternKinds /\ a.pattern = ""
       /\ a.kind = "timeline" \/ a.where = "", "pattern")

WhereProblems(a) ==
  When(a.where # "" /\ (a.kind \notin WhereKinds \/ a.where = "bad"), "where")

\* Complaining about field, whichever of the two selectors was set.
SelectorProblems_NamesField(a) ==
  UNION {When(a.kind \notin SelectorKinds /\ (a.field # "" \/ a.extract # ""), "field"),
         When(a.field # "" /\ a.extract # "", "extract"),
         When(a.extract = "unknown", "extract")}

SelectorProblems(a) ==
  UNION {When(a.kind \notin SelectorKinds /\ a.field # "", "field"),
         When(a.kind \notin SelectorKinds /\ a.field = "" /\ a.extract # "", "extract"),
         When(a.field # "" /\ a.extract # "", "extract"),
         When(a.extract = "unknown", "extract")}

\* Trusting a name the corpus may not have.
FileProblems_Trusting(a) ==
  When(/\ a.file = ""
       /\ a.where # "" \/ a.field # "" \/ a.kind \in RangeKinds, "file")

\* A column, a predicate or a range belongs to one file, and a file named must exist.
FileProblems(a) ==
  When(\/ a.file = "" /\ (a.where # "" \/ a.field # "" \/ a.kind \in RangeKinds)
       \/ a.file = "unknown", "file")

RefProblems(a) ==
  When(a.kind = "context" /\ a.ref \in {"", "bare", "elsewhere"}, "ref")

RangeProblems(a) ==
  When(a.kind \in RangeKinds /\ a.range \in {"none", "reversed"}, "range") \cup
  When(a.kind = "close_read" /\ ~a.question, "question")

Problems(a) ==
  UNION {VerbProblems(a), PatternProblems(a), WhereProblems(a), SelectorProblems(a),
         FileProblems(a), RefProblems(a), RangeProblems(a)}

(***************************************************************************)
(* execute_readonly, and the lines a close_read hands to its worker.       *)
(***************************************************************************)

\* A predicate is tried first, then the file, the selector, the regex and the column.
ReadsAPattern(a) ==
  IF a.where = "bad" THEN "bad_predicate"
  ELSE IF a.file = "unknown" THEN "no_such_file"
  ELSE IF a.extract = "unknown" THEN "unknown_extract"
  ELSE IF a.pattern = "bad" THEN "bad_regex"
  ELSE IF a.pattern = "fatal" THEN "raised"
  ELSE IF a.kind \in SelectorKinds /\ a.field = "unknown" THEN "no_such_field"
  ELSE "answer"

Outcome(a) ==
  CASE a.kind \in PatternKinds -> ReadsAPattern(a)
    [] a.kind = "context" ->
         IF a.where = "bad" THEN "bad_predicate"
         ELSE IF a.ref = "whole" THEN "answer" ELSE "no_such_line"
    [] a.kind \in RangeKinds ->
         IF a.file = "known" /\ a.range = "inside" THEN "answer" ELSE "no_such_lines"

Outcomes ==
  {"answer", "bad_predicate", "no_such_file", "unknown_extract", "bad_regex",
   "no_such_field", "no_such_line", "no_such_lines", "raised"}

(***************************************************************************)
(* The turn.                                                               *)
(***************************************************************************)

Undecided == [stands |-> "undecided"]
Accepted(a) == [stands |-> "accepted", action |-> a]
Executed(a, o) == [stands |-> "executed", action |-> a, outcome |-> o]
Written == [stands |-> "written"]
GaveUp == [stands |-> "gave_up"]
Raised == [stands |-> "raised"]

Init ==
  /\ given \in [task : {"decide", "synthesize"}, skills : {{}, Optional},
               steps_taken : 0 .. MinSteps]
  /\ attempt = 1
  /\ reply = NoReply
  /\ records = 0
  /\ result = Undecided

Asking == result = Undecided /\ ~reply.arrived

ReplyArrives ==
  /\ Asking
  /\ reply' \in IF given.task = "decide" THEN Replies ELSE {Unparsed, BriefReply}
  /\ UNCHANGED <<given, attempt, records, result>>

\* A transport failure is not retried.
CallFails ==
  /\ Asking
  /\ result' = GaveUp
  /\ UNCHANGED <<given, attempt, reply, records>>

Judging == result = Undecided /\ reply.arrived

\* parse_predicate lets out what is not an re.error, before the attempt is recorded.
ValidationRaises ==
  /\ Judging /\ given.task = "decide"
  /\ Parses(reply) /\ Understood(reply).where = "fatal"
  /\ result' = Raised
  /\ UNCHANGED <<given, attempt, reply, records>>

Acceptable(r) ==
  /\ Parses(r)
  /\ given.task = "decide" =>
       Understood(r).where # "fatal" /\ Problems(Understood(r)) = {}

Refusable(r) ==
  Parses(r) =>
    /\ given.task = "decide"
    /\ Understood(r).where # "fatal" /\ Problems(Understood(r)) # {}

Accept ==
  /\ Judging /\ Acceptable(reply)
  /\ records' = records + 1
  /\ result' = IF given.task = "decide" THEN Accepted(Understood(reply)) ELSE Written
  /\ UNCHANGED <<given, attempt, reply>>

RetryLeft == attempt < MaxAttempts

\* The reply and what is wrong with it go into the next prompt.
Refuse ==
  /\ Judging /\ Refusable(reply)
  /\ records' = records + 1
  /\ reply' = NoReply
  /\ IF RetryLeft
     THEN attempt' = attempt + 1 /\ UNCHANGED result
     ELSE result' = GaveUp /\ UNCHANGED attempt
  /\ UNCHANGED given

\* Concluding is for the state machine, everything else is run.
Execute ==
  /\ result.stands = "accepted" /\ result.action.kind # "conclude"
  /\ result' = Executed(result.action, Outcome(result.action))
  /\ UNCHANGED <<given, attempt, reply, records>>

Next ==
  \/ ReplyArrives \/ CallFails \/ ValidationRaises \/ Accept \/ Refuse \/ Execute

Spec == Init /\ [][Next]_vars

-----------------------------------------------------------------------------
(***************************************************************************)
(* Properties.                                                             *)
(***************************************************************************)

Chosen == result.stands \in {"accepted", "executed"}

\* A line number completed with the file the action names.
Completed(a) ==
  IF a.ref = "bare" /\ a.file = "known" THEN [a EXCEPT !.ref = "whole"] ELSE a

\* What is run is what the model asked for, in whichever of the shapes it came: the rescue
\* loses no argument, invents none and moves none, but for a line number that is
\* completed with the file the model named beside it. No shape gives one argument twice,
\* under two names or at two levels, or has its arguments as the text of a JSON object.
RunsWhatWasAsked ==
  Chosen => result.action \in {reply.action, Completed(reply.action)}

\* The validator and the executor are two readings of one contract: an accepted action
\* is never refused by the executor for a predicate, a file or a selector the validator
\* had before it; what is left are regexes, and lines and columns only the data can tell.
ValidatorSpeaksForExecutor ==
  result.stands = "executed" =>
    /\ result.outcome \notin {"bad_predicate", "no_such_file", "unknown_extract"}
    /\ result.outcome = "no_such_line" => result.action.ref = "beyond"
    /\ result.outcome = "no_such_lines" => result.action.range = "beyond"

\* Whether some acceptable action differs from a in the given fields only.
Correctable(a, fields) ==
  \E pattern \in IF "pattern" \in fields THEN Regexes ELSE {a.pattern},
     where \in IF "where" \in fields THEN Regexes \ {"fatal"} ELSE {a.where},
     file \in IF "file" \in fields THEN Names ELSE {a.file},
     field \in IF "field" \in fields THEN Names ELSE {a.field},
     extract \in IF "extract" \in fields THEN Names ELSE {a.extract},
     ref \in IF "ref" \in fields THEN RefForms ELSE {a.ref},
     range \in IF "range" \in fields THEN Ranges ELSE {a.range},
     question \in IF "question" \in fields THEN BOOLEAN ELSE {a.question} :
    Problems([kind |-> a.kind, pattern |-> pattern, where |-> where, file |-> file,
              field |-> field, extract |-> extract, ref |-> ref, range |-> range,
              question |-> question]) = {}

\* A refusal can be acted on: whatever combination of arguments was refused, some action
\* that differs in the fields complained about and in nothing else is acceptable. (A verb
\* that may not be used yet has no such correction; it takes another question.)
RefusalsNameTheFix ==
  Judging /\ Parses(reply) /\ Refusable(reply) =>
    \A asked \in {Understood(reply)} :
      "kind" \in Problems(asked) \/ Correctable(asked, Problems(asked))

=============================================================================
