---------------------------- MODULE EvidenceLedger ----------------------------
(***************************************************************************)
(* The evidence ledger and what becomes of it in a prompt. Every turn the  *)
(* commander is shown the ledger: recent steps with as many of their lines *)
(* as a budget of characters allows, older ones with a sample. The last    *)
(* prompt, for the brief, adds the lines "on the record". What the claims  *)
(* of the brief cite is then looked up in the lines the steps fetched.     *)
(*                                                                         *)
(* A line is its number in the one file of the case; a pattern is the set  *)
(* of lines it matches, a range the numbers from its start to its end. The *)
(* text of a line is abstracted to how many characters its rendering       *)
(* takes. A claim is the sequence of its citation entries: a reference, a  *)
(* reference dressed in the text of its line (the way the ledger renders   *)
(* it), or prose.                                                          *)
(*                                                                         *)
(* What the worker of a close_read cites is its own affair, and so is      *)
(* whether it comes back at all (CloseRead, GruntReports); where the       *)
(* budget of tokens cuts its range short is left open (CaseFiles).         *)
(***************************************************************************)
EXTENDS Naturals, Sequences, FiniteSetsExt, SequencesExt

CONSTANTS
  NumLines,            \* lines in the file
  Width,               \* the length of each line
  Patterns,            \* what the commander can search for
  Matches,             \* the lines each pattern matches
  Ranges,              \* the ranges it can ask for
  Span,                \* the line numbers of each range
  Valued,              \* the lines that hold a value of the entity that is extracted
  Decoded,             \* how many base64 texts are decoded from the values of each line
  MaxResults,          \* MAX_RESULTS
  ExtremesShown,       \* EXTREMES_SHOWN
  DecodeShown,         \* DECODE_SHOWN
  MaxCloseRead,        \* MAX_CLOSE_READ_LINES
  CloseReadShown,      \* lines listed of a close_read that cites none: 20
  Around,              \* lines before and after the centre of a context
  RenderedInFull,      \* STEPS_RENDERED_IN_FULL
  Sample,              \* COLLAPSED_LINE_SAMPLE
  LineMax,             \* LINE_MAX_CHARS, the most a rendered line takes
  LineBudget,          \* STEP_LINE_BUDGET_CHARS
  RecordMax,           \* the most a line on the record takes
  RecordHeader,        \* the length of a step's heading on the record
  RecordBudget,        \* _ON_RECORD_BUDGET_CHARS
  MaxSteps,            \* bound: steps in the ledger
  NoRef,               \* bound: stands for every line the case does not have
  Bodies               \* bound: the briefs the model may write, as sequences of claims

Lines == 1 .. NumLines

Entries == [form : {"ref", "dressed"}, line : Lines \cup {NoRef}] \cup
           [form : {"prose"}, line : {NoRef}]

ASSUME LedgerAssumption ==
  /\ NumLines \in Nat \ {0}
  /\ Width \in [Lines -> Nat \ {0}]
  /\ Matches \in [Patterns -> SUBSET Lines]
  /\ Span \in [Ranges -> SUBSET (Nat \ {0})]
  /\ Valued \subseteq Lines
  /\ Decoded \in [Lines -> Nat]
  /\ {MaxResults, ExtremesShown, DecodeShown, MaxCloseRead, CloseReadShown, Around,
      RenderedInFull, Sample, LineMax, LineBudget, RecordMax, RecordHeader, RecordBudget,
      MaxSteps} \subseteq Nat \ {0}
  /\ NoRef \notin Lines
  /\ \A body \in Bodies : body \in Seq(Seq(Entries))
  \* 3 * 360 characters of 4000: the sample of a step always fits its budget.
  /\ Sample * LineMax <= LineBudget

VARIABLES
  plain,       \* whether the name of the file has only the characters a citation may have
  steps,       \* self._evidence.steps
  prompt,      \* the lines whose text the latest prompt shows
  displayed,   \* the lines whose text some prompt has shown
  brief        \* the claims of the brief and what was flagged, or not written yet

vars == <<plain, steps, prompt, displayed, brief>>

(***************************************************************************)
(* What an action finds.                                                   *)
(***************************************************************************)

Questions ==
  [kind : {"search", "count", "extremes", "decode"}, about : Patterns] \cup
  [kind : {"context"}, about : Lines] \cup
  [kind : {"read_lines", "close_read"}, about : Ranges] \cup
  [kind : {"bad_request"}, about : {NoRef}]

\* A result: the lines it carries, how many there are, how many of them it withholds.
Result(lines, total, truncated) ==
  [error |-> FALSE, lines |-> lines, total_matches |-> total, truncated |-> truncated]

Failed == [error |-> TRUE, lines |-> <<>>, total_matches |-> 0, truncated |-> 0]

\* The members of S, each in the place that the number of those up to it gives.
InOrder(S, upto) == [n \in 1 .. Cardinality(S) |-> CHOOSE l \in S : Cardinality(upto[l]) = n]

InFileOrder(S) == InOrder(S, [l \in S |-> {m \in S : m <= l}])

\* extremes ranks by the value, here the length; the sort is stable.
LargestFirst(S) ==
  InOrder(S, [l \in S |-> {m \in S : \/ Width[m] > Width[l]
                                     \/ Width[m] = Width[l] /\ m <= l}])

FirstOf(n, s) == SubSeq(s, 1, IF n < Len(s) THEN n ELSE Len(s))

\* The scan goes on past the cap, so the count stays exact.
Search(p) ==
  LET hits == FirstOf(MaxResults, InFileOrder(Matches[p]))
  IN Result(hits, Cardinality(Matches[p]), Cardinality(Matches[p]) - Len(hits))

Count(p) == Result(<<>>, Cardinality(Matches[p]), 0)

\* What matches is counted before it is ranked, but not when nothing can be ranked.
Extremes(p) ==
  LET ranked == Matches[p] \cap Valued
      hits == FirstOf(ExtremesShown, LargestFirst(ranked))
  IN IF ranked = {}
     THEN Result(<<>>, 0, 0)
     ELSE Result(hits, Cardinality(Matches[p]), Cardinality(Matches[p]) - Len(hits))

\* One entry for each text that is decoded, in file order; how many lines matched is all
\* there is to tell how many are left out.
Decode(p) ==
  LET texts == UNION {{<<l, k>> : k \in 1 .. Decoded[l]} : l \in Matches[p] \cap Valued}
      upto == [t \in texts |-> {u \in texts : u[1] < t[1] \/ (u[1] = t[1] /\ u[2] <= t[2])}]
      inOrder == InOrder(texts, upto)
      hits == FirstOf(DecodeShown, [i \in DOMAIN inOrder |-> inOrder[i][1]])
      matched == Cardinality(Matches[p])
  IN CASE Matches[p] \cap Valued = {} -> Result(<<>>, 0, 0)
       [] Matches[p] \cap Valued # {} /\ hits = <<>> -> Result(<<>>, matched, 0)
       [] OTHER -> Result(hits, matched, IF matched > Len(hits) THEN matched - Len(hits) ELSE 0)

\* A window cut off at the top of the file is made up for below the centre.
Window(centre) ==
  LET start == IF centre > Around THEN centre - Around ELSE 1
      end == start + 2 * Around
  IN start .. (IF end < NumLines THEN end ELSE NumLines)

Context(centre) == Result(InFileOrder(Window(centre)), Cardinality(Window(centre)), 0)

\* The lines of a range that exist.
InRange(range) == InFileOrder(Span[range] \cap Lines)

ReadLines(range) ==
  IF InRange(range) = <<>> THEN Failed ELSE Result(InRange(range), Len(InRange(range)), 0)

\* What a worker that has read some lines comes back with: the lines it cites or, when it
\* cites none, the first ones. The rest of what it read is in nothing but the number.
Reading(read, cited) ==
  LET shown == IF cited = {} THEN FirstOf(CloseReadShown, read) ELSE InFileOrder(cited)
  IN Result(shown, Len(read), 0)

\* It is given the head of the range, and may fail.
CloseReads(range) ==
  LET most == FirstOf(MaxCloseRead, InRange(range))
      read(n) == FirstOf(n, most)
  IN {Failed} \cup
     UNION {{Reading(read(n), cited) : cited \in SUBSET ToSet(read(n))} : n \in 1 .. Len(most)}

Found(q) ==
  CASE q.kind = "search" -> Search(q.about)
    [] q.kind = "count" -> Count(q.about)
    [] q.kind = "extremes" -> Extremes(q.about)
    [] q.kind = "context" -> Context(q.about)
    [] q.kind = "decode" -> Decode(q.about)
    [] q.kind = "read_lines" -> ReadLines(q.about)
    [] q.kind = "bad_request" -> Failed

\* _previous_identical: the steps that asked the same and did not fail.
Earlier(q) == {i \in DOMAIN steps : steps[i].question = q /\ ~steps[i].result.error}

\* The results the step may record: that of the earliest step that asked the same, and else
\* what is found, or what a worker comes back with.
Answers(q) ==
  CASE Earlier(q) # {} -> {steps[Min(Earlier(q))].result}
    [] Earlier(q) = {} /\ q.kind = "close_read" -> CloseReads(q.about)
    [] OTHER -> {Found(q)}

(***************************************************************************)
(* What a prompt shows of a step, and says that it does not show.          *)
(***************************************************************************)

View(lines, withheld) == [lines |-> lines, withheld |-> withheld]

\* The characters of the first n entries of a listing, each cut to max.
Spent(lines, n, max) ==
  LET chars[i \in 0 .. n] ==
        IF i = 0 THEN 0
        ELSE chars[i - 1] + (IF Width[lines[i]] < max THEN Width[lines[i]] ELSE max)
  IN chars[n]

\* _render_lines stops at the first entry that would go over the budget.
FullView(r) ==
  LET fit == Max({n \in 0 .. Len(r.lines) : Spent(r.lines, n, LineMax) <= LineBudget})
  IN View(FirstOf(fit, r.lines), Len(r.lines) - fit + r.truncated)

\* "A step's count is most of its value": the collapse the code used to have.
CollapsedView_CountOnly(r) == View(<<>>, Len(r.lines) + r.truncated)

\* Reporting as withheld only the lines that were fetched.
CollapsedView_ForgetsTruncated(r) ==
  LET out == FirstOf(Sample, r.lines) IN View(out, Len(r.lines) - Len(out))

CollapsedView(r) ==
  LET out == FirstOf(Sample, r.lines)
  IN View(out, Len(r.lines) - Len(out) + r.truncated)

\* Evidence.render: the view of each step.
Render(ledger) ==
  [i \in DOMAIN ledger |->
     IF i + RenderedInFull <= Len(ledger)
     THEN CollapsedView(ledger[i].result)
     ELSE FullView(ledger[i].result)]

SeenIn(views) == UNION {ToSet(views[i].lines) : i \in DOMAIN views}

\* What the record has spent when it comes to entry j of step i.
RecordSpent(ledger, i, j) ==
  LET through[k \in 0 .. i] ==
        IF k = 0 \/ ledger[k].result.lines = <<>>
        THEN IF k = 0 THEN 0 ELSE through[k - 1]
        ELSE through[k - 1] + RecordHeader +
             Spent(ledger[k].result.lines,
                   IF k = i THEN j - 1 ELSE Len(ledger[k].result.lines), RecordMax)
  IN through[i]

\* _evidence_on_record: flat and uncollapsed until the budget is spent.
OnRecord(ledger) ==
  UNION {{ledger[i].result.lines[j] :
            j \in {k \in DOMAIN ledger[i].result.lines :
                     RecordSpent(ledger, i, k) <= RecordBudget}} : i \in DOMAIN ledger}

\* Only the lines of the steps still rendered in full.
ShownRefs_Recent ==
  UNION {ToSet(steps[i].result.lines) :
           i \in {k \in DOMAIN steps : k + RenderedInFull > Len(steps)}}

\* Evidence.shown_refs: the lines a brief may cite.
ShownRefs == UNION {ToSet(steps[i].result.lines) : i \in DOMAIN steps}

(***************************************************************************)
(* The investigation, as the ledger sees it.                               *)
(***************************************************************************)

\* normalise_ref: what leads the entry, when that is a reference. It cannot be made out
\* when the name of the file has other characters in it, a blank say.
NormaliseRef(e) ==
  CASE e.line \in Lines /\ ~plain -> [e EXCEPT !.form = "prose"]
    [] e.form = "dressed" /\ (e.line \in Lines => plain) -> [e EXCEPT !.form = "ref"]
    [] OTHER -> e

Cited(body) == UNION {ToSet(body[i]) : i \in DOMAIN body}

\* _assemble_brief: no citation blocks the brief, but each that cannot be chased is told.
Audit(body) ==
  LET refs == {NormaliseRef(e) : e \in Cited(body)}
  IN [written |-> TRUE, body |-> body,
      malformed |-> {r \in refs : r.form # "ref"},
      unresolved |-> {r \in refs : r.form = "ref" /\ r.line \notin ShownRefs},
      uncited |-> {i \in DOMAIN body : body[i] = <<>>}]

NoBrief ==
  [written |-> FALSE, body |-> <<>>, malformed |-> {}, unresolved |-> {}, uncited |-> {}]

Init == plain \in BOOLEAN /\ steps = <<>> /\ prompt = {} /\ displayed = {} /\ brief = NoBrief

Show(lines) == prompt' = lines /\ displayed' = displayed \cup lines

\* A turn: the ledger is rendered, a question is asked, its answer becomes a step.
Turn(q) ==
  /\ ~brief.written /\ Len(steps) < MaxSteps
  /\ Show(SeenIn(Render(steps)))
  /\ \E answer \in Answers(q) : steps' = Append(steps, [question |-> q, result |-> answer])
  /\ UNCHANGED <<plain, brief>>

\* The last prompt, and a brief that cites what it likes, shown to it or not.
Synthesize(body) ==
  /\ ~brief.written
  /\ Show(SeenIn(Render(steps)) \cup OnRecord(steps))
  /\ brief' = Audit(body)
  /\ UNCHANGED <<plain, steps>>

Next ==
  \/ \E q \in Questions : Turn(q)
  \/ \E body \in Bodies : Synthesize(body)

Spec == Init /\ [][Next]_vars

-----------------------------------------------------------------------------
(***************************************************************************)
(* Properties.                                                             *)
(***************************************************************************)

\* What a step that lists lines leaves out, recent or collapsed, over budget or not, it says
\* that it leaves out. Of a search, extremes, context or read_lines no line is listed twice,
\* and what is shown and what is said to be withheld add up to everything that matched. A
\* decode tells the larger of its listed texts and the lines that matched; a close_read, only
\* the lines that its worker cites, each once, and never more than it read: the other lines
\* it read are withheld without a count.
EveryMatchIsAccountedFor ==
  \A i \in DOMAIN steps :
    LET r == steps[i].result
        view == Render(steps)[i]
        told == Len(view.lines) + view.withheld
        kind == steps[i].question.kind
    IN r.lines # <<>> =>
         /\ kind = "decode" => /\ told \in {r.total_matches, Len(r.lines)}
                               /\ told >= r.total_matches /\ told >= Len(r.lines)
         /\ kind = "close_read" => told = Len(r.lines) /\ told <= r.total_matches
         /\ kind \notin {"decode", "close_read"} => told = r.total_matches
         /\ kind # "decode" => IsInjective(view.lines)

\* The commander does not have to ask twice: from the step on, every prompt shows the
\* first lines of every answer, also when the step has aged out, also in the last prompt.
AnswersStayInSight ==
  [][\A i \in DOMAIN steps :
       ToSet(FirstOf(Sample, steps[i].result.lines)) \subseteq prompt']_vars

\* Of a claim, the entries that can be chased: to a line some step fetched.
Chaseable(claim) ==
  {e \in ToSet(claim) :
     \E i \in DOMAIN steps : e.line \in ToSet(steps[i].result.lines)}

\* The audit is neither too strict nor too lenient. A line whose text any prompt has
\* shown, however long ago, is never flagged, in whatever dress the model cites it, as long
\* as the name of its file can be told in a citation; and, whatever the file's name, a
\* claim that the audit says nothing about has citations, all of lines some step fetched.
HonestCitationsResolve ==
  brief.written =>
    LET flagged == brief.malformed \cup brief.unresolved IN
    /\ \A e \in Cited(brief.body) :
         plain /\ e.line \in displayed => \A f \in flagged : f.line # e.line
    /\ \A i \in DOMAIN brief.body \ brief.uncited :
         \/ Chaseable(brief.body[i]) = ToSet(brief.body[i]) /\ brief.body[i] # <<>>
         \/ \E e \in ToSet(brief.body[i]), f \in flagged : f.line = e.line

=============================================================================
