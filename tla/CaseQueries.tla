----------------------------- MODULE CaseQueries -----------------------------
(***************************************************************************)
(* Questions put to a case, and the ledger of their answers. The case is   *)
(* profiled once, before anything is asked; then each read-only verb makes *)
(* a step: what it found, what it shows of that, and the hints that are to *)
(* keep a zero, or a small number, from being taken for more than it is.   *)
(***************************************************************************)
EXTENDS CaseProfile, Reproduce

CONSTANTS
  MinAnchor,       \* _MIN_ANCHOR: characters of a literal that identifies a field
  MinLiteral,      \* _MIN_LITERAL: characters of one that identifies a question
  Scenarios,       \* bound: cases, each with what is asked of it and how often
  NotProfiled

\* A question: its verb and the arguments it goes with.
FetchVerbs == {"search", "count", "context", "read_lines"}
AggregateVerbs == {"tally", "timeline", "stats", "extremes", "decode"}
PatternVerbs == {"search", "count"} \cup AggregateVerbs
SelectorVerbs == AggregateVerbs \ {"timeline"}

\* validate_action: what is never put to the case is left out. A field is a column or a
\* key of one file; so is the field of a predicate.
WellFormed(q) ==
  /\ q.verb \in FetchVerbs \cup AggregateVerbs
  /\ q.pattern.anchors \in Seq(Words)
  /\ q.file \in FileNames \cup {AllFiles}
  /\ Selecting(q) => q.verb \in SelectorVerbs
  /\ q.field = NoSelector \/ q.extract = NoSelector
  /\ q.extract \in DOMAIN Entities \cup {NoSelector}
  /\ q.where # {} => q.verb # "read_lines"
  /\ q.where # {} \/ q.field # NoSelector \/ q.verb = "read_lines" => q.file # AllFiles
  /\ q.verb = "context" => q.ref[1] \in FileNames
  /\ q.verb = "read_lines" => 1 <= q.start /\ q.start <= q.end

\* The lines of a file: a comment is no object, and only an object has keys.
LineSet ==
  {line \in [comment : BOOLEAN, object : BOOLEAN, keys : Seq(Words), words : Seq(Words),
             stamp : Int \cup {NoStamp, OddStamp}, stamps : Seq(Int \cup {OddStamp})] :
     /\ ~(line.comment /\ line.object)
     /\ Len(line.keys) = IF line.object THEN Len(line.words) ELSE 0}

ASSUME QueriesAssumption ==
  /\ {MinAnchor, MinLiteral} \subseteq Nat
  /\ \A s \in Scenarios : /\ s.files \in [FileNames -> Seq(LineSet)]
                          /\ \A q \in s.asks : WellFormed(q)

VARIABLES
  asks,       \* the questions of this scenario, and how many may be put
  budget,
  profile,    \* build_profile's result, once there is one
  steps       \* self._evidence.steps

vars == <<files, asks, budget, profile, steps>>

(***************************************************************************)
(* Hints. They look at the literals of a pattern, not at the pattern.      *)
(***************************************************************************)

Literal(word) == [anchors |-> <<word>>, tight |-> FALSE, valid |-> TRUE]

\* longest_literal: the first of the longest, if it is long enough to mean anything.
LongestLiteral(pattern) ==
  LET long == {i \in DOMAIN pattern.anchors :
                 /\ Length[pattern.anchors[i]] >= MinLiteral
                 /\ \A j \in DOMAIN pattern.anchors :
                      Length[pattern.anchors[j]] <= Length[pattern.anchors[i]]}
  IN IF long = {} THEN NoWord ELSE pattern.anchors[Min(long)]

\* The literals that stand for a field, each once.
Anchors(pattern) ==
  LET firsts == {i \in DOMAIN pattern.anchors :
                   /\ Length[pattern.anchors[i]] >= MinAnchor
                   /\ \A j \in 1 .. i - 1 : pattern.anchors[j] # pattern.anchors[i]}
  IN [anchors |-> [i \in 1 .. Cardinality(firsts) |->
                     pattern.anchors[CHOOSE f \in firsts :
                       Cardinality({g \in firsts : g <= f}) = i]],
      tight |-> FALSE, valid |-> TRUE]

\* The lines that hold all of the literals, in whatever order.
Together(pattern, file, where) ==
  {r \in Refs : /\ r[1] \in Targets(file)
                /\ \A a \in ToSet(pattern.anchors) : Finds(Literal(a), LineAt(r))
                /\ where = {} \/ LineMatches(r[1], LineAt(r), where)}

NoHint == [kind |-> "none", lines |-> 0]

\* zero_result_hint: the literals are there, out of order or apart, or the longest is.
ZeroHint(q) ==
  LET anchors == Anchors(q.pattern)
      together == Together(anchors, q.file, q.where)
      inOrder == {r \in together : Finds(anchors, LineAt(r))}
      literal == LongestLiteral(q.pattern)
      alone == Search([q EXCEPT !.pattern = Literal(literal)], 0).total
  IN CASE Len(anchors.anchors) >= 2 /\ together # {} ->
            IF 4 * Cardinality(inOrder) < Cardinality(together)
            THEN [kind |-> "swapped", lines |-> Cardinality(together)]
            ELSE [kind |-> "between", lines |-> Cardinality(inOrder)]
       [] (Len(anchors.anchors) < 2 \/ together = {}) /\ literal # NoWord ->
            IF alone = 0 THEN NoHint ELSE [kind |-> "pattern", lines |-> alone]
       [] OTHER -> NoHint

\* coverage_hint: a pattern that reaches less than a quarter of its literal's lines.
CoverageHint(q, matched) ==
  LET literal == LongestLiteral(q.pattern)
      alone == Search([q EXCEPT !.pattern = Literal(literal)], 0).total
  IN CASE matched = 0 -> ZeroHint(q)
       [] matched # 0 /\ literal # NoWord ->
            IF 4 * matched >= alone THEN NoHint ELSE [kind |-> "partial", lines |-> alone]
       [] OTHER -> NoHint

(***************************************************************************)
(* What the ledger already knows of a question: the steps that put the     *)
(* same literal to the same file, whatever else they asked.                *)
(***************************************************************************)

SameLiteral(q) ==
  {i \in DOMAIN steps : /\ LongestLiteral(q.pattern) # NoWord
                        /\ ~steps[i].error
                        /\ steps[i].question.verb \in PatternVerbs
                        /\ steps[i].question.file = q.file
                        /\ LongestLiteral(steps[i].question.pattern) = LongestLiteral(q.pattern)}

\* The latest of them that has an answer, or 0.
Precedent(q) ==
  LET answered == {i \in SameLiteral(q) : steps[i].total > 0}
  IN IF answered = {} THEN 0 ELSE Max(answered)

\* Those that came back empty.
Attempts(q) == Cardinality({i \in SameLiteral(q) : steps[i].total = 0})

NoNote == [precedent |-> 0, attempt |-> 0]

\* same_literal_note: an earlier answer, and which attempt this is from the third on.
Note(q, step) ==
  IF step.error \/ q.verb \notin PatternVerbs \/ (step.total > 0 /\ step.hint.kind # "partial")
  THEN NoNote
  ELSE [precedent |-> Precedent(q),
        attempt |-> IF step.total = 0 /\ Attempts(q) >= 2 THEN Attempts(q) + 1 ELSE 0]

(***************************************************************************)
(* Steps.                                                                  *)
(***************************************************************************)

\* Lines in the order of the case.
InOrder(refs) == Listing(refs, [r \in refs |-> {s \in refs : ~Precedes(r, s)}])

Answered(q, error, total, lines, truncated, table, hint) ==
  [question |-> q, error |-> error, total |-> total, lines |-> lines,
   truncated |-> truncated, table |-> table, hint |-> hint, note |-> NoNote]

\* A fetch: its lines, and how many it holds back; a count holds none and holds none back.
FetchStep(q, found) ==
  LET counting == q.verb = "count"
  IN Answered(q, found.error, found.total, IF counting THEN <<>> ELSE InOrder(found.lines),
       IF counting THEN 0 ELSE Max({0, found.total - Cardinality(found.lines)}), NoTable,
       IF found.total = 0 /\ ~found.error /\ q.pattern.anchors # <<>>
       THEN ZeroHint(q) ELSE NoHint)

\* An aggregate: its table, and of those that hand over lines how many more matched.
AggregateStep(q, outcome) ==
  Answered(q, outcome.error, outcome.total, outcome.hits,
    IF outcome.hits = <<>> THEN 0 ELSE Max({0, outcome.total - Len(outcome.hits)}),
    outcome.table, IF outcome.error THEN NoHint ELSE CoverageHint(q, outcome.total))

\* The earlier steps that asked the very same and were answered.
Identical(q) == {i \in DOMAIN steps : steps[i].question = q /\ ~steps[i].error}

Fetch(q) ==
  CASE q.verb = "search" -> Search(q, MaxResults)
    [] q.verb = "count" -> Count(q)
    [] q.verb = "context" -> Context(q)
    [] q.verb = "read_lines" -> ReadLines(q)

\* The verbs that select values, of what they select.
Aggregation(q, selected) ==
  CASE q.verb = "tally" -> Tally(selected)
    [] q.verb = "stats" -> Stats(selected)
    [] q.verb = "extremes" -> Extremes(selected)
    [] q.verb = "decode" -> Decode(selected)

\* execute_readonly: the step, by the verb.
Executed(q) ==
  IF q.verb \in FetchVerbs THEN FetchStep(q, Fetch(q))
  ELSE AggregateStep(q, IF q.verb = "timeline" THEN Timeline(q)
                        ELSE Aggregation(q, Selected(q)))

\* The note that _on_executing adds.
Noted(q, step) == [step EXCEPT !.note = Note(q, step)]

\* The step with its note; or, of a question that was answered before, the answer it had.
Ask(q) ==
  /\ profile # NotProfiled /\ Len(steps) < budget
  /\ steps' = Append(steps, IF Identical(q) # {} THEN steps[Min(Identical(q))]
                            ELSE Noted(q, Executed(q)))
  /\ UNCHANGED <<files, asks, budget, profile>>

\* The profile comes first.
Profile ==
  /\ profile = NotProfiled
  /\ profile' = BuildProfile
  /\ UNCHANGED <<files, asks, budget, steps>>

Init ==
  /\ \E s \in Scenarios : files = s.files /\ asks = s.asks /\ budget = s.budget
  /\ profile = NotProfiled
  /\ steps = <<>>

Next == Profile \/ \E q \in asks : Ask(q)

Spec == Init /\ [][Next]_vars


-----------------------------------------------------------------------------
(***************************************************************************)
(* Properties. Each is about answers that the commander holds side by      *)
(* side: two steps, a step and the profile, a step and its command.        *)
(***************************************************************************)

Settled == {i \in DOMAIN steps : ~steps[i].error}

SameLines(p, q) == p.pattern = q.pattern /\ p.file = q.file /\ p.where = q.where

SameValues(p, q) == SameLines(p, q) /\ p.field = q.field /\ p.extract = q.extract

\* Two verbs never give two numbers for the same lines: search, count and timeline agree
\* on how many match, whatever each of them lists; a verb that selects values and finds
\* any agrees with them too, save for the comments it leaves out.
CountsAgree ==
  \A i, j \in Settled :
    LET p == steps[i].question
        q == steps[j].question
        comments == {r \in Matching(p.pattern, p.file, p.where) : LineAt(r).comment}
    IN /\ p.verb \in {"search", "count", "timeline"} /\ q.verb \in PatternVerbs
       /\ SameLines(p, q)
       /\ q.verb \in AggregateVerbs \ {"timeline"} => steps[j].table # NoTable
       => steps[i].total =
            steps[j].total + IF Selecting(q) THEN Cardinality(comments) ELSE 0

\* A predicate and its negation never both hold of a line, and leave out only the lines
\* that do not carry the field: the two counts add up to the lines that do.
WherePartitions ==
  \A i, j \in Settled :
    LET p == steps[i].question
        q == steps[j].question
    IN \A v \in p.where, w \in q.where :
         /\ p.where = {v} /\ q.where = {w} /\ p.verb = "count" /\ q.verb = "count"
         /\ p.pattern = q.pattern /\ p.file = q.file
         /\ v.field = w.field /\ v.value = w.value
         /\ <<v.op, w.op>> \in {<<"=", "!=">>, <<"~", "!~">>}
         => steps[i].total + steps[j].total =
              Cardinality({r \in Matching(p.pattern, p.file, {}) :
                             FieldValue(p.file, LineAt(r), v.field) # NoWord})

\* A tally loses nothing and lists nothing twice: its two ends and the number between them
\* make up all the values, none listed in two places, and its counts add up to what stats
\* says of the same values.
TallyAddsUp ==
  \A i \in Settled :
    steps[i].table.kind = "tally" =>
      LET t == steps[i].table
          values == DOMAIN t.counts
      IN /\ ToSet(t.top) \cap ToSet(t.rare) = {}
         /\ Len(t.top) + Len(t.rare) + t.middle = Cardinality(values)
         /\ \A v \in ToSet(t.top), w \in values \ ToSet(t.top) : t.counts[v] >= t.counts[w]
         /\ \A j \in Settled :
              /\ steps[j].table.kind = "stats"
              /\ SameValues(steps[i].question, steps[j].question)
              => /\ steps[j].table.count = FoldSet(LAMBDA v, sum : sum + t.counts[v], 0, values)
                 /\ steps[j].table.distinct = Cardinality(values)

\* The lines behind a maximum are the lines of extremes: what stats says is largest is the
\* size of its first line, and no line that matched and is not listed holds a value larger
\* than one that is.
ExtremesAreTheTail ==
  \A i \in Settled :
    steps[i].table.kind = "extremes" =>
      LET t == steps[i].table
          rows == Selected(steps[i].question).rows
          withheld == {row \in rows : row.ref \notin ToSet(steps[i].lines)}
      IN /\ \A row \in withheld : Measure(rows, row.value) <= Last(t.keys)
         /\ \A j \in Settled :
              /\ steps[j].table.kind = "stats"
              /\ SameValues(steps[i].question, steps[j].question)
              => steps[j].table.largest = t.keys[1] /\ steps[j].table.numeric = t.numeric

\* A tally of a field, over lines that leave out none but blank ones.
OverTheFile(q) ==
  /\ q.field # NoSelector /\ q.where = {}
  /\ \A r \in Refs : r[1] = q.file /\ ~Blank(LineAt(r)) => Finds(q.pattern, LineAt(r))

\* The blank lines in which it finds a value: the empty first column.
BlankRows(q) == {row \in Selected(q).rows : Blank(LineAt(row.ref))}

\* The page the commander starts from agrees with what it finds out: the distribution that
\* the profile gives of a field is the tally of that field over all the file's lines, save
\* for the empty column that a tally sees on a blank one.
ScopeIsATally ==
  \A i \in Settled :
    LET q == steps[i].question
    IN /\ steps[i].table.kind = "tally" /\ OverTheFile(q) /\ BlankRows(q) = {}
       => \A axis \in profile.scope[q.file] :
            Fold[axis.field] = Fold[q.field] => axis.counts = steps[i].table.counts

\* Timeline and profile make out the same sessions of the same lines when the number of
\* gaps is odd and no moment is missing; and sessions are what they are said to be: they
\* follow one another without a moment left out, none is torn apart by less than the gap
\* that ends another.
SessionsAgree ==
  \A i \in Settled :
    steps[i].table.kind = "timeline" =>
      LET t == steps[i].table
          q == steps[i].question
          within == {Gaps(t.times)[k] : k \in UNION {s.from .. s.upto - 1 : s \in t.sessions}}
          between == {Gaps(t.times)[s.upto] : s \in {u \in t.sessions : u.upto < Len(t.times)}}
      IN /\ Len(t.times) >= 2 =>
              /\ UNION {s.from .. s.upto : s \in t.sessions} = DOMAIN t.times
              /\ \A s, u \in t.sessions : s = u \/ s.upto < u.from \/ u.upto < s.from
              /\ \A g \in within, h \in between : g < h
         /\ \A subject \in DOMAIN profile.bursts :
              /\ Matching(q.pattern, q.file, q.where) = Mentions(subject)
              /\ Len(t.times) = steps[i].total /\ Len(t.times) >= MinStamps
              /\ Len(t.times) % 2 = 0
              => profile.bursts[subject] = t.sessions

\* Every line is an object that has each of the fields, and under one spelling.
OneKeyEach(name, fields) ==
  \A f \in fields, n \in DOMAIN files[name] :
    LET line == files[name][n]
        spelt == {i \in DOMAIN line.keys : line.keys[i] = f}
    IN spelt # {} /\ spelt = {i \in DOMAIN line.keys : Fold[line.keys[i]] = Fold[f]}

\* The columns are set apart by tabs and named once, and every row has each of the fields. A
\* field in a predicate goes by its name; the one selected by a name that is spelt as in the
\* file and not one of several that differ in case, or by a number that is no name.
OneColumnEach(q, fields) ==
  LET lines == files[q.file]
      labels(n) == lines[n].comment /\ Head(lines[n].words) = FieldsLabel
      column(letters) == AwkColumn(<<q.file, Len(lines)>>, q.field, letters)
  IN /\ Tabbed(q.file)
     /\ \A m, n \in DOMAIN lines : labels(m) /\ labels(n) => m = n
     /\ \A f \in fields, n \in DOMAIN lines :
          lines[n].comment \/ FieldValue(q.file, lines[n], f) # NoWord
     /\ \A p \in q.where : p.field \notin DOMAIN Numbered
     /\ q.field # NoSelector =>
          IF q.field \in DOMAIN Numbered THEN column(Fold) = 0
          ELSE column(AsWritten) = column(Fold)

\* The fields of a question.
FieldsOf(q) ==
  {p.field : p \in q.where} \cup IF q.field = NoSelector THEN {} ELSE {q.field}

\* The timestamp that the code takes from a line is the only one on it.
OneStamp(line) == line.stamps = IF line.stamp = NoStamp THEN <<>> ELSE <<line.stamp>>

\* The entities of a line are in lower case, where the printed expression knows no other.
SmallEntities(kind, line) ==
  kind \in SmallOnly =>
    \A i \in DOMAIN Text(line) : Text(line)[i] \in Entities[kind] => Small(Text(line)[i])

\* The question has nothing in it that its command treats differently. Letters in another
\* case, comments (unless a field is read, which both leave out), short rows, columns that
\* no tab sets apart, a line that is no object, names that are not unique, a second
\* timestamp, or one the code looks past, on a line, an empty pattern with nothing to select:
\* each makes some command differ from the answer; so does a false or a null where a key is
\* read.
Reproducible(q) ==
  /\ q.verb \in SelectorVerbs /\ ~Selecting(q) => q.pattern.anchors # <<>>
  /\ q.verb = "timeline" =>
       \A r \in Matching(q.pattern, q.file, q.where) : OneStamp(LineAt(r))
  /\ \/ q.where = {} /\ ~Selecting(q)
     \/ /\ \A r \in Matching(q.pattern, q.file, q.where) :
             /\ FindsLetters(q.pattern, LineAt(r))
             /\ SmallEntities(q.extract, LineAt(r))
             /\ LineAt(r).comment => q.field # NoSelector
             /\ q.field # NoSelector /\ IsJson(q.file) =>
                  FieldValue(q.file, LineAt(r), q.field) \notin JqEmpty
        /\ FieldsOf(q) # {} => IF IsJson(q.file) THEN OneKeyEach(q.file, FieldsOf(q))
                              ELSE OneColumnEach(q, FieldsOf(q))

\* A context is printed as it is shown unless it was filtered or begins the file.
ReproducibleContext(q) == q.where = {} /\ q.ref[2] > Around

\* What a reader who runs the printed command gets, its lines or its stream of values, is
\* what the step reports.
CommandAgrees(step, printed, stream) ==
  LET q == step.question
      verb == q.verb
  IN CASE verb \in {"search", "count"} ->
            /\ step.total = Cardinality(printed)
            /\ ToSet(step.lines) \subseteq printed
       [] verb = "read_lines" -> ToSet(step.lines) = printed
       [] verb = "context" -> ReproducibleContext(q) => ToSet(step.lines) = printed
       [] verb = "timeline" ->
            step.table # NoTable => step.table.times = PrintedTimes(printed)
       [] verb = "tally" ->
            step.table # NoTable => step.table.counts = CountsOf(stream)
       [] verb = "stats" ->
            step.table # NoTable =>
              /\ step.table.count = Cardinality(stream)
              /\ step.table.largest = Last(Series(stream))
       [] verb = "extremes" ->
            /\ step.table # NoTable
            /\ q.field # NoSelector
            /\ \/ AllNumeric(stream)
               \/ \A row \in stream : row.value \notin DOMAIN Number
            => step.table.keys = PrintedSizes(q)
       [] verb = "decode" -> TRUE

\* Every answer can be checked by hand: the command printed beside a step yields what the
\* step reports, for every question that is Reproducible.
CommandsReproduce ==
  \A i \in Settled :
    LET q == steps[i].question
    IN Reproducible(q) => CommandAgrees(steps[i], PrintedLines(q), ValueStream(q))

(***************************************************************************)
(* What the repository says of the program and the program does not do.    *)
(***************************************************************************)

\* actions.py, of the hint on a zero: "any absent anchor zeroes `together`, which keeps a
\* genuine absence silent".
AbsenceIsSilent ==
  \A i \in Settled :
    LET q == steps[i].question
        anchors == Anchors(q.pattern)
    IN /\ Len(anchors.anchors) >= 2
       /\ \E a \in ToSet(anchors.anchors) : Matching(Literal(a), q.file, q.where) = {}
       => steps[i].hint = NoHint

=============================================================================
