------------------------------ MODULE Aggregates ------------------------------
(***************************************************************************)
(* The verbs that answer with numbers: tally, timeline, stats, extremes    *)
(* and decode. Each selects values from the matching lines and says        *)
(* something of them; only extremes and decode return lines.               *)
(***************************************************************************)
EXTENDS CaseCorpus

CONSTANTS
  NoSelector,      \* an action's field or extract left empty
  Entities,        \* the words that each kind of entity recognises
  Number,          \* the words that read as numbers, and the number
  Encoded,         \* the runs of base64 characters in a word
  TallyTop,        \* TALLY_TOP_SHOWN
  TallyRare,       \* TALLY_RARE_SHOWN
  GapFactor,       \* BURST_GAP_FACTOR
  ExtremesShown,   \* EXTREMES_SHOWN
  DecodeShown      \* DECODE_SHOWN

ASSUME AggregateAssumption ==
  /\ NoSelector \notin Words
  /\ \A kind \in DOMAIN Entities : Entities[kind] \subseteq Words
  /\ \A w \in DOMAIN Number : w \in Words /\ Number[w] \in Int
  /\ DOMAIN Encoded \subseteq Words
  /\ {TallyTop, TallyRare, GapFactor, DecodeShown} \subseteq Nat /\ ExtremesShown \in Nat \ {0}
  /\ {NoStamp, OddStamp} \cap Int = {}

\* The members of S, each in the place that the number of those up to it gives.
Listing(S, upto) == [n \in 1 .. Cardinality(S) |-> CHOOSE x \in S : Cardinality(upto[x]) = n]

\* The values of f from the smallest, each as often as f takes it.
Ascending(f) ==
  LET atMost(v) == {x \in DOMAIN f : f[x] <= v}
  IN [n \in 1 .. Cardinality(DOMAIN f) |->
        Min({v \in {f[x] : x \in DOMAIN f} : n <= Cardinality(atMost(v))})]

(***************************************************************************)
(* What is selected.                                                       *)
(***************************************************************************)

Selecting(q) == q.field # NoSelector \/ q.extract # NoSelector

\* One selected value: the line it is on, where on the line, and the value.
Row(r, at, value) == [ref |-> r, at |-> at, value |-> value]

\* Without a selector a value is the capture group, here the last literal: once for each
\* time the pattern is found, or, as ".*" is greedy, the last of a line. An empty pattern
\* finds nothing, between any two characters.
PatternRows(pattern, r) ==
  LET text == Text(LineAt(r))
      ends == {at[Len(pattern.anchors)] : at \in Places(pattern, text, Fold)}
  IN CASE pattern.anchors = <<>> -> {Row(r, i, "") : i \in 0 .. Len(text)}
       [] Len(pattern.anchors) = 1 \/ (Len(pattern.anchors) > 1 /\ pattern.tight) ->
            {Row(r, i, text[i]) : i \in ends}
       [] OTHER -> {Row(r, Max(ends), text[Max(ends)])}

EntityRows(kind, r) ==
  LET text == Text(LineAt(r))
  IN {Row(r, i, text[i]) : i \in {j \in DOMAIN text : text[j] \in Entities[kind]}}

FieldRows(field, r) ==
  LET value == FieldValue(r[1], LineAt(r), field)
  IN IF value = NoWord THEN {} ELSE {Row(r, 0, value)}

RowsOf(q, r) ==
  CASE q.extract # NoSelector -> EntityRows(q.extract, r)
    [] q.extract = NoSelector /\ q.field # NoSelector -> FieldRows(q.field, r)
    [] OTHER -> PatternRows(q.pattern, r)

\* The lines a selection reads. A selector leaves out comments, which would otherwise be
\* taken apart into columns.
Read(q) ==
  {r \in Matching(q.pattern, q.file, q.where) : Selecting(q) => ~LineAt(r).comment}

\* A field that cannot be resolved: JSON has no numbered keys, a file without a header
\* only numbered columns.
Unresolvable(q) ==
  /\ q.field # NoSelector
  /\ IF IsJson(q.file) THEN q.field \in DOMAIN Numbered ELSE Column(q.file, q.field) = 0

\* The selection from some lines. A key that none of them carries is an error, not a zero.
Selection(q, lines) ==
  LET rows == UNION {RowsOf(q, r) : r \in lines}
      keyless == q.field # NoSelector /\ IsJson(q.file) /\ lines # {} /\ rows = {}
  IN IF Unanswerable(q) \/ Unresolvable(q) \/ keyless
     THEN [error |-> TRUE, lines |-> {}, rows |-> {}]
     ELSE [error |-> FALSE, lines |-> lines, rows |-> rows]

\* _selected_rows
Selected(q) == Selection(q, Read(q))

\* Aggregate: how many lines matched, the lines it hands over (one entry each, in order),
\* and the numbers it is about.
Aggregate(total, hits, table) ==
  [error |-> FALSE, total |-> total, hits |-> hits, table |-> table]

NoTable == [kind |-> "none"]

Refused == [error |-> TRUE, total |-> 0, hits |-> <<>>, table |-> NoTable]

\* What every verb says when nothing is selected; all but timeline whatever matched.
NothingSelected == Aggregate(0, <<>>, NoTable)

\* The answer a verb gives to a selection with something in it.
Told(s, answer) ==
  CASE s.error -> Refused
    [] ~s.error /\ s.rows = {} -> NothingSelected
    [] OTHER -> answer

(***************************************************************************)
(* tally: a distribution, its two ends in full and its middle as a number. *)
(***************************************************************************)

LexRank(w) == CHOOSE i \in DOMAIN Lex : Lex[i] = w

CountsOf(rows) ==
  [v \in {row.value : row \in rows} |-> Cardinality({row \in rows : row.value = v})]

\* Most frequent first; equals in lexical order.
Ranked(counts) ==
  LET values == DOMAIN counts
  IN Listing(values,
       [v \in values |-> {w \in values : \/ counts[w] > counts[v]
                                         \/ counts[w] = counts[v] /\ LexRank(w) <= LexRank(v)}])

FirstOf(n, s) == SubSeq(s, 1, Min({n, Len(s)}))
LastOf(n, s) == SubSeq(s, Max({1, Len(s) - n + 1}), Len(s))

\* The two ends taken from the whole ranking, so that they meet when it is short.
Distribution_EndsOverlap(counts) ==
  LET ranked == Ranked(counts)
      top == FirstOf(TallyTop, ranked)
      rare == LastOf(TallyRare, ranked)
  IN [kind |-> "tally", counts |-> counts, top |-> top, rare |-> rare,
      middle |-> Max({0, Len(ranked) - Len(top) - Len(rare)})]

Distribution(counts) ==
  LET ranked == Ranked(counts)
      hidden == SubSeq(ranked, TallyTop + 1, Len(ranked))
      rare == LastOf(TallyRare, hidden)
  IN [kind |-> "tally", counts |-> counts, top |-> FirstOf(TallyTop, ranked),
      rare |-> rare, middle |-> Len(hidden) - Len(rare)]

Tally(s) == Told(s, Aggregate(Cardinality(s.lines), <<>>, Distribution(CountsOf(s.rows))))

(***************************************************************************)
(* timeline: the moments of the matching lines, cut into sessions where a  *)
(* gap is many times the median gap. Medians are kept doubled.             *)
(***************************************************************************)

Dated(refs) == {r \in refs : LineAt(r).stamp \notin {NoStamp, OddStamp}}

\* The moments of some lines, earliest first.
Times(refs) == Ascending([r \in refs |-> LineAt(r).stamp])

Gaps(times) == [i \in 1 .. Len(times) - 1 |-> times[i + 1] - times[i]]

\* statistics.median, doubled: of an even number, the two in the middle.
TwiceMedian(sorted) ==
  sorted[(Len(sorted) + 1) \div 2] + sorted[Len(sorted) \div 2 + 1]

\* The gaps after which a session ends, when idle is more than `twice` halves a factor.
Breaks(times, twice) ==
  {i \in DOMAIN Gaps(times) :
     2 * Gaps(times)[i] > GapFactor * (IF twice = 0 THEN 2 ELSE twice)}

\* Losing the last session: the one that no gap ends.
Sessions_DropsLast(times, breaks) ==
  LET starts == {1} \cup {i + 1 : i \in breaks}
  IN {[from |-> a, upto |-> Min({b \in breaks : b >= a})] : a \in starts \ {Max(starts)}}

\* From each break, or the beginning, to the next break, or the end.
Sessions(times, breaks) ==
  LET ends == breaks \cup {Len(times)}
  IN {[from |-> a, upto |-> Min({b \in ends : b >= a})] :
        a \in {1} \cup {i + 1 : i \in breaks}}

Timing(times) ==
  IF Len(times) < 2
  THEN [kind |-> "timeline", times |-> times, sessions |-> {}]
  ELSE [kind |-> "timeline", times |-> times,
        sessions |-> Sessions(times, Breaks(times, TwiceMedian(Ascending(Gaps(times)))))]

\* timeline takes no selector, so it also reads comments.
Timeline(q) ==
  LET lines == Matching(q.pattern, q.file, q.where)
  IN CASE Unanswerable(q) -> Refused
       [] ~Unanswerable(q) /\ lines = {} -> NothingSelected
       [] OTHER -> Aggregate(Cardinality(lines), <<>>, Timing(Times(Dated(lines))))

(***************************************************************************)
(* stats and extremes: how big, and the lines behind the biggest.          *)
(***************************************************************************)

AllNumeric(rows) == \A row \in rows : row.value \in DOMAIN Number

\* What a value measures: its number if all of them are numbers, or else its length.
Measure(rows, value) == IF AllNumeric(rows) THEN Number[value] ELSE Length[value]

Series(rows) == Ascending([row \in rows |-> Measure(rows, row.value)])

\* Statistics over a series in ascending order.
Summary(rows) ==
  LET series == Series(rows)
  IN [kind |-> "stats", numeric |-> AllNumeric(rows), count |-> Len(series),
      distinct |-> Cardinality({row.value : row \in rows}),
      smallest |-> series[1], largest |-> series[Len(series)],
      twiceMedian |-> TwiceMedian(series),
      p95 |-> series[Min({Len(series), (Len(series) * 95) \div 100 + 1})]]

Stats(s) == Told(s, Aggregate(Cardinality(s.lines), <<>>, Summary(s.rows)))

\* The value of each line that comes first.
BestOn_FirstValue(rows, r) ==
  Measure(rows, (CHOOSE row \in rows : /\ row.ref = r
                                       /\ \A w \in rows : w.ref = r => row.at <= w.at).value)

\* The largest value of each line.
BestOn(rows, r) == Max({Measure(rows, row.value) : row \in {w \in rows : w.ref = r}})

\* One entry a line, largest first, ties in the order of the case.
LargestFirst(rows) ==
  LET lines == {row.ref : row \in rows}
      best == [r \in lines |-> BestOn(rows, r)]
  IN Listing(lines,
       [r \in lines |-> {s \in lines : \/ best[s] > best[r]
                                       \/ best[s] = best[r] /\ ~Precedes(r, s)}])

\* The first of the ranked lines, and what the largest values of a selection measure.
Listed(s, ranked) ==
  LET shown == FirstOf(ExtremesShown, ranked)
  IN Aggregate(Cardinality(s.lines), shown,
       [kind |-> "extremes", numeric |-> AllNumeric(s.rows),
        keys |-> [i \in DOMAIN shown |-> BestOn(s.rows, shown[i])], of |-> Len(ranked)])

Extremes(s) == Told(s, Listed(s, LargestFirst(s.rows)))

(***************************************************************************)
(* decode: base64 that validates is shown as text, base64 that only looks  *)
(* so is counted. A run: does it decode (whole groups of four, valid       *)
(* bytes), to readable text, and has it base64's look.                     *)
(***************************************************************************)

Runs(value) == IF value \in DOMAIN Encoded THEN Encoded[value] ELSE <<>>

\* _try_b64_decode
Decodes(run) == run.valid /\ run.readable

\* _looks_base64: digits or symbols, and the entropy of data.
LooksEncoded(run) == run.symbols /\ run.entropy

DecodedOf(row) == {i \in DOMAIN Runs(row.value) : Decodes(Runs(row.value)[i])}

\* The decoded runs in the order they are found, as the lines they are on.
DecodedRefs(rows) ==
  LET found == UNION {{[row |-> row, run |-> i] : i \in DecodedOf(row)} : row \in rows}
      inOrder == SetToSortSeq(found,
        LAMBDA a, b : \/ Precedes(a.row.ref, b.row.ref)
                      \/ a.row.ref = b.row.ref /\ a.row.at < b.row.at
                      \/ a.row = b.row /\ a.run < b.run)
  IN [i \in DOMAIN inOrder |-> inOrder[i].row.ref]

\* Values that look encoded and of which no run decodes.
LeftEncoded(rows) ==
  {row \in rows : /\ DecodedOf(row) = {}
                  /\ \E i \in DOMAIN Runs(row.value) : LooksEncoded(Runs(row.value)[i])}

Decode(s) ==
  LET decoded == DecodedRefs(s.rows)
      table == [kind |-> "decode", decoded |-> Len(decoded),
                left |-> Cardinality(LeftEncoded(s.rows))]
  IN Told(s, Aggregate(Cardinality(s.lines), FirstOf(DecodeShown, decoded), table))

=============================================================================
