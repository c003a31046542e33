------------------------------ MODULE Reproduce ------------------------------
(***************************************************************************)
(* The shell command printed beside an answer, as what it yields when it   *)
(* is run over the same files. grep reads lines, with or without regard to *)
(* case; awk reads rows, with columns by the header; jq reads one JSON     *)
(* object after another. None of them works quite as the code does.        *)
(*                                                                         *)
(* The commands of decode and close_read are left out: what base64 and     *)
(* iconv print, and a worker's reading, are no listing of the case.        *)
(***************************************************************************)
EXTENDS Aggregates

CONSTANTS
  JqEmpty,      \* the words for false and null, of which "// empty" prints nothing
  SmallOnly,    \* the kinds of entity whose printed expression has lower case letters only
  Pieces        \* what the printed expression of a kind cuts out of a word

\* A word in lower case.
Small(word) == Fold[word] = word

\* grep -o cuts out what the code does, but for capitals in an entity that is printed in
\* lower case: of such a word it finds any part, or several, or nothing.
ASSUME ReproduceAssumption ==
  /\ SmallOnly \subseteq DOMAIN Entities
  /\ Pieces \in [DOMAIN Entities -> [Words -> Seq(Words)]]
  /\ \A kind \in DOMAIN Entities, w \in Words :
       kind \notin SmallOnly \/ Small(w) \/ w \notin Entities[kind] =>
         Pieces[kind][w] = IF w \in Entities[kind] THEN <<w>> ELSE <<>>

\* What a comparison goes by that minds the case of letters, as Fold is for one that does not.
AsWritten == [w \in Words |-> w]

\* grep -E finds its pattern letter by letter, grep -iE in any case.
FindsLetters(pattern, line) == Places(pattern, Text(line), AsWritten) # {}

Grep(q) == {r \in Refs : r[1] \in Targets(q.file) /\ FindsLetters(q.pattern, LineAt(r))}
GrepI(q) == {r \in Refs : r[1] \in Targets(q.file) /\ Finds(q.pattern, LineAt(r))}

Preceding(r) == {s \in Refs : s[1] = r[1] /\ s[2] < r[2]}

(***************************************************************************)
(* jq.                                                                     *)
(***************************************************************************)

\* It passes over blank lines and stops for good at one that is no object.
JqReads(refs) ==
  {r \in refs : /\ LineAt(r).object
                /\ \A s \in Preceding(r) \cap refs : LineAt(s).object \/ Blank(LineAt(s))}

\* _json_where: keys in any case; of keys that differ in nothing else, any will do. Of a
\* key that is written twice jq has the last value only.
JqHolds(line, where) ==
  \A p \in where : \E i \in DOMAIN line.keys :
    /\ Fold[line.keys[i]] = Fold[p.field] /\ Holds(p, line.words[i])
    /\ \A j \in DOMAIN line.keys : line.keys[j] = line.keys[i] => j <= i

\* _jq_path: a key letter by letter.
JqValue(line, field) ==
  LET places == {i \in DOMAIN line.keys : line.keys[i] = field}
  IN IF places = {} THEN NoWord ELSE line.words[Max(places)]

(***************************************************************************)
(* awk.                                                                    *)
(***************************************************************************)

\* The column that a name has in the last #fields row above, wherever in the file that is;
\* 0 if it has none. A row whose columns are not set apart by tabs names none.
AwkColumn(r, field, letters) ==
  LET column(s) == {i \in 1 .. Len(LineAt(s).words) - 1 :
                      letters[LineAt(s).words[i + 1]] = letters[field]}
      labelled == {s \in Preceding(r) : /\ LineAt(s).comment
                                        /\ Head(LineAt(s).words) = FieldsLabel
                                        /\ Tabbed(r[1])
                                        /\ column(s) # {}}
  IN IF labelled = {} THEN 0
     ELSE Max(column(CHOOSE s \in labelled : \A t \in labelled : t[2] <= s[2]))

\* A whole row is a word when it has no other, and else NoWord stands for it.
WholeRow(line) == IF line.object \/ Len(Cells(line)) > 1 THEN NoWord ELSE Cells(line)[1]

\* Column 0 is the whole row, and so is the first of a row without tabs; a column past the
\* end of a row is empty.
AwkCell(r, column) ==
  LET cells == Cells(LineAt(r))
  IN CASE column = 0 \/ (column = 1 /\ ~Tabbed(r[1])) -> WholeRow(LineAt(r))
       [] column \in DOMAIN cells /\ Tabbed(r[1]) -> cells[column]
       [] OTHER -> ""

\* The predicates of _tsv_where. A row of several words equals no value, and a regex finds
\* in it what it finds in any of them.
AwkHolds(r, where) ==
  \A p \in where :
    LET text == Text(LineAt(r))
        cell == AwkCell(r, AwkColumn(r, p.field, Fold))
        alike == \E i \in DOMAIN text : Fold[text[i]] \in Like[p.value]
    IN IF cell # NoWord THEN Holds(p, cell)
       ELSE p.op = "!=" \/ (p.op = "~" /\ alike) \/ (p.op = "!~" /\ ~alike)

AwkRows(q) == {r \in Grep(q) : ~LineAt(r).comment /\ AwkHolds(r, q.where)}

(***************************************************************************)
(* The lines, and the values, that a command gets.                         *)
(***************************************************************************)

\* _filter_command, and what _value_stream_where starts from.
Filtered(q) ==
  IF IsJson(q.file) THEN {r \in JqReads(Grep(q)) : JqHolds(LineAt(r), q.where)} ELSE AwkRows(q)

\* The context as sed prints it: as far to either side, and unfiltered.
SedAround(q) ==
  {r \in Refs : r[1] = q.ref[1] /\ q.ref[2] - Around <= r[2] /\ r[2] <= q.ref[2] + Around}

SedRange(q) == {r \in Refs : r[1] = q.file /\ q.start <= r[2] /\ r[2] <= q.end}

\* The lines behind a command that prints lines, or stamps cut out of them.
PrintedLines(q) ==
  CASE q.verb = "context" -> SedAround(q)
    [] q.verb = "read_lines" -> SedRange(q)
    [] q.verb \notin {"context", "read_lines"} /\ q.where = {} -> GrepI(q)
    [] OTHER -> Filtered(q)

\* Every timestamp that grep -o finds on some lines, and the moments they are, earliest first.
StampRows(refs) ==
  UNION {{Row(r, i, LineAt(r).stamps[i]) : i \in DOMAIN LineAt(r).stamps} : r \in refs}

PrintedTimes(refs) ==
  Ascending([row \in {s \in StampRows(refs) : s.value # OddStamp} |-> row.value])

\* What grep -o cuts out of a line for a kind of entity: the pieces of its words.
PrintedEntities(kind, r) ==
  LET text == Text(LineAt(r))
      pieces(i) == Pieces[kind][text[i]]
  IN UNION {{Row(r, i + (k - 1) * Len(text), pieces(i)[k]) : k \in DOMAIN pieces(i)} :
              i \in DOMAIN text}

\* The value awk takes from a row: by number, or by a name, letter by letter or not.
AwkValue(q, r, letters) ==
  AwkCell(r, IF q.field \in DOMAIN Numbered THEN Numbered[q.field]
             ELSE AwkColumn(r, q.field, letters))

\* _value_stream and _value_stream_where: the values that are then sorted and counted. A
\* name is resolved in any case along with predicates, and without them as it is spelt.
ValueStream(q) ==
  LET lines == IF q.where = {} THEN Grep(q) ELSE Filtered(q)
      letters == IF q.where = {} THEN AsWritten ELSE Fold
  IN CASE q.extract # NoSelector -> UNION {PrintedEntities(q.extract, r) : r \in lines}
       [] q.extract = NoSelector /\ q.field # NoSelector /\ IsJson(q.file) ->
            {v \in {Row(r, 0, JqValue(LineAt(r), q.field)) : r \in JqReads(lines)} :
               v.value \notin {NoWord} \cup JqEmpty}
       [] q.extract = NoSelector /\ q.field # NoSelector /\ ~IsJson(q.file) ->
            {Row(r, 0, AwkValue(q, r, letters)) : r \in {s \in lines : ~LineAt(s).comment}}
       [] OTHER ->
            IF q.pattern.anchors = <<>> THEN {}
            ELSE UNION {PatternRows(q.pattern, r) :
                          r \in IF q.where = {} THEN GrepI(q) ELSE Filtered(q)}

(***************************************************************************)
(* extremes: each value by its own measure, the largest first.             *)
(***************************************************************************)

\* A row of cells with a tab between each two.
RowLength(line) ==
  FoldSeq(LAMBDA w, sum : sum + Length[w], Len(Cells(line)) - 1, Cells(line))

\* _AWK_KEY, _JQ_KEY: a number by its size, another word by its length. Of a key that is
\* not there jq makes the word "null"; a column that is not named is the whole row.
OwnMeasure(row) ==
  CASE row.value = NoWord -> IF LineAt(row.ref).object THEN 4 ELSE RowLength(LineAt(row.ref))
    [] row.value # NoWord /\ row.value \in DOMAIN Number -> Number[row.value]
    [] OTHER -> Length[row.value]

\* jq takes each line for itself here and in any case, so that one which is no object
\* stops nothing. awk goes by the name as it is spelt, predicates or not. Only the first place
\* a pattern is found counts, and an empty pattern is printed as the word None, which no
\* line holds.
ExtremesRows(q) ==
  LET rows == IF q.where = {} THEN Grep(q) ELSE AwkRows(q)
  IN CASE q.field # NoSelector /\ IsJson(q.file) ->
            {Row(r, 0, JqValue(LineAt(r), q.field)) :
               r \in {s \in GrepI(q) : LineAt(s).object /\ JqHolds(LineAt(s), q.where)}}
       [] q.field # NoSelector /\ ~IsJson(q.file) ->
            {Row(r, 0, AwkValue(q, r, AsWritten)) : r \in AwkRows(q)}
       [] q.field = NoSelector /\ q.extract # NoSelector ->
            UNION {PrintedEntities(q.extract, r) : r \in rows}
       [] OTHER -> IF q.pattern.anchors = <<>> THEN {}
                   ELSE {Row(r, 0, Last(q.pattern.anchors)) : r \in rows}

\* _extremes_command, _extremes_command_where: the sizes it prints, from the largest.
PrintedSizes(q) ==
  LET sizes == Ascending([row \in ExtremesRows(q) |-> OwnMeasure(row)])
  IN [i \in 1 .. Min({ExtremesShown, Len(sizes)}) |-> sizes[Len(sizes) + 1 - i]]

=============================================================================
