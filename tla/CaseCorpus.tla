------------------------------ MODULE CaseCorpus ------------------------------
(***************************************************************************)
(* The lines of a case and what can be asked of them without a model: a    *)
(* line by its reference, the lines a pattern and field predicates select, *)
(* the values of a column or a key.                                        *)
(*                                                                         *)
(* The text of a line is a sequence of words: the cells of a delimited     *)
(* row, or the keys and values of a JSON object in the order they are      *)
(* written. A pattern is a sequence of literals with anything (or, when it *)
(* is tight, nothing) between them. What the code does to characters is    *)
(* given by functions over words: Fold, Length, Like.                      *)
(***************************************************************************)
EXTENDS Integers, Sequences, FiniteSets, FiniteSetsExt, SequencesExt

CONSTANTS
  Lex,            \* every word, in lexical order
  Fold,           \* a word in lower case
  Length,         \* the characters of a word
  Numbered,       \* the words that are column numbers, and the number
  Like,           \* the folded words in which a predicate's regex finds something
  FieldsLabel,    \* the word "#fields"
  SeparatorLabel, \* "#separator", where what follows it is not the tab
  NoWord,         \* stands for None
  FileOrder,      \* the names of the case's files, in order
  AllFiles,       \* an action's file left empty
  HeaderMax,      \* comment lines taken for a header: 12
  MaxResults,     \* MAX_RESULTS
  Around,         \* lines before, and after, the centre of a context: 5
  MaxSpan,        \* MAX_CONTEXT_SPAN
  NoStamp,        \* a line in which no timestamp is recognised
  OddStamp        \* a timestamp that is recognised but is no moment (a 30th of February)

Words == ToSet(Lex)

FileNames == ToSet(FileOrder)

ASSUME CorpusAssumption ==
  /\ Lex \in Seq(Words) /\ FileOrder \in Seq(FileNames)
  /\ Fold \in [Words -> Words] /\ \A w \in Words : Fold[Fold[w]] = Fold[w]
  /\ Length \in [Words -> Nat]
  /\ \A w \in DOMAIN Numbered : w \in Words /\ Numbered[w] \in Nat \ {0}
  /\ Like \in [Words -> SUBSET Words]
  /\ {FieldsLabel, SeparatorLabel, ""} \subseteq Words /\ NoWord \notin Words
  /\ AllFiles \notin FileNames
  /\ {HeaderMax, MaxResults, Around, MaxSpan} \subseteq Nat
  /\ 2 * Around + 1 <= MaxSpan

VARIABLE files    \* Corpus._files: the lines of each file

\* A line: its words; for a JSON object its keys beside them; whether it opens with "#";
\* when it happened, which is the one timestamp the code takes from it, and all the ones that
\* are written on it. An object has as many keys as words, any other line has none.
Line(comment, object, keys, words, stamp) ==
  [comment |-> comment, object |-> object, keys |-> keys, words |-> words,
   stamp |-> stamp, stamps |-> IF stamp = NoStamp THEN <<>> ELSE <<stamp>>]

Event(words, stamp) == Line(FALSE, FALSE, <<>>, words, stamp)
Object(keys, words, stamp) == Line(FALSE, TRUE, keys, words, stamp)
Comment(words, stamp) == Line(TRUE, FALSE, <<>>, words, stamp)

Blank(line) == ~line.comment /\ ~line.object /\ line.words = <<>>

\* What a regex over the whole line sees: a key is followed by its value.
Text(line) ==
  IF line.object
  THEN [i \in 1 .. 2 * Len(line.words) |->
          IF i % 2 = 1 THEN line.keys[(i + 1) \div 2] ELSE line.words[i \div 2]]
  ELSE line.words

Refs == UNION {{name} \X DOMAIN files[name] : name \in FileNames}

LineAt(ref) == files[ref[1]][ref[2]]

FileRank(name) == CHOOSE i \in DOMAIN FileOrder : FileOrder[i] = name

\* The order of every listing: file by file, line by line.
Precedes(r, s) ==
  \/ FileRank(r[1]) < FileRank(s[1])
  \/ r[1] = s[1] /\ r[2] < s[2]

FirstRefs(n, refs) == {r \in refs : Cardinality({s \in refs : Precedes(s, r)}) < n}

(***************************************************************************)
(* Columns and keys.                                                       *)
(***************************************************************************)

\* json_objects: a file is JSON lines when its first line that is not blank is an object.
IsJson(name) ==
  LET written == {n \in DOMAIN files[name] : ~Blank(files[name][n])}
  IN written # {} /\ files[name][Min(written)].object

\* format_header: the comment lines a file opens with.
Header(name) ==
  {n \in DOMAIN files[name] : n <= HeaderMax /\ \A m \in 1 .. n : files[name][m].comment}

\* separator: a tab, unless the header declares another.
Tabbed(name) == \A n \in Header(name) : Head(files[name][n].words) # SeparatorLabel

\* The place in the header line for the column: the label counted in.
FieldMap_CountsTheLabel(name) ==
  LET labelled == {n \in Header(name) : Head(files[name][n].words) = FieldsLabel}
      names == files[name][Min(labelled)].words
  IN IF labelled = {} THEN <<>>
     ELSE [w \in {Fold[names[i]] : i \in 2 .. Len(names)} |->
             Max({i \in 2 .. Len(names) : Fold[names[i]] = w})]

\* field_map: the columns that the first #fields line of the header names. The label
\* takes no column, so a name is one place to the left in the rows.
FieldMap(name) ==
  LET labelled == {n \in Header(name) : Head(files[name][n].words) = FieldsLabel}
      names == files[name][Min(labelled)].words
  IN IF labelled = {} THEN <<>>
     ELSE [w \in {Fold[names[i]] : i \in 2 .. Len(names)} |->
             Max({i \in 2 .. Len(names) : Fold[names[i]] = w}) - 1]

\* _resolve_field: the column a selector means, or 0.
Column(name, field) ==
  CASE Fold[field] \in DOMAIN FieldMap(name) -> FieldMap(name)[Fold[field]]
    [] Fold[field] \notin DOMAIN FieldMap(name) /\ field \in DOMAIN Numbered -> Numbered[field]
    [] OTHER -> 0

\* Keys are found in any case; when several differ only in that, the last one counts.
KeyValue(line, field) ==
  LET places == {i \in DOMAIN line.keys : Fold[line.keys[i]] = Fold[field]}
  IN IF places = {} THEN NoWord ELSE line.words[Max(places)]

\* The cells of a row; a line with nothing on it has one, and it is empty.
Cells(line) == IF line.words = <<>> THEN <<"">> ELSE line.words

CellValue(line, column) ==
  IF column \in DOMAIN Cells(line) THEN Cells(line)[column] ELSE NoWord

\* The value of a field on a line, or NoWord: an absent key, a short row, no such column.
FieldValue(name, line, field) ==
  IF IsJson(name) THEN KeyValue(line, field) ELSE CellValue(line, Column(name, field))

(***************************************************************************)
(* Which lines a question is about.                                        *)
(***************************************************************************)

\* Field comparisons, all of them in lower case.
Holds(p, value) ==
  CASE p.op = "="  -> Fold[value] = Fold[p.value]
    [] p.op = "!=" -> Fold[value] # Fold[p.value]
    [] p.op = "~"  -> Fold[value] \in Like[p.value]
    [] p.op = "!~" -> Fold[value] \notin Like[p.value]

\* A negated predicate that a line without the field passes.
LineMatches_AbsentPasses(name, line, where) ==
  \A p \in where :
    LET value == FieldValue(name, line, p.field)
    IN IF value = NoWord THEN p.op \in {"!=", "!~"} ELSE Holds(p, value)

\* _line_matches: every predicate, over the parsed fields; an absent field fails any.
LineMatches(name, line, where) ==
  \A p \in where :
    LET value == FieldValue(name, line, p.field)
    IN value # NoWord /\ Holds(p, value)

\* Where the literals of a pattern can be found in a text, in the pattern's order; letters
\* says what of a word is compared.
Places(pattern, text, letters) ==
  {at \in [DOMAIN pattern.anchors -> DOMAIN text] :
     /\ \A i \in DOMAIN at : letters[text[at[i]]] = letters[pattern.anchors[i]]
     /\ \A i \in DOMAIN at \ {1} :
          IF pattern.tight THEN at[i] = at[i - 1] + 1 ELSE at[i] > at[i - 1]}

Finds(pattern, line) == Places(pattern, Text(line), Fold) # {}

Targets(file) == IF file = AllFiles THEN FileNames ELSE FileNames \cap {file}

\* The lines of the files in question that the pattern finds and the predicates let by.
Matching(pattern, file, where) ==
  {r \in Refs : /\ r[1] \in Targets(file)
                /\ Finds(pattern, LineAt(r))
                /\ where = {} \/ LineMatches(r[1], LineAt(r), where)}

(***************************************************************************)
(* The verbs that fetch lines. A result: what matched, what is returned.   *)
(***************************************************************************)

Fetched(total, lines) == [error |-> FALSE, total |-> total, lines |-> lines]

Failed == [error |-> TRUE, total |-> 0, lines |-> {}]

\* A request that no line is looked at for.
Unanswerable(q) == Targets(q.file) = {} \/ ~q.pattern.valid

\* The count stops with the listing.
Search_StopsAtCap(q, most) ==
  LET matches == FirstRefs(most, Matching(q.pattern, q.file, q.where))
  IN IF Unanswerable(q) THEN Failed ELSE Fetched(Cardinality(matches), matches)

\* search: at most MaxResults lines, and the number of all that match.
Search(q, most) ==
  LET matches == Matching(q.pattern, q.file, q.where)
  IN IF Unanswerable(q) THEN Failed
     ELSE Fetched(Cardinality(matches), FirstRefs(Min({most, MaxResults}), matches))

Count(q) == Search(q, 0)

\* context: a span from where it starts, cut at the end of the file, then filtered.
Context(q) ==
  LET name == q.ref[1]
      start == Max({1, q.ref[2] - Around})
      span == Min({2 * Around + 1, MaxSpan})
      window == {<<name, n>> : n \in start .. Min({Len(files[name]), start + span - 1})}
      kept == {r \in window : q.where = {} \/ LineMatches(name, LineAt(r), q.where)}
  IN IF q.ref \notin Refs THEN Failed ELSE Fetched(Cardinality(kept), kept)

\* slice_lines: the lines of a range that exist.
ReadLines(q) ==
  LET kept == {r \in Refs : r[1] = q.file /\ q.start <= r[2] /\ r[2] <= q.end}
  IN IF kept = {} THEN Failed ELSE Fetched(Cardinality(kept), kept)

=============================================================================
