------------------------------ MODULE CaseProfile ------------------------------
(***************************************************************************)
(* The page of counts the commander is given before it asks anything: for  *)
(* each file its rare shapes and the fields that divide it into kinds of   *)
(* record; for the case, the families of random-looking names, and the     *)
(* sessions of the most concentrated one.                                  *)
(***************************************************************************)
EXTENDS Aggregates

CONSTANTS
  Structure,        \* words recognised by shape (addresses, domains), and their placeholder
  IdCandidates,     \* words long enough to be an identifier
  Digitless,        \* a word with its numbers replaced
  Placeholder,      \* "<ID>"
  RareMax,          \* RARE_TEMPLATE_MAX
  RareMinEvents,    \* RARE_MIN_EVENTS
  RareShown,        \* shapes listed: 12
  MinDistinct, MaxDistinct, MaxAxes,         \* CATEGORICAL_*: values of an axis; axes
  ConstantPercent, UniquePercent, CoveragePercent, MaxMeanLength,
  Preferred,        \* CATEGORICAL_PREFERRED_NAMES
  Moments,          \* words shaped like a timestamp
  Random,           \* words holding a token of high entropy, and the token
  Suffix,           \* domain words, and the last labels of each
  Sources,          \* address words
  FamiliesShown,    \* families kept: 8
  NoContext,        \* "(no domain context)"
  MinStamps         \* moments below which no sessions are made out: 4

ASSUME ProfileAssumption ==
  /\ Digitless \in [Words -> Words] /\ Placeholder \in Words /\ IdCandidates \subseteq Words
  /\ DOMAIN Structure \cup DOMAIN Random \cup DOMAIN Suffix \cup Sources \subseteq Words
  /\ {RareMax, RareMinEvents, RareShown, MinDistinct, MaxDistinct, MaxAxes, ConstantPercent,
      UniquePercent, CoveragePercent, MaxMeanLength, FamiliesShown} \subseteq Nat
  /\ MinStamps \in Nat \ {0, 1}

\* _is_event: neither blank nor a comment.
Events(name) ==
  {n \in DOMAIN files[name] : ~Blank(files[name][n]) /\ ~files[name][n].comment}

(***************************************************************************)
(* Rare shapes.                                                            *)
(***************************************************************************)

\* Identifiers: candidates that occur once in the file, after shapes are replaced.
UniqueTokens(name) ==
  {w \in IdCandidates \ DOMAIN Structure :
     Cardinality(UNION {{<<n, i>> : i \in {j \in DOMAIN Text(files[name][n]) :
                                             Text(files[name][n])[j] = w}} :
                         n \in Events(name)}) = 1}

\* Shapes, then identifiers, and bare numbers last, lest they cut an identifier up.
Template(name, line) ==
  LET text == Text(line)
      shaped(w) == IF w \in DOMAIN Structure THEN Structure[w]
                   ELSE IF w \in UniqueTokens(name) THEN Placeholder ELSE Digitless[w]
  IN [i \in DOMAIN text |-> shaped(text[i])]

OfTemplate(name, t) == {n \in Events(name) : Template(name, files[name][n]) = t}

\* The rarest shapes, by number and then by where they are first seen, if the file is
\* large enough for rarity to mean anything.
RareShapes(name) ==
  LET templates == {Template(name, files[name][n]) : n \in Events(name)}
      count(t) == Cardinality(OfTemplate(name, t))
      ranked == SetToSortSeq({t \in templates : count(t) <= RareMax},
                  LAMBDA t, u : \/ count(t) < count(u)
                                \/ /\ count(t) = count(u)
                                   /\ Min(OfTemplate(name, t)) < Min(OfTemplate(name, u)))
  IN IF Cardinality(Events(name)) < RareMinEvents THEN {}
     ELSE {OfTemplate(name, t) : t \in ToSet(FirstOf(RareShown, ranked))}

(***************************************************************************)
(* Record-type scope.                                                      *)
(***************************************************************************)

\* The lines column_values reads.
Carriers(name) ==
  IF IsJson(name) THEN {n \in DOMAIN files[name] : files[name][n].object} ELSE Events(name)

\* A delimited file whose comments are read as rows.
ColumnValues_WithComments(name, field) ==
  LET row(n) == Row(<<name, n>>, 0, FieldValue(name, files[name][n], field))
  IN {w \in {row(n) : n \in {m \in DOMAIN files[name] : ~Blank(files[name][m])}} :
        w.value # NoWord}

\* column_values: the values of a field, as rows.
ColumnValues(name, field) ==
  LET row(n) == Row(<<name, n>>, 0, FieldValue(name, files[name][n], field))
  IN {w \in {row(n) : n \in Carriers(name)} : w.value # NoWord}

\* The fields a file could be divided by: its keys, or its columns.
Candidates(name) ==
  IF IsJson(name) THEN UNION {ToSet(files[name][n].keys) : n \in Carriers(name)}
  ELSE DOMAIN FieldMap(name)

Holders(name, key) == {n \in Carriers(name) : key \in ToSet(files[name][n].keys)}

\* The line, and the place on it, where a key is first seen.
FirstSight(name, key) ==
  LET n == Min(Holders(name, key))
  IN <<n, Min({i \in DOMAIN files[name][n].keys : files[name][n].keys[i] = key})>>

Before(a, b) ==
  \E i \in DOMAIN a : a[i] < b[i] /\ \A j \in 1 .. i - 1 : a[j] = b[j]

\* Which of two is tried first: the more common key, or the one first seen; the column
\* further to the left.
TriedBefore(name, k, l) ==
  IF IsJson(name)
  THEN Before(<<-Cardinality(Holders(name, k))>> \o FirstSight(name, k),
              <<-Cardinality(Holders(name, l))>> \o FirstSight(name, l))
  ELSE FieldMap(name)[k] < FieldMap(name)[l]

\* The sum of the lengths of some rows' values.
TotalLength(rows) == FoldSet(LAMBDA row, sum : sum + Length[row.value], 0, rows)

\* A coverage in tenths, rounded to even at the half.
Tenths(part, whole) ==
  LET down == (10 * part) \div whole
      rest == 2 * ((10 * part) % whole)
  IN IF rest > whole \/ (rest = whole /\ down % 2 = 1) THEN down + 1 ELSE down

\* The gates of _categorical_rank.
IsAxis(rows, total) ==
  LET counts == CountsOf(rows)
      occurrences == Cardinality(rows)
      distinct == Cardinality(DOMAIN counts)
      mostCommon == Max({counts[v] : v \in DOMAIN counts})
      first(v) == CHOOSE row \in rows : row.value = v /\ \A w \in rows :
                    w.value = v => ~Precedes(w.ref, row.ref)
      top == CHOOSE v \in DOMAIN counts : counts[v] = mostCommon /\
               \A w \in DOMAIN counts :
                 counts[w] = mostCommon => ~Precedes(first(w).ref, first(v).ref)
  IN /\ rows # {}
     /\ 100 * occurrences >= CoveragePercent * total
     /\ distinct \in MinDistinct .. MaxDistinct
     /\ 100 * mostCommon < ConstantPercent * occurrences
     /\ 100 * distinct < UniquePercent * occurrences
     /\ top \notin Moments
     /\ TotalLength(rows) <= MaxMeanLength * occurrences

\* Which of two axes leads: the one an analyst names, then the better covered, then the
\* one with fewer values, then the more frequent.
RankKey(field, rows, total) ==
  <<IF Fold[field] \in Preferred THEN 0 ELSE 1,
    -Tenths(Cardinality(rows), total),
    Cardinality({row.value : row \in rows}),
    -Cardinality(rows)>>

\* Equals are kept in the order in which they are tried.
AxisKey(name, field) ==
  Append(RankKey(field, ColumnValues(name, field), Cardinality(Carriers(name))),
         Cardinality({f \in Candidates(name) : TriedBefore(name, f, field)}))

\* categorical_fields: the best axes with the distribution of each.
Scope(name) ==
  LET total == Cardinality(Carriers(name))
      axes == {f \in Candidates(name) : IsAxis(ColumnValues(name, f), total)}
      before(f) == {g \in axes : Before(AxisKey(name, g), AxisKey(name, f))}
      best == {f \in axes : Cardinality(before(f)) < MaxAxes}
  IN IF total = 0 THEN {}
     ELSE {[field |-> f, counts |-> CountsOf(ColumnValues(name, f))] : f \in best}

(***************************************************************************)
(* Families of random-looking names, and the sessions of one of them.      *)
(***************************************************************************)

\* The first token of high entropy on a line, as its place; 0 if there is none.
TokenPlace(line) ==
  LET places == {i \in DOMAIN Text(line) : Text(line)[i] \in DOMAIN Random}
  IN IF places = {} THEN 0 ELSE Min(places)

\* The family a line's token belongs to: the suffix of the domain it is part of.
Family(line) ==
  LET text == Text(line)
      domains == {i \in DOMAIN text : /\ text[i] \in DOMAIN Suffix \cap DOMAIN Random
                                      /\ Random[text[i]] = Random[text[TokenPlace(line)]]}
  IN IF domains = {} THEN NoContext ELSE Suffix[text[Min(domains)]]

Members(family) == {r \in Refs : TokenPlace(LineAt(r)) > 0 /\ Family(LineAt(r)) = family}

\* Who uses a family: the first address of each of its lines.
SourcesOf(family) ==
  LET addresses(r) == {i \in DOMAIN Text(LineAt(r)) : Text(LineAt(r))[i] \in Sources}
  IN {Text(LineAt(r))[Min(addresses(r))] : r \in {s \in Members(family) : addresses(s) # {}}}

FirstSeen(family) == CHOOSE r \in Members(family) : \A s \in Members(family) : ~Precedes(s, r)

\* _entropy_groups: the most frequent families, ties as they are first seen.
Families ==
  LET all == {Family(LineAt(r)) : r \in {s \in Refs : TokenPlace(LineAt(s)) > 0}}
      size(f) == Cardinality(Members(f))
  IN FirstOf(FamiliesShown,
       SetToSortSeq(all, LAMBDA f, g : \/ size(f) > size(g)
                                       \/ /\ size(f) = size(g)
                                          /\ Precedes(FirstSeen(f), FirstSeen(g))))

\* The family whose time structure is worth a look, if any is used from an address: fewest
\* addresses, then most frequent, then first seen.
Subjects(families) ==
  LET sourced == {i \in DOMAIN families : SourcesOf(families[i]) # {}}
      key(i) == <<Cardinality(SourcesOf(families[i])), -Cardinality(Members(families[i])), i>>
  IN {families[i] : i \in {j \in sourced : \A k \in sourced \ {j} : Before(key(j), key(k))}}

\* The lines a subject is found in, letter by letter.
Mentions(subject) ==
  {r \in Refs : \E i \in DOMAIN Text(LineAt(r)) :
     Text(LineAt(r))[i] \in DOMAIN Suffix /\ Suffix[Text(LineAt(r))[i]] = subject}

\* The profile's own median: of an even number of gaps, the upper of the middle two.
TwiceUpperMedian(sorted) == 2 * sorted[Len(sorted) \div 2 + 1]

\* _bursts over moments in order.
ProfileSessions(times) ==
  Sessions(times, Breaks(times, TwiceUpperMedian(Ascending(Gaps(times)))))

\* _bursts: nothing with few stamps, nor with one that is no moment.
Bursts(subject) ==
  LET stamped == {r \in Mentions(subject) : LineAt(r).stamp # NoStamp}
  IN IF Cardinality(stamped) < MinStamps \/ Dated(stamped) # stamped THEN {}
     ELSE ProfileSessions(Times(stamped))

\* build_profile
BuildProfile ==
  [scope  |-> [name \in FileNames |-> Scope(name)],
   rare   |-> [name \in FileNames |-> RareShapes(name)],
   bursts |-> [s \in Subjects(Families) |-> Bursts(s)]]

=============================================================================
