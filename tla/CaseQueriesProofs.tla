--------------------------- MODULE CaseQueriesProofs ---------------------------
(***************************************************************************)
(* Answers that agree, for any case, any questions and any caps.           *)
(*                                                                         *)
(* The ledger grows a step at a time, and each property compares two of    *)
(* its steps, or one with the page the profile made before. QueriesInv     *)
(* says of every step, early or late, that it is the answer of its         *)
(* question over files that have not changed: two steps can then be        *)
(* compared as values of operators, without regard to when they were made. *)
(* What is left is about those operators, for any lines: that a listing    *)
(* is a permutation, that counts over the values of some rows add up to    *)
(* the rows, that a session ends where the next begins, that grep, jq and  *)
(* awk find what the code finds where nothing tells them apart.            *)
(***************************************************************************)
EXTENDS CaseQueries, FiniteSetTheorems, FunctionTheorems, WellFoundedInduction, TLAPS

(***************************************************************************)
(* Least and largest members, and induction, as facts about sets.          *)
(***************************************************************************)

\* Some natural numbers have a least one.
LEMMA LeastNat ==
  ASSUME NEW T, T \subseteq Nat, T # {}
  PROVE  \E n \in T : \A m \in T : n <= m
<1> DEFINE R == OpToRel(<, Nat)
<1>1. IsWellFoundedOn(R, Nat)
  BY NatLessThanWellFounded
<1>2. \A a, b \in Nat : a < b => <<a, b>> \in R
  BY DEF OpToRel
<1> HIDE DEF R
<1>3. PICK x \in T : \A y \in T : ~(<<y, x>> \in R)
  BY <1>1, WFMin
<1>4. ASSUME NEW y \in T PROVE x <= y
  <2>1. x \in Nat /\ y \in Nat
    OBVIOUS
  <2>2. ~(y < x)
    BY <1>2, <1>3, <2>1
  <2>3. QED
    BY <2>1, <2>2
<1>5. QED
  BY <1>4

\* Induction, over the set of the numbers for which something holds.
LEMMA SetInduction ==
  ASSUME NEW T, 0 \in T, \A n \in Nat : n \in T => n + 1 \in T
  PROVE  Nat \subseteq T
<1> SUFFICES ASSUME Nat \ T # {} PROVE FALSE
  OBVIOUS
<1>1. PICK n \in Nat \ T : \A m \in Nat \ T : n <= m
  BY LeastNat
<1>2. n # 0 /\ n - 1 \in Nat
  BY <1>1
<1>3. n - 1 \in T
  BY <1>1, <1>2
<1>4. QED
  BY <1>1, <1>2, <1>3

\* A set of numbers up to N, with something in it, has a largest member.
LEMMA LargestUpto ==
  ASSUME NEW N \in Nat, NEW T \in SUBSET (0 .. N), T # {}
  PROVE  Max(T) \in T /\ \A n \in T : n <= Max(T)
<1> DEFINE below == {m \in Nat : N - m \in T}
<1>1. below # {}
  <2>1. PICK n \in T : TRUE
    OBVIOUS
  <2>2. N - n \in Nat /\ N - (N - n) = n
    BY <2>1
  <2>3. QED
    BY <2>1, <2>2
<1>2. PICK m \in below : \A k \in below : m <= k
  BY <1>1, LeastNat
<1>3. N - m \in T /\ \A n \in T : n <= N - m
  <2>1. ASSUME NEW n \in T PROVE n <= N - m
    <3>1. N - n \in Nat /\ N - (N - n) = n /\ n \in Nat
      OBVIOUS
    <3>2. m <= N - n
      BY <1>2, <3>1
    <3>3. QED
      BY <1>2, <3>1, <3>2
  <2>2. QED
    BY <1>2, <2>1
<1>4. \E x \in T : \A y \in T : x >= y
  <2>1. \A n \in T : N - m >= n
    BY <1>3, <1>2
  <2>2. QED
    BY <1>3, <2>1
<1>5. Max(T) \in T /\ \A y \in T : Max(T) >= y
  BY <1>4 DEF Max
<1>6. QED
  BY <1>5

(***************************************************************************)
(* Listings.                                                               *)
(***************************************************************************)

\* Members that are told apart by what is up to them are listed in full, each once, and in
\* that order.
LEMMA Listings ==
  ASSUME NEW S, IsFiniteSet(S), NEW upto \in [S -> SUBSET S],
         \A l \in S : l \in upto[l],
         \A l, m \in S : l # m =>
           \/ upto[l] \subseteq upto[m] /\ m \notin upto[l]
           \/ upto[m] \subseteq upto[l] /\ l \notin upto[m]
  PROVE  /\ Listing(S, upto) \in Seq(S) /\ Len(Listing(S, upto)) = Cardinality(S)
         /\ \A l \in S : \E n \in 1 .. Cardinality(S) : Listing(S, upto)[n] = l
         /\ \A i, j \in 1 .. Cardinality(S) :
              i < j => /\ Listing(S, upto)[i] \in upto[Listing(S, upto)[j]]
                       /\ Listing(S, upto)[j] \notin upto[Listing(S, upto)[i]]
<1> DEFINE N == Cardinality(S)
           T == 1 .. N
           place == [l \in S |-> Cardinality(upto[l])]
           chosen(n) == CHOOSE l \in S : Cardinality(upto[l]) = n
<1>0. N \in Nat /\ IsFiniteSet(T) /\ Cardinality(T) = N
  BY FS_CardinalityType, FS_Interval
<1>1. \A l \in S : /\ IsFiniteSet(upto[l]) /\ Cardinality(upto[l]) \in Nat
                   /\ Cardinality(upto[l]) <= N /\ Cardinality(upto[l]) # 0
  <2> TAKE l \in S
  <2>1. upto[l] \in SUBSET S
    OBVIOUS
  <2>2. IsFiniteSet(upto[l]) /\ Cardinality(upto[l]) <= N
    BY <2>1, FS_Subset
  <2>3. QED
    BY <2>2, FS_CardinalityType, FS_EmptySet
<1>2. place \in [S -> T]
  BY <1>0, <1>1
<1>3. \A l, m \in S : place[l] = place[m] => l = m
  <2> SUFFICES ASSUME NEW l \in S, NEW m \in S, place[l] = place[m], l # m PROVE FALSE
    OBVIOUS
  <2>1. \A x, y \in S : upto[x] \subseteq upto[y] /\ Cardinality(upto[x]) = Cardinality(upto[y])
                          => upto[x] = upto[y]
    BY <1>1, FS_Subset
  <2>2. upto[l] = upto[m]
    BY <2>1
  <2>3. QED
    BY <2>2
<1> HIDE DEF N, T
<1>4. place \in Surjection(S, T)
  <2>1. place \in Injection(S, T)
    BY <1>2, <1>3, Fun_IsInj
  <2> HIDE DEF place
  <2>2. Cardinality(S) = Cardinality(T)
    BY <1>0 DEF N
  <2>3. QED
    BY <1>0, <2>1, <2>2, FS_Injection
<1>5. \A n \in T : \E l \in S : place[l] = n
  <2> HIDE DEF place
  <2>1. QED
    BY <1>4, Fun_SurjectionProperties
<1>6. \A n \in T : chosen(n) \in S /\ place[chosen(n)] = n
  BY <1>5
<1>7. Listing(S, upto) = [n \in T |-> chosen(n)]
  BY DEF Listing, T, N
<1> HIDE DEF chosen
<1>8. Listing(S, upto) \in Seq(S) /\ Len(Listing(S, upto)) = N
  <2> DEFINE F == [n \in T |-> chosen(n)]
  <2>1. F \in [1 .. N -> S]
    BY <1>6 DEF T
  <2> HIDE DEF F
  <2>2. F \in Seq(S) /\ Len(F) = N
    BY <1>0, <2>1
  <2>3. QED
    BY <1>7, <2>2 DEF F
<1>9. \A l \in S : place[l] \in T /\ Listing(S, upto)[place[l]] = l
  <2> TAKE l \in S
  <2> HIDE DEF place
  <2>1. place[l] \in T
    BY <1>2
  <2>2. chosen(place[l]) \in S /\ place[chosen(place[l])] = place[l]
    BY <1>6, <2>1
  <2>3. chosen(place[l]) = l
    BY <1>3, <2>2
  <2>4. QED
    BY <1>7, <2>1, <2>3
<1>10. ASSUME NEW i \in T, NEW j \in T, i < j
       PROVE  chosen(i) \in upto[chosen(j)] /\ chosen(j) \notin upto[chosen(i)]
  <2> DEFINE l == chosen(i)
             m == chosen(j)
  <2>0. i \in Int /\ j \in Int /\ ~(j <= i)
    BY <1>0, <1>10 DEF T
  <2>1. l \in S /\ m \in S /\ Cardinality(upto[l]) = i /\ Cardinality(upto[m]) = j
    BY <1>6
  <2> HIDE DEF l, m
  <2>2. ~(upto[m] \subseteq upto[l])
    <3>1. IsFiniteSet(upto[l]) /\ upto[m] \in SUBSET S
      BY <1>1, <2>1
    <3>2. upto[m] \subseteq upto[l] => Cardinality(upto[m]) <= Cardinality(upto[l])
      BY <3>1, FS_Subset
    <3>3. QED
      BY <2>0, <2>1, <3>2
  <2>3. upto[l] \subseteq upto[m] /\ m \notin upto[l]
    BY <2>1, <2>2
  <2>4. l \in upto[l]
    BY <2>1
  <2>5. QED
    BY <2>3, <2>4 DEF l, m
<1>11. \A n \in T : Listing(S, upto)[n] = chosen(n)
  BY <1>7
<1>12. \A i, j \in T : i < j => /\ Listing(S, upto)[i] \in upto[Listing(S, upto)[j]]
                             /\ Listing(S, upto)[j] \notin upto[Listing(S, upto)[i]]
  BY <1>10, <1>11
<1>13. QED
  BY <1>8, <1>9, <1>12 DEF N, T

\* What is a whole order, such as that of numbers, has a last member in a finite set.
LEMMA LastOfAll ==
  ASSUME NEW S, IsFiniteSet(S), S # {}, NEW upto \in [S -> SUBSET S],
         \A l \in S : l \in upto[l],
         \A l, m \in S : l # m =>
           \/ upto[l] \subseteq upto[m] /\ m \notin upto[l]
           \/ upto[m] \subseteq upto[l] /\ l \notin upto[m]
  PROVE  /\ Listing(S, upto)[Cardinality(S)] \in S
         /\ \A y \in S : y \in upto[Listing(S, upto)[Cardinality(S)]]
<1> DEFINE N == Cardinality(S)
           L == Listing(S, upto)
<1>1. N \in Nat /\ N # 0
  BY FS_CardinalityType, FS_EmptySet
<1>2. /\ L \in Seq(S) /\ Len(L) = N
      /\ \A l \in S : \E n \in 1 .. N : L[n] = l
      /\ \A i, j \in 1 .. N : i < j => L[i] \in upto[L[j]]
  BY Listings
<1> HIDE DEF N, L
<1>3. N \in 1 .. N /\ L[N] \in S
  BY <1>1, <1>2
<1>4. ASSUME NEW y \in S PROVE y \in upto[L[N]]
  <2>1. PICK n \in 1 .. N : L[n] = y
    BY <1>2
  <2>2. CASE n = N
    BY <1>3, <2>1, <2>2
  <2>3. CASE n < N
    BY <1>2, <1>3, <2>1, <2>3
  <2>4. QED
    BY <1>1, <2>2, <2>3
<1>5. QED
  BY <1>3, <1>4 DEF N, L

\* A finite set of numbers has a largest member and a smallest one.
LEMMA Bounds ==
  ASSUME NEW S, IsFiniteSet(S), S \subseteq Int, S # {}
  PROVE  /\ Max(S) \in S /\ \A x \in S : x <= Max(S)
         /\ Min(S) \in S /\ \A x \in S : Min(S) <= x
<1>1. \E x \in S : \A y \in S : x >= y
  <2> DEFINE upto == [x \in S |-> {y \in S : y <= x}]
  <2>1. upto \in [S -> SUBSET S] /\ \A l \in S : l \in upto[l]
    OBVIOUS
  <2>2. ASSUME NEW l \in S, NEW m \in S, l # m
        PROVE  \/ upto[l] \subseteq upto[m] /\ m \notin upto[l]
               \/ upto[m] \subseteq upto[l] /\ l \notin upto[m]
    <3>1. ASSUME NEW x \in S, NEW y \in S, x < y
          PROVE  upto[x] \subseteq upto[y] /\ y \notin upto[x]
      <4>1. \A z \in S : z <= x => z <= y
        BY <3>1
      <4>2. ~(y <= x)
        BY <3>1
      <4>3. QED
        BY <4>1, <4>2
    <3>2. l < m \/ m < l
      BY <2>2
    <3>3. QED
      BY <3>1, <3>2
  <2>3. \E x \in S : \A y \in S : y \in upto[x]
    <3> HIDE DEF upto
    <3>1. \A l, m \in S : l # m => \/ upto[l] \subseteq upto[m] /\ m \notin upto[l]
                                   \/ upto[m] \subseteq upto[l] /\ l \notin upto[m]
      BY <2>2
    <3>2. /\ Listing(S, upto)[Cardinality(S)] \in S
          /\ \A y \in S : y \in upto[Listing(S, upto)[Cardinality(S)]]
      BY <2>1, <3>1, LastOfAll
    <3>3. QED
      BY <3>2
  <2>4. QED
    BY <2>3
<1>2. \E x \in S : \A y \in S : x <= y
  <2> DEFINE upto == [x \in S |-> {y \in S : y >= x}]
  <2>1. upto \in [S -> SUBSET S] /\ \A l \in S : l \in upto[l]
    OBVIOUS
  <2>2. ASSUME NEW l \in S, NEW m \in S, l # m
        PROVE  \/ upto[l] \subseteq upto[m] /\ m \notin upto[l]
               \/ upto[m] \subseteq upto[l] /\ l \notin upto[m]
    <3>1. ASSUME NEW x \in S, NEW y \in S, x > y
          PROVE  upto[x] \subseteq upto[y] /\ y \notin upto[x]
      <4>1. \A z \in S : z >= x => z >= y
        BY <3>1
      <4>2. ~(y >= x)
        BY <3>1
      <4>3. QED
        BY <4>1, <4>2
    <3>2. l < m \/ m < l
      BY <2>2
    <3>3. QED
      BY <3>1, <3>2
  <2>3. \E x \in S : \A y \in S : y \in upto[x]
    <3> HIDE DEF upto
    <3>1. \A l, m \in S : l # m => \/ upto[l] \subseteq upto[m] /\ m \notin upto[l]
                                   \/ upto[m] \subseteq upto[l] /\ l \notin upto[m]
      BY <2>2
    <3>2. /\ Listing(S, upto)[Cardinality(S)] \in S
          /\ \A y \in S : y \in upto[Listing(S, upto)[Cardinality(S)]]
      BY <2>1, <3>1, LastOfAll
    <3>3. QED
      BY <3>2
  <2>4. QED
    BY <2>3
<1>3. Max(S) \in S /\ \A y \in S : Max(S) >= y
  BY <1>1 DEF Max
<1>4. Min(S) \in S /\ \A y \in S : Min(S) <= y
  BY <1>2 DEF Min
<1>5. QED
  BY <1>3, <1>4

\* The smaller and the larger of two.
LEMMA OfTwo ==
  ASSUME NEW a \in Int, NEW b \in Int
  PROVE  /\ Min({a, b}) = IF a < b THEN a ELSE b
         /\ Max({a, b}) = IF a < b THEN b ELSE a
<1>1. /\ \E x \in {a, b} : \A y \in {a, b} : x <= y
      /\ \E x \in {a, b} : \A y \in {a, b} : x >= y
  OBVIOUS
<1>2. Min({a, b}) \in {a, b} /\ \A x \in {a, b} : Min({a, b}) <= x
  BY <1>1 DEF Min
<1>3. Max({a, b}) \in {a, b} /\ \A x \in {a, b} : Max({a, b}) >= x
  BY <1>1 DEF Max
<1>4. QED
  BY <1>2, <1>3

\* What a function takes on a finite set is finite.
LEMMA FiniteImage ==
  ASSUME NEW S, IsFiniteSet(S), NEW f, DOMAIN f = S, f = [x \in S |-> f[x]]
  PROVE  IsFiniteSet({f[x] : x \in S})
<1> DEFINE T == {f[x] : x \in S}
<1>1. f \in [S -> T] /\ \A t \in T : \E x \in S : f[x] = t
  OBVIOUS
<1> HIDE DEF T
<1>2. f \in Surjection(S, T)
  BY <1>1, Fun_IsSurj
<1>3. IsFiniteSet(T)
  BY <1>2, FS_Surjection
<1>4. QED
  BY <1>3 DEF T

(***************************************************************************)
(* The case.                                                               *)
(***************************************************************************)

FilesOk == files \in [FileNames -> Seq(LineSet)]

\* A case has finitely many files.
LEMMA FilesAreFinite == IsFiniteSet(FileNames)
<1>0. FileOrder \in Seq(FileNames)
  BY CorpusAssumption
<1>1. Len(FileOrder) \in Nat /\ DOMAIN FileOrder = 1 .. Len(FileOrder)
  BY <1>0
<1>2. IsFiniteSet(DOMAIN FileOrder)
  BY <1>1, FS_Interval
<1>3. FileOrder = [i \in DOMAIN FileOrder |-> FileOrder[i]]
  BY <1>0
<1>4. IsFiniteSet({FileOrder[i] : i \in DOMAIN FileOrder})
  BY <1>2, <1>3, FiniteImage
<1>5. QED
  BY <1>4 DEF FileNames, ToSet

\* So it has words.
LEMMA WordsAreFinite == IsFiniteSet(Words)
<1>0. Lex \in Seq(Words)
  BY CorpusAssumption
<1>1. Len(Lex) \in Nat /\ DOMAIN Lex = 1 .. Len(Lex)
  BY <1>0
<1>2. IsFiniteSet(DOMAIN Lex)
  BY <1>1, FS_Interval
<1>3. Lex = [i \in DOMAIN Lex |-> Lex[i]]
  BY <1>0
<1>4. IsFiniteSet({Lex[i] : i \in DOMAIN Lex})
  BY <1>2, <1>3, FiniteImage
<1>5. QED
  BY <1>4 DEF Words, ToSet

\* So it has lines.
LEMMA RefsAreFinite == FilesOk => IsFiniteSet(Refs)
<1> SUFFICES ASSUME FilesOk PROVE IsFiniteSet(Refs)
  OBVIOUS
<1> DEFINE of == [name \in FileNames |-> {name} \X DOMAIN files[name]]
<1>1. ASSUME NEW name \in FileNames PROVE IsFiniteSet(of[name])
  <2>1. IsFiniteSet({name})
    BY FS_Singleton
  <2>2. Len(files[name]) \in Nat /\ DOMAIN files[name] = 1 .. Len(files[name])
    BY DEF FilesOk
  <2>3. IsFiniteSet(DOMAIN files[name])
    BY <2>2, FS_Interval
  <2>4. QED
    BY <2>1, <2>3, FS_Product
<1>2. DOMAIN of = FileNames /\ of = [name \in FileNames |-> of[name]]
  OBVIOUS
<1>3. Refs = UNION {of[name] : name \in FileNames}
  BY DEF Refs
<1> HIDE DEF of
<1>4. IsFiniteSet({of[name] : name \in FileNames})
  BY <1>2, FilesAreFinite, FiniteImage
<1>5. QED
  BY <1>1, <1>3, <1>4, FS_UNION

(***************************************************************************)
(* What stays as it is while the files do.                                 *)
(***************************************************************************)

\* An answer, its note aside, is a matter of the files alone.
LEMMA AnswersStay ==
  ASSUME files' = files
  PROVE \A q : Executed(q)' = Executed(q)
<1>1. \A r : LineAt(r)' = LineAt(r)
  BY DEF LineAt
<1>2. Refs' = Refs
  BY DEF Refs
<1>3. \A name : IsJson(name)' = IsJson(name)
  BY DEF IsJson
<1>4. \A name : Header(name)' = Header(name)
  BY DEF Header
<1>5. \A name : FieldMap(name)' = FieldMap(name)
  BY <1>4 DEF FieldMap
<1>6. \A name, field : Column(name, field)' = Column(name, field)
  BY <1>5 DEF Column
<1>7. \A name, line, field : FieldValue(name, line, field)' = FieldValue(name, line, field)
  BY <1>3, <1>6 DEF FieldValue
<1>8. \A name, line, where : LineMatches(name, line, where)' = LineMatches(name, line, where)
  BY <1>7 DEF LineMatches
<1>9. \A pattern, file, where :
        Matching(pattern, file, where)' = Matching(pattern, file, where)
  BY <1>1, <1>2, <1>8 DEF Matching
<1>10. \A q, most : Search(q, most)' = Search(q, most)
  BY <1>9 DEF Search
<1>11. \A q : Count(q)' = Count(q)
  BY <1>10 DEF Count
<1>12. \A q : Context(q)' = Context(q)
  BY <1>1, <1>2, <1>8 DEF Context
<1>13. \A q : ReadLines(q)' = ReadLines(q)
  BY <1>2 DEF ReadLines
<1>14. \A q : Fetch(q)' = Fetch(q)
  BY <1>10, <1>11, <1>12, <1>13 DEF Fetch
<1>15. \A pattern, r : PatternRows(pattern, r)' = PatternRows(pattern, r)
  BY <1>1 DEF PatternRows
<1>16. \A kind, r : EntityRows(kind, r)' = EntityRows(kind, r)
  BY <1>1 DEF EntityRows
<1>17. \A field, r : FieldRows(field, r)' = FieldRows(field, r)
  BY <1>1, <1>7 DEF FieldRows
<1>18. \A q, r : RowsOf(q, r)' = RowsOf(q, r)
  BY <1>15, <1>16, <1>17 DEF RowsOf
<1>19. \A q : Read(q)' = Read(q)
  BY <1>1, <1>9 DEF Read
<1>20. \A q : Unresolvable(q)' = Unresolvable(q)
  BY <1>3, <1>6 DEF Unresolvable
<1>21. \A q, lines : Selection(q, lines)' = Selection(q, lines)
  BY <1>3, <1>18, <1>20 DEF Selection
<1>22. \A q : Selected(q)' = Selected(q)
  BY <1>19, <1>21 DEF Selected
<1>23. \A refs : Dated(refs)' = Dated(refs)
  BY <1>1 DEF Dated
<1>24. \A refs : Times(refs)' = Times(refs)
  BY <1>1 DEF Times
<1>25. \A q : Timeline(q)' = Timeline(q)
  BY <1>9, <1>23, <1>24 DEF Timeline
<1>26. \A pattern, file, where :
         Together(pattern, file, where)' = Together(pattern, file, where)
  BY <1>1, <1>2, <1>8 DEF Together
<1>27. \A q : ZeroHint(q)' = ZeroHint(q)
  BY <1>1, <1>10, <1>26 DEF ZeroHint
<1>28. \A q, n : CoverageHint(q, n)' = CoverageHint(q, n)
  BY <1>10, <1>27 DEF CoverageHint
<1>29. \A q, found : FetchStep(q, found)' = FetchStep(q, found)
  BY <1>27 DEF FetchStep
<1>30. \A q, outcome : AggregateStep(q, outcome)' = AggregateStep(q, outcome)
  BY <1>28 DEF AggregateStep
<1>31. QED
  BY <1>14, <1>22, <1>25, <1>29, <1>30 DEF Executed

\* So is the profile, of which the properties speak of the scope and the sessions.
LEMMA ProfileStays ==
  ASSUME files' = files
  PROVE  /\ \A name : Scope(name)' = Scope(name)
         /\ \A subject : Bursts(subject)' = Bursts(subject)
<1>1. \A r : LineAt(r)' = LineAt(r)
  BY DEF LineAt
<1>2. Refs' = Refs
  BY DEF Refs
<1>3. \A name : IsJson(name)' = IsJson(name)
  BY DEF IsJson
<1>4. \A name : Header(name)' = Header(name)
  BY DEF Header
<1>5. \A name : FieldMap(name)' = FieldMap(name)
  BY <1>4 DEF FieldMap
<1>6. \A name, field : Column(name, field)' = Column(name, field)
  BY <1>5 DEF Column
<1>7. \A name, line, field : FieldValue(name, line, field)' = FieldValue(name, line, field)
  BY <1>3, <1>6 DEF FieldValue
<1>8. \A name : Events(name)' = Events(name)
  BY DEF Events
<1>9. \A name : Carriers(name)' = Carriers(name)
  BY <1>3, <1>8 DEF Carriers
<1>10. \A name, field : ColumnValues(name, field)' = ColumnValues(name, field)
  BY <1>7, <1>9 DEF ColumnValues
<1>11. \A name : Candidates(name)' = Candidates(name)
  BY <1>3, <1>5, <1>9 DEF Candidates
<1>12. \A name, key : Holders(name, key)' = Holders(name, key)
  BY <1>9 DEF Holders
<1>13. \A name, key : FirstSight(name, key)' = FirstSight(name, key)
  BY <1>12 DEF FirstSight
<1>14. \A name, k, l : TriedBefore(name, k, l)' = TriedBefore(name, k, l)
  BY <1>3, <1>5, <1>12, <1>13 DEF TriedBefore
<1>15. \A name, field : AxisKey(name, field)' = AxisKey(name, field)
  BY <1>9, <1>10, <1>11, <1>14 DEF AxisKey
<1>16. \A name : Scope(name)' = Scope(name)
  BY <1>9, <1>10, <1>11, <1>15 DEF Scope
<1>17. \A subject : Mentions(subject)' = Mentions(subject)
  BY <1>1, <1>2 DEF Mentions
<1>18. \A refs : Dated(refs)' = Dated(refs)
  BY <1>1 DEF Dated
<1>19. \A refs : Times(refs)' = Times(refs)
  BY <1>1 DEF Times
<1>20. \A subject : Bursts(subject)' = Bursts(subject)
  BY <1>1, <1>17, <1>18, <1>19 DEF Bursts
<1>21. QED
  BY <1>16, <1>20

(***************************************************************************)
(* The invariant: every step is the answer to its question, the profile is *)
(* that of the files, and the files are those of the scenario.             *)
(***************************************************************************)

\* A step is what executing its question gives, whenever that was done; its note is its own.
Answers(s) == s = [Executed(s.question) EXCEPT !.note = s.note]

\* The case is one that is asked about, the page is its page, and every step answers.
QueriesInv ==
  /\ \E s \in Scenarios : files = s.files /\ asks = s.asks
  /\ profile # NotProfiled =>
       /\ profile.scope = [name \in FileNames |-> Scope(name)]
       /\ \A subject \in DOMAIN profile.bursts : profile.bursts[subject] = Bursts(subject)
  /\ steps # <<>> => profile # NotProfiled
  /\ steps \in Seq(ToSet(steps))
  /\ \A s \in ToSet(steps) : s.question \in asks /\ Answers(s)

\* A step carries its question.
LEMMA Asked == \A q : Executed(q).question = q
BY DEF Executed, FetchStep, AggregateStep, Answered

\* An executed step is a record, of which a note can be written.
LEMMA NotedAnswers ==
  ASSUME NEW q
  PROVE  Noted(q, Executed(q)).question = q /\ Answers(Noted(q, Executed(q)))
<1> DEFINE e == Executed(q)
           n == Note(q, e)
           s == [e EXCEPT !.note = n]
<1>1. \E error, total, lines, truncated, table, hint :
        e = Answered(q, error, total, lines, truncated, table, hint)
  BY Zenon DEF Executed, FetchStep, AggregateStep
<1>2. PICK error, total, lines, truncated, table, hint :
        e = Answered(q, error, total, lines, truncated, table, hint)
  BY <1>1
<1> HIDE DEF e, n
<1>3. s.question = q /\ s.note = n
  BY <1>2 DEF Answered
<1>4. s = [e EXCEPT !.note = s.note]
  BY <1>3
<1>5. QED
  BY <1>3, <1>4 DEF Noted, Answers, e, n

\* Nothing is asked at first.
LEMMA QueriesInit == Init => QueriesInv
BY DEF Init, QueriesInv, ToSet

\* A step is added that answers; the others still do, as the files stay as they are.
LEMMA QueriesNext == QueriesInv /\ [Next]_vars => QueriesInv'
<1> SUFFICES ASSUME QueriesInv, [Next]_vars PROVE QueriesInv'
  OBVIOUS
<1>0. files' = files /\ asks' = asks
  BY DEF Next, vars, Profile, Ask
<1>1. (\E s \in Scenarios : files = s.files /\ asks = s.asks)'
  BY <1>0 DEF QueriesInv
<1>2. ASSUME NEW s, Answers(s) PROVE Answers(s)'
  <2>1. \A q : Executed(q)' = Executed(q)
    BY <1>0, AnswersStay
  <2>2. QED
    BY <1>2, <2>1 DEF Answers
<1>3. CASE Profile
  <2>1. profile'.scope = [name \in FileNames |-> Scope(name)]
        /\ \A subject \in DOMAIN profile'.bursts : profile'.bursts[subject] = Bursts(subject)
    BY <1>3 DEF Profile, BuildProfile
  <2>2. (/\ profile.scope = [name \in FileNames |-> Scope(name)]
         /\ \A subject \in DOMAIN profile.bursts : profile.bursts[subject] = Bursts(subject))'
    BY <1>0, <2>1, ProfileStays
  <2>3. steps' = steps /\ steps = <<>>
    BY <1>3 DEF Profile, QueriesInv
  <2>4. QED
    BY <1>1, <2>2, <2>3 DEF QueriesInv, ToSet
<1>4. CASE (\E q \in asks : Ask(q)) \/ UNCHANGED vars
  <2>1. profile' = profile
    BY <1>4 DEF Ask, vars
  <2>2. (profile # NotProfiled =>
          /\ profile.scope = [name \in FileNames |-> Scope(name)]
          /\ \A subject \in DOMAIN profile.bursts : profile.bursts[subject] = Bursts(subject))'
    BY <1>0, <2>1, ProfileStays DEF QueriesInv
  <2>3. CASE UNCHANGED vars
    <3>1. steps' = steps
      BY <2>3 DEF vars
    <3>2. QED
      BY <1>0, <1>1, <1>2, <2>1, <2>2, <3>1 DEF QueriesInv, ToSet
  <2>4. ASSUME NEW q \in asks, Ask(q) PROVE QueriesInv'
    <3> DEFINE step == IF Identical(q) # {} THEN steps[Min(Identical(q))]
                       ELSE Noted(q, Executed(q))
    <3>1. steps' = Append(steps, step) /\ profile # NotProfiled
      BY <2>4 DEF Ask
    <3>2. step.question = q /\ Answers(step)
      <4>1. CASE Identical(q) # {}
        <5>1. Identical(q) \in SUBSET Nat
          <6>1. DOMAIN steps = 1 .. Len(steps)
            BY DEF QueriesInv
          <6>2. QED
            BY <6>1 DEF Identical
        <5>2. Min(Identical(q)) \in Identical(q)
          BY <4>1, <5>1, LeastNat DEF Min
        <5>3. QED
          BY <4>1, <5>2 DEF Identical, QueriesInv, ToSet
      <4>2. CASE Identical(q) = {}
        BY <4>2, NotedAnswers
      <4>3. QED
        BY <4>1, <4>2
    <3> HIDE DEF step
    <3>3. /\ steps' \in Seq(ToSet(steps) \cup {step})
          /\ Len(steps') = Len(steps) + 1 /\ Len(steps) \in Nat
          /\ \A i \in 1 .. Len(steps) : steps'[i] = steps[i]
          /\ steps'[Len(steps) + 1] = step
      <4>1. steps \in Seq(ToSet(steps) \cup {step})
        <5>1. Seq(ToSet(steps)) \subseteq Seq(ToSet(steps) \cup {step})
          OBVIOUS
        <5>2. QED
          BY <5>1 DEF QueriesInv
      <4>2. QED
        BY <3>1, <4>1
    <3>4. DOMAIN steps' = 1 .. Len(steps) + 1 /\ DOMAIN steps = 1 .. Len(steps)
      BY <3>3 DEF QueriesInv
    <3>5. \A i \in DOMAIN steps' : i \in DOMAIN steps \/ i = Len(steps) + 1
      BY <3>3, <3>4
    <3>6. ASSUME NEW s \in ToSet(steps') PROVE s.question \in asks' /\ Answers(s)'
      <4>1. PICK i \in DOMAIN steps' : s = steps'[i]
        BY DEF ToSet
      <4>2. CASE i = Len(steps) + 1
        BY <1>0, <1>2, <3>2, <3>3, <4>1, <4>2
      <4>3. CASE i \in DOMAIN steps
        <5>1. s \in ToSet(steps)
          BY <3>3, <3>4, <4>1, <4>3 DEF ToSet
        <5>2. QED
          BY <1>0, <1>2, <5>1 DEF QueriesInv
      <4>4. QED
        BY <3>5, <4>2, <4>3
    <3>7. steps' \in Seq(ToSet(steps'))
      <4>1. \A i \in 1 .. Len(steps') : steps'[i] \in ToSet(steps')
        BY <3>3, <3>4 DEF ToSet
      <4>2. QED
        BY <3>3, <4>1
    <3>8. QED
      BY <1>1, <2>1, <2>2, <3>1, <3>6, <3>7 DEF QueriesInv
  <2>5. QED
    BY <1>4, <2>3, <2>4
<1>5. QED
  BY <1>3, <1>4 DEF Next

\* What the properties need of a step.
LEMMA Settles ==
  ASSUME QueriesInv, NEW i \in Settled
  PROVE  LET q == steps[i].question
             e == Executed(q)
         IN /\ WellFormed(q) /\ FilesOk /\ ~e.error
            /\ steps[i].total = e.total /\ steps[i].lines = e.lines /\ steps[i].table = e.table
<1> DEFINE q == steps[i].question
           e == Executed(q)
           n == steps[i].note
<1>1. i \in DOMAIN steps /\ ~steps[i].error
  BY DEF Settled
<1>2. q \in asks /\ steps[i] = [e EXCEPT !.note = n]
  BY <1>1 DEF QueriesInv, Answers, ToSet
<1>3. WellFormed(q) /\ FilesOk
  BY <1>2, QueriesAssumption DEF QueriesInv, FilesOk
<1>4. \E error, total, lines, truncated, table, hint :
        e = Answered(q, error, total, lines, truncated, table, hint)
  BY Zenon DEF Executed, FetchStep, AggregateStep
<1> HIDE DEF e, q, n
<1>5. /\ e.error = steps[i].error /\ steps[i].total = e.total
      /\ steps[i].lines = e.lines /\ steps[i].table = e.table
  BY <1>2, <1>4 DEF Answered
<1>6. QED
  BY <1>1, <1>3, <1>5 DEF e, q

(***************************************************************************)
(* How many lines match.                                                   *)
(***************************************************************************)

\* Some of the lines can be counted.
LEMMA LinesAreFinite ==
  ASSUME FilesOk, NEW S, S \subseteq Refs
  PROVE  IsFiniteSet(S) /\ Cardinality(S) \in Nat
BY RefsAreFinite, FS_Subset, FS_CardinalityType

\* The verbs that take no selector say how many lines match.
LEMMA FetchedTotal ==
  ASSUME NEW q, q.verb \in {"search", "count", "timeline"}, ~Executed(q).error
  PROVE  Executed(q).total = Cardinality(Matching(q.pattern, q.file, q.where))
<1>1. CASE q.verb = "search"
  <2>1. Executed(q) = FetchStep(q, Search(q, MaxResults))
    BY <1>1 DEF Executed, FetchVerbs, Fetch
  <2>2. QED
    BY <2>1 DEF FetchStep, Answered, Search, Failed, Fetched
<1>2. CASE q.verb = "count"
  <2>1. Executed(q) = FetchStep(q, Search(q, 0))
    BY <1>2 DEF Executed, FetchVerbs, Fetch, Count
  <2>2. QED
    BY <2>1 DEF FetchStep, Answered, Search, Failed, Fetched
<1>3. CASE q.verb = "timeline"
  <2>1. Executed(q) = AggregateStep(q, Timeline(q))
    BY <1>3 DEF Executed, FetchVerbs
  <2>2. Executed(q).error = Timeline(q).error /\ Executed(q).total = Timeline(q).total
    BY <2>1 DEF AggregateStep, Answered
  <2>3. ~Unanswerable(q)
    BY <2>2 DEF Timeline, Refused
  <2>4. CASE Matching(q.pattern, q.file, q.where) = {}
    BY <2>2, <2>3, <2>4, FS_EmptySet DEF Timeline, NothingSelected, Aggregate
  <2>5. CASE Matching(q.pattern, q.file, q.where) # {}
    BY <2>2, <2>3, <2>5 DEF Timeline, Aggregate
  <2>6. QED
    BY <2>4, <2>5
<1>4. QED
  BY <1>1, <1>2, <1>3

\* What the verbs that select values answer with when there are any.
Answer(q) ==
  LET s == Selected(q)
  IN CASE q.verb = "tally" ->
            Aggregate(Cardinality(s.lines), <<>>, Distribution(CountsOf(s.rows)))
       [] q.verb = "stats" -> Aggregate(Cardinality(s.lines), <<>>, Summary(s.rows))
       [] q.verb = "extremes" -> Listed(s, LargestFirst(s.rows))
       [] q.verb = "decode" ->
            Aggregate(Cardinality(s.lines), FirstOf(DecodeShown, DecodedRefs(s.rows)),
              [kind |-> "decode", decoded |-> Len(DecodedRefs(s.rows)),
               left |-> Cardinality(LeftEncoded(s.rows))])

\* A verb that selects values, and finds some, answers with what it makes of them.
LEMMA SelectedTold ==
  ASSUME NEW q, q.verb \in SelectorVerbs, ~Executed(q).error, Executed(q).table # NoTable
  PROVE  /\ Selected(q) = [error |-> FALSE, lines |-> Read(q),
                           rows |-> UNION {RowsOf(q, r) : r \in Read(q)}]
         /\ Selected(q).rows # {} /\ ~Unanswerable(q) /\ ~Unresolvable(q)
         /\ Executed(q).total = Answer(q).total /\ Executed(q).table = Answer(q).table
         /\ Executed(q).lines = Answer(q).hits
<1>0. q.verb \in {"tally", "stats", "extremes", "decode"}
  BY DEF SelectorVerbs, AggregateVerbs
<1> DEFINE s == Selected(q)
           outcome == Aggregation(q, s)
<1>1. Executed(q) = AggregateStep(q, outcome)
  BY <1>0 DEF Executed, FetchVerbs
<1>2. outcome = Told(s, Answer(q))
  <2>1. CASE q.verb = "tally"
    BY <2>1 DEF Aggregation, Tally, Answer
  <2>2. CASE q.verb = "stats"
    BY <2>2 DEF Aggregation, Stats, Answer
  <2>3. CASE q.verb = "extremes"
    BY <2>3 DEF Aggregation, Extremes, Answer
  <2>4. CASE q.verb = "decode"
    BY <2>4 DEF Aggregation, Decode, Answer
  <2>5. QED
    BY <1>0, <2>1, <2>2, <2>3, <2>4
<1> HIDE DEF outcome
<1>3. /\ Executed(q).error = outcome.error /\ Executed(q).total = outcome.total
      /\ Executed(q).table = outcome.table /\ Executed(q).lines = outcome.hits
  BY <1>1 DEF AggregateStep, Answered
<1> HIDE DEF s
<1>4. ~s.error
  BY <1>2, <1>3 DEF Told, Refused
<1>5. s.rows # {}
  BY <1>2, <1>3, <1>4 DEF Told, NothingSelected, Aggregate
<1>6. outcome = Answer(q)
  BY <1>2, <1>4, <1>5 DEF Told
<1>7. /\ s = [error |-> FALSE, lines |-> Read(q), rows |-> UNION {RowsOf(q, r) : r \in Read(q)}]
      /\ ~Unanswerable(q) /\ ~Unresolvable(q)
  BY <1>4 DEF s, Selected, Selection
<1>8. QED
  BY <1>3, <1>5, <1>6, <1>7 DEF s

\* A verb that selects values says how many lines it read.
LEMMA SelectedTotal ==
  ASSUME NEW q, q.verb \in SelectorVerbs, ~Executed(q).error, Executed(q).table # NoTable
  PROVE  Executed(q).total = Cardinality(Read(q))
<1>1. q.verb \in {"tally", "stats", "extremes", "decode"}
  BY DEF SelectorVerbs, AggregateVerbs
<1>2. Executed(q).total = Answer(q).total /\ Selected(q).lines = Read(q)
  BY SelectedTold
<1>3. Answer(q).total = Cardinality(Selected(q).lines)
  BY <1>1 DEF Answer, Aggregate, Listed
<1>4. QED
  BY <1>2, <1>3

\* Both numbers are of the same lines.
LEMMA CountsDoAgree == QueriesInv => CountsAgree
<1> SUFFICES ASSUME QueriesInv, NEW i \in Settled, NEW j \in Settled,
                    steps[i].question.verb \in {"search", "count", "timeline"},
                    steps[j].question.verb \in PatternVerbs,
                    SameLines(steps[i].question, steps[j].question),
                    steps[j].question.verb \in AggregateVerbs \ {"timeline"}
                      => steps[j].table # NoTable
             PROVE  LET p == steps[i].question
                        q == steps[j].question
                        comments == {r \in Matching(p.pattern, p.file, p.where) :
                                       LineAt(r).comment}
                    IN steps[i].total =
                         steps[j].total + IF Selecting(q) THEN Cardinality(comments) ELSE 0
  BY DEF CountsAgree
<1> DEFINE p == steps[i].question
           q == steps[j].question
           M == Matching(p.pattern, p.file, p.where)
           comments == {r \in M : LineAt(r).comment}
<1>1. /\ WellFormed(p) /\ FilesOk /\ ~Executed(p).error
      /\ steps[i].total = Executed(p).total
  BY Settles
<1>2. /\ WellFormed(q) /\ ~Executed(q).error
      /\ steps[j].total = Executed(q).total /\ steps[j].table = Executed(q).table
  BY Settles
<1>3. steps[i].total = Cardinality(M)
  BY <1>1, FetchedTotal
<1>4. Matching(q.pattern, q.file, q.where) = M
  BY DEF SameLines
<1>5. M \subseteq Refs
  BY DEF Matching
<1> HIDE DEF M, p, q
<1>6. IsFiniteSet(M) /\ Cardinality(M) \in Nat
  BY <1>1, <1>5, LinesAreFinite
<1>7. CASE q.verb \in {"search", "count", "timeline"}
  <2>1. steps[j].total = Cardinality(M)
    BY <1>2, <1>4, <1>7, FetchedTotal
  <2>2. ~Selecting(q)
    BY <1>2, <1>7 DEF WellFormed, SelectorVerbs, AggregateVerbs
  <2>3. QED
    BY <1>3, <1>6, <2>1, <2>2 DEF p, q
<1>8. CASE q.verb \in SelectorVerbs
  <2>1. steps[j].total = Cardinality(Read(q))
    BY <1>2, <1>8, SelectedTotal DEF q, SelectorVerbs
  <2>2. CASE Selecting(q)
    <3>1. Read(q) = M \ comments /\ M \cap comments = comments
      BY <1>4, <2>2 DEF Read
    <3>2. Cardinality(M \ comments) = Cardinality(M) - Cardinality(comments)
      <4> HIDE DEF comments
      <4>1. QED
        BY <1>6, <3>1, FS_Difference
    <3>3. Cardinality(comments) \in Nat
      BY <1>1, <1>5, LinesAreFinite
    <3>4. QED
      BY <1>3, <1>6, <2>1, <2>2, <3>1, <3>2, <3>3 DEF p, q, M
  <2>3. CASE ~Selecting(q)
    <3>1. Read(q) = M
      BY <1>4, <2>3 DEF Read
    <3>2. QED
      BY <1>3, <1>6, <2>1, <2>3, <3>1 DEF p, q
  <2>4. QED
    BY <2>2, <2>3
<1>9. QED
  BY <1>7, <1>8 DEF q, PatternVerbs, SelectorVerbs, AggregateVerbs

\* A line that carries the field is counted on one side and not on the other.
LEMMA WhereDoesPartition == QueriesInv => WherePartitions
<1> SUFFICES ASSUME QueriesInv, NEW i \in Settled, NEW j \in Settled,
                    NEW v \in steps[i].question.where, NEW w \in steps[j].question.where,
                    steps[i].question.where = {v}, steps[j].question.where = {w},
                    steps[i].question.verb = "count", steps[j].question.verb = "count",
                    steps[i].question.pattern = steps[j].question.pattern,
                    steps[i].question.file = steps[j].question.file,
                    v.field = w.field, v.value = w.value,
                    <<v.op, w.op>> \in {<<"=", "!=">>, <<"~", "!~">>}
             PROVE  LET p == steps[i].question
                    IN steps[i].total + steps[j].total =
                         Cardinality({r \in Matching(p.pattern, p.file, {}) :
                           FieldValue(p.file, LineAt(r), v.field) # NoWord})
  BY DEF WherePartitions
<1> DEFINE p == steps[i].question
           q == steps[j].question
           V == Matching(p.pattern, p.file, {v})
           W == Matching(p.pattern, p.file, {w})
           carrying == {r \in Matching(p.pattern, p.file, {}) :
                          FieldValue(p.file, LineAt(r), v.field) # NoWord}
<1>1. FilesOk /\ WellFormed(p) /\ steps[i].total = Cardinality(V)
  <2>1. /\ WellFormed(p) /\ FilesOk /\ ~Executed(p).error
        /\ steps[i].total = Executed(p).total
    BY Settles
  <2>2. Executed(p).total = Cardinality(Matching(p.pattern, p.file, p.where))
    <3>1. p.verb \in {"search", "count", "timeline"}
      OBVIOUS
    <3> HIDE DEF p
    <3>2. QED
      BY <2>1, <3>1, FetchedTotal
  <2>3. p.where = {v}
    OBVIOUS
  <2> HIDE DEF p
  <2>4. QED
    BY <2>1, <2>2, <2>3
<1>2. steps[j].total = Cardinality(W)
  <2>1. ~Executed(q).error /\ steps[j].total = Executed(q).total
    BY Settles
  <2>2. Executed(q).total = Cardinality(Matching(q.pattern, q.file, q.where))
    <3>1. q.verb \in {"search", "count", "timeline"}
      OBVIOUS
    <3> HIDE DEF q
    <3>2. QED
      BY <2>1, <3>1, FetchedTotal
  <2>3. q.where = {w} /\ q.pattern = p.pattern /\ q.file = p.file
    OBVIOUS
  <2> HIDE DEF p, q
  <2>4. QED
    BY <2>1, <2>2, <2>3
<1>3. p.file \in FileNames
  BY <1>1 DEF WellFormed
<1>4. \A r \in Refs : r[1] \in Targets(p.file) => r[1] = p.file
  BY <1>3, CorpusAssumption DEF Targets
<1> HIDE DEF p, q
<1>5. \A value : Holds(v, value) <=> ~Holds(w, value)
  <2>1. CASE v.op = "=" /\ w.op = "!="
    BY <2>1 DEF Holds
  <2>2. CASE v.op = "~" /\ w.op = "!~"
    BY <2>2 DEF Holds
  <2>3. QED
    BY <2>1, <2>2
<1>6. /\ \A name, line : LineMatches(name, line, {v})
                        <=> FieldValue(name, line, v.field) # NoWord
                            /\ Holds(v, FieldValue(name, line, v.field))
      /\ \A name, line : LineMatches(name, line, {w})
                        <=> FieldValue(name, line, w.field) # NoWord
                            /\ Holds(w, FieldValue(name, line, w.field))
  BY DEF LineMatches
<1>7. V \cap W = {} /\ V \cup W = carrying
  <2> DEFINE All == Matching(p.pattern, p.file, {})
  <2>1. /\ V = {r \in All : LineMatches(r[1], LineAt(r), {v})}
        /\ W = {r \in All : LineMatches(r[1], LineAt(r), {w})}
    BY DEF Matching
  <2>2. \A r \in All : r[1] = p.file
    BY <1>4 DEF Matching
  <2> HIDE DEF All
  <2>3. \A r \in All : /\ r \in V <=> FieldValue(p.file, LineAt(r), v.field) # NoWord
                                      /\ Holds(v, FieldValue(p.file, LineAt(r), v.field))
                       /\ r \in W <=> FieldValue(p.file, LineAt(r), v.field) # NoWord
                                      /\ ~Holds(v, FieldValue(p.file, LineAt(r), v.field))
    <3> TAKE r \in All
    <3> DEFINE value == FieldValue(p.file, LineAt(r), v.field)
    <3>1. /\ r \in V <=> LineMatches(p.file, LineAt(r), {v})
          /\ r \in W <=> LineMatches(p.file, LineAt(r), {w})
      BY <2>1, <2>2
    <3>2. LineMatches(p.file, LineAt(r), {v}) <=> value # NoWord /\ Holds(v, value)
      BY <1>6
    <3>3. LineMatches(p.file, LineAt(r), {w}) <=> value # NoWord /\ Holds(w, value)
      BY <1>6
    <3>4. Holds(v, value) <=> ~Holds(w, value)
      BY <1>5
    <3> HIDE DEF value, V, W
    <3>5. QED
      BY <3>1, <3>2, <3>3, <3>4 DEF value
  <2>4. V \subseteq All /\ W \subseteq All
    BY <2>1
  <2>5. carrying = {r \in All : FieldValue(p.file, LineAt(r), v.field) # NoWord}
    BY DEF All
  <2> HIDE DEF V, W, carrying
  <2>6. QED
    BY <2>3, <2>4, <2>5
<1>8. V \subseteq Refs /\ W \subseteq Refs
  BY DEF Matching
<1> HIDE DEF V, W, carrying
<1>9. Cardinality(carrying) = Cardinality(V) + Cardinality(W) - Cardinality({})
  <2>1. IsFiniteSet(V) /\ IsFiniteSet(W)
    BY <1>1, <1>8, LinesAreFinite
  <2>2. QED
    BY <1>7, <2>1, FS_Union
<1>10. Cardinality(V) \in Nat /\ Cardinality(W) \in Nat /\ Cardinality({}) = 0
  BY <1>1, <1>8, LinesAreFinite, FS_EmptySet
<1>11. QED
  BY <1>1, <1>2, <1>9, <1>10 DEF p, carrying

(***************************************************************************)
(* Tallies and the scope of a file.                                        *)
(***************************************************************************)

\* A table of numbers is that of the verb it is named for.
LEMMA TableOf ==
  ASSUME NEW q, WellFormed(q), ~Executed(q).error,
         Executed(q).table.kind \in {"tally", "stats", "extremes", "timeline"}
  PROVE  q.verb = Executed(q).table.kind /\ Executed(q).table # NoTable
<1> DEFINE e == Executed(q)
<1>1. e.table # NoTable
  <2> HIDE DEF e
  <2>1. QED
    BY DEF e, NoTable
<1>2. q.verb \notin FetchVerbs
  <2> SUFFICES ASSUME q.verb \in FetchVerbs PROVE FALSE
    OBVIOUS
  <2>1. e = FetchStep(q, Fetch(q))
    BY DEF Executed
  <2>2. e.table = NoTable
    BY <2>1 DEF FetchStep, Answered
  <2>3. QED
    BY <1>1, <2>2
<1>3. CASE q.verb = "timeline"
  <2>1. e = AggregateStep(q, Timeline(q))
    BY <1>3 DEF Executed, FetchVerbs
  <2>2. e.table = Timeline(q).table
    BY <2>1 DEF AggregateStep, Answered
  <2>3. e.table.kind = "timeline"
    BY <1>1, <2>2
       DEF Timeline, Refused, NothingSelected, Aggregate, Timing
  <2>4. QED
    BY <1>1, <1>3, <2>3
<1>4. CASE q.verb \in SelectorVerbs
  <2>1. e.table = Answer(q).table
    BY <1>1, <1>4, SelectedTold
  <2>2. Answer(q).table.kind = q.verb
    <3>1. q.verb \in {"tally", "stats", "extremes", "decode"}
      BY <1>4 DEF SelectorVerbs, AggregateVerbs
    <3>2. QED
      BY <3>1 DEF Answer, Aggregate, Distribution, Summary, Listed
  <2>3. QED
    BY <1>1, <2>1, <2>2
<1>5. QED
  BY <1>2, <1>3, <1>4 DEF WellFormed, SelectorVerbs

\* A name of the header that means a column.
LEMMA ColumnNames ==
  ASSUME FilesOk, NEW name \in FileNames, NEW f \in DOMAIN FieldMap(name)
  PROVE  Fold[f] = f
<1> DEFINE labelled == {n \in Header(name) : Head(files[name][n].words) = FieldsLabel}
           names == files[name][Min(labelled)].words
           map == [w \in {Fold[names[i]] : i \in 2 .. Len(names)} |->
                     Max({i \in 2 .. Len(names) : Fold[names[i]] = w}) - 1]
<1>0. FieldMap(name) = IF labelled = {} THEN <<>> ELSE map
  BY Zenon DEF FieldMap
<1>1. labelled # {} /\ f \in {Fold[names[i]] : i \in 2 .. Len(names)}
  <2>1. DOMAIN map = {Fold[names[i]] : i \in 2 .. Len(names)}
    OBVIOUS
  <2>2. DOMAIN <<>> = {}
    OBVIOUS
  <2> HIDE DEF map, labelled, names
  <2>3. labelled # {}
    BY <1>0, <2>2
  <2>4. QED
    BY <1>0, <2>1, <2>3
<1>2. DOMAIN files[name] = 1 .. Len(files[name]) /\ files[name] \in Seq(LineSet)
  BY DEF FilesOk
<1>3. Min(labelled) \in labelled
  <2>1. labelled \in SUBSET Nat
    BY <1>2 DEF Header
  <2>2. QED
    BY <1>1, <2>1, LeastNat DEF Min
<1>4. names \in Seq(Words)
  <2>1. Min(labelled) \in DOMAIN files[name]
    BY <1>3 DEF Header
  <2> HIDE DEF labelled
  <2>2. files[name][Min(labelled)] \in LineSet
    BY <1>2, <2>1
  <2>3. QED
    BY <2>2 DEF LineSet
<1> HIDE DEF names, labelled
<1>5. PICK i \in 2 .. Len(names) : f = Fold[names[i]]
  BY <1>1
<1>6. names[i] \in Words
  BY <1>4
<1>7. QED
  BY <1>5, <1>6, CorpusAssumption

\* Two spellings of a field that the file has under one of them.
LEMMA SpellingDoesNotMatter ==
  ASSUME FilesOk, NEW name \in FileNames, NEW f \in Candidates(name),
         NEW field, Fold[f] = Fold[field], NEW line
  PROVE  FieldValue(name, line, field) = FieldValue(name, line, f)
<1>1. CASE IsJson(name)
  BY <1>1 DEF FieldValue, KeyValue
<1>2. CASE ~IsJson(name)
  <2>1. f \in DOMAIN FieldMap(name) /\ Fold[f] = f
    BY <1>2, ColumnNames DEF Candidates
  <2>2. Column(name, field) = FieldMap(name)[f] /\ Column(name, f) = FieldMap(name)[f]
    BY <2>1 DEF Column
  <2>3. QED
    BY <1>2, <2>2 DEF FieldValue
<1>3. QED
  BY <1>1, <1>2

\* A line that holds the value of some field, and is neither a comment nor blank, is one
\* of those that the profile reads; and the other way round.
LEMMA CarriersHold ==
  ASSUME FilesOk, NEW name \in FileNames, NEW n \in DOMAIN files[name], NEW field
  PROVE  LET line == files[name][n]
         IN /\ FieldValue(name, line, field) # NoWord /\ ~line.comment /\ ~Blank(line)
                 => n \in Carriers(name)
            /\ n \in Carriers(name) => ~line.comment /\ ~Blank(line)
<1> DEFINE line == files[name][n]
<1>1. line \in LineSet
  BY DEF FilesOk
<1> HIDE DEF line
<1>2. /\ ~(line.comment /\ line.object) /\ line.object \in BOOLEAN /\ line.comment \in BOOLEAN
      /\ line.keys \in Seq(Words) /\ (~line.object => Len(line.keys) = 0)
  BY <1>1 DEF LineSet
<1>3. CASE IsJson(name)
  <2>1. n \in Carriers(name) <=> line.object
    BY <1>3 DEF Carriers, line
  <2>2. ~line.object => FieldValue(name, line, field) = NoWord
    <3>1. ~line.object => DOMAIN line.keys = {}
      BY <1>2
    <3>2. QED
      BY <1>3, <3>1 DEF FieldValue, KeyValue
  <2>3. line.object => ~line.comment /\ ~Blank(line)
    BY <1>2 DEF Blank
  <2>4. QED
    BY <2>1, <2>2, <2>3 DEF line
<1>4. CASE ~IsJson(name)
  BY <1>4 DEF Carriers, Events, line
<1>5. QED
  BY <1>3, <1>4

\* The rows of the profile are those of the tally.
LEMMA ScopeIs == QueriesInv => ScopeIsATally
<1> SUFFICES ASSUME QueriesInv, NEW i \in Settled, steps[i].table.kind = "tally",
                    OverTheFile(steps[i].question), BlankRows(steps[i].question) = {},
                    NEW axis \in profile.scope[steps[i].question.file],
                    Fold[axis.field] = Fold[steps[i].question.field]
             PROVE  axis.counts = steps[i].table.counts
  BY DEF ScopeIsATally
<1> DEFINE q == steps[i].question
           name == q.file
           f == axis.field
           rows == Selected(q).rows
<1>1. /\ WellFormed(q) /\ FilesOk /\ ~Executed(q).error
      /\ steps[i].table = Executed(q).table
  BY Settles
<1>2. q.verb = "tally" /\ Executed(q).table # NoTable
  BY <1>1, TableOf
<1>3. /\ q.field # NoSelector /\ q.extract = NoSelector /\ Selecting(q) /\ q.where = {}
      /\ name \in FileNames
  BY <1>1 DEF WellFormed, OverTheFile, Selecting
<1>4. /\ Executed(q).table = Answer(q).table
      /\ rows = UNION {RowsOf(q, r) : r \in Read(q)}
  BY <1>1, <1>2, SelectedTold DEF SelectorVerbs, AggregateVerbs
<1>5. steps[i].table.counts = CountsOf(rows)
  <2>1. Answer(q).table = Distribution(CountsOf(rows))
    <3> HIDE DEF rows, q
    <3>1. Answer(q) = Aggregate(Cardinality(Selected(q).lines), <<>>, Distribution(CountsOf(rows)))
      BY <1>2 DEF Answer, rows
    <3>2. QED
      BY <3>1 DEF Aggregate
  <2>2. Distribution(CountsOf(rows)).counts = CountsOf(rows)
    BY DEF Distribution
  <2>3. QED
    BY <1>1, <1>4, <2>1, <2>2
<1>6. f \in Candidates(name) /\ axis.counts = CountsOf(ColumnValues(name, f))
  <2>1. profile.scope[name] = Scope(name)
    <3>1. steps # <<>>
      BY DEF QueriesInv, Settled
    <3>2. QED
      BY <1>3, <3>1 DEF QueriesInv
  <2> HIDE DEF name
  <2>2. axis \in Scope(name)
    BY <2>1 DEF name
  <2>3. \E g \in Candidates(name) :
          axis = [field |-> g, counts |-> CountsOf(ColumnValues(name, g))]
    BY <2>2, Zenon DEF Scope
  <2>4. QED
    BY <2>3
<1>7. \A r \in Refs : r[1] = name => /\ r = <<name, r[2]>> /\ r[2] \in DOMAIN files[name]
                                     /\ LineAt(r) = files[name][r[2]]
  BY DEF Refs, LineAt
<1>8. \A n \in DOMAIN files[name] : <<name, n>> \in Refs /\ LineAt(<<name, n>>) = files[name][n]
  BY <1>3 DEF Refs, LineAt
<1>9. Targets(name) = {name}
  BY <1>3, CorpusAssumption DEF Targets
<1>10. \A r : r \in Read(q) <=> /\ r \in Refs /\ r[1] = name /\ Finds(q.pattern, LineAt(r))
                               /\ ~LineAt(r).comment
  BY <1>3, <1>9 DEF Read, Matching
<1>11. \A row : row \in rows <=>
         \E r \in Read(q) : /\ FieldValue(name, LineAt(r), q.field) # NoWord
                            /\ row = Row(r, 0, FieldValue(name, LineAt(r), q.field))
  <2>1. \A r \in Read(q) : RowsOf(q, r) = FieldRows(q.field, r) /\ r[1] = name
    BY <1>3, <1>10 DEF RowsOf
  <2> HIDE DEF rows, name, q
  <2>2. \A r \in Read(q) : \A row :
          row \in RowsOf(q, r) <=> /\ FieldValue(name, LineAt(r), q.field) # NoWord
                                  /\ row = Row(r, 0, FieldValue(name, LineAt(r), q.field))
    BY <2>1 DEF FieldRows
  <2>3. QED
    BY <1>4, <2>2
<1>12. \A row : row \in ColumnValues(name, f) <=>
         \E n \in Carriers(name) :
           /\ FieldValue(name, files[name][n], f) # NoWord
           /\ row = Row(<<name, n>>, 0, FieldValue(name, files[name][n], f))
  BY DEF ColumnValues, Row
<1>13. \A line : FieldValue(name, line, q.field) = FieldValue(name, line, f)
  BY <1>1, <1>3, <1>6, SpellingDoesNotMatter
<1>14. \A row \in rows : ~Blank(LineAt(row.ref))
  BY DEF BlankRows
<1>15. \A r \in Refs : r[1] = name /\ ~Blank(LineAt(r)) => Finds(q.pattern, LineAt(r))
  BY DEF OverTheFile
<1> HIDE DEF q, name, f, rows
<1>16. ASSUME NEW row \in rows PROVE row \in ColumnValues(name, f)
  <2>1. PICK r \in Read(q) : /\ FieldValue(name, LineAt(r), q.field) # NoWord
                             /\ row = Row(r, 0, FieldValue(name, LineAt(r), q.field))
    BY <1>11
  <2>2. ~Blank(LineAt(r))
    BY <1>14, <2>1 DEF Row
  <2>3. r = <<name, r[2]>> /\ r[2] \in DOMAIN files[name] /\ LineAt(r) = files[name][r[2]]
    BY <1>7, <1>10
  <2>4. r[2] \in Carriers(name)
    BY <1>1, <1>3, <1>10, <2>1, <2>2, <2>3, CarriersHold
  <2>5. QED
    BY <1>12, <1>13, <2>1, <2>3, <2>4
<1>17. ASSUME NEW row \in ColumnValues(name, f) PROVE row \in rows
  <2>1. PICK n \in Carriers(name) :
          /\ FieldValue(name, files[name][n], f) # NoWord
          /\ row = Row(<<name, n>>, 0, FieldValue(name, files[name][n], f))
    BY <1>12
  <2>2. n \in DOMAIN files[name]
    BY DEF Carriers, Events
  <2>3. ~files[name][n].comment /\ ~Blank(files[name][n])
    BY <1>1, <1>3, <2>2, CarriersHold
  <2>4. <<name, n>> \in Read(q)
    BY <1>8, <1>10, <1>15, <2>2, <2>3
  <2>5. QED
    BY <1>8, <1>11, <1>13, <2>1, <2>2, <2>4
<1>18. rows = ColumnValues(name, f)
  BY <1>16, <1>17
<1>19. QED
  BY <1>5, <1>6, <1>18 DEF f, q

(***************************************************************************)
(* Selected values.                                                        *)
(***************************************************************************)

\* What is on a line are words.
LEMMA TextIsWords ==
  ASSUME NEW line \in LineSet
  PROVE  Text(line) \in Seq(Words)
<1>1. /\ line.keys \in Seq(Words) /\ line.words \in Seq(Words) /\ line.object \in BOOLEAN
      /\ line.object => Len(line.keys) = Len(line.words)
  BY DEF LineSet
<1>2. CASE line.object
  <2> DEFINE n == Len(line.words)
             word(i) == IF i % 2 = 1 THEN line.keys[(i + 1) \div 2] ELSE line.words[i \div 2]
  <2>1. n \in Nat
    BY <1>1
  <2>2. ASSUME NEW i \in 1 .. 2 * n PROVE word(i) \in Words
    <3>1. i % 2 = 1 => (i + 1) \div 2 \in 1 .. n
      BY <2>1
    <3>2. i % 2 # 1 => i \div 2 \in 1 .. n
      BY <2>1
    <3>3. QED
      BY <1>1, <1>2, <3>1, <3>2
  <2> HIDE DEF word
  <2>3. [i \in 1 .. 2 * n |-> word(i)] \in Seq(Words)
    <3> DEFINE m == 2 * n
    <3>1. m \in Nat
      BY <2>1
    <3> HIDE DEF m
    <3>2. (\A i \in 1 .. m : word(i) \in Words) => [i \in 1 .. m |-> word(i)] \in Seq(Words)
      BY <3>1
    <3>3. QED
      BY <2>2, <3>2 DEF m
  <2>4. QED
    BY <1>2, <2>3 DEF Text, word
<1>3. CASE ~line.object
  BY <1>1, <1>3 DEF Text
<1>4. QED
  BY <1>1, <1>2, <1>3

\* What a field holds is a word, or nothing.
LEMMA FieldValues ==
  ASSUME NEW line \in LineSet, NEW name, NEW field
  PROVE  FieldValue(name, line, field) \in Words \cup {NoWord}
<1>1. /\ line.keys \in Seq(Words) /\ line.words \in Seq(Words) /\ line.object \in BOOLEAN
      /\ line.keys = <<>> \/ Len(line.keys) = Len(line.words)
  BY DEF LineSet
<1>2. KeyValue(line, field) \in Words \cup {NoWord}
  <2> DEFINE places == {i \in DOMAIN line.keys : Fold[line.keys[i]] = Fold[field]}
  <2>1. CASE places = {}
    BY <2>1 DEF KeyValue
  <2>2. CASE places # {}
    <3>1. Len(line.keys) \in Nat /\ DOMAIN line.keys = 1 .. Len(line.keys)
      BY <1>1
    <3>2. places \in SUBSET (0 .. Len(line.keys))
      BY <3>1
    <3>3. Max(places) \in places
      <4> HIDE DEF places
      <4>1. QED
        BY <2>2, <3>1, <3>2, LargestUpto
    <3>4. Max(places) \in DOMAIN line.words
      BY <1>1, <3>1, <3>3
    <3> HIDE DEF places
    <3>5. line.words[Max(places)] \in Words
      BY <1>1, <3>4
    <3>6. QED
      BY <2>2, <3>5 DEF KeyValue, places
  <2>3. QED
    BY <2>1, <2>2
<1>3. CellValue(line, Column(name, field)) \in Words \cup {NoWord}
  <2>1. CASE line.words = <<>>
    <3> DEFINE empty == ""
    <3>1. empty \in Words
      BY CorpusAssumption
    <3> HIDE DEF empty
    <3>2. Cells(line) = <<empty>>
      BY <2>1 DEF Cells, empty
    <3>3. QED
      BY <3>1, <3>2 DEF CellValue
  <2>2. CASE line.words # <<>>
    BY <1>1, <2>2 DEF CellValue, Cells
  <2>3. QED
    BY <2>1, <2>2
<1>4. QED
  BY <1>2, <1>3 DEF FieldValue

\* Every verb selects finitely many values, all of them words, from the lines it reads.
LEMMA RowsAreWords ==
  ASSUME FilesOk, NEW q, q.pattern.anchors \in Seq(Words), NEW r \in Read(q)
  PROVE  /\ IsFiniteSet(RowsOf(q, r))
         /\ \A row \in RowsOf(q, r) : row.ref = r /\ row.value \in Words
<1> DEFINE text == Text(LineAt(r))
           N == Len(text)
           slots == (0 .. N) \X Words
           f == [p \in slots |-> Row(r, p[1], p[2])]
           T == {f[p] : p \in slots}
<1>1. r \in Refs /\ r \in Matching(q.pattern, q.file, q.where)
  BY DEF Read, Matching
<1>2. LineAt(r) \in LineSet
  <2>1. PICK name \in FileNames : r \in {name} \X DOMAIN files[name]
    BY <1>1 DEF Refs
  <2>2. files[name] \in Seq(LineSet) /\ LineAt(r) = files[name][r[2]] /\ r[2] \in DOMAIN files[name]
    BY <2>1 DEF FilesOk, LineAt
  <2>3. QED
    BY <2>2
<1>3. text \in Seq(Words)
  BY <1>2, TextIsWords
<1> HIDE DEF text
<1>4. N \in Nat /\ DOMAIN text = 1 .. N /\ \A i \in 1 .. N : text[i] \in Words
  BY <1>3
<1> HIDE DEF N
<1>5. IsFiniteSet(T)
  <2>1. IsFiniteSet(0 .. N)
    BY <1>4, FS_Interval
  <2>2. IsFiniteSet(slots)
    BY <2>1, WordsAreFinite, FS_Product
  <2>3. DOMAIN f = slots /\ f = [p \in slots |-> f[p]]
    OBVIOUS
  <2> HIDE DEF slots, f
  <2>4. QED
    BY <2>2, <2>3, FiniteImage
<1>6. \A i \in 0 .. N, v \in Words : Row(r, i, v) \in T
  <2> TAKE i \in 0 .. N, v \in Words
  <2>1. <<i, v>> \in slots /\ f[<<i, v>>] = Row(r, i, v)
    OBVIOUS
  <2> HIDE DEF f, slots
  <2>2. QED
    BY <2>1
<1>7. \A row \in T : row.ref = r /\ row.value \in Words
  BY DEF Row
<1> HIDE DEF T
<1>8. PatternRows(q.pattern, r) \subseteq T
  <2> DEFINE A == q.pattern.anchors
             ends == {at[Len(A)] : at \in Places(q.pattern, text, Fold)}
  <2>1. CASE A = <<>>
    <3> DEFINE empty == ""
    <3>1. empty \in Words
      BY CorpusAssumption
    <3>2. Len(A) = 0
      BY <2>1
    <3> HIDE DEF empty, ends
    <3>3. PatternRows(q.pattern, r) = {Row(r, i, empty) : i \in 0 .. N}
      BY <2>1, <3>2 DEF PatternRows, text, N, empty
    <3>4. QED
      BY <1>6, <3>1, <3>3
  <2>2. CASE A # <<>>
    <3>1. ends \subseteq 1 .. N
      <4>1. Len(A) \in DOMAIN A
        BY <2>2
      <4>2. Places(q.pattern, text, Fold) \subseteq [DOMAIN A -> DOMAIN text]
        BY DEF Places
      <4> HIDE DEF A
      <4>3. QED
        BY <1>4, <4>1, <4>2
    <3>2. Places(q.pattern, text, Fold) # {}
      BY <1>1 DEF Matching, Finds, text
    <3>3. ends # {}
      BY <3>2
    <3>4. \/ PatternRows(q.pattern, r) = {Row(r, i, text[i]) : i \in ends}
          \/ PatternRows(q.pattern, r) = {Row(r, Max(ends), text[Max(ends)])}
      <4> DEFINE each == Len(A) = 1 \/ (Len(A) > 1 /\ q.pattern.tight)
      <4>1. CASE each
        BY <2>2, <4>1, Zenon DEF PatternRows, text
      <4>2. CASE ~each
        BY <2>2, <4>2, Zenon DEF PatternRows, text
      <4>3. QED
        BY <4>1, <4>2
    <3> HIDE DEF ends
    <3>5. Max(ends) \in ends
      <4>1. ends \in SUBSET (0 .. N)
        BY <1>4, <3>1
      <4>2. QED
        BY <1>4, <3>3, <4>1, LargestUpto
    <3>6. \A i \in ends : i \in 0 .. N /\ text[i] \in Words
      BY <1>4, <3>1
    <3>7. QED
      BY <1>6, <3>4, <3>5, <3>6
  <2>3. QED
    BY <2>1, <2>2
<1>9. EntityRows(q.extract, r) \subseteq T
  BY <1>4, <1>6 DEF EntityRows, text
<1>10. FieldRows(q.field, r) \subseteq T
  <2>1. FieldValue(r[1], LineAt(r), q.field) \in Words \cup {NoWord}
    BY <1>2, FieldValues
  <2>2. QED
    BY <1>4, <1>6, <2>1 DEF FieldRows
<1>11. RowsOf(q, r) \subseteq T
  BY <1>8, <1>9, <1>10 DEF RowsOf
<1>12. QED
  BY <1>5, <1>7, <1>11, FS_Subset

\* So is what is selected from all of them.
LEMMA SelectionIsWords ==
  ASSUME FilesOk, NEW q, q.pattern.anchors \in Seq(Words)
  PROVE  LET rows == UNION {RowsOf(q, r) : r \in Read(q)}
         IN IsFiniteSet(rows) /\ \A row \in rows : row.ref \in Refs /\ row.value \in Words
<1> DEFINE of == [r \in Read(q) |-> RowsOf(q, r)]
<1>1. Read(q) \subseteq Refs
  BY DEF Read, Matching
<1>2. IsFiniteSet(Read(q))
  BY <1>1, LinesAreFinite
<1>3. DOMAIN of = Read(q) /\ of = [r \in Read(q) |-> of[r]]
      /\ \A r \in Read(q) : of[r] = RowsOf(q, r)
  OBVIOUS
<1> HIDE DEF of
<1>4. IsFiniteSet({of[r] : r \in Read(q)})
  BY <1>2, <1>3, FiniteImage
<1>5. IsFiniteSet(UNION {of[r] : r \in Read(q)})
  <2>1. \A S \in {of[r] : r \in Read(q)} : IsFiniteSet(S)
    BY <1>3, RowsAreWords
  <2>2. QED
    BY <1>4, <2>1, FS_UNION
<1>6. UNION {RowsOf(q, r) : r \in Read(q)} = UNION {of[r] : r \in Read(q)}
  BY <1>3
<1>7. \A r \in Read(q) : \A row \in RowsOf(q, r) : row.ref \in Refs /\ row.value \in Words
  BY <1>1, RowsAreWords
<1>8. QED
  BY <1>5, <1>6, <1>7

(***************************************************************************)
(* Series.                                                                 *)
(***************************************************************************)

\* The values of a function in order: as many as it has arguments, the last the largest.
LEMMA AscendingIs ==
  ASSUME NEW S, IsFiniteSet(S), S # {}, NEW f \in [S -> Int]
  PROVE  LET A == Ascending(f)
             N == Cardinality(S)
         IN /\ N \in Nat \ {0} /\ A \in Seq({f[x] : x \in S}) /\ Len(A) = N
            /\ \A x \in S : f[x] <= A[N]
<1> DEFINE N == Cardinality(S)
           values == {f[x] : x \in S}
           atMost(w) == {x \in S : f[x] <= w}
           above(n) == {v \in values : n <= Cardinality(atMost(v))}
<1>1. N \in Nat \ {0}
  BY FS_CardinalityType, FS_EmptySet
<1>2. Ascending(f) = [n \in 1 .. N |-> Min(above(n))]
  BY DEF Ascending
<1>3. IsFiniteSet(values) /\ values \subseteq Int /\ values # {}
  <2>1. f = [x \in S |-> f[x]] /\ DOMAIN f = S
    OBVIOUS
  <2>2. IsFiniteSet(values)
    BY <2>1, FiniteImage
  <2>3. QED
    BY <2>2
<1>4. Max(values) \in values /\ \A v \in values : v <= Max(values)
  <2> HIDE DEF values
  <2>1. QED
    BY <1>3, Bounds
<1>5. \A v \in values : /\ Cardinality(atMost(v)) \in Nat /\ Cardinality(atMost(v)) <= N
                        /\ Cardinality(atMost(v)) = N => atMost(v) = S
  <2> TAKE v \in values
  <2>1. atMost(v) \in SUBSET S
    OBVIOUS
  <2> HIDE DEF atMost
  <2>2. /\ IsFiniteSet(atMost(v)) /\ Cardinality(atMost(v)) <= Cardinality(S)
        /\ Cardinality(S) = Cardinality(atMost(v)) => S = atMost(v)
    BY <2>1, FS_Subset
  <2>3. QED
    BY <2>2, FS_CardinalityType
<1>6. atMost(Max(values)) = S
  BY <1>4
<1>7. ASSUME NEW n \in 1 .. N PROVE Min(above(n)) \in above(n)
  <2>1. Max(values) \in above(n)
    <3> HIDE DEF values, atMost
    <3>1. Cardinality(atMost(Max(values))) = N
      BY <1>6
    <3>2. n <= N
      BY <1>1
    <3>3. QED
      BY <1>4, <3>1, <3>2
  <2>2. above(n) \in SUBSET values
    OBVIOUS
  <2> HIDE DEF values, above
  <2>3. IsFiniteSet(above(n)) /\ above(n) \subseteq Int
    BY <1>3, <2>2, FS_Subset
  <2>4. QED
    BY <2>1, <2>3, Bounds
<1>8. N \in 1 .. N
  BY <1>1
<1>9. \A x \in S : f[x] <= Min(above(N))
  <2>1. \A v \in values : N <= Cardinality(atMost(v)) => atMost(v) = S
    <3> HIDE DEF N, atMost, values
    <3>1. QED
      BY <1>1, <1>5
  <2>2. \A v \in values : atMost(v) = S => \A x \in S : f[x] <= v
    OBVIOUS
  <2>3. Min(above(N)) \in values /\ N <= Cardinality(atMost(Min(above(N))))
    BY <1>7, <1>8
  <2> HIDE DEF N, values, atMost, above
  <2>4. QED
    BY <2>1, <2>2, <2>3
<1>10. \A n \in 1 .. N : Min(above(n)) \in values
  BY <1>7
<1> HIDE DEF above, values, N
<1>11. [n \in 1 .. N |-> Min(above(n))] \in Seq(values)
       /\ Len([n \in 1 .. N |-> Min(above(n))]) = N
  BY <1>1, <1>10
<1>12. QED
  BY <1>1, <1>2, <1>8, <1>9, <1>11 DEF N, values

\* The first entries of a listing.
LEMMA First ==
  ASSUME NEW X, NEW s \in Seq(X), NEW n \in Nat
  PROVE  /\ FirstOf(n, s) \in Seq(X)
         /\ Len(FirstOf(n, s)) = IF n < Len(s) THEN n ELSE Len(s)
         /\ \A i \in 1 .. Len(FirstOf(n, s)) : FirstOf(n, s)[i] = s[i]
<1> DEFINE N == Len(s)
           k == IF n < N THEN n ELSE N
<1>1. N \in Nat /\ k \in Nat /\ k <= N /\ DOMAIN s = 1 .. N
  OBVIOUS
<1>2. Min({n, N}) = k
  <2> HIDE DEF N
  <2>1. QED
    BY <1>1, OfTwo
<1>3. FirstOf(n, s) = SubSeq(s, 1, k)
  BY <1>2 DEF FirstOf
<1> HIDE DEF k
<1>4. /\ SubSeq(s, 1, k) \in Seq(X) /\ Len(SubSeq(s, 1, k)) = k
      /\ \A i \in 1 .. k : SubSeq(s, 1, k)[i] = s[i]
  BY <1>1
<1>5. QED
  BY <1>3, <1>4 DEF k

(***************************************************************************)
(* The lines behind a maximum.                                             *)
(***************************************************************************)

\* The order of the case is an order.
LEMMA PrecedesOrders ==
  ASSUME FilesOk
  PROVE  /\ \A r \in Refs : ~Precedes(r, r)
         /\ \A r, s \in Refs : r # s => Precedes(r, s) \/ Precedes(s, r)
         /\ \A r, s, t \in Refs : Precedes(r, s) /\ Precedes(s, t) => Precedes(r, t)
<1>0. FileOrder \in Seq(FileNames)
  BY CorpusAssumption
<1>1. \A name \in FileNames : /\ FileRank(name) \in Nat
                              /\ FileOrder[FileRank(name)] = name
  <2> TAKE name \in FileNames
  <2>1. \E i \in DOMAIN FileOrder : FileOrder[i] = name
    BY DEF FileNames, ToSet
  <2>2. FileRank(name) \in DOMAIN FileOrder /\ FileOrder[FileRank(name)] = name
    BY <2>1 DEF FileRank
  <2>3. QED
    BY <1>0, <2>2
<1>2. \A r \in Refs : r[1] \in FileNames /\ r[2] \in Nat /\ r = <<r[1], r[2]>>
  BY DEF Refs, FilesOk
<1>3. \A r \in Refs : FileRank(r[1]) \in Nat
  BY <1>1, <1>2
<1>4. \A r, s \in Refs : FileRank(r[1]) = FileRank(s[1]) => r[1] = s[1]
  BY <1>1, <1>2
<1>5. \A r \in Refs : ~Precedes(r, r)
  BY <1>2, <1>3 DEF Precedes
<1>6. ASSUME NEW r \in Refs, NEW s \in Refs, r # s PROVE Precedes(r, s) \/ Precedes(s, r)
  <2>1. r[1] # s[1] \/ r[2] # s[2]
    BY <1>2, <1>6
  <2>2. CASE r[1] # s[1]
    BY <1>3, <1>4, <2>2 DEF Precedes
  <2>3. CASE r[1] = s[1] /\ r[2] # s[2]
    BY <1>2, <2>3 DEF Precedes
  <2>4. QED
    BY <2>1, <2>2, <2>3
<1>7. ASSUME NEW r \in Refs, NEW s \in Refs, NEW t \in Refs, Precedes(r, s), Precedes(s, t)
      PROVE  Precedes(r, t)
  <2>1. /\ FileRank(r[1]) \in Nat /\ FileRank(s[1]) \in Nat /\ FileRank(t[1]) \in Nat
        /\ r[2] \in Nat /\ s[2] \in Nat /\ t[2] \in Nat
    BY <1>2, <1>3
  <2>2. QED
    BY <1>7, <2>1 DEF Precedes
<1>8. QED
  BY <1>5, <1>6, <1>7

\* Some lines, each with a number: what has the larger number, or comes first, is up to it.
LEMMA LargestListing ==
  ASSUME FilesOk, NEW S \in SUBSET Refs, NEW best \in [S -> Int]
  PROVE  LET before(s, r) == best[s] > best[r] \/ (best[s] = best[r] /\ ~Precedes(r, s))
             upto == [r \in S |-> {s \in S : before(s, r)}]
         IN /\ Listing(S, upto) \in Seq(S) /\ Len(Listing(S, upto)) = Cardinality(S)
            /\ \A l \in S : \E n \in 1 .. Cardinality(S) : Listing(S, upto)[n] = l
            /\ \A i, j \in 1 .. Cardinality(S) :
                 i < j => best[Listing(S, upto)[j]] <= best[Listing(S, upto)[i]]
<1> DEFINE before(s, r) == best[s] > best[r] \/ (best[s] = best[r] /\ ~Precedes(r, s))
           upto == [r \in S |-> {s \in S : before(s, r)}]
           L == Listing(S, upto)
<1>1. \A l \in S : l \in Refs /\ best[l] \in Int
  OBVIOUS
<1>2. /\ \A r \in S : ~Precedes(r, r)
      /\ \A r, s \in S : r # s => Precedes(r, s) \/ Precedes(s, r)
      /\ \A r, s, t \in S : Precedes(r, s) /\ Precedes(s, t) => Precedes(r, t)
  BY <1>1, PrecedesOrders
<1>3. /\ \A l \in S : before(l, l)
      /\ \A l, m \in S : before(l, m) \/ before(m, l)
      /\ \A l, m \in S : before(l, m) /\ before(m, l) => l = m
      /\ \A k, l, m \in S : before(k, l) /\ before(l, m) => before(k, m)
  <2>1. \A l \in S : before(l, l)
    BY <1>1, <1>2
  <2>2. \A l, m \in S : before(l, m) \/ before(m, l)
    BY <1>1, <1>2
  <2>3. \A l, m \in S : before(l, m) /\ before(m, l) => l = m
    BY <1>1, <1>2
  <2>4. ASSUME NEW k \in S, NEW l \in S, NEW m \in S, before(k, l), before(l, m)
        PROVE  before(k, m)
    <3>1. best[k] \in Int /\ best[l] \in Int /\ best[m] \in Int
      BY <1>1
    <3>2. CASE best[k] = best[l] /\ best[l] = best[m]
      BY <1>2, <2>4, <3>1, <3>2
    <3>3. CASE best[k] # best[l] \/ best[l] # best[m]
      BY <2>4, <3>1, <3>3
    <3>4. QED
      BY <3>2, <3>3
  <2>5. QED
    BY <2>1, <2>2, <2>3, <2>4
<1>4. \A l, m \in S : before(l, m) => best[m] <= best[l]
  BY <1>1
<1> HIDE DEF before
<1>5. upto \in [S -> SUBSET S] /\ \A l \in S : l \in upto[l]
  BY <1>3
<1>6. ASSUME NEW l \in S, NEW m \in S, l # m
      PROVE  \/ upto[l] \subseteq upto[m] /\ m \notin upto[l]
             \/ upto[m] \subseteq upto[l] /\ l \notin upto[m]
  <2>1. \A x, y \in S : before(x, y) => upto[x] \subseteq upto[y]
    BY <1>3
  <2>2. \A x, y \in S : x \in upto[y] <=> before(x, y)
    OBVIOUS
  <2>3. QED
    BY <1>3, <1>6, <2>1, <2>2
<1>7. \A x, y \in S : x \in upto[y] => best[y] <= best[x]
  BY <1>4
<1>8. IsFiniteSet(S) /\ Cardinality(S) \in Nat
  BY LinesAreFinite
<1> HIDE DEF upto
<1>9. /\ L \in Seq(S) /\ Len(L) = Cardinality(S)
      /\ \A l \in S : \E n \in 1 .. Cardinality(S) : L[n] = l
      /\ \A i, j \in 1 .. Cardinality(S) : i < j => L[i] \in upto[L[j]]
  BY <1>5, <1>6, <1>8, Listings
<1> HIDE DEF L
<1>10. \A i \in 1 .. Cardinality(S) : L[i] \in S
  BY <1>9
<1>11. \A i, j \in 1 .. Cardinality(S) : i < j => best[L[j]] <= best[L[i]]
  BY <1>7, <1>9, <1>10
<1>12. QED
  BY <1>9, <1>11 DEF L, upto, before

\* The rows of a selection.
Selects(rows) ==
  IsFiniteSet(rows) /\ \A row \in rows : row.ref \in Refs /\ row.value \in Words

\* What a word measures is a number.
LEMMA Measures ==
  ASSUME NEW rows, \A row \in rows : row.value \in Words
  PROVE  \A row \in rows : Measure(rows, row.value) \in Int
<1> TAKE row \in rows
<1>1. AllNumeric(rows) => Number[row.value] \in Int
  BY AggregateAssumption DEF AllNumeric
<1>2. Length[row.value] \in Nat
  BY CorpusAssumption
<1>3. QED
  BY <1>1, <1>2 DEF Measure

\* The largest value of a line is one of its values.
LEMMA BestIs ==
  ASSUME NEW rows, Selects(rows), NEW r \in {row.ref : row \in rows}
  PROVE  /\ \E row \in rows : row.ref = r /\ BestOn(rows, r) = Measure(rows, row.value)
         /\ \A row \in rows : row.ref = r => Measure(rows, row.value) <= BestOn(rows, r)
         /\ BestOn(rows, r) \in Int
<1> DEFINE on == {w \in rows : w.ref = r}
           f == [row \in on |-> Measure(rows, row.value)]
           T == {f[row] : row \in on}
<1>1. \A row \in rows : Measure(rows, row.value) \in Int
  BY Measures DEF Selects
<1>2. on \in SUBSET rows /\ IsFiniteSet(rows)
  BY DEF Selects
<1>3. IsFiniteSet(on)
  <2> HIDE DEF on
  <2>1. QED
    BY <1>2, FS_Subset
<1>4. DOMAIN f = on /\ f = [row \in on |-> f[row]]
  OBVIOUS
<1>5. T = {Measure(rows, row.value) : row \in on}
  OBVIOUS
<1>6. T # {} /\ T \subseteq Int
  BY <1>1, <1>5
<1>7. IsFiniteSet(T)
  <2> HIDE DEF f, on
  <2>1. QED
    BY <1>3, <1>4, FiniteImage
<1>8. BestOn(rows, r) = Max(T)
  BY <1>5 DEF BestOn
<1> HIDE DEF T, f
<1>9. Max(T) \in T /\ \A x \in T : x <= Max(T)
  BY <1>6, <1>7, Bounds
<1>10. QED
  BY <1>5, <1>6, <1>8, <1>9

\* What extremes lists, and what it says of it.
LEMMA ListedIs ==
  ASSUME FilesOk, NEW s, Selects(s.rows), s.rows # {}
  PROVE  LET rows == s.rows
             answer == Listed(s, LargestFirst(rows))
         IN /\ answer.table.kind = "extremes" /\ answer.table.numeric = AllNumeric(rows)
            /\ \A row \in rows : /\ Measure(rows, row.value) <= answer.table.keys[1]
                                 /\ row.ref \notin ToSet(answer.hits) =>
                                      Measure(rows, row.value) <= Last(answer.table.keys)
            /\ \E row \in rows : answer.table.keys[1] = Measure(rows, row.value)
<1> DEFINE rows == s.rows
           S == {row.ref : row \in rows}
           best == [r \in S |-> BestOn(rows, r)]
           ranked == LargestFirst(rows)
           N == Cardinality(S)
           shown == FirstOf(ExtremesShown, ranked)
           K == Len(shown)
           keys == [i \in DOMAIN shown |-> BestOn(rows, shown[i])]
           answer == Listed(s, ranked)
<1>1. /\ answer.hits = shown /\ answer.table.keys = keys /\ answer.table.kind = "extremes"
      /\ answer.table.numeric = AllNumeric(rows)
  BY DEF Listed, Aggregate
<1>2. S \in SUBSET Refs /\ S # {}
  BY DEF Selects
<1>3. best \in [S -> Int]
  <2>1. \A r \in S : BestOn(rows, r) \in Int
    BY BestIs
  <2>2. QED
    BY <2>1
<1>4. N \in Nat /\ N # 0
  <2> HIDE DEF S
  <2>1. IsFiniteSet(S) /\ Cardinality(S) \in Nat
    BY <1>2, LinesAreFinite
  <2>2. QED
    BY <1>2, <2>1, FS_EmptySet
<1>5. /\ ranked \in Seq(S) /\ Len(ranked) = N
      /\ \A l \in S : \E n \in 1 .. N : ranked[n] = l
      /\ \A i, j \in 1 .. N : i < j => best[ranked[j]] <= best[ranked[i]]
  <2> DEFINE before(t, r) == best[t] > best[r] \/ (best[t] = best[r] /\ ~Precedes(r, t))
             upto == [r \in S |-> {t \in S : before(t, r)}]
  <2>1. ranked = Listing(S, upto)
    BY Zenon DEF LargestFirst
  <2> HIDE DEF S, best, ranked, rows
  <2>2. /\ Listing(S, upto) \in Seq(S) /\ Len(Listing(S, upto)) = Cardinality(S)
        /\ \A l \in S : \E n \in 1 .. Cardinality(S) : Listing(S, upto)[n] = l
        /\ \A i, j \in 1 .. Cardinality(S) :
             i < j => best[Listing(S, upto)[j]] <= best[Listing(S, upto)[i]]
    BY <1>2, <1>3, LargestListing
  <2> HIDE DEF upto
  <2>3. QED
    BY <2>1, <2>2
<1>6. \A r \in S : best[r] = BestOn(rows, r)
  OBVIOUS
<1>7. /\ \A row \in rows : row.ref \in S /\ Measure(rows, row.value) <= best[row.ref]
      /\ \A r \in S : best[r] \in Int /\ \E row \in rows : best[r] = Measure(rows, row.value)
      /\ \A row \in rows : Measure(rows, row.value) \in Int
  <2>1. \A row \in rows : row.ref \in S
    OBVIOUS
  <2>2. \A row \in rows : Measure(rows, row.value) \in Int
    BY Measures DEF Selects
  <2> HIDE DEF S, best
  <2>3. \A r \in S : /\ \E row \in rows : BestOn(rows, r) = Measure(rows, row.value)
                    /\ \A row \in rows : row.ref = r =>
                         Measure(rows, row.value) <= BestOn(rows, r)
                    /\ BestOn(rows, r) \in Int
    BY BestIs DEF S
  <2>4. QED
    BY <1>6, <2>1, <2>2, <2>3
<1> HIDE DEF rows, S, best, ranked, N, answer
<1>8. ExtremesShown \in Nat \ {0}
  BY AggregateAssumption
<1>9. /\ shown \in Seq(S) /\ K = IF ExtremesShown < N THEN ExtremesShown ELSE N
      /\ \A i \in 1 .. K : shown[i] = ranked[i]
  <2>1. ranked \in Seq(S) /\ Len(ranked) = N /\ ExtremesShown \in Nat
    BY <1>5, <1>8
  <2>2. /\ shown \in Seq(S)
        /\ K = IF ExtremesShown < Len(ranked) THEN ExtremesShown ELSE Len(ranked)
        /\ \A i \in 1 .. K : shown[i] = ranked[i]
    BY <2>1, First
  <2>3. QED
    BY <2>1, <2>2
<1> HIDE DEF shown, K
<1>10. K \in 1 .. N /\ K \in Nat /\ K # 0 /\ DOMAIN shown = 1 .. K
  <2>1. DOMAIN shown = 1 .. K
    BY <1>9 DEF K
  <2>2. QED
    BY <1>4, <1>8, <1>9, <2>1
<1>11. /\ \A i \in 1 .. K : keys[i] = best[ranked[i]]
       /\ Last(keys) = best[ranked[K]]
  <2>1. \A i \in 1 .. N : ranked[i] \in S
    BY <1>4, <1>5
  <2>2. \A i \in 1 .. K : keys[i] = best[ranked[i]]
    BY <1>4, <1>6, <1>9, <1>10, <2>1
  <2>3. keys \in [1 .. K -> Int]
    BY <1>4, <1>7, <1>10, <2>1, <2>2
  <2> HIDE DEF keys
  <2>4. keys \in Seq(Int) /\ Len(keys) = K
    BY <1>10, <2>3
  <2>5. QED
    BY <1>10, <2>2, <2>4 DEF Last
<1> HIDE DEF keys
<1>12. \A i, j \in 1 .. N : i <= j => best[ranked[j]] <= best[ranked[i]]
  <2> TAKE i, j \in 1 .. N
  <2>1. ranked[i] \in S
    BY <1>4, <1>5
  <2>2. i = j => best[ranked[j]] <= best[ranked[i]]
    BY <1>7, <2>1
  <2>3. i \in Int /\ j \in Int
    BY <1>4
  <2>4. QED
    BY <1>5, <2>2, <2>3
<1>13. ASSUME NEW row \in rows
       PROVE  /\ Measure(rows, row.value) <= keys[1]
              /\ row.ref \notin ToSet(shown) => Measure(rows, row.value) <= Last(keys)
  <2>1. PICK n \in 1 .. N : ranked[n] = row.ref
    BY <1>5, <1>7
  <2>2. /\ n \in Nat /\ 1 \in 1 .. N /\ 1 \in 1 .. K /\ 1 <= n
        /\ ranked[1] \in S /\ ranked[K] \in S
    BY <1>4, <1>5, <1>10
  <2>3. Measure(rows, row.value) <= keys[1]
    <3>1. Measure(rows, row.value) <= best[ranked[n]]
      BY <1>7, <2>1
    <3>2. best[ranked[n]] <= best[ranked[1]]
      BY <1>12, <2>2
    <3>3. best[ranked[n]] \in Int /\ best[ranked[1]] \in Int
          /\ Measure(rows, row.value) \in Int
      BY <1>7, <2>1, <2>2
    <3>4. QED
      BY <1>11, <2>2, <3>1, <3>2, <3>3
  <2>4. ASSUME row.ref \notin ToSet(shown) PROVE Measure(rows, row.value) <= Last(keys)
    <3>1. ~(n \in 1 .. K)
      BY <1>9, <1>10, <2>1, <2>4 DEF ToSet
    <3>2. K <= n
      BY <1>10, <2>2, <3>1
    <3>3. Measure(rows, row.value) <= best[ranked[n]]
      BY <1>7, <2>1
    <3>4. best[ranked[n]] <= best[ranked[K]]
      BY <1>10, <1>12, <3>2
    <3>5. best[ranked[n]] \in Int /\ best[ranked[K]] \in Int
          /\ Measure(rows, row.value) \in Int
      BY <1>7, <2>1, <2>2
    <3>6. QED
      BY <1>11, <3>3, <3>4, <3>5
  <2>5. QED
    BY <2>3, <2>4
<1>14. \E row \in rows : keys[1] = Measure(rows, row.value)
  <2>1. 1 \in 1 .. K /\ 1 \in 1 .. N
    BY <1>4, <1>10
  <2>2. ranked[1] \in S /\ keys[1] = best[ranked[1]]
    BY <1>5, <1>11, <2>1
  <2>3. QED
    BY <1>7, <2>2
<1>15. QED
  BY <1>1, <1>13, <1>14 DEF rows, answer, ranked

Rows(q) == UNION {RowsOf(q, r) : r \in Read(q)}

\* A step whose table is that of a verb that selects values.
LEMMA TableIs ==
  ASSUME QueriesInv, NEW i \in Settled, steps[i].table.kind \in {"tally", "stats", "extremes"}
  PROVE  LET q == steps[i].question
         IN /\ FilesOk /\ WellFormed(q) /\ q.verb = steps[i].table.kind
            /\ steps[i].table = Answer(q).table /\ steps[i].lines = Answer(q).hits
            /\ Selected(q).rows = Rows(q) /\ Rows(q) # {} /\ Selects(Rows(q))
<1> DEFINE q == steps[i].question
<1>1. /\ WellFormed(q) /\ FilesOk /\ ~Executed(q).error
      /\ steps[i].lines = Executed(q).lines /\ steps[i].table = Executed(q).table
  BY Settles
<1>2. q.verb = steps[i].table.kind /\ Executed(q).table # NoTable
  BY <1>1, TableOf
<1>3. q.verb \in SelectorVerbs
  BY <1>2 DEF SelectorVerbs, AggregateVerbs
<1>4. /\ Selected(q) = [error |-> FALSE, lines |-> Read(q), rows |-> Rows(q)]
      /\ Selected(q).rows # {}
      /\ Executed(q).table = Answer(q).table /\ Executed(q).lines = Answer(q).hits
  BY <1>1, <1>2, <1>3, SelectedTold DEF Rows
<1>5. Selects(Rows(q))
  <2>1. q.pattern.anchors \in Seq(Words)
    BY <1>1 DEF WellFormed
  <2>2. QED
    BY <1>1, <2>1, SelectionIsWords DEF Selects, Rows
<1>6. QED
  BY <1>1, <1>2, <1>4, <1>5

\* The same values are selected, whatever is made of them.
LEMMA SameRows == \A p, q : SameValues(p, q) => Rows(p) = Rows(q)
<1> SUFFICES ASSUME NEW p, NEW q, SameValues(p, q) PROVE Rows(p) = Rows(q)
  OBVIOUS
<1>1. /\ p.pattern = q.pattern /\ p.file = q.file /\ p.where = q.where
      /\ p.field = q.field /\ p.extract = q.extract
  BY DEF SameValues, SameLines
<1>2. Read(p) = Read(q)
  BY <1>1 DEF Read, Selecting
<1>3. \A r : RowsOf(p, r) = RowsOf(q, r)
  BY <1>1 DEF RowsOf
<1>4. QED
  BY <1>2, <1>3 DEF Rows

\* What stats says of some values: how many, and the largest.
LEMMA SummaryIs ==
  ASSUME NEW rows, Selects(rows), rows # {}
  PROVE  LET table == Summary(rows)
         IN /\ table.kind = "stats" /\ table.numeric = AllNumeric(rows)
            /\ table.count = Cardinality(rows)
            /\ table.distinct = Cardinality({row.value : row \in rows})
            /\ \E row \in rows : table.largest = Measure(rows, row.value)
            /\ \A row \in rows : Measure(rows, row.value) <= table.largest
<1> DEFINE f == [row \in rows |-> Measure(rows, row.value)]
           A == Ascending(f)
           N == Cardinality(rows)
<1>1. f \in [rows -> Int] /\ IsFiniteSet(rows)
  BY Measures DEF Selects
<1>2. Series(rows) = A
  BY DEF Series
<1>3. /\ Summary(rows).kind = "stats" /\ Summary(rows).numeric = AllNumeric(rows)
      /\ Summary(rows).count = Len(A)
      /\ Summary(rows).distinct = Cardinality({row.value : row \in rows})
      /\ Summary(rows).largest = A[Len(A)]
  BY <1>2 DEF Summary
<1>4. \A row \in rows : f[row] = Measure(rows, row.value)
  OBVIOUS
<1> HIDE DEF f
<1>5. /\ N \in Nat \ {0} /\ A \in Seq({f[x] : x \in rows}) /\ Len(A) = N
      /\ \A x \in rows : f[x] <= A[N]
  BY <1>1, AscendingIs
<1> HIDE DEF A, N
<1>6. A[N] \in {f[x] : x \in rows}
  BY <1>5
<1>7. QED
  BY <1>3, <1>4, <1>5, <1>6 DEF N

\* Both verbs measure the same rows.
LEMMA ExtremesAre == QueriesInv => ExtremesAreTheTail
<1> SUFFICES ASSUME QueriesInv, NEW i \in Settled, steps[i].table.kind = "extremes"
             PROVE  LET t == steps[i].table
                        rows == Selected(steps[i].question).rows
                        withheld == {row \in rows : row.ref \notin ToSet(steps[i].lines)}
                    IN /\ \A row \in withheld : Measure(rows, row.value) <= Last(t.keys)
                       /\ \A j \in Settled :
                            /\ steps[j].table.kind = "stats"
                            /\ SameValues(steps[i].question, steps[j].question)
                            => /\ steps[j].table.largest = t.keys[1]
                               /\ steps[j].table.numeric = t.numeric
  BY DEF ExtremesAreTheTail
<1> DEFINE q == steps[i].question
           t == steps[i].table
           rows == Rows(q)
           answer == Listed(Selected(q), LargestFirst(rows))
<1>1. /\ FilesOk /\ q.verb = "extremes"
      /\ t = Answer(q).table /\ steps[i].lines = Answer(q).hits
      /\ Selected(q).rows = rows /\ rows # {} /\ Selects(rows)
  BY TableIs
<1>2. Answer(q) = answer
  BY <1>1 DEF Answer
<1> HIDE DEF answer
<1>3. /\ answer.table.kind = "extremes" /\ answer.table.numeric = AllNumeric(rows)
      /\ \A row \in rows : /\ Measure(rows, row.value) <= answer.table.keys[1]
                           /\ row.ref \notin ToSet(answer.hits) =>
                                Measure(rows, row.value) <= Last(answer.table.keys)
      /\ \E row \in rows : answer.table.keys[1] = Measure(rows, row.value)
  BY <1>1, ListedIs DEF answer
<1>4. \A row \in rows : Measure(rows, row.value) \in Int
  BY <1>1, Measures DEF Selects
<1>5. ASSUME NEW j \in Settled, steps[j].table.kind = "stats",
             SameValues(q, steps[j].question)
      PROVE  steps[j].table.largest = t.keys[1] /\ steps[j].table.numeric = t.numeric
  <2> DEFINE p == steps[j].question
             u == steps[j].table
  <2>1. p.verb = "stats" /\ u = Answer(p).table /\ Selected(p).rows = rows
    BY <1>5, TableIs, SameRows
  <2>2. u = Summary(rows)
    <3> HIDE DEF u, p, rows
    <3>1. Answer(p) = Aggregate(Cardinality(Selected(p).lines), <<>>, Summary(rows))
      BY <2>1 DEF Answer
    <3>2. QED
      BY <2>1, <3>1 DEF Aggregate
  <2> HIDE DEF u, rows, q
  <2>3. /\ u.numeric = AllNumeric(rows)
        /\ \E row \in rows : u.largest = Measure(rows, row.value)
        /\ \A row \in rows : Measure(rows, row.value) <= u.largest
    BY <1>1, <2>2, SummaryIs
  <2>4. u.largest = answer.table.keys[1]
    BY <1>3, <1>4, <2>3
  <2>5. QED
    BY <1>1, <1>2, <1>3, <2>3, <2>4 DEF u
<1> HIDE DEF rows, t
<1>6. QED
  BY <1>1, <1>2, <1>3, <1>5 DEF t

(***************************************************************************)
(* A distribution.                                                         *)
(***************************************************************************)

\* A sum over the values of some rows, of how often each occurs, counts the rows.
LEMMA CountsAddUp ==
  ASSUME NEW rows, Selects(rows), NEW t, t.counts = CountsOf(rows)
  PROVE  FoldSet(LAMBDA v, sum : sum + t.counts[v], 0, DOMAIN t.counts) = Cardinality(rows)
<1> DEFINE values == {row.value : row \in rows}
           counts == t.counts
           x(s) == CHOOSE y \in s : TRUE
           body(c) == [s \in SUBSET values |->
                         IF s = {} THEN 0 ELSE c[s \ {x(s)}] + counts[x(s)]]
           having(s) == {row \in rows : row.value \in s}
           W == [s \in SUBSET values |-> Cardinality(having(s))]
           iter == CHOOSE c : c = body(c)
<1>1. /\ FoldSet(LAMBDA v, sum : sum + counts[v], 0, values) = iter[values]
      /\ DOMAIN counts = values
      /\ \A v \in values : counts[v] = Cardinality({row \in rows : row.value = v})
  <2>1. FoldSet(LAMBDA v, sum : sum + counts[v], 0, values) = iter[values]
    <3> HIDE DEF counts, values
    <3>1. QED
      BY Zenon DEF FoldSet, MapThenFoldSet
  <2>2. QED
    BY <2>1 DEF CountsOf
<1> HIDE DEF counts
<1>2. IsFiniteSet(rows)
  BY DEF Selects
<1>3. \A s \in SUBSET values : /\ IsFiniteSet(having(s)) /\ Cardinality(having(s)) \in Nat
  <2> TAKE s \in SUBSET values
  <2>1. having(s) \in SUBSET rows
    OBVIOUS
  <2> HIDE DEF having
  <2>2. QED
    BY <1>2, <2>1, FS_Subset, FS_CardinalityType
<1>4. \A s \in SUBSET values : s # {} => x(s) \in s /\ s \ {x(s)} \in SUBSET values
  OBVIOUS
<1> HIDE DEF x
<1>5. ASSUME NEW s \in SUBSET values, s # {}
      PROVE  W[s] = W[s \ {x(s)}] + counts[x(s)]
  <2> DEFINE v == x(s)
             A == having(s \ {v})
             B == {row \in rows : row.value = v}
  <2>1. v \in s /\ v \in values /\ s \ {v} \in SUBSET values
    BY <1>4, <1>5
  <2>2. having(s) = A \cup B /\ A \cap B = {}
    BY <2>1
  <2>3. IsFiniteSet(A) /\ Cardinality(A) \in Nat
    <3> HIDE DEF A, v, values
    <3>1. QED
      BY <1>3, <2>1 DEF A
  <2>4. IsFiniteSet(B) /\ Cardinality(B) \in Nat
    <3>1. B \in SUBSET rows
      OBVIOUS
    <3> HIDE DEF B
    <3>2. QED
      BY <1>2, <3>1, FS_Subset, FS_CardinalityType
  <2>5. W[s] = Cardinality(having(s)) /\ W[s \ {v}] = Cardinality(A)
    BY <2>1
  <2>6. counts[v] = Cardinality(B)
    BY <1>1, <2>1
  <2> HIDE DEF A, B, having, W, v
  <2>7. Cardinality(A \cup B) = Cardinality(A) + Cardinality(B) - Cardinality({})
    BY <2>2, <2>3, <2>4, FS_Union
  <2>8. QED
    BY <2>2, <2>3, <2>4, <2>5, <2>6, <2>7, FS_EmptySet DEF v
<1>6. W[{}] = 0
  <2>1. having({}) = {} /\ {} \in SUBSET values
    OBVIOUS
  <2> HIDE DEF having
  <2>2. QED
    BY <2>1, FS_EmptySet
<1>7. W[values] = Cardinality(rows)
  <2>1. having(values) = rows
    OBVIOUS
  <2> HIDE DEF having
  <2>2. QED
    BY <2>1
<1>8. W = body(W)
  <2>1. \A s \in SUBSET values : W[s] = IF s = {} THEN 0 ELSE W[s \ {x(s)}] + counts[x(s)]
    BY <1>5, <1>6
  <2>2. W = [s \in SUBSET values |-> W[s]]
    OBVIOUS
  <2> HIDE DEF W
  <2>3. QED
    BY <2>1, <2>2
<1>9. iter = body(iter)
  <2> HIDE DEF W, values
  <2>1. QED
    BY <1>8
<1> HIDE DEF iter, W, having
<1>10. \A s \in SUBSET values :
         iter[s] = IF s = {} THEN 0 ELSE iter[s \ {x(s)}] + counts[x(s)]
  BY <1>9
<1> HIDE DEF body
<1>11. IsFiniteSet(values)
  <2> DEFINE f == [row \in rows |-> row.value]
  <2>1. DOMAIN f = rows /\ f = [row \in rows |-> f[row]] /\ values = {f[row] : row \in rows}
    OBVIOUS
  <2> HIDE DEF f
  <2>2. QED
    BY <1>2, <2>1, FiniteImage
<1> HIDE DEF values
<1> DEFINE T == {n \in Nat : \A s \in SUBSET values : Cardinality(s) = n => iter[s] = W[s]}
<1>12. \A s \in SUBSET values : IsFiniteSet(s) /\ Cardinality(s) \in Nat
  BY <1>11, FS_Subset, FS_CardinalityType
<1>13. 0 \in T
  <2>1. \A s \in SUBSET values : Cardinality(s) = 0 => s = {}
    BY <1>12, FS_EmptySet
  <2>2. iter[{}] = 0
    BY <1>10
  <2>3. QED
    BY <1>6, <2>1, <2>2
<1>14. ASSUME NEW n \in Nat, n \in T PROVE n + 1 \in T
  <2> SUFFICES ASSUME NEW s \in SUBSET values, Cardinality(s) = n + 1 PROVE iter[s] = W[s]
    OBVIOUS
  <2>1. s # {}
    BY FS_EmptySet
  <2>2. x(s) \in s /\ s \ {x(s)} \in SUBSET values
    BY <1>4, <2>1
  <2>3. Cardinality(s \ {x(s)}) = n
    <3> DEFINE e == x(s)
    <3>1. IsFiniteSet(s) /\ e \in s
      BY <1>12, <2>2
    <3> HIDE DEF e
    <3>2. Cardinality(s \ {e}) = Cardinality(s) - 1
      BY <3>1, FS_RemoveElement
    <3>3. QED
      BY <3>2 DEF e
  <2>4. iter[s \ {x(s)}] = W[s \ {x(s)}]
    BY <1>14, <2>2, <2>3
  <2>5. QED
    BY <1>5, <1>10, <2>1, <2>4
<1>15. Nat \subseteq T
  <2> HIDE DEF T
  <2>1. QED
    BY <1>13, <1>14, SetInduction
<1>16. iter[values] = W[values]
  BY <1>12, <1>15
<1>17. QED
  BY <1>1, <1>7, <1>16 DEF counts

\* The last of a listing.
LEMMA Final ==
  ASSUME NEW X, NEW s \in Seq(X), NEW n \in Nat
  PROVE  /\ LastOf(n, s) \in Seq(X)
         /\ Len(LastOf(n, s)) = IF n < Len(s) THEN n ELSE Len(s)
         /\ \A i \in 1 .. Len(LastOf(n, s)) :
              \E j \in 1 .. Len(s) : LastOf(n, s)[i] = s[j]
<1> DEFINE N == Len(s)
           k == IF n < N THEN N - n + 1 ELSE 1
<1>1. N \in Nat /\ k \in Nat /\ 1 <= k /\ k <= N + 1
  OBVIOUS
<1>2. Max({1, N - n + 1}) = k
  <2> DEFINE m == N - n + 1
  <2>1. m \in Int /\ k = IF n < N THEN m ELSE 1
    BY <1>1
  <2>2. n < N => 1 <= m
    BY <1>1
  <2>3. ~(n < N) => m <= 1
    BY <1>1
  <2> HIDE DEF N, m, k
  <2>4. Max({1, m}) = IF 1 < m THEN m ELSE 1
    <3>1. m \in Int /\ 1 \in Int
      BY <2>1
    <3>2. QED
      BY ONLY <3>1, OfTwo
  <2>5. QED
    BY <2>1, <2>2, <2>3, <2>4 DEF m
<1>3. LastOf(n, s) = SubSeq(s, k, N)
  BY <1>2 DEF LastOf
<1> HIDE DEF k
<1>4. /\ SubSeq(s, k, N) \in Seq(X) /\ Len(SubSeq(s, k, N)) = N - k + 1
      /\ \A i \in 1 .. N - k + 1 : SubSeq(s, k, N)[i] = s[k + i - 1]
  BY <1>1
<1>5. \A i \in 1 .. N - k + 1 : k + i - 1 \in 1 .. N
  BY <1>1
<1>6. N - k + 1 = IF n < N THEN n ELSE N
  BY <1>1 DEF k
<1> HIDE DEF N
<1>7. QED
  BY <1>3, <1>4, <1>5, <1>6 DEF N

\* The rest of a listing, after its first n.
LEMMA Rest ==
  ASSUME NEW X, NEW s \in Seq(X), NEW n \in Nat
  PROVE  /\ SubSeq(s, n + 1, Len(s)) \in Seq(X)
         /\ Len(SubSeq(s, n + 1, Len(s))) = IF n < Len(s) THEN Len(s) - n ELSE 0
         /\ \A i \in 1 .. Len(SubSeq(s, n + 1, Len(s))) :
              SubSeq(s, n + 1, Len(s))[i] = s[n + i]
<1> DEFINE N == Len(s)
           m == n + 1
<1>1. N \in Nat /\ m \in Nat /\ 1 <= m
  OBVIOUS
<1>2. CASE n < N
  <2>1. /\ SubSeq(s, m, N) \in Seq(X) /\ Len(SubSeq(s, m, N)) = N - m + 1
        /\ \A i \in 1 .. N - m + 1 : SubSeq(s, m, N)[i] = s[m + i - 1]
    BY <1>1, <1>2
  <2>2. N - m + 1 = N - n /\ \A i \in 1 .. N - n : m + i - 1 = n + i
    BY <1>1
  <2> DEFINE rest == SubSeq(s, m, N)
  <2>3. /\ rest \in Seq(X) /\ Len(rest) = N - n
        /\ \A i \in 1 .. N - n : rest[i] = s[n + i]
    <3> HIDE DEF rest, N, m
    <3>1. QED
      BY <2>1, <2>2 DEF rest
  <2> HIDE DEF rest, N
  <2>4. QED
    BY <1>2, <2>3 DEF rest, N
<1>3. CASE ~(n < N)
  <2>1. SubSeq(s, m, N) = <<>>
    BY <1>1, <1>3
  <2>2. QED
    BY <1>1, <1>3, <2>1
<1>4. QED
  BY <1>2, <1>3

\* Two words have two places in the lexical order.
LEMMA LexRanks ==
  \A v, w \in Words : LexRank(v) \in Nat /\ (LexRank(v) = LexRank(w) => v = w)
<1>0. Lex \in Seq(Words)
  BY CorpusAssumption
<1>1. \A w \in Words : LexRank(w) \in Nat /\ Lex[LexRank(w)] = w
  <2> TAKE w \in Words
  <2>1. \E i \in DOMAIN Lex : Lex[i] = w
    BY DEF Words, ToSet
  <2>2. LexRank(w) \in DOMAIN Lex /\ Lex[LexRank(w)] = w
    BY <2>1 DEF LexRank
  <2>3. QED
    BY <1>0, <2>2
<1>2. QED
  BY <1>1

\* The values of some rows by how often they occur.
LEMMA RankedIs ==
  ASSUME NEW rows, Selects(rows)
  PROVE  LET counts == CountsOf(rows)
             values == {row.value : row \in rows}
             N == Cardinality(values)
             L == Ranked(counts)
         IN /\ DOMAIN counts = values /\ IsFiniteSet(values) /\ N \in Nat
            /\ L \in Seq(values) /\ Len(L) = N
            /\ \A v \in values : \E n \in 1 .. N : L[n] = v
            /\ \A i, j \in 1 .. N : i < j => L[i] # L[j] /\ counts[L[j]] <= counts[L[i]]
<1> DEFINE counts == CountsOf(rows)
           values == {row.value : row \in rows}
           N == Cardinality(values)
           L == Ranked(counts)
           before(w, v) == \/ counts[w] > counts[v]
                           \/ counts[w] = counts[v] /\ LexRank(w) <= LexRank(v)
           upto == [v \in values |-> {w \in values : before(w, v)}]
<1>1. IsFiniteSet(rows) /\ \A row \in rows : row.value \in Words
  BY DEF Selects
<1>2. DOMAIN counts = values /\ values \subseteq Words
  BY <1>1 DEF CountsOf
<1>3. IsFiniteSet(values)
  <2> DEFINE f == [row \in rows |-> row.value]
  <2>1. DOMAIN f = rows /\ f = [row \in rows |-> f[row]] /\ values = {f[row] : row \in rows}
    OBVIOUS
  <2> HIDE DEF f
  <2>2. QED
    BY <1>1, <2>1, FiniteImage
<1>4. \A v \in values : counts[v] \in Nat
  <2> TAKE v \in values
  <2>1. {row \in rows : row.value = v} \in SUBSET rows
    OBVIOUS
  <2>2. Cardinality({row \in rows : row.value = v}) \in Nat
    BY <1>1, <2>1, FS_Subset, FS_CardinalityType
  <2>3. QED
    BY <2>2 DEF CountsOf
<1>5. L = Listing(values, upto)
  BY <1>2 DEF Ranked
<1> HIDE DEF counts, values, L
<1>6. upto \in [values -> SUBSET values]
  OBVIOUS
<1>7. \A v, w \in values : LexRank(v) \in Nat /\ (LexRank(v) = LexRank(w) => v = w)
  BY <1>2, LexRanks
<1>8. \A v \in values : v \in upto[v]
  BY <1>4, <1>7
<1>9. \A v, w \in values : v # w => \/ upto[v] \subseteq upto[w] /\ w \notin upto[v]
                                    \/ upto[w] \subseteq upto[v] /\ v \notin upto[w]
  <2>1. \A v, w \in values :
          v # w => \/ before(v, w) /\ ~before(w, v)
                   \/ before(w, v) /\ ~before(v, w)
    BY <1>4, <1>7
  <2>2. \A u, v, w \in values : before(u, v) /\ before(v, w) => before(u, w)
    BY <1>4, <1>7
  <2> HIDE DEF before
  <2>3. ASSUME NEW v \in values, NEW w \in values, before(v, w), ~before(w, v)
        PROVE  upto[v] \subseteq upto[w] /\ w \notin upto[v]
    BY <2>2, <2>3
  <2>4. ASSUME NEW v \in values, NEW w \in values, v # w
        PROVE  \/ upto[v] \subseteq upto[w] /\ w \notin upto[v]
               \/ upto[w] \subseteq upto[v] /\ v \notin upto[w]
    <3>1. CASE before(v, w) /\ ~before(w, v)
      BY <2>3, <3>1
    <3>2. CASE before(w, v) /\ ~before(v, w)
      BY <2>3, <3>2
    <3>3. QED
      BY <2>1, <2>4, <3>1, <3>2
  <2>5. QED
    BY <2>4
<1>10. \A v, w \in values : v \in upto[w] => counts[w] <= counts[v]
  BY <1>4
<1> HIDE DEF upto
<1>11. /\ Listing(values, upto) \in Seq(values) /\ Len(Listing(values, upto)) = N
       /\ \A v \in values : \E n \in 1 .. N : Listing(values, upto)[n] = v
       /\ \A i, j \in 1 .. N :
            i < j => /\ Listing(values, upto)[i] \in upto[Listing(values, upto)[j]]
                     /\ Listing(values, upto)[j] \notin upto[Listing(values, upto)[i]]
  BY <1>3, <1>6, <1>8, <1>9, Listings
<1>12. N \in Nat
  BY <1>3, FS_CardinalityType
<1> HIDE DEF N
<1>13. \A n \in 1 .. N : L[n] \in values
  BY <1>5, <1>11
<1>14. \A i, j \in 1 .. N : i < j => L[i] # L[j] /\ counts[L[j]] <= counts[L[i]]
  BY <1>5, <1>8, <1>10, <1>11, <1>13
<1>15. QED
  BY <1>2, <1>3, <1>5, <1>11, <1>12, <1>14 DEF counts, values, L, N

\* What a distribution shows and what it leaves to a number.
LEMMA DistributionIs ==
  ASSUME NEW rows, Selects(rows)
  PROVE  LET t == Distribution(CountsOf(rows))
             values == {row.value : row \in rows}
         IN /\ t.counts = CountsOf(rows) /\ DOMAIN t.counts = values
            /\ ToSet(t.top) \cap ToSet(t.rare) = {}
            /\ Len(t.top) + Len(t.rare) + t.middle = Cardinality(values)
            /\ \A v \in ToSet(t.top), w \in values \ ToSet(t.top) : t.counts[v] >= t.counts[w]
<1> DEFINE counts == CountsOf(rows)
           values == {row.value : row \in rows}
           N == Cardinality(values)
           L == Ranked(counts)
           t == Distribution(counts)
           hidden == SubSeq(L, TallyTop + 1, Len(L))
           rare == LastOf(TallyRare, hidden)
           top == FirstOf(TallyTop, L)
<1>1. /\ DOMAIN counts = values /\ IsFiniteSet(values) /\ N \in Nat
      /\ L \in Seq(values) /\ Len(L) = N
      /\ \A v \in values : \E n \in 1 .. N : L[n] = v
      /\ \A i, j \in 1 .. N : i < j => L[i] # L[j] /\ counts[L[j]] <= counts[L[i]]
  BY RankedIs
<1>2. /\ t.counts = counts /\ t.top = top /\ t.rare = rare
      /\ t.middle = Len(hidden) - Len(rare)
  BY DEF Distribution
<1>3. TallyTop \in Nat /\ TallyRare \in Nat
  BY AggregateAssumption
<1> HIDE DEF counts, values, N, L, t
<1>4. /\ hidden \in Seq(values) /\ Len(hidden) = IF TallyTop < N THEN N - TallyTop ELSE 0
      /\ \A i \in 1 .. Len(hidden) : hidden[i] = L[TallyTop + i]
  <2>1. L \in Seq(values) /\ Len(L) = N /\ TallyTop \in Nat
    BY <1>1, <1>3
  <2>2. /\ hidden \in Seq(values)
        /\ Len(hidden) = IF TallyTop < Len(L) THEN Len(L) - TallyTop ELSE 0
        /\ \A i \in 1 .. Len(hidden) : hidden[i] = L[TallyTop + i]
    BY <2>1, Rest
  <2> HIDE DEF hidden
  <2>3. QED
    BY <2>1, <2>2
<1> HIDE DEF hidden
<1>5. /\ rare \in Seq(values)
      /\ Len(rare) = IF TallyRare < Len(hidden) THEN TallyRare ELSE Len(hidden)
      /\ \A i \in 1 .. Len(rare) : \E j \in 1 .. Len(hidden) : rare[i] = hidden[j]
  BY <1>3, <1>4, Final
<1>6. /\ top \in Seq(values) /\ Len(top) = IF TallyTop < N THEN TallyTop ELSE N
      /\ \A i \in 1 .. Len(top) : top[i] = L[i]
  BY <1>1, <1>3, First
<1> HIDE DEF rare, top
<1>7. \A v \in ToSet(top) : \E i \in 1 .. N : v = L[i] /\ i <= TallyTop
  <2>1. \A v \in ToSet(top) : \E i \in 1 .. Len(top) : v = top[i]
    BY <1>6 DEF ToSet
  <2>2. \A i \in 1 .. Len(top) : i \in 1 .. N /\ i <= TallyTop
    BY <1>1, <1>3, <1>6
  <2>3. QED
    BY <1>6, <2>1, <2>2
<1>8. \A v \in ToSet(rare) : \E i \in 1 .. N : v = L[i] /\ TallyTop < i
  <2>1. \A v \in ToSet(rare) : \E i \in 1 .. Len(rare) : v = rare[i]
    BY <1>5 DEF ToSet
  <2>2. \A j \in 1 .. Len(hidden) : TallyTop + j \in 1 .. N /\ TallyTop < TallyTop + j
    BY <1>1, <1>3, <1>4
  <2>3. \A v \in ToSet(rare) : \E j \in 1 .. Len(hidden) : v = L[TallyTop + j]
    BY <1>4, <1>5, <2>1
  <2>4. QED
    BY <2>2, <2>3
<1>9. ToSet(top) \cap ToSet(rare) = {}
  <2> SUFFICES ASSUME NEW v \in ToSet(top), v \in ToSet(rare) PROVE FALSE
    OBVIOUS
  <2>1. PICK i \in 1 .. N : v = L[i] /\ i <= TallyTop
    BY <1>7
  <2>2. PICK j \in 1 .. N : v = L[j] /\ TallyTop < j
    BY <1>8
  <2>3. i < j
    BY <1>1, <1>3, <2>1, <2>2
  <2>4. QED
    BY <1>1, <2>1, <2>2, <2>3
<1>10. Len(top) + Len(rare) + (Len(hidden) - Len(rare)) = N
  BY <1>1, <1>3, <1>4, <1>5, <1>6
<1>11. ASSUME NEW v \in ToSet(top), NEW w \in values \ ToSet(top) PROVE counts[v] >= counts[w]
  <2>1. PICK i \in 1 .. N : v = L[i] /\ i <= TallyTop
    BY <1>7
  <2>2. PICK j \in 1 .. N : w = L[j]
    BY <1>1
  <2>3. j \notin 1 .. Len(top)
    <3>1. \A k \in 1 .. Len(top) : top[k] \in ToSet(top)
      BY <1>6 DEF ToSet
    <3>2. QED
      BY <1>6, <1>11, <2>2, <3>1
  <2>4. i < j
    BY <1>1, <1>3, <1>6, <2>1, <2>2, <2>3
  <2>5. counts[w] <= counts[v]
    BY <1>1, <2>1, <2>2, <2>4
  <2>6. \A u \in values : counts[u] \in Int
    <3> TAKE u \in values
    <3>1. IsFiniteSet(rows) /\ {row \in rows : row.value = u} \in SUBSET rows
      BY DEF Selects
    <3>2. Cardinality({row \in rows : row.value = u}) \in Nat
      BY <3>1, FS_Subset, FS_CardinalityType
    <3>3. QED
      BY <3>2 DEF CountsOf, counts, values
  <2>7. v \in values
    BY <1>1, <2>1
  <2>8. QED
    BY <2>5, <2>6, <2>7
<1>12. QED
  BY <1>1, <1>2, <1>9, <1>10, <1>11 DEF counts, values, N, t

\* A tally is the distribution of the values that are selected.
LEMMA TallyIs == QueriesInv => TallyAddsUp
<1> SUFFICES ASSUME QueriesInv, NEW i \in Settled, steps[i].table.kind = "tally"
             PROVE  LET t == steps[i].table
                        values == DOMAIN t.counts
                    IN /\ ToSet(t.top) \cap ToSet(t.rare) = {}
                       /\ Len(t.top) + Len(t.rare) + t.middle = Cardinality(values)
                       /\ \A v \in ToSet(t.top), w \in values \ ToSet(t.top) :
                            t.counts[v] >= t.counts[w]
                       /\ \A j \in Settled :
                            /\ steps[j].table.kind = "stats"
                            /\ SameValues(steps[i].question, steps[j].question)
                            => /\ steps[j].table.count =
                                    FoldSet(LAMBDA v, sum : sum + t.counts[v], 0, values)
                               /\ steps[j].table.distinct = Cardinality(values)
  BY Zenon DEF TallyAddsUp
<1> DEFINE q == steps[i].question
           rows == Rows(q)
<1>1. /\ q.verb = "tally" /\ steps[i].table = Answer(q).table
      /\ Selected(q).rows = rows /\ rows # {} /\ Selects(rows)
  BY TableIs
<1>2. steps[i].table = Distribution(CountsOf(rows))
  <2> HIDE DEF rows, q
  <2>1. Answer(q) = Aggregate(Cardinality(Selected(q).lines), <<>>, Distribution(CountsOf(rows)))
    BY <1>1 DEF Answer
  <2>2. QED
    BY <1>1, <2>1 DEF Aggregate
<1> DEFINE values == {row.value : row \in rows}
<1>3. /\ steps[i].table.counts = CountsOf(rows) /\ DOMAIN steps[i].table.counts = values
      /\ ToSet(steps[i].table.top) \cap ToSet(steps[i].table.rare) = {}
      /\ Len(steps[i].table.top) + Len(steps[i].table.rare) + steps[i].table.middle
           = Cardinality(values)
      /\ \A v \in ToSet(steps[i].table.top), w \in values \ ToSet(steps[i].table.top) :
            steps[i].table.counts[v] >= steps[i].table.counts[w]
  <2> HIDE DEF rows
  <2>1. QED
    BY <1>1, <1>2, DistributionIs
<1>4. FoldSet(LAMBDA v, sum : sum + steps[i].table.counts[v], 0, DOMAIN steps[i].table.counts)
        = Cardinality(rows)
  <2> HIDE DEF rows
  <2>1. QED
    BY <1>1, <1>3, CountsAddUp, Zenon DEF FoldSet, MapThenFoldSet
<1>5. ASSUME NEW j \in Settled, steps[j].table.kind = "stats",
             SameValues(q, steps[j].question)
      PROVE  /\ steps[j].table.count = Cardinality(rows)
             /\ steps[j].table.distinct = Cardinality(values)
  <2> DEFINE p == steps[j].question
             u == steps[j].table
  <2>1. p.verb = "stats" /\ u = Answer(p).table /\ Selected(p).rows = rows
    BY <1>5, TableIs, SameRows
  <2>2. u = Summary(rows)
    <3> HIDE DEF u, p, rows
    <3>1. Answer(p) = Aggregate(Cardinality(Selected(p).lines), <<>>, Summary(rows))
      BY <2>1 DEF Answer
    <3>2. QED
      BY <2>1, <3>1 DEF Aggregate
  <2> HIDE DEF u, rows, q
  <2>3. QED
    BY <1>1, <2>2, SummaryIs DEF u
<1> HIDE DEF rows, values
<1>6. QED
  BY <1>3, <1>4, <1>5, Zenon

(***************************************************************************)
(* Sessions.                                                               *)
(***************************************************************************)

\* Sessions are cut where a gap passes a limit: they leave out no moment and have none in
\* common, and a gap within one is smaller than a gap between two.
LEMMA SessionsAre ==
  ASSUME NEW times \in Seq(Int), Len(times) >= 1, NEW limit \in Int,
         NEW breaks, breaks = {i \in 1 .. Len(times) - 1 : 2 * Gaps(times)[i] > limit}
  PROVE  LET sessions == Sessions(times, breaks)
             within == {Gaps(times)[k] : k \in UNION {s.from .. s.upto - 1 : s \in sessions}}
             between == {Gaps(times)[s.upto] : s \in {u \in sessions : u.upto < Len(times)}}
         IN /\ UNION {s.from .. s.upto : s \in sessions} = DOMAIN times
            /\ \A s, u \in sessions : s = u \/ s.upto < u.from \/ u.upto < s.from
            /\ \A g \in within, h \in between : g < h
<1> DEFINE M == Len(times)
           gaps == Gaps(times)
           starts == {1} \cup {i + 1 : i \in breaks}
           ends == breaks \cup {M}
           after(a) == {b \in ends : b >= a}
           next(a) == Min(after(a))
           sessions == Sessions(times, breaks)
<1>1. M \in Nat /\ M >= 1 /\ DOMAIN times = 1 .. M
  OBVIOUS
<1>2. breaks \subseteq 1 .. M - 1
  OBVIOUS
<1>3. \A i \in 1 .. M - 1 : gaps[i] \in Int
  <2> TAKE i \in 1 .. M - 1
  <2>1. i \in 1 .. M /\ i + 1 \in 1 .. M
    BY <1>1
  <2>2. gaps[i] = times[i + 1] - times[i]
    BY DEF Gaps
  <2>3. QED
    BY <1>1, <2>1, <2>2
<1>4. sessions = {[from |-> a, upto |-> next(a)] : a \in starts}
  BY DEF Sessions
<1>5. starts \subseteq 1 .. M /\ ends \subseteq 1 .. M
  BY <1>1, <1>2
<1> HIDE DEF M, gaps, sessions, starts, ends
<1>6. \A a \in 1 .. M : next(a) \in ends /\ a <= next(a) /\ \A b \in ends : b >= a => next(a) <= b
  <2> TAKE a \in 1 .. M
  <2>1. M \in after(a) /\ after(a) \subseteq Nat
    BY <1>1, <1>5 DEF ends
  <2>2. \E n \in after(a) : \A m \in after(a) : n <= m
    BY <2>1, LeastNat
  <2>3. next(a) \in after(a) /\ \A m \in after(a) : next(a) <= m
    BY <2>2 DEF Min
  <2>4. QED
    BY <2>3
<1> HIDE DEF next
<1>7. \A b \in ends : b # M => b \in breaks /\ b + 1 \in starts
  BY DEF starts, ends
<1>8. breaks \subseteq ends /\ \A a \in starts : a # 1 => \E i \in breaks : a = i + 1
  BY DEF starts, ends
<1>9. 1 \in starts
  BY DEF starts
<1>10. \A s \in sessions : \E a \in starts : s.from = a /\ s.upto = next(a)
  BY <1>4
<1>11. \A a \in starts : \E s \in sessions : s.from = a /\ s.upto = next(a)
  <2> TAKE a \in starts
  <2>1. [from |-> a, upto |-> next(a)] \in sessions
    BY <1>4
  <2>2. QED
    BY <2>1
<1>12. \A s, u \in sessions : s.from = u.from => s = u
  BY <1>4
<1>13. UNION {s.from .. s.upto : s \in sessions} = 1 .. M
  <2>1. ASSUME NEW s \in sessions, NEW k \in s.from .. s.upto PROVE k \in 1 .. M
    <3>1. PICK a \in starts : s.from = a /\ s.upto = next(a)
      BY <1>10
    <3>2. next(a) \in 1 .. M /\ a \in 1 .. M
      BY <1>5, <1>6
    <3>3. QED
      BY <1>1, <3>1, <3>2
  <2>2. ASSUME NEW k \in 1 .. M PROVE \E s \in sessions : k \in s.from .. s.upto
    <3> DEFINE T == {a \in starts : a <= k}
    <3>1. T \in SUBSET (0 .. M) /\ T # {} /\ M \in Nat
      <4>1. 1 \in T
        BY <1>1, <1>9
      <4>2. \A n \in 1 .. M : n \in 0 .. M
        BY <1>1
      <4>3. QED
        BY <1>1, <1>5, <4>1, <4>2
    <3> DEFINE a == Max(T)
    <3>2. a \in T /\ \A n \in T : n <= a
      <4> HIDE DEF T
      <4>1. QED
        BY <3>1, LargestUpto
    <3> HIDE DEF a
    <3>3. a \in starts /\ a \in 1 .. M /\ a <= k
      BY <1>5, <3>2
    <3>4. next(a) \in ends /\ next(a) \in 1 .. M /\ a <= next(a)
      BY <1>5, <1>6, <3>3
    <3>5. k <= next(a)
      <4> SUFFICES ASSUME next(a) < k PROVE FALSE
        BY <1>1, <3>4
      <4>1. next(a) # M
        BY <1>1, <3>4
      <4>2. next(a) + 1 \in starts
        BY <1>7, <3>4, <4>1
      <4>3. next(a) + 1 <= k
        BY <1>1, <3>4
      <4>4. next(a) + 1 <= a
        BY <3>2, <4>2, <4>3
      <4>5. QED
        BY <1>1, <3>3, <3>4, <4>4
    <3>6. PICK s \in sessions : s.from = a /\ s.upto = next(a)
      BY <1>11, <3>3
    <3>7. k \in s.from .. s.upto
      BY <1>1, <3>3, <3>4, <3>5, <3>6
    <3>8. QED
      BY <3>7
  <2>3. QED
    BY <2>1, <2>2
<1>14. ASSUME NEW s \in sessions, NEW u \in sessions, s # u
       PROVE  s.upto < u.from \/ u.upto < s.from
  <2>1. ASSUME NEW a \in starts, NEW b \in starts, a < b PROVE next(a) < b
    <3>1. a \in 1 .. M /\ b \in 1 .. M /\ b # 1
      BY <1>1, <1>5, <2>1
    <3>2. PICK i \in breaks : b = i + 1
      BY <1>8, <3>1
    <3>3. i \in ends /\ i \in Nat /\ i >= a
      <4>1. i \in ends /\ i \in 1 .. M - 1
        BY <1>2, <1>8, <3>2 DEF M
      <4>2. QED
        BY <1>1, <2>1, <3>1, <3>2, <4>1
    <3>4. next(a) <= i /\ next(a) \in 1 .. M
      BY <1>5, <1>6, <3>1, <3>3
    <3>5. QED
      BY <1>1, <3>2, <3>3, <3>4
  <2>2. PICK a \in starts : s.from = a /\ s.upto = next(a)
    BY <1>10
  <2>3. PICK b \in starts : u.from = b /\ u.upto = next(b)
    BY <1>10
  <2>4. a # b
    BY <1>12, <1>14, <2>2, <2>3
  <2>5. a < b \/ b < a
    BY <1>1, <1>5, <2>4
  <2>6. QED
    BY <2>1, <2>2, <2>3, <2>5
<1>15. ASSUME NEW k \in UNION {s.from .. s.upto - 1 : s \in sessions}
       PROVE  k \in 1 .. M - 1 /\ ~(2 * gaps[k] > limit)
  <2>1. PICK s \in sessions : k \in s.from .. s.upto - 1
    OBVIOUS
  <2>2. PICK a \in starts : s.from = a /\ s.upto = next(a)
    BY <1>10
  <2>3. a \in 1 .. M /\ next(a) \in 1 .. M
    BY <1>5, <1>6, <2>2
  <2>4. k \in 1 .. M - 1 /\ a <= k /\ k < next(a)
    BY <1>1, <2>1, <2>2, <2>3
  <2>5. k \notin breaks
    <3> SUFFICES ASSUME k \in breaks PROVE FALSE
      OBVIOUS
    <3>1. next(a) <= k
      BY <1>6, <1>8, <2>3, <2>4
    <3>2. QED
      BY <1>1, <2>3, <2>4, <3>1
  <2>6. QED
    BY <2>4, <2>5 DEF gaps, M
<1>16. ASSUME NEW s \in sessions, s.upto < M
       PROVE  s.upto \in 1 .. M - 1 /\ 2 * gaps[s.upto] > limit
  <2>1. PICK a \in starts : s.from = a /\ s.upto = next(a)
    BY <1>10
  <2>2. next(a) \in ends /\ next(a) \in 1 .. M
    BY <1>5, <1>6, <2>1
  <2>3. s.upto \in breaks
    BY <1>1, <1>7, <1>16, <2>1, <2>2
  <2>4. QED
    BY <1>2, <2>3 DEF gaps, M
<1>17. ASSUME NEW k \in UNION {s.from .. s.upto - 1 : s \in sessions},
              NEW s \in sessions, s.upto < M
       PROVE  gaps[k] < gaps[s.upto]
  <2>1. k \in 1 .. M - 1 /\ ~(2 * gaps[k] > limit)
    BY <1>15
  <2>2. s.upto \in 1 .. M - 1 /\ 2 * gaps[s.upto] > limit
    BY <1>16, <1>17
  <2>3. gaps[k] \in Int /\ gaps[s.upto] \in Int
    BY <1>3, <2>1, <2>2
  <2>4. QED
    BY <2>1, <2>2, <2>3
<1>18. QED
  BY <1>1, <1>13, <1>14, <1>17 DEF M, gaps, sessions

\* A sequence is one over any larger set too.
LEMMA WiderSeq ==
  ASSUME NEW V, NEW W, V \subseteq W, NEW s \in Seq(V)
  PROVE  s \in Seq(W)
<1>1. Len(s) \in Nat /\ s \in [1 .. Len(s) -> V]
  OBVIOUS
<1>2. s \in [1 .. Len(s) -> W]
  BY <1>1
<1>3. QED
  BY <1>1, <1>2

\* The moments of some lines, and the gaps between them.
LEMMA TimesAre ==
  ASSUME FilesOk, NEW lines, lines \subseteq Refs
  PROVE  LET times == Times(Dated(lines))
             sorted == Ascending(Gaps(times))
         IN /\ times \in Seq(Int) /\ Len(times) = Cardinality(Dated(lines))
            /\ Len(times) >= 2 =>
                 /\ sorted \in Seq(Int) /\ Len(sorted) = Len(times) - 1
                 /\ TwiceMedian(sorted) \in Int
                 /\ Len(times) % 2 = 0 => TwiceMedian(sorted) = TwiceUpperMedian(sorted)
<1> DEFINE S == Dated(lines)
           f == [r \in S |-> LineAt(r).stamp]
           times == Times(S)
           M == Len(times)
           gaps == Gaps(times)
           sorted == Ascending(gaps)
<1>1. IsFiniteSet(S) /\ Cardinality(S) \in Nat
  <2>1. S \subseteq Refs
    BY DEF Dated
  <2> HIDE DEF S
  <2>2. QED
    BY <2>1, LinesAreFinite
<1>2. \A r \in S : LineAt(r).stamp \in Int
  <2> TAKE r \in S
  <2>1. r \in Refs /\ LineAt(r).stamp \notin {NoStamp, OddStamp}
    BY DEF Dated
  <2>2. LineAt(r) \in LineSet
    <3>1. r[1] \in FileNames /\ r[2] \in DOMAIN files[r[1]]
      BY <2>1 DEF Refs
    <3>2. QED
      BY <3>1 DEF FilesOk, LineAt
  <2>3. QED
    BY <2>1, <2>2 DEF LineSet
<1>3. times = Ascending(f)
  BY DEF Times
<1> HIDE DEF S, times
<1>4. f \in [S -> Int]
  BY <1>2
<1>5. times \in Seq(Int) /\ M = Cardinality(S)
  <2>1. CASE S = {}
    <3>1. Cardinality(DOMAIN f) = 0 /\ Cardinality(S) = 0
      BY <2>1, FS_EmptySet
    <3>2. Ascending(f) = <<>>
      <4> HIDE DEF f
      <4>1. QED
        BY <3>1 DEF Ascending
    <3>3. QED
      BY <1>3, <3>1, <3>2
  <2>2. CASE S # {}
    <3> DEFINE V == {f[x] : x \in S}
    <3>1. V \subseteq Int
      BY <1>4
    <3> HIDE DEF f
    <3>2. Ascending(f) \in Seq(V) /\ Len(Ascending(f)) = Cardinality(S)
      BY <1>1, <1>4, <2>2, AscendingIs
    <3> HIDE DEF V
    <3>3. Ascending(f) \in Seq(Int)
      BY <3>1, <3>2, WiderSeq
    <3>4. QED
      BY <1>3, <3>2, <3>3
  <2>3. QED
    BY <2>1, <2>2
<1> HIDE DEF f
<1>6. ASSUME M >= 2
      PROVE  /\ sorted \in Seq(Int) /\ Len(sorted) = M - 1
             /\ TwiceMedian(sorted) \in Int
             /\ M % 2 = 0 => TwiceMedian(sorted) = TwiceUpperMedian(sorted)
  <2> DEFINE D == 1 .. M - 1
             n == M - 1
  <2>1. M \in Nat /\ IsFiniteSet(D) /\ Cardinality(D) = M - 1 /\ D # {}
    <3>1. M \in Nat
      BY <1>5
    <3>2. 1 \in Int /\ M - 1 \in Int /\ 1 \in D
      BY <1>6, <3>1
    <3> HIDE DEF M
    <3>3. IsFiniteSet(1 .. M - 1)
          /\ Cardinality(1 .. M - 1) = IF 1 > M - 1 THEN 0 ELSE M - 1 - 1 + 1
      BY <3>2, FS_Interval
    <3>4. ~(1 > M - 1) /\ M - 1 - 1 + 1 = M - 1
      BY <1>6, <3>1
    <3>5. QED
      BY <3>1, <3>2, <3>3, <3>4
  <2>2. gaps \in [D -> Int]
    <3>1. \A i \in D : times[i + 1] \in Int /\ times[i] \in Int
      BY <1>5
    <3>2. gaps = [i \in D |-> times[i + 1] - times[i]]
      BY DEF Gaps
    <3> HIDE DEF gaps
    <3>3. QED
      BY <3>1, <3>2
  <2> HIDE DEF gaps, M
  <2>3. sorted \in Seq(Int) /\ Len(sorted) = n
    <3> DEFINE V == {gaps[x] : x \in D}
    <3>1. V \subseteq Int
      BY <2>2
    <3> HIDE DEF D
    <3>2. sorted \in Seq(V) /\ Len(sorted) = Cardinality(D)
      BY <2>1, <2>2, AscendingIs
    <3> HIDE DEF V, sorted
    <3>3. sorted \in Seq(Int)
      BY <3>1, <3>2, WiderSeq
    <3>4. QED
      BY <2>1, <3>2, <3>3
  <2> HIDE DEF D, sorted
  <2>4. /\ (n + 1) \div 2 \in 1 .. n /\ n \div 2 + 1 \in 1 .. n
        /\ M % 2 = 0 => (n + 1) \div 2 = n \div 2 + 1
    BY <1>6, <2>1
  <2> HIDE DEF n
  <2>5. sorted[(n + 1) \div 2] \in Int /\ sorted[n \div 2 + 1] \in Int
    BY <2>3, <2>4
  <2>6. /\ TwiceMedian(sorted) = sorted[(n + 1) \div 2] + sorted[n \div 2 + 1]
        /\ TwiceUpperMedian(sorted) = 2 * sorted[n \div 2 + 1]
    BY <2>3 DEF TwiceMedian, TwiceUpperMedian
  <2>7. QED
    BY <2>3, <2>4, <2>5, <2>6 DEF n
<1> HIDE DEF sorted
<1>7. QED
  BY <1>5, <1>6 DEF S, times, M, sorted, gaps

\* A timeline is cut where the profile cuts.
LEMMA SessionsDoAgree == QueriesInv => SessionsAgree
<1> SUFFICES ASSUME QueriesInv, NEW i \in Settled, steps[i].table.kind = "timeline"
             PROVE  LET t == steps[i].table
                        q == steps[i].question
                        within == {Gaps(t.times)[k] :
                                     k \in UNION {s.from .. s.upto - 1 : s \in t.sessions}}
                        between == {Gaps(t.times)[s.upto] :
                                      s \in {u \in t.sessions : u.upto < Len(t.times)}}
                    IN /\ Len(t.times) >= 2 =>
                            /\ UNION {s.from .. s.upto : s \in t.sessions} = DOMAIN t.times
                            /\ \A s, u \in t.sessions :
                                 s = u \/ s.upto < u.from \/ u.upto < s.from
                            /\ \A g \in within, h \in between : g < h
                       /\ \A subject \in DOMAIN profile.bursts :
                            /\ Matching(q.pattern, q.file, q.where) = Mentions(subject)
                            /\ Len(t.times) = steps[i].total /\ Len(t.times) >= MinStamps
                            /\ Len(t.times) % 2 = 0
                            => profile.bursts[subject] = t.sessions
  BY DEF SessionsAgree
<1> DEFINE q == steps[i].question
           t == steps[i].table
           lines == Matching(q.pattern, q.file, q.where)
           times == Times(Dated(lines))
           sorted == Ascending(Gaps(times))
<1>1. /\ FilesOk /\ WellFormed(q) /\ ~Executed(q).error
      /\ steps[i].total = Executed(q).total /\ t = Executed(q).table
  BY Settles
<1>2. q.verb = "timeline" /\ t # NoTable
  <2> HIDE DEF q
  <2>1. QED
    BY <1>1, TableOf
<1>3. steps[i].total = Cardinality(lines)
  <2> HIDE DEF q
  <2>1. QED
    BY <1>1, <1>2, FetchedTotal
<1>4. t = Timing(times)
  <2>1. Executed(q) = AggregateStep(q, Timeline(q))
    BY <1>2 DEF Executed, FetchVerbs
  <2>2. t = Timeline(q).table
    BY <1>1, <2>1 DEF AggregateStep, Answered
  <2> HIDE DEF q, t
  <2>3. QED
    BY <1>2, <2>2 DEF Timeline, Refused, NothingSelected, Aggregate
<1>5. lines \subseteq Refs
  BY DEF Matching
<1>6. /\ t.times = times
      /\ Len(times) >= 2 => t.sessions = Sessions(times, Breaks(times, TwiceMedian(sorted)))
  BY <1>4 DEF Timing
<1> HIDE DEF lines, q, t
<1>7. /\ times \in Seq(Int) /\ Len(times) = Cardinality(Dated(lines))
      /\ Len(times) >= 2 =>
           /\ TwiceMedian(sorted) \in Int
           /\ Len(times) % 2 = 0 => TwiceMedian(sorted) = TwiceUpperMedian(sorted)
  BY <1>1, <1>5, TimesAre
<1> HIDE DEF sorted
<1>8. ASSUME Len(times) >= 2
      PROVE  LET sessions == t.sessions
                 within == {Gaps(times)[k] : k \in UNION {s.from .. s.upto - 1 : s \in sessions}}
                 between == {Gaps(times)[s.upto] : s \in {u \in sessions : u.upto < Len(times)}}
             IN /\ UNION {s.from .. s.upto : s \in sessions} = DOMAIN times
                /\ \A s, u \in sessions : s = u \/ s.upto < u.from \/ u.upto < s.from
                /\ \A g \in within, h \in between : g < h
  <2> DEFINE twice == TwiceMedian(sorted)
             limit == GapFactor * (IF twice = 0 THEN 2 ELSE twice)
             breaks == Breaks(times, twice)
  <2>1. limit \in Int
    BY <1>7, <1>8, AggregateAssumption
  <2>2. breaks = {k \in 1 .. Len(times) - 1 : 2 * Gaps(times)[k] > limit}
    BY DEF Breaks, Gaps
  <2> HIDE DEF limit, breaks
  <2>3. t.sessions = Sessions(times, breaks)
    BY <1>6, <1>8 DEF breaks
  <2>4. times \in Seq(Int) /\ Len(times) >= 1
    BY <1>7, <1>8
  <2> HIDE DEF times
  <2>5. QED
    BY <2>1, <2>2, <2>3, <2>4, SessionsAre
<1>9. ASSUME NEW subject \in DOMAIN profile.bursts,
             lines = Mentions(subject), Len(times) = steps[i].total, Len(times) >= MinStamps,
             Len(times) % 2 = 0
      PROVE  profile.bursts[subject] = t.sessions
  <2>1. profile.bursts[subject] = Bursts(subject)
    <3>1. steps # <<>>
      BY DEF Settled
    <3>2. QED
      BY <3>1 DEF QueriesInv
  <2>2. Len(times) >= 2
    BY <1>7, <1>9, ProfileAssumption
  <2>3. Dated(lines) = lines
    <3>1. Cardinality(Dated(lines)) = Cardinality(lines)
      BY <1>3, <1>7, <1>9
    <3>2. Dated(lines) \in SUBSET lines
      BY DEF Dated
    <3>3. IsFiniteSet(lines)
      BY <1>1, <1>5, LinesAreFinite
    <3>4. QED
      BY <3>1, <3>2, <3>3, FS_Subset
  <2> DEFINE stamped == {r \in Mentions(subject) : LineAt(r).stamp # NoStamp}
  <2>4. stamped = lines
    <3>1. \A r \in lines : LineAt(r).stamp # NoStamp
      BY <2>3 DEF Dated
    <3>2. QED
      BY <1>9, <3>1
  <2>5. Bursts(subject) =
          IF Cardinality(stamped) < MinStamps \/ Dated(stamped) # stamped THEN {}
          ELSE ProfileSessions(Times(stamped))
    BY DEF Bursts
  <2> HIDE DEF stamped
  <2>6. Cardinality(stamped) \in Nat /\ ~(Cardinality(stamped) < MinStamps)
    <3>1. Cardinality(lines) \in Nat /\ Cardinality(lines) >= MinStamps
      BY <1>1, <1>3, <1>5, <1>9, LinesAreFinite
    <3>2. QED
      BY <2>4, <3>1, ProfileAssumption
  <2>7. Bursts(subject) = ProfileSessions(times)
    BY <2>3, <2>4, <2>5, <2>6
  <2>8. ProfileSessions(times) = Sessions(times, Breaks(times, TwiceUpperMedian(sorted)))
    BY DEF ProfileSessions, sorted
  <2>9. QED
    BY <1>6, <1>7, <1>9, <2>1, <2>2, <2>7, <2>8
<1> HIDE DEF times
<1>10. QED
  BY <1>3, <1>6, <1>8, <1>9 DEF q, t, lines

(***************************************************************************)
(* Commands.                                                               *)
(***************************************************************************)

\* A reference is to a line of a file.
LEMMA RefIs ==
  ASSUME FilesOk, NEW r \in Refs
  PROVE  /\ r[1] \in FileNames /\ files[r[1]] \in Seq(LineSet) /\ r = <<r[1], r[2]>>
         /\ DOMAIN files[r[1]] = 1 .. Len(files[r[1]]) /\ Len(files[r[1]]) \in Nat
         /\ r[2] \in DOMAIN files[r[1]] /\ LineAt(r) = files[r[1]][r[2]]
         /\ LineAt(r) \in LineSet
<1>1. PICK name \in FileNames : r \in {name} \X DOMAIN files[name]
  BY DEF Refs
<1>2. files[name] \in Seq(LineSet) /\ r[1] = name /\ r[2] \in DOMAIN files[name]
      /\ r = <<r[1], r[2]>>
  BY <1>1 DEF FilesOk
<1>3. LineAt(r) = files[name][r[2]]
  BY <1>2 DEF LineAt
<1>4. QED
  BY <1>2, <1>3

\* Lines are listed in full, each once, in the order of the case.
LEMMA InOrderIs ==
  ASSUME FilesOk, NEW S \in SUBSET Refs
  PROVE  /\ InOrder(S) \in Seq(S) /\ Len(InOrder(S)) = Cardinality(S) /\ ToSet(InOrder(S)) = S
         /\ \A i, j \in DOMAIN InOrder(S) : i < j => Precedes(InOrder(S)[i], InOrder(S)[j])
<1> DEFINE upto == [r \in S |-> {s \in S : ~Precedes(r, s)}]
           L == Listing(S, upto)
           N == Cardinality(S)
<1>1. /\ \A r \in S : ~Precedes(r, r)
      /\ \A r, s \in S : r # s => Precedes(r, s) \/ Precedes(s, r)
      /\ \A r, s, t \in S : Precedes(r, s) /\ Precedes(s, t) => Precedes(r, t)
  BY PrecedesOrders
<1>2. /\ upto \in [S -> SUBSET S] /\ \A l \in S : l \in upto[l]
      /\ \A l, m \in S : m \in upto[l] <=> ~Precedes(l, m)
  BY <1>1
<1>3. InOrder(S) = L
  BY DEF InOrder
<1> HIDE DEF upto
<1>4. ASSUME NEW l \in S, NEW m \in S, l # m
      PROVE  \/ upto[l] \subseteq upto[m] /\ m \notin upto[l]
             \/ upto[m] \subseteq upto[l] /\ l \notin upto[m]
  <2>1. ASSUME NEW x \in S, NEW y \in S, Precedes(x, y)
        PROVE  upto[x] \subseteq upto[y] /\ y \notin upto[x]
    <3>1. \A z \in S : ~Precedes(x, z) => ~Precedes(y, z)
      BY <1>1, <2>1
    <3>2. upto[x] \subseteq S
      BY <1>2
    <3>3. QED
      BY <1>2, <2>1, <3>1, <3>2
  <2>2. QED
    BY <1>1, <1>4, <2>1
<1>5. IsFiniteSet(S) /\ N \in Nat
  BY LinesAreFinite
<1>6. /\ L \in Seq(S) /\ Len(L) = N
      /\ \A l \in S : \E n \in 1 .. N : L[n] = l
      /\ \A i, j \in 1 .. N : i < j => L[j] \notin upto[L[i]]
  BY <1>2, <1>4, <1>5, Listings
<1> HIDE DEF L, N
<1>7. DOMAIN L = 1 .. N /\ \A i \in 1 .. N : L[i] \in S
  BY <1>5, <1>6
<1>8. ToSet(L) = S
  BY <1>6, <1>7 DEF ToSet
<1>9. \A i, j \in 1 .. N : i < j => Precedes(L[i], L[j])
  BY <1>2, <1>6, <1>7
<1>10. QED
  BY <1>3, <1>6, <1>7, <1>8, <1>9 DEF N

\* What is found letter by letter is found in any case.
LEMMA ExactIsLoose ==
  ASSUME NEW line \in LineSet, NEW pattern, pattern.anchors \in Seq(Words),
         FindsLetters(pattern, line)
  PROVE  Finds(pattern, line)
<1> DEFINE text == Text(line)
<1>1. text \in Seq(Words)
  BY TextIsWords
<1> HIDE DEF text
<1>2. PICK at \in Places(pattern, text, AsWritten) : TRUE
  BY DEF FindsLetters, text
<1>3. /\ at \in [DOMAIN pattern.anchors -> DOMAIN text]
      /\ \A i \in DOMAIN at : AsWritten[text[at[i]]] = AsWritten[pattern.anchors[i]]
      /\ \A i \in DOMAIN at \ {1} :
           IF pattern.tight THEN at[i] = at[i - 1] + 1 ELSE at[i] > at[i - 1]
  BY <1>2 DEF Places
<1>4. \A i \in DOMAIN at : Fold[text[at[i]]] = Fold[pattern.anchors[i]]
  <2> TAKE i \in DOMAIN at
  <2>1. text[at[i]] \in Words /\ pattern.anchors[i] \in Words
    BY <1>1, <1>3
  <2>2. text[at[i]] = pattern.anchors[i]
    BY <1>3, <2>1 DEF AsWritten
  <2>3. QED
    BY <2>2
<1>5. at \in Places(pattern, text, Fold)
  BY <1>3, <1>4 DEF Places
<1>6. QED
  BY <1>5 DEF Finds, text

\* With keys that are spelt in one way, jq finds the value the code finds, and lets by the
\* lines it lets by.
LEMMA JqAgrees ==
  ASSUME FilesOk, NEW name \in FileNames, IsJson(name), NEW fields, OneKeyEach(name, fields),
         NEW r \in Refs, r[1] = name
  PROVE  /\ \A f \in fields : /\ JqValue(LineAt(r), f) = FieldValue(name, LineAt(r), f)
                              /\ JqValue(LineAt(r), f) # NoWord
         /\ fields # {} => LineAt(r).object /\ ~LineAt(r).comment
         /\ \A where : {p.field : p \in where} \subseteq fields =>
              (JqHolds(LineAt(r), where) <=> LineMatches(name, LineAt(r), where))
<1> DEFINE line == LineAt(r)
           spelt(f) == {i \in DOMAIN line.keys : line.keys[i] = f}
<1>1. line \in LineSet /\ r[2] \in DOMAIN files[name] /\ line = files[name][r[2]]
  BY RefIs
<1>2. \A f \in fields : /\ spelt(f) # {}
                        /\ spelt(f) = {i \in DOMAIN line.keys : Fold[line.keys[i]] = Fold[f]}
  BY <1>1 DEF OneKeyEach
<1> HIDE DEF line
<1>3. /\ line.keys \in Seq(Words) /\ line.words \in Seq(Words) /\ line.object \in BOOLEAN
      /\ line.comment \in BOOLEAN /\ ~(line.comment /\ line.object)
      /\ Len(line.keys) = IF line.object THEN Len(line.words) ELSE 0
  BY <1>1 DEF LineSet
<1>4. DOMAIN line.keys = 1 .. Len(line.keys) /\ Len(line.keys) \in Nat
  BY <1>3
<1>5. ASSUME NEW f \in fields
      PROVE  /\ line.object /\ Max(spelt(f)) \in spelt(f)
             /\ \A i \in spelt(f) : i <= Max(spelt(f))
             /\ JqValue(line, f) = line.words[Max(spelt(f))]
             /\ FieldValue(name, line, f) = line.words[Max(spelt(f))]
             /\ line.words[Max(spelt(f))] # NoWord
  <2>1. spelt(f) \in SUBSET (0 .. Len(line.keys)) /\ spelt(f) # {}
    BY <1>2, <1>4
  <2>2. JqValue(line, f) = line.words[Max(spelt(f))]
    BY <2>1 DEF JqValue
  <2>3. FieldValue(name, line, f) = line.words[Max(spelt(f))]
    BY <1>2, <2>1 DEF FieldValue, KeyValue
  <2>4. spelt(f) \subseteq DOMAIN line.keys
    OBVIOUS
  <2> HIDE DEF spelt
  <2>5. Max(spelt(f)) \in spelt(f) /\ \A i \in spelt(f) : i <= Max(spelt(f))
    BY <1>4, <2>1, LargestUpto
  <2>6. line.object /\ Max(spelt(f)) \in DOMAIN line.words
    BY <1>3, <1>4, <2>4, <2>5
  <2>7. \A i \in DOMAIN line.words : line.words[i] \in Words
    BY <1>3
  <2>8. line.words[Max(spelt(f))] # NoWord
    BY <2>6, <2>7, CorpusAssumption
  <2>9. QED
    BY <2>2, <2>3, <2>5, <2>6, <2>8
<1>6. ASSUME NEW where, {p.field : p \in where} \subseteq fields
      PROVE  JqHolds(line, where) <=> LineMatches(name, line, where)
  <2>1. ASSUME NEW p \in where
        PROVE  (\E i \in DOMAIN line.keys :
                  /\ Fold[line.keys[i]] = Fold[p.field] /\ Holds(p, line.words[i])
                  /\ \A j \in DOMAIN line.keys : line.keys[j] = line.keys[i] => j <= i)
               <=> (FieldValue(name, line, p.field) # NoWord
                      /\ Holds(p, FieldValue(name, line, p.field)))
    <3> DEFINE f == p.field
               m == Max(spelt(f))
               last(i) == /\ Fold[line.keys[i]] = Fold[f]
                          /\ \A j \in DOMAIN line.keys : line.keys[j] = line.keys[i] => j <= i
    <3>1. f \in fields
      BY <1>6
    <3>2. /\ m \in spelt(f) /\ FieldValue(name, line, f) = line.words[m]
          /\ line.words[m] # NoWord /\ \A i \in spelt(f) : i <= m
      BY <1>5, <3>1
    <3>3. \A i \in DOMAIN line.keys : i \in spelt(f) <=> Fold[line.keys[i]] = Fold[f]
      BY <1>2, <3>1
    <3>4. \A i \in DOMAIN line.keys : i \in spelt(f) <=> line.keys[i] = f
      OBVIOUS
    <3>5. spelt(f) \subseteq DOMAIN line.keys
      OBVIOUS
    <3> HIDE DEF m, spelt, f
    <3>6. m \in DOMAIN line.keys /\ line.keys[m] = f /\ last(m)
      BY <3>2, <3>3, <3>4, <3>5
    <3>7. \A i \in DOMAIN line.keys : last(i) => i = m
      <4> SUFFICES ASSUME NEW i \in DOMAIN line.keys, last(i) PROVE i = m
        OBVIOUS
      <4>1. i \in spelt(f) /\ line.keys[i] = f
        BY <3>3, <3>4
      <4>2. i <= m /\ m <= i
        BY <3>2, <3>6, <4>1
      <4>3. i \in Nat /\ m \in Nat
        BY <1>4, <3>6
      <4>4. QED
        BY <4>2, <4>3
    <3>8. (\E i \in DOMAIN line.keys : last(i) /\ Holds(p, line.words[i]))
            <=> Holds(p, line.words[m])
      BY <3>6, <3>7
    <3>9. QED
      BY <3>2, <3>8 DEF f
  <2>2. QED
    BY <2>1 DEF JqHolds, LineMatches
<1>7. ASSUME fields # {} PROVE line.object /\ ~line.comment
  BY <1>3, <1>5, <1>7
<1>8. QED
  BY <1>5, <1>6, <1>7 DEF line

\* The places in a #fields row of a name, the label not counted.
NamedAt(s, field, letters) ==
  {i \in 1 .. Len(LineAt(s).words) - 1 : letters[LineAt(s).words[i + 1]] = letters[field]}

\* The #fields rows above a line that have a name.
Naming(r, field, letters) ==
  {s \in Preceding(r) : /\ LineAt(s).comment /\ Head(LineAt(s).words) = FieldsLabel
                        /\ Tabbed(r[1])
                        /\ NamedAt(s, field, letters) # {}}

\* Where awk looks for it.
LEMMA AwkColumnIs ==
  ASSUME NEW r, NEW field, NEW letters
  PROVE  AwkColumn(r, field, letters) =
           IF Naming(r, field, letters) = {} THEN 0
           ELSE Max(NamedAt(CHOOSE s \in Naming(r, field, letters) :
                              \A t \in Naming(r, field, letters) : t[2] <= s[2],
                            field, letters))
<1> DEFINE column(s) == {i \in 1 .. Len(LineAt(s).words) - 1 :
                           letters[LineAt(s).words[i + 1]] = letters[field]}
           labelled == {s \in Preceding(r) : /\ LineAt(s).comment
                                             /\ Head(LineAt(s).words) = FieldsLabel
                                             /\ Tabbed(r[1])
                                             /\ column(s) # {}}
<1>1. AwkColumn(r, field, letters) =
        IF labelled = {} THEN 0
        ELSE Max(column(CHOOSE s \in labelled : \A t \in labelled : t[2] <= s[2]))
  BY DEF AwkColumn
<1>2. \A s : column(s) = NamedAt(s, field, letters)
  BY DEF NamedAt
<1>3. labelled = Naming(r, field, letters)
  BY <1>2 DEF Naming
<1> HIDE DEF column, labelled
<1>4. QED
  BY <1>1, <1>2, <1>3

\* A number added to some numbers is added to the largest.
LEMMA LargestMoves ==
  ASSUME NEW N \in Nat, NEW S \in SUBSET (2 .. N), S # {}, NEW T,
         T = {i \in 1 .. N - 1 : i + 1 \in S}
  PROVE  T # {} /\ Max(T) = Max(S) - 1 /\ Max(T) \in 1 .. N - 1
<1>1. S \in SUBSET (0 .. N)
  OBVIOUS
<1>2. Max(S) \in S /\ \A n \in S : n <= Max(S)
  BY <1>1, LargestUpto
<1>3. \A n \in S : n \in Nat /\ n - 1 \in T
  OBVIOUS
<1>4. T # {} /\ T \in SUBSET (0 .. N)
  <2>1. \E n \in S : n - 1 \in T
    BY <1>3
  <2>2. \A i \in 1 .. N - 1 : i \in 0 .. N
    OBVIOUS
  <2>3. QED
    BY <2>1, <2>2
<1>5. Max(T) \in T /\ \A n \in T : n <= Max(T)
  BY <1>4, LargestUpto
<1>6. Max(T) \in 1 .. N - 1 /\ Max(T) + 1 \in S
  BY <1>5
<1>7. Max(S) - 1 <= Max(T)
  BY <1>2, <1>3, <1>5
<1>8. Max(T) + 1 <= Max(S)
  BY <1>2, <1>6
<1>9. Max(S) \in Nat /\ Max(T) \in Nat
  <2>1. \A n \in S : n \in Nat
    OBVIOUS
  <2>2. \A n \in T : n \in Nat
    OBVIOUS
  <2>3. QED
    BY <1>2, <1>5, <2>1, <2>2
<1>10. QED
  BY <1>4, <1>6, <1>7, <1>8, <1>9

\* When one row names the columns and it is in the header, awk finds a column there on
\* every line below the header, as the code does.
LEMMA HeaderNames ==
  ASSUME FilesOk, NEW name \in FileNames, NEW field, Fold[field] \in DOMAIN FieldMap(name),
         Tabbed(name),
         \A m, n \in DOMAIN files[name] :
           /\ files[name][m].comment /\ Head(files[name][m].words) = FieldsLabel
           /\ files[name][n].comment /\ Head(files[name][n].words) = FieldsLabel
           => m = n,
         NEW k \in DOMAIN files[name], ~files[name][k].comment
  PROVE  /\ FieldMap(name)[Fold[field]] \in Nat \ {0}
         /\ \A n \in k .. Len(files[name]) :
              /\ AwkColumn(<<name, n>>, field, Fold) = FieldMap(name)[Fold[field]]
              /\ \A letters : AwkColumn(<<name, n>>, field, letters) =
                                AwkColumn(<<name, k>>, field, letters)
<1> DEFINE F == files[name]
           labels(n) == F[n].comment /\ Head(F[n].words) = FieldsLabel
           labelled == {n \in Header(name) : Head(F[n].words) = FieldsLabel}
           m == Min(labelled)
           names == F[m].words
           S == {i \in 2 .. Len(names) : Fold[names[i]] = Fold[field]}
           map == [w \in {Fold[names[i]] : i \in 2 .. Len(names)} |->
                     Max({i \in 2 .. Len(names) : Fold[names[i]] = w}) - 1]
<1>0. FieldMap(name) = IF labelled = {} THEN <<>> ELSE map
  BY Zenon DEF FieldMap
<1>1. labelled # {} /\ Fold[field] \in {Fold[names[i]] : i \in 2 .. Len(names)}
      /\ FieldMap(name)[Fold[field]] = Max(S) - 1
  <2>1. DOMAIN map = {Fold[names[i]] : i \in 2 .. Len(names)}
    OBVIOUS
  <2>2. DOMAIN <<>> = {}
    OBVIOUS
  <2>3. Fold[field] \in DOMAIN map => map[Fold[field]] = Max(S) - 1
    OBVIOUS
  <2> HIDE DEF map, labelled, names, S
  <2>4. labelled # {}
    BY <1>0, <2>2
  <2>5. QED
    BY <1>0, <2>1, <2>3, <2>4
<1>2. DOMAIN F = 1 .. Len(F) /\ Len(F) \in Nat /\ F \in Seq(LineSet)
  BY DEF FilesOk
<1>3. /\ m \in labelled /\ m \in DOMAIN F /\ \A i \in 1 .. m : F[i].comment
      /\ labels(m)
  <2>1. labelled \in SUBSET Nat
    BY <1>2 DEF Header
  <2>2. m \in labelled
    BY <1>1, <2>1, LeastNat DEF Min
  <2>3. m \in DOMAIN F /\ \A i \in 1 .. m : F[i].comment
    BY <2>2 DEF Header
  <2>4. Head(F[m].words) = FieldsLabel /\ m \in 1 .. m
    BY <1>2, <2>2, <2>3
  <2>5. QED
    BY <2>2, <2>3, <2>4
<1>4. m < k /\ m \in Nat /\ k \in Nat
  BY <1>2, <1>3
<1>5. names \in Seq(Words) /\ Len(names) \in Nat
  <2>1. F[m] \in LineSet
    <3> HIDE DEF F, m
    <3>1. QED
      BY <1>2, <1>3
  <2>2. QED
    BY <2>1 DEF LineSet
<1>6. \A n \in k .. Len(F) : \A s : s \in Preceding(<<name, n>>) =>
        s[1] = name /\ s[2] \in DOMAIN F /\ LineAt(s) = F[s[2]] /\ s = <<name, s[2]>>
  BY RefIs DEF Preceding
<1>7. \A n \in k .. Len(F) : <<name, m>> \in Preceding(<<name, n>>)
  <2>1. <<name, m>> \in Refs
    <3>1. m \in DOMAIN files[name]
      BY <1>3
    <3> HIDE DEF m
    <3>2. QED
      BY <3>1 DEF Refs
  <2>2. QED
    BY <1>2, <1>4, <2>1 DEF Preceding
<1>8. LineAt(<<name, m>>) = F[m]
  BY DEF LineAt
<1>9. ASSUME NEW n \in k .. Len(F), NEW letters
      PROVE  Naming(<<name, n>>, field, letters) =
               IF NamedAt(<<name, m>>, field, letters) = {} THEN {} ELSE {<<name, m>>}
  <2>1. \A s \in Naming(<<name, n>>, field, letters) : s = <<name, m>>
    <3> TAKE s \in Naming(<<name, n>>, field, letters)
    <3>1. s \in Preceding(<<name, n>>) /\ LineAt(s).comment /\ Head(LineAt(s).words) = FieldsLabel
      BY DEF Naming
    <3>2. s[2] \in DOMAIN F /\ labels(s[2]) /\ s = <<name, s[2]>>
      BY <1>6, <3>1
    <3>3. s[2] = m
      BY <1>3, <3>2
    <3>4. QED
      BY <3>2, <3>3
  <2>2. <<name, m>> \in Naming(<<name, n>>, field, letters)
          <=> NamedAt(<<name, m>>, field, letters) # {}
    BY <1>3, <1>7, <1>8 DEF Naming
  <2>3. QED
    BY <2>1, <2>2
<1>10. ASSUME NEW n \in k .. Len(F), NEW letters
       PROVE  AwkColumn(<<name, n>>, field, letters) =
                IF NamedAt(<<name, m>>, field, letters) = {} THEN 0
                ELSE Max(NamedAt(<<name, m>>, field, letters))
  <2> DEFINE T == Naming(<<name, n>>, field, letters)
             one == <<name, m>>
  <2>1. T = IF NamedAt(one, field, letters) = {} THEN {} ELSE {one}
    BY <1>9
  <2>2. AwkColumn(<<name, n>>, field, letters) =
          IF T = {} THEN 0
          ELSE Max(NamedAt(CHOOSE s \in T : \A t \in T : t[2] <= s[2], field, letters))
    BY AwkColumnIs
  <2>3. one[2] <= one[2]
    BY <1>4
  <2> HIDE DEF T, one
  <2>4. T # {} => (CHOOSE s \in T : \A t \in T : t[2] <= s[2]) = one
    BY <2>1, <2>3
  <2>5. QED
    BY <2>1, <2>2, <2>4 DEF one
<1>11. /\ NamedAt(<<name, m>>, field, Fold) # {}
       /\ Max(NamedAt(<<name, m>>, field, Fold)) = Max(S) - 1 /\ Max(S) - 1 \in Nat \ {0}
  <2> DEFINE T == NamedAt(<<name, m>>, field, Fold)
             N == Len(names)
  <2>1. S \in SUBSET (2 .. N) /\ S # {}
    BY <1>1
  <2>2. T = {i \in 1 .. N - 1 : Fold[names[i + 1]] = Fold[field]}
    BY <1>8 DEF NamedAt
  <2>3. \A i \in 1 .. N - 1 : i + 1 \in S <=> Fold[names[i + 1]] = Fold[field]
    <3>1. \A i \in 1 .. N - 1 : i + 1 \in 2 .. N
      <4>1. N \in Nat
        BY <1>5
      <4> HIDE DEF N
      <4>2. QED
        BY <4>1
    <3> HIDE DEF names
    <3>2. QED
      BY <3>1
  <2>4. T = {i \in 1 .. N - 1 : i + 1 \in S}
    BY <2>2, <2>3
  <2>5. N \in Nat
    BY <1>5
  <2> HIDE DEF T, S, N
  <2>6. T # {} /\ Max(T) = Max(S) - 1 /\ Max(T) \in 1 .. N - 1
    BY <2>1, <2>4, <2>5, LargestMoves
  <2>7. QED
    BY <2>5, <2>6 DEF T
<1> HIDE DEF S, m, F
<1>12. k \in k .. Len(F)
  BY <1>2, <1>4 DEF F
<1>13. QED
  BY <1>1, <1>10, <1>11, <1>12 DEF F

\* With columns that are named once, awk finds the value the code finds in a row, and lets
\* by the rows it lets by.
LEMMA AwkAgrees ==
  ASSUME FilesOk, NEW q, q.file \in FileNames, ~IsJson(q.file), NEW fields,
         OneColumnEach(q, fields), {p.field : p \in q.where} \subseteq fields,
         q.field # NoSelector => q.field \in fields,
         NEW r \in Refs, r[1] = q.file, ~LineAt(r).comment
  PROVE  /\ AwkHolds(r, q.where) <=> LineMatches(q.file, LineAt(r), q.where)
         /\ q.field # NoSelector =>
              \A letters \in {AsWritten, Fold} :
                /\ AwkValue(q, r, letters) = FieldValue(q.file, LineAt(r), q.field)
                /\ AwkValue(q, r, letters) # NoWord
<1> DEFINE name == q.file
           F == files[name]
           line == LineAt(r)
           end == Len(F)
<1>1. /\ r = <<name, r[2]>> /\ r[2] \in 1 .. end /\ end \in Nat /\ line = F[r[2]]
      /\ DOMAIN F = 1 .. end /\ line \in LineSet
  BY RefIs
<1>2. /\ Tabbed(name)
      /\ \A m, n \in DOMAIN F :
           /\ F[m].comment /\ Head(F[m].words) = FieldsLabel
           /\ F[n].comment /\ Head(F[n].words) = FieldsLabel
           => m = n
      /\ \A f \in fields : FieldValue(name, line, f) # NoWord
      /\ \A p \in q.where : p.field \notin DOMAIN Numbered
      /\ q.field # NoSelector =>
           IF q.field \in DOMAIN Numbered THEN AwkColumn(<<name, end>>, q.field, Fold) = 0
           ELSE AwkColumn(<<name, end>>, q.field, AsWritten) =
                  AwkColumn(<<name, end>>, q.field, Fold)
  <2>1. r[2] \in DOMAIN F /\ ~F[r[2]].comment
    BY <1>1
  <2>2. QED
    BY <1>1, <2>1 DEF OneColumnEach
<1>3. ASSUME NEW field, Fold[field] \in DOMAIN FieldMap(name)
      PROVE  /\ FieldMap(name)[Fold[field]] \in Nat \ {0}
             /\ \A n \in {r[2], end} : \A letters :
                  /\ AwkColumn(<<name, n>>, field, Fold) = FieldMap(name)[Fold[field]]
                  /\ AwkColumn(<<name, n>>, field, letters) = AwkColumn(r, field, letters)
  <2>1. r[2] \in DOMAIN F /\ ~F[r[2]].comment
    BY <1>1
  <2>2. /\ FieldMap(name)[Fold[field]] \in Nat \ {0}
        /\ \A n \in r[2] .. end :
             /\ AwkColumn(<<name, n>>, field, Fold) = FieldMap(name)[Fold[field]]
             /\ \A letters : AwkColumn(<<name, n>>, field, letters) =
                               AwkColumn(<<name, r[2]>>, field, letters)
    <3> DEFINE k == r[2]
    <3>1. k \in DOMAIN F /\ ~F[k].comment
      BY <2>1
    <3> HIDE DEF k
    <3>2. /\ FieldMap(name)[Fold[field]] \in Nat \ {0}
          /\ \A n \in k .. Len(F) :
               /\ AwkColumn(<<name, n>>, field, Fold) = FieldMap(name)[Fold[field]]
               /\ \A letters : AwkColumn(<<name, n>>, field, letters) =
                                 AwkColumn(<<name, k>>, field, letters)
      BY <1>2, <1>3, <3>1, HeaderNames
    <3>3. QED
      BY <3>2 DEF k
  <2>3. \A n \in {r[2], end} : n \in r[2] .. end
    BY <1>1
  <2>4. QED
    BY <1>1, <2>2, <2>3
<1>4. ASSUME NEW f, FieldValue(name, line, f) # NoWord
      PROVE  /\ Column(name, f) \in DOMAIN Cells(line) /\ Column(name, f) # 0
             /\ FieldValue(name, line, f) = Cells(line)[Column(name, f)]
             /\ Fold[f] \in DOMAIN FieldMap(name) \/ f \in DOMAIN Numbered
  <2>1. FieldValue(name, line, f) = CellValue(line, Column(name, f))
    BY DEF FieldValue
  <2>2. Column(name, f) \in DOMAIN Cells(line)
        /\ CellValue(line, Column(name, f)) = Cells(line)[Column(name, f)]
    BY <1>4, <2>1 DEF CellValue
  <2>3. DOMAIN Cells(line) \subseteq Nat \ {0}
    <3>1. line.words \in Seq(Words)
      BY <1>1 DEF LineSet
    <3>2. DOMAIN line.words \subseteq Nat \ {0}
      BY <3>1
    <3>3. QED
      BY <3>2 DEF Cells
  <2>4. Column(name, f) # 0
    BY <2>2, <2>3
  <2>5. Fold[f] \in DOMAIN FieldMap(name) \/ f \in DOMAIN Numbered
    BY <2>4, Zenon DEF Column
  <2>6. QED
    BY <2>1, <2>2, <2>4, <2>5
<1> HIDE DEF line, F, end
<1>5. ASSUME NEW f, FieldValue(name, line, f) # NoWord
      PROVE  AwkCell(r, Column(name, f)) = FieldValue(name, line, f)
  BY <1>2, <1>4, <1>5 DEF AwkCell, line
<1>6. ASSUME NEW p \in q.where
      PROVE  LET cell == AwkCell(r, AwkColumn(r, p.field, Fold))
             IN cell = FieldValue(name, line, p.field) /\ cell # NoWord
  <2>1. p.field \in fields
    OBVIOUS
  <2>2. FieldValue(name, line, p.field) # NoWord /\ Fold[p.field] \in DOMAIN FieldMap(name)
    BY <1>2, <1>4, <2>1
  <2>3. Column(name, p.field) = FieldMap(name)[Fold[p.field]]
    BY <2>2 DEF Column
  <2>4. AwkColumn(r, p.field, Fold) = Column(name, p.field)
    BY <1>1, <1>3, <2>2, <2>3
  <2>5. QED
    BY <1>5, <2>2, <2>4
<1>7. AwkHolds(r, q.where) <=> LineMatches(name, line, q.where)
  <2>1. AwkHolds(r, q.where) <=> \A p \in q.where : Holds(p, FieldValue(name, line, p.field))
    BY <1>6 DEF AwkHolds, line
  <2>2. QED
    BY <1>6, <2>1 DEF LineMatches
<1>8. ASSUME q.field # NoSelector, NEW letters \in {AsWritten, Fold}
      PROVE  /\ AwkValue(q, r, letters) = FieldValue(name, line, q.field)
             /\ AwkValue(q, r, letters) # NoWord
  <2>1. FieldValue(name, line, q.field) # NoWord
    BY <1>2, <1>8
  <2>2. CASE q.field \in DOMAIN Numbered
    <3>1. Fold[q.field] \notin DOMAIN FieldMap(name)
      <4> SUFFICES ASSUME Fold[q.field] \in DOMAIN FieldMap(name) PROVE FALSE
        OBVIOUS
      <4>1. AwkColumn(<<name, end>>, q.field, Fold) = FieldMap(name)[Fold[q.field]]
            /\ FieldMap(name)[Fold[q.field]] \in Nat \ {0}
        BY <1>3
      <4>2. QED
        BY <1>2, <1>8, <2>2, <4>1
    <3>2. Column(name, q.field) = Numbered[q.field]
      BY <2>2, <3>1 DEF Column
    <3>3. AwkValue(q, r, letters) = AwkCell(r, Numbered[q.field])
      BY <2>2 DEF AwkValue
    <3>4. QED
      BY <1>5, <2>1, <3>2, <3>3
  <2>3. CASE q.field \notin DOMAIN Numbered
    <3>1. Fold[q.field] \in DOMAIN FieldMap(name)
      BY <1>4, <2>1, <2>3
    <3>2. Column(name, q.field) = FieldMap(name)[Fold[q.field]]
      BY <3>1 DEF Column
    <3>3. AwkColumn(<<name, end>>, q.field, letters) = AwkColumn(<<name, end>>, q.field, Fold)
      BY <1>2, <1>8, <2>3
    <3>4. AwkColumn(r, q.field, letters) = Column(name, q.field)
      <4>1. AwkColumn(<<name, end>>, q.field, letters) = AwkColumn(r, q.field, letters)
        BY <1>3, <3>1
      <4>2. AwkColumn(<<name, end>>, q.field, Fold) = FieldMap(name)[Fold[q.field]]
        BY <1>3, <3>1
      <4>3. QED
        BY <3>2, <3>3, <4>1, <4>2
    <3>5. AwkValue(q, r, letters) = AwkCell(r, Column(name, q.field))
      BY <2>3, <3>4 DEF AwkValue
    <3>6. QED
      BY <1>5, <2>1, <3>5
  <2>4. QED
    BY <2>2, <2>3
<1>9. QED
  BY <1>7, <1>8 DEF line

\* What makes a question that has to do with fields, or entities, reproducible.
Plain(q) ==
  /\ \A r \in Matching(q.pattern, q.file, q.where) :
       /\ FindsLetters(q.pattern, LineAt(r))
       /\ SmallEntities(q.extract, LineAt(r))
       /\ LineAt(r).comment => q.field # NoSelector
       /\ q.field # NoSelector /\ IsJson(q.file) =>
            FieldValue(q.file, LineAt(r), q.field) \notin JqEmpty
  /\ FieldsOf(q) # {} => IF IsJson(q.file) THEN OneKeyEach(q.file, FieldsOf(q))
                         ELSE OneColumnEach(q, FieldsOf(q))

\* A question with a predicate or a field is about one file.
LEMMA OneFile ==
  ASSUME NEW q, WellFormed(q), q.verb \notin {"context", "read_lines"},
         q.where # {} \/ q.field # NoSelector
  PROVE  q.file \in FileNames /\ Targets(q.file) = {q.file}
<1>1. q.file \in FileNames
  BY DEF WellFormed
<1>2. q.file # AllFiles
  BY <1>1, CorpusAssumption
<1>3. QED
  BY <1>1, <1>2 DEF Targets

\* grep finds what the code finds.
LEMMA GrepIs ==
  ASSUME FilesOk, NEW q, WellFormed(q), Plain(q)
  PROVE  /\ Grep(q) \subseteq GrepI(q)
         /\ Matching(q.pattern, q.file, q.where) =
              {r \in Grep(q) : q.where = {} \/ LineMatches(r[1], LineAt(r), q.where)}
<1>1. q.pattern.anchors \in Seq(Words)
  BY DEF WellFormed
<1>2. \A r \in Refs : FindsLetters(q.pattern, LineAt(r)) => Finds(q.pattern, LineAt(r))
  BY <1>1, RefIs, ExactIsLoose
<1>3. Grep(q) \subseteq GrepI(q)
  BY <1>2 DEF Grep, GrepI
<1> DEFINE lets(r) == q.where = {} \/ LineMatches(r[1], LineAt(r), q.where)
           found == Matching(q.pattern, q.file, q.where)
<1>4. /\ \A r : r \in found <=> /\ r \in Refs /\ r[1] \in Targets(q.file)
                                /\ Finds(q.pattern, LineAt(r)) /\ lets(r)
      /\ \A r : r \in Grep(q) <=> /\ r \in Refs /\ r[1] \in Targets(q.file)
                                  /\ FindsLetters(q.pattern, LineAt(r))
  BY DEF Matching, Grep
<1>5. \A r \in found : FindsLetters(q.pattern, LineAt(r))
  BY DEF Plain
<1> HIDE DEF lets, found
<1>6. found = {r \in Grep(q) : lets(r)}
  BY <1>2, <1>4, <1>5
<1>7. QED
  BY <1>3, <1>6 DEF lets, found

\* The lines a filter lets by, comments aside, are those of the answer.
LEMMA FilteredIs ==
  ASSUME FilesOk, NEW q, WellFormed(q), q.verb \notin {"context", "read_lines"}, Plain(q),
         q.where # {} \/ q.field # NoSelector
  PROVE  LET found == Matching(q.pattern, q.file, q.where)
         IN /\ IsJson(q.file) =>
                 /\ Filtered(q) = found /\ JqReads(Filtered(q)) = Filtered(q)
                 /\ JqReads(Grep(q)) = Grep(q)
                 /\ \A r \in Refs : r[1] = q.file => LineAt(r).object /\ ~LineAt(r).comment
            /\ ~IsJson(q.file) => Filtered(q) = {r \in found : ~LineAt(r).comment}
<1> DEFINE found == Matching(q.pattern, q.file, q.where)
<1>1. q.file \in FileNames /\ Targets(q.file) = {q.file}
  BY OneFile
<1>2. {p.field : p \in q.where} \subseteq FieldsOf(q) /\ FieldsOf(q) # {}
      /\ (q.field # NoSelector => q.field \in FieldsOf(q))
  BY DEF FieldsOf
<1>3. /\ Grep(q) \subseteq Refs /\ \A r \in Grep(q) : r[1] = q.file
      /\ found = {r \in Grep(q) : q.where = {} \/ LineMatches(r[1], LineAt(r), q.where)}
  BY <1>1, GrepIs DEF Grep
<1>4. \A r : q.where = {} => LineMatches(q.file, LineAt(r), q.where)
  BY DEF LineMatches
<1>5. found = {r \in Grep(q) : LineMatches(q.file, LineAt(r), q.where)}
  BY <1>3, <1>4
<1>6. ASSUME IsJson(q.file)
      PROVE  /\ Filtered(q) = found /\ JqReads(Filtered(q)) = Filtered(q)
             /\ JqReads(Grep(q)) = Grep(q)
             /\ \A r \in Refs : r[1] = q.file => LineAt(r).object /\ ~LineAt(r).comment
  <2>1. OneKeyEach(q.file, FieldsOf(q))
    BY <1>2, <1>6 DEF Plain
  <2>2. \A r \in Refs : r[1] = q.file =>
          /\ LineAt(r).object /\ ~LineAt(r).comment
          /\ JqHolds(LineAt(r), q.where) <=> LineMatches(q.file, LineAt(r), q.where)
    BY <1>1, <1>2, <1>6, <2>1, JqAgrees
  <2>3. \A S \in SUBSET Grep(q) : JqReads(S) = S
    BY <1>3, <2>2 DEF JqReads
  <2>4. JqReads(Grep(q)) = Grep(q)
    BY <2>3
  <2>5. Filtered(q) = {r \in Grep(q) : JqHolds(LineAt(r), q.where)}
    BY <1>6, <2>4 DEF Filtered
  <2>6. Filtered(q) = found
    BY <1>3, <1>5, <2>2, <2>5
  <2>7. QED
    BY <1>3, <2>2, <2>3, <2>4, <2>6
<1>7. ASSUME ~IsJson(q.file) PROVE Filtered(q) = {r \in found : ~LineAt(r).comment}
  <2>1. OneColumnEach(q, FieldsOf(q))
    BY <1>2, <1>7 DEF Plain
  <2>2. \A r \in Refs : r[1] = q.file /\ ~LineAt(r).comment =>
          (AwkHolds(r, q.where) <=> LineMatches(q.file, LineAt(r), q.where))
    BY <1>1, <1>2, <1>7, <2>1, AwkAgrees
  <2>3. QED
    BY <1>3, <1>5, <1>7, <2>2 DEF Filtered, AwkRows
<1>8. QED
  BY <1>6, <1>7

\* A field that is read in full: one value for each line, and the one that the command
\* finds there.
LEMMA FieldRowsAre ==
  ASSUME FilesOk, NEW q, WellFormed(q), q.verb \in SelectorVerbs, Plain(q),
         q.field # NoSelector
  PROVE  LET value(r) == FieldValue(q.file, LineAt(r), q.field)
         IN /\ Rows(q) = {Row(r, 0, value(r)) : r \in Read(q)}
            /\ \A r \in Read(q) : value(r) # NoWord
            /\ IsJson(q.file) => \A r \in Read(q) : JqValue(LineAt(r), q.field) = value(r)
            /\ ~IsJson(q.file) =>
                 \A r \in Read(q), letters \in {AsWritten, Fold} :
                   AwkValue(q, r, letters) = value(r)
<1> DEFINE value(r) == FieldValue(q.file, LineAt(r), q.field)
<1>0. q.verb \notin {"context", "read_lines"} /\ q.extract = NoSelector
  BY DEF SelectorVerbs, AggregateVerbs, WellFormed
<1>1. q.file \in FileNames /\ Targets(q.file) = {q.file}
  BY <1>0, OneFile
<1>2. {p.field : p \in q.where} \subseteq FieldsOf(q) /\ q.field \in FieldsOf(q)
  BY DEF FieldsOf
<1>3. \A r \in Read(q) : r \in Refs /\ r[1] = q.file /\ ~LineAt(r).comment
  BY <1>1 DEF Read, Matching, Selecting
<1>4. ASSUME IsJson(q.file), NEW r \in Read(q)
      PROVE  JqValue(LineAt(r), q.field) = value(r) /\ value(r) # NoWord
  <2>1. OneKeyEach(q.file, FieldsOf(q))
    BY <1>2, <1>4 DEF Plain
  <2>2. /\ JqValue(LineAt(r), q.field) = FieldValue(q.file, LineAt(r), q.field)
        /\ JqValue(LineAt(r), q.field) # NoWord
    BY <1>1, <1>2, <1>3, <1>4, <2>1, JqAgrees
  <2>3. QED
    BY <2>2
<1>5. ASSUME ~IsJson(q.file), NEW r \in Read(q)
      PROVE  /\ \A letters \in {AsWritten, Fold} : AwkValue(q, r, letters) = value(r)
             /\ value(r) # NoWord
  <2>1. OneColumnEach(q, FieldsOf(q))
    BY <1>2, <1>5 DEF Plain
  <2>2. \A letters \in {AsWritten, Fold} :
          /\ AwkValue(q, r, letters) = FieldValue(q.file, LineAt(r), q.field)
          /\ AwkValue(q, r, letters) # NoWord
    BY <1>1, <1>2, <1>3, <1>5, <2>1, AwkAgrees
  <2>3. QED
    BY <2>2
<1>6. \A r \in Read(q) : RowsOf(q, r) = {Row(r, 0, value(r))}
  <2> TAKE r \in Read(q)
  <2>1. value(r) # NoWord
    BY <1>4, <1>5
  <2>2. RowsOf(q, r) = FieldRows(q.field, r)
    BY <1>0 DEF RowsOf
  <2>3. FieldRows(q.field, r) = IF value(r) = NoWord THEN {} ELSE {Row(r, 0, value(r))}
    BY <1>3 DEF FieldRows
  <2>4. QED
    BY <2>1, <2>2, <2>3
<1> HIDE DEF value
<1>7. Rows(q) = {Row(r, 0, value(r)) : r \in Read(q)}
  BY <1>6 DEF Rows
<1>8. QED
  BY <1>4, <1>5, <1>7 DEF value

\* In lower case, what the printed expression cuts out of a line are its entities.
LEMMA EntitiesAre ==
  ASSUME FilesOk, NEW kind \in DOMAIN Entities, NEW r \in Refs, SmallEntities(kind, LineAt(r))
  PROVE  PrintedEntities(kind, r) = EntityRows(kind, r)
<1> DEFINE text == Text(LineAt(r))
           I == DOMAIN text
           pieces(i) == Pieces[kind][text[i]]
           rows(i) == {Row(r, i + (k - 1) * Len(text), pieces(i)[k]) : k \in DOMAIN pieces(i)}
<1>1. text \in Seq(Words)
  BY RefIs, TextIsWords
<1>2. ASSUME NEW i \in I
      PROVE  rows(i) = IF text[i] \in Entities[kind] THEN {Row(r, i, text[i])} ELSE {}
  <2>1. text[i] \in Words /\ i \in Int /\ Len(text) \in Int
    BY <1>1
  <2>2. kind \notin SmallOnly \/ Small(text[i]) \/ text[i] \notin Entities[kind]
    BY DEF SmallEntities
  <2>3. pieces(i) = IF text[i] \in Entities[kind] THEN <<text[i]>> ELSE <<>>
    BY <2>1, <2>2, ReproduceAssumption
  <2> HIDE DEF text
  <2>4. CASE text[i] \in Entities[kind]
    <3>1. DOMAIN pieces(i) = {1} /\ pieces(i)[1] = text[i]
      BY <2>3, <2>4
    <3>2. rows(i) = {Row(r, i + (1 - 1) * Len(text), text[i])}
      BY <3>1
    <3>3. i + (1 - 1) * Len(text) = i
      BY <2>1
    <3>4. QED
      BY <2>4, <3>2, <3>3
  <2>5. CASE text[i] \notin Entities[kind]
    BY <2>3, <2>5
  <2>6. QED
    BY <2>4, <2>5
<1>3. PrintedEntities(kind, r) = UNION {rows(i) : i \in I}
  BY DEF PrintedEntities
<1>4. EntityRows(kind, r) = {Row(r, i, text[i]) : i \in {j \in I : text[j] \in Entities[kind]}}
  BY DEF EntityRows
<1> HIDE DEF text, I, rows
<1>5. QED
  BY <1>2, <1>3, <1>4

\* The stream of values a command sorts and counts is what the answer is about.
LEMMA StreamIs ==
  ASSUME FilesOk, NEW q, WellFormed(q), q.verb \in SelectorVerbs, Reproducible(q)
  PROVE  ValueStream(q) = Rows(q)
<1> DEFINE found == Matching(q.pattern, q.file, q.where)
           lines == IF q.where = {} THEN Grep(q) ELSE Filtered(q)
<1>0. q.verb \notin {"context", "read_lines"}
  BY DEF SelectorVerbs, AggregateVerbs
<1>1. Plain(q) \/ (q.where = {} /\ ~Selecting(q))
  BY DEF Reproducible, Plain
<1>2. q.where = {} => found = GrepI(q)
  BY DEF Matching, GrepI
<1>3. CASE ~Selecting(q)
  <2> DEFINE loose == IF q.where = {} THEN GrepI(q) ELSE Filtered(q)
  <2>1. q.field = NoSelector /\ q.extract = NoSelector /\ q.pattern.anchors # <<>>
    BY <1>3 DEF Selecting, Reproducible
  <2>2. Read(q) = found /\ \A r : RowsOf(q, r) = PatternRows(q.pattern, r)
    BY <1>3, <2>1 DEF Read, RowsOf
  <2>3. ValueStream(q) = UNION {PatternRows(q.pattern, r) : r \in loose}
    BY <2>1 DEF ValueStream
  <2>4. loose = found
    <3>1. CASE q.where = {}
      BY <1>2, <3>1
    <3>2. CASE q.where # {}
      <4>1. Plain(q)
        BY <1>1, <3>2
      <4>2. \A r \in found : ~LineAt(r).comment
        BY <2>1, <4>1 DEF Plain
      <4>3. Filtered(q) = found
        BY <1>0, <3>2, <4>1, <4>2, FilteredIs
      <4>4. QED
        BY <3>2, <4>3
    <3>3. QED
      BY <3>1, <3>2
  <2>5. QED
    BY <2>2, <2>3, <2>4 DEF Rows
<1>4. CASE Selecting(q)
  <2>1. Plain(q)
    BY <1>1, <1>4
  <2>2. Read(q) = {r \in found : ~LineAt(r).comment}
    BY <1>4 DEF Read
  <2>3. q.where = {} => Grep(q) = found
    BY <2>1, GrepIs
  <2>4. CASE q.extract # NoSelector
    <3>1. q.field = NoSelector
      BY <2>4 DEF WellFormed
    <3>2. \A r \in found : ~LineAt(r).comment
      BY <2>1, <3>1 DEF Plain
    <3>3. lines = found
      <4>1. q.where # {} => Filtered(q) = found
        BY <1>0, <2>1, <3>2, FilteredIs
      <4>2. QED
        BY <2>3, <4>1
    <3>4. ValueStream(q) = UNION {EntityRows(q.extract, r) : r \in lines}
      <4>1. ValueStream(q) = UNION {PrintedEntities(q.extract, r) : r \in lines}
        BY <2>4 DEF ValueStream
      <4>2. \A r \in found : r \in Refs /\ SmallEntities(q.extract, LineAt(r))
        BY <2>1 DEF Plain, Matching
      <4>3. q.extract \in DOMAIN Entities
        BY <2>4 DEF WellFormed
      <4> HIDE DEF found, lines
      <4>4. \A r \in lines : PrintedEntities(q.extract, r) = EntityRows(q.extract, r)
        BY <3>3, <4>2, <4>3, EntitiesAre
      <4>5. QED
        BY <4>1, <4>4
    <3>5. Read(q) = found /\ \A r : RowsOf(q, r) = EntityRows(q.extract, r)
      BY <2>2, <2>4, <3>2 DEF RowsOf
    <3>6. QED
      BY <3>3, <3>4, <3>5 DEF Rows
  <2>5. CASE q.extract = NoSelector
    <3> DEFINE value(r) == FieldValue(q.file, LineAt(r), q.field)
    <3>1. q.field # NoSelector
      BY <1>4, <2>5 DEF Selecting
    <3>2. /\ Rows(q) = {Row(r, 0, value(r)) : r \in Read(q)}
          /\ \A r \in Read(q) : value(r) # NoWord
          /\ IsJson(q.file) => \A r \in Read(q) : JqValue(LineAt(r), q.field) = value(r)
          /\ ~IsJson(q.file) =>
               \A r \in Read(q), letters \in {AsWritten, Fold} : AwkValue(q, r, letters) = value(r)
      BY <2>1, <3>1, FieldRowsAre
    <3> HIDE DEF value
    <3>3. /\ IsJson(q.file) =>
               /\ Filtered(q) = found /\ JqReads(Filtered(q)) = Filtered(q)
               /\ JqReads(Grep(q)) = Grep(q)
               /\ \A r \in Refs : r[1] = q.file => LineAt(r).object /\ ~LineAt(r).comment
          /\ ~IsJson(q.file) => Filtered(q) = {r \in found : ~LineAt(r).comment}
      BY <1>0, <2>1, <3>1, FilteredIs
    <3>4. \A r \in found : r \in Refs /\ r[1] = q.file
      BY <1>0, <3>1, OneFile DEF Matching
    <3>5. CASE IsJson(q.file)
      <4>1. JqReads(lines) = found
        BY <2>3, <3>3, <3>5
      <4>2. Read(q) = found
        BY <2>2, <3>3, <3>4, <3>5
      <4>3. ValueStream(q) =
              {v \in {Row(r, 0, JqValue(LineAt(r), q.field)) : r \in JqReads(lines)} :
                 v.value \notin {NoWord} \cup JqEmpty}
        BY <2>5, <3>1, <3>5 DEF ValueStream
      <4>4. {Row(r, 0, JqValue(LineAt(r), q.field)) : r \in found} = Rows(q)
        BY <3>2, <3>5, <4>2
      <4>5. \A v \in Rows(q) : v.value \notin {NoWord} \cup JqEmpty
        <5>1. \A r \in found : value(r) \notin JqEmpty
          BY <2>1, <3>1, <3>5 DEF Plain, value
        <5>2. QED
          BY <3>2, <4>2, <5>1 DEF Row
      <4>6. QED
        BY <4>1, <4>3, <4>4, <4>5
    <3>6. CASE ~IsJson(q.file)
      <4>1. {s \in lines : ~LineAt(s).comment} = Read(q)
        BY <2>2, <2>3, <3>3, <3>6
      <4> DEFINE letters == IF q.where = {} THEN AsWritten ELSE Fold
      <4>2. ValueStream(q) = {Row(r, 0, AwkValue(q, r, letters)) :
                                r \in {s \in lines : ~LineAt(s).comment}}
        BY <2>5, <3>1, <3>6 DEF ValueStream
      <4>3. letters \in {AsWritten, Fold}
        OBVIOUS
      <4> HIDE DEF letters
      <4>4. QED
        BY <3>2, <3>6, <4>1, <4>2, <4>3
    <3>7. QED
      BY <3>5, <3>6
  <2>6. QED
    BY <2>4, <2>5
<1>5. QED
  BY <1>3, <1>4

\* So are the values whose sizes extremes prints, when a field is read.
LEMMA ExtremesRowsAre ==
  ASSUME FilesOk, NEW q, WellFormed(q), q.verb \in SelectorVerbs, Plain(q),
         q.field # NoSelector
  PROVE  ExtremesRows(q) = Rows(q)
<1> DEFINE found == Matching(q.pattern, q.file, q.where)
           value(r) == FieldValue(q.file, LineAt(r), q.field)
<1>0. q.verb \notin {"context", "read_lines"}
  BY DEF SelectorVerbs, AggregateVerbs
<1>1. q.file \in FileNames /\ Targets(q.file) = {q.file}
  BY <1>0, OneFile
<1>2. /\ Rows(q) = {Row(r, 0, value(r)) : r \in Read(q)}
      /\ IsJson(q.file) => \A r \in Read(q) : JqValue(LineAt(r), q.field) = value(r)
      /\ ~IsJson(q.file) => \A r \in Read(q) : AwkValue(q, r, AsWritten) = value(r)
  BY FieldRowsAre
<1>3. Read(q) = {r \in found : ~LineAt(r).comment}
  BY DEF Read, Selecting
<1> HIDE DEF value
<1>4. CASE IsJson(q.file)
  <2>1. OneKeyEach(q.file, FieldsOf(q)) /\ FieldsOf(q) # {}
        /\ {p.field : p \in q.where} \subseteq FieldsOf(q)
    BY <1>4 DEF Plain, FieldsOf
  <2>2. \A r \in Refs : r[1] = q.file =>
          /\ LineAt(r).object /\ ~LineAt(r).comment
          /\ JqHolds(LineAt(r), q.where) <=> LineMatches(q.file, LineAt(r), q.where)
    BY <1>1, <1>4, <2>1, JqAgrees
  <2>3. \A r \in Refs : LineMatches(q.file, LineAt(r), {})
    BY DEF LineMatches
  <2>4. {s \in GrepI(q) : LineAt(s).object /\ JqHolds(LineAt(s), q.where)} = Read(q)
    <3>1. \A s : s \in GrepI(q) <=> s \in Refs /\ s[1] = q.file /\ Finds(q.pattern, LineAt(s))
      BY <1>1 DEF GrepI
    <3>2. \A s : s \in found <=>
            /\ s \in Refs /\ s[1] = q.file /\ Finds(q.pattern, LineAt(s))
            /\ q.where = {} \/ LineMatches(q.file, LineAt(s), q.where)
      BY <1>1 DEF Matching
    <3> HIDE DEF found
    <3>3. QED
      BY <1>3, <2>2, <2>3, <3>1, <3>2
  <2>5. ExtremesRows(q) =
          {Row(r, 0, JqValue(LineAt(r), q.field)) :
             r \in {s \in GrepI(q) : LineAt(s).object /\ JqHolds(LineAt(s), q.where)}}
    BY <1>4 DEF ExtremesRows
  <2>6. QED
    BY <1>2, <1>4, <2>4, <2>5
<1>5. CASE ~IsJson(q.file)
  <2>1. Filtered(q) = Read(q)
    BY <1>0, <1>3, <1>5, FilteredIs
  <2>2. AwkRows(q) = Read(q)
    BY <1>5, <2>1 DEF Filtered
  <2>3. ExtremesRows(q) = {Row(r, 0, AwkValue(q, r, AsWritten)) : r \in AwkRows(q)}
    BY <1>5 DEF ExtremesRows
  <2>4. QED
    BY <1>2, <1>5, <2>2, <2>3
<1>6. QED
  BY <1>4, <1>5

(***************************************************************************)
(* The sizes of extremes, from the largest.                                *)
(***************************************************************************)

\* L holds every member of S, the largest first.
FromTheLargest(L, S, f) ==
  /\ L \in [1 .. Cardinality(S) -> S]
  /\ \A x \in S : \E n \in 1 .. Cardinality(S) : L[n] = x
  /\ \A i, j \in 1 .. Cardinality(S) : i < j => f[L[j]] <= f[L[i]]

\* That is the ascending series, read from its end.
LEMMA Descending ==
  ASSUME NEW S, IsFiniteSet(S), NEW f \in [S -> Int], NEW L, FromTheLargest(L, S, f)
  PROVE  LET N == Cardinality(S)
         IN \A i \in 1 .. N : Ascending(f)[N + 1 - i] = f[L[i]]
<1> DEFINE N == Cardinality(S)
<1>0. /\ N \in Nat /\ L \in [1 .. N -> S] /\ \A x \in S : \E n \in 1 .. N : L[n] = x
      /\ \A i, j \in 1 .. N : i < j => f[L[j]] <= f[L[i]]
  <2>1. N \in Nat
    BY FS_CardinalityType
  <2>2. QED
    BY <2>1 DEF FromTheLargest
<1> SUFFICES ASSUME NEW i \in 1 .. N PROVE Ascending(f)[N + 1 - i] = f[L[i]]
  OBVIOUS
<1> DEFINE values == {f[x] : x \in S}
           atMost(w) == {x \in S : f[x] <= w}
           above(n) == {v \in values : n <= Cardinality(atMost(v))}
           k == N + 1 - i
           v == f[L[i]]
<1>1. /\ i \in Nat /\ 1 <= i /\ i <= N /\ k \in 1 .. N
      /\ L[i] \in S /\ v \in Int /\ v \in values
  BY <1>0
<1>2. Ascending(f)[k] = Min(above(k))
  <2>1. Ascending(f) = [n \in 1 .. N |-> Min(above(n))]
    BY DEF Ascending
  <2>2. QED
    BY <1>0, <1>1, <2>1
<1>3. \A j \in 1 .. N : /\ j \in Int /\ L[j] \in S /\ f[L[j]] \in Int
                        /\ i <= j => f[L[j]] <= v
                        /\ j <= i => v <= f[L[j]]
  <2> TAKE j \in 1 .. N
  <2>1. j \in Int /\ L[j] \in S /\ f[L[j]] \in Int
    BY <1>0, <1>1
  <2>2. i < j => f[L[j]] <= v
    BY <1>0, <1>1
  <2>3. j < i => v <= f[L[j]]
    BY <1>0, <1>1
  <2>4. i = j => f[L[j]] = v
    OBVIOUS
  <2>5. QED
    BY <1>0, <1>1, <2>1, <2>2, <2>3, <2>4
<1>4. ASSUME NEW a \in Nat \ {0}, NEW b \in Nat, a <= N + 1, b <= N, a <= b + 1,
             NEW T \in SUBSET S, \A x \in T : \E j \in a .. b : L[j] = x
      PROVE  Cardinality(T) <= b - a + 1
  <2> DEFINE places == {j \in a .. b : L[j] \in T}
             g == [j \in places |-> L[j]]
  <2>1. places \subseteq a .. b /\ IsFiniteSet(a .. b) /\ Cardinality(a .. b) = b - a + 1
    <3>1. IsFiniteSet(a .. b) /\ Cardinality(a .. b) = IF a > b THEN 0 ELSE b - a + 1
      BY FS_Interval
    <3>2. QED
      BY <1>4, <3>1
  <2>2. g \in Surjection(places, T)
    BY <1>4 DEF Surjection
  <2> HIDE DEF places, g
  <2>3. places \in SUBSET (a .. b)
    BY <2>1
  <2>4. IsFiniteSet(places) /\ Cardinality(places) \in Nat /\ Cardinality(places) <= b - a + 1
    <3>1. IsFiniteSet(places) /\ Cardinality(places) <= Cardinality(a .. b)
      BY <2>1, <2>3, FS_Subset
    <3>2. Cardinality(places) \in Nat
      BY <3>1, FS_CardinalityType
    <3>3. QED
      BY <2>1, <3>1, <3>2
  <2>5. IsFiniteSet(T) /\ Cardinality(T) <= Cardinality(places)
    BY <2>2, <2>4, FS_Surjection
  <2>6. Cardinality(T) \in Nat
    BY <2>5, FS_CardinalityType
  <2>7. QED
    BY <2>4, <2>5, <2>6
<1>5. v \in above(k)
  <2> DEFINE T == S \ atMost(v)
  <2>1. \A x \in T : \E j \in 1 .. i - 1 : L[j] = x
    <3> TAKE x \in T
    <3>1. PICK j \in 1 .. N : L[j] = x
      BY <1>0
    <3>2. ~(f[x] <= v)
      OBVIOUS
    <3>3. ~(i <= j) /\ j \in Int /\ 1 <= j
      BY <1>0, <1>1, <1>3, <3>1, <3>2
    <3>4. QED
      BY <1>0, <1>1, <3>1, <3>3
  <2>2. T \in SUBSET S /\ atMost(v) \in SUBSET S /\ atMost(v) = S \ T
    OBVIOUS
  <2> HIDE DEF T, atMost
  <2>3. 1 \in Nat \ {0} /\ i - 1 \in Nat /\ 1 <= N + 1 /\ i - 1 <= N /\ 1 <= (i - 1) + 1
    BY <1>0, <1>1
  <2>4. Cardinality(T) <= (i - 1) - 1 + 1
    BY <1>4, <2>1, <2>2, <2>3
  <2>5. IsFiniteSet(T) /\ Cardinality(T) \in Nat
    BY <2>2, FS_Subset, FS_CardinalityType
  <2>6. Cardinality(S \ T) = N - Cardinality(T)
    <3>1. S \cap T = T
      BY <2>2
    <3>2. Cardinality(S \ T) = Cardinality(S) - Cardinality(S \cap T)
      BY <2>5, FS_Difference
    <3>3. QED
      BY <3>1, <3>2
  <2>7. k <= Cardinality(atMost(v))
    BY <1>0, <1>1, <2>2, <2>4, <2>5, <2>6
  <2>8. QED
    BY <1>0, <1>1, <2>7
<1>6. ASSUME NEW w \in above(k) PROVE v <= w
  <2> SUFFICES ASSUME w < v PROVE FALSE
    <3>1. w \in Int
      OBVIOUS
    <3>2. QED
      BY <1>0, <1>1, <3>1
  <2>1. \A x \in atMost(w) : \E j \in i + 1 .. N : L[j] = x
    <3> TAKE x \in atMost(w)
    <3>1. PICK j \in 1 .. N : L[j] = x
      BY <1>0
    <3>2. f[x] <= w /\ f[x] \in Int /\ w \in Int
      OBVIOUS
    <3>3. ~(j <= i) /\ j \in Int /\ j <= N
      BY <1>0, <1>1, <1>3, <3>1, <3>2
    <3>4. QED
      BY <1>0, <1>1, <3>1, <3>3
  <2>2. atMost(w) \in SUBSET S /\ k <= Cardinality(atMost(w))
    OBVIOUS
  <2> HIDE DEF atMost
  <2>3. i + 1 \in Nat \ {0} /\ N \in Nat /\ i + 1 <= N + 1 /\ N <= N
    BY <1>0, <1>1
  <2>4. Cardinality(atMost(w)) <= N - (i + 1) + 1
    BY <1>4, <2>1, <2>2, <2>3
  <2>5. Cardinality(atMost(w)) \in Nat
    BY <2>2, FS_Subset, FS_CardinalityType
  <2>6. QED
    BY <1>0, <1>1, <2>2, <2>4, <2>5
<1>7. above(k) \subseteq Int /\ IsFiniteSet(above(k))
  <2>1. f = [x \in S |-> f[x]] /\ DOMAIN f = S
    OBVIOUS
  <2>2. IsFiniteSet(values)
    BY <2>1, FiniteImage
  <2>3. above(k) \in SUBSET values /\ values \subseteq Int
    OBVIOUS
  <2> HIDE DEF above, values
  <2>4. QED
    BY <2>2, <2>3, FS_Subset
<1> HIDE DEF above, v, k
<1>8. Min(above(k)) \in above(k) /\ Min(above(k)) <= v
  BY <1>5, <1>7, Bounds
<1>9. Min(above(k)) = v
  BY <1>5, <1>6, <1>7, <1>8
<1>10. QED
  BY <1>2, <1>9 DEF v, k

\* With one value to a line, the sizes that extremes gives are those of all values, from the
\* largest.
LEMMA SizesAre ==
  ASSUME FilesOk, NEW s, Selects(s.rows), s.rows # {},
         \A a, b \in s.rows : a.ref = b.ref => a = b
  PROVE  LET sizes == Series(s.rows)
         IN Listed(s, LargestFirst(s.rows)).table.keys =
              [i \in 1 .. Min({ExtremesShown, Len(sizes)}) |-> sizes[Len(sizes) + 1 - i]]
<1> DEFINE rows == s.rows
           S == {row.ref : row \in rows}
           best == [r \in S |-> BestOn(rows, r)]
           ranked == LargestFirst(rows)
           N == Cardinality(S)
           shown == FirstOf(ExtremesShown, ranked)
           f == [row \in rows |-> Measure(rows, row.value)]
           on(r) == CHOOSE row \in rows : row.ref = r
           L == [n \in 1 .. N |-> on(ranked[n])]
           sizes == Series(rows)
<1>1. Listed(s, ranked).table.keys = [i \in DOMAIN shown |-> BestOn(rows, shown[i])]
  BY DEF Listed, Aggregate
<1>2. sizes = Ascending(f)
  BY DEF Series
<1>3. S \in SUBSET Refs /\ S # {} /\ IsFiniteSet(rows)
  BY DEF Selects
<1>4. N \in Nat
  <2> HIDE DEF S
  <2>1. QED
    BY <1>3, LinesAreFinite
<1>5. best \in [S -> Int] /\ \A r \in S : best[r] = BestOn(rows, r)
  <2>1. \A r \in S : BestOn(rows, r) \in Int
    BY BestIs
  <2>2. QED
    BY <2>1
<1>6. f \in [rows -> Int] /\ \A row \in rows : f[row] = Measure(rows, row.value)
  BY Measures DEF Selects
<1>7. \A r \in S : on(r) \in rows /\ on(r).ref = r
  OBVIOUS
<1>8. \A row \in rows : row.ref \in S /\ on(row.ref) = row
  OBVIOUS
<1>9. \A r \in S : f[on(r)] = best[r]
  <2> TAKE r \in S
  <2> HIDE DEF f, best, on, rows
  <2>1. PICK row \in rows : row.ref = r /\ BestOn(rows, r) = Measure(rows, row.value)
    BY BestIs DEF rows
  <2>2. on(r) = row
    BY <1>8, <2>1
  <2>3. QED
    BY <1>5, <1>6, <2>1, <2>2
<1>10. Cardinality(rows) = N
  <2> DEFINE g == [row \in rows |-> row.ref]
  <2>1. g \in Injection(rows, S)
    BY DEF Injection, IsInjective
  <2>2. g \in Surjection(rows, S)
    BY DEF Surjection
  <2> HIDE DEF g, S, rows
  <2>3. QED
    BY <1>3, <2>1, <2>2, FS_Surjection DEF N
<1>11. /\ ranked \in Seq(S) /\ Len(ranked) = N
       /\ \A l \in S : \E n \in 1 .. N : ranked[n] = l
       /\ \A i, j \in 1 .. N : i < j => best[ranked[j]] <= best[ranked[i]]
  <2> DEFINE before(t, r) == best[t] > best[r] \/ (best[t] = best[r] /\ ~Precedes(r, t))
             upto == [r \in S |-> {t \in S : before(t, r)}]
  <2>1. ranked = Listing(S, upto)
    BY Zenon DEF LargestFirst
  <2> HIDE DEF S, best, ranked, rows
  <2>2. /\ Listing(S, upto) \in Seq(S) /\ Len(Listing(S, upto)) = Cardinality(S)
        /\ \A l \in S : \E n \in 1 .. Cardinality(S) : Listing(S, upto)[n] = l
        /\ \A i, j \in 1 .. Cardinality(S) :
             i < j => best[Listing(S, upto)[j]] <= best[Listing(S, upto)[i]]
    BY <1>3, <1>5, LargestListing
  <2> HIDE DEF upto
  <2>3. QED
    BY <2>1, <2>2
<1> HIDE DEF S, best, ranked, N, f, on
<1>12. \A n \in 1 .. N : /\ ranked[n] \in S /\ L[n] = on(ranked[n])
                         /\ f[L[n]] = BestOn(rows, ranked[n])
  BY <1>4, <1>5, <1>9, <1>11
<1>13. /\ L \in [1 .. N -> rows] /\ \A row \in rows : \E n \in 1 .. N : L[n] = row
       /\ \A i, j \in 1 .. N : i < j => f[L[j]] <= f[L[i]]
  <2>1. L \in [1 .. N -> rows]
    BY <1>7, <1>12
  <2>2. ASSUME NEW row \in rows PROVE \E n \in 1 .. N : L[n] = row
    <3>1. PICK n \in 1 .. N : ranked[n] = row.ref
      BY <1>8, <1>11
    <3>2. QED
      BY <1>8, <1>12, <3>1
  <2>3. \A i, j \in 1 .. N : i < j => f[L[j]] <= f[L[i]]
    BY <1>5, <1>11, <1>12
  <2>4. QED
    BY <2>1, <2>2, <2>3
<1> HIDE DEF L, rows
<1>14. \A i \in 1 .. N : Ascending(f)[N + 1 - i] = f[L[i]]
  <2>1. FromTheLargest(L, rows, f)
    BY <1>10, <1>13 DEF FromTheLargest
  <2>2. QED
    BY <1>3, <1>6, <1>10, <2>1, Descending
<1>15. Len(sizes) = N /\ rows # {}
  <2>1. rows # {}
    BY DEF rows
  <2>2. QED
    BY <1>2, <1>3, <1>6, <1>10, <2>1, AscendingIs
<1> HIDE DEF sizes
<1>16. ExtremesShown \in Nat
  BY AggregateAssumption
<1>17. /\ shown \in Seq(S) /\ Len(shown) = IF ExtremesShown < N THEN ExtremesShown ELSE N
       /\ \A i \in 1 .. Len(shown) : shown[i] = ranked[i]
  <2>1. ranked \in Seq(S) /\ Len(ranked) = N
    BY <1>11
  <2> HIDE DEF S, N, ranked, best, f
  <2>2. /\ shown \in Seq(S)
        /\ Len(shown) = IF ExtremesShown < Len(ranked) THEN ExtremesShown ELSE Len(ranked)
        /\ \A i \in 1 .. Len(shown) : shown[i] = ranked[i]
    BY <1>16, <2>1, First
  <2>3. QED
    BY <2>1, <2>2
<1>18. Min({ExtremesShown, N}) = IF ExtremesShown < N THEN ExtremesShown ELSE N
  BY <1>4, <1>16, OfTwo
<1> HIDE DEF shown
<1>19. DOMAIN shown = 1 .. Min({ExtremesShown, N})
  BY <1>17, <1>18
<1>20. \A i \in DOMAIN shown : BestOn(rows, shown[i]) = sizes[N + 1 - i]
  <2> TAKE i \in DOMAIN shown
  <2>1. i \in 1 .. N /\ shown[i] = ranked[i]
    BY <1>4, <1>16, <1>17
  <2>2. QED
    BY <1>2, <1>12, <1>14, <2>1
<1>21. QED
  BY <1>1, <1>15, <1>19, <1>20 DEF rows, ranked, sizes

(***************************************************************************)
(* What is printed, by the verb.                                           *)
(***************************************************************************)

\* A verb that lists lines lists those it holds, in order.
LEMMA FetchedLines ==
  ASSUME FilesOk, NEW q, q.verb \in {"search", "context", "read_lines"}, ~Executed(q).error
  PROVE  /\ ~Fetch(q).error
         /\ Fetch(q).lines \subseteq Refs => ToSet(Executed(q).lines) = Fetch(q).lines
<1>1. Executed(q) = FetchStep(q, Fetch(q))
  BY DEF Executed, FetchVerbs
<1>2. Executed(q).error = Fetch(q).error /\ Executed(q).lines = InOrder(Fetch(q).lines)
  BY <1>1 DEF FetchStep, Answered
<1>3. QED
  BY <1>2, InOrderIs

\* The lines a printed grep, awk or jq finds are those that match.
LEMMA MatchesArePrinted ==
  ASSUME FilesOk, NEW q, WellFormed(q), q.verb \in {"search", "count", "timeline"},
         Reproducible(q)
  PROVE  PrintedLines(q) = Matching(q.pattern, q.file, q.where)
<1>1. q.verb \notin SelectorVerbs /\ q.verb \notin {"context", "read_lines"}
  BY DEF SelectorVerbs, AggregateVerbs
<1>2. ~Selecting(q)
  BY <1>1 DEF WellFormed
<1>3. q.field = NoSelector
  BY <1>2 DEF Selecting
<1>4. CASE q.where = {}
  <2>1. PrintedLines(q) = GrepI(q)
    BY <1>1, <1>4 DEF PrintedLines
  <2>2. QED
    BY <1>4, <2>1 DEF GrepI, Matching
<1>5. CASE q.where # {}
  <2>1. PrintedLines(q) = Filtered(q)
    BY <1>1, <1>5 DEF PrintedLines
  <2>2. Plain(q)
    BY <1>5 DEF Reproducible, Plain
  <2>3. \A r \in Matching(q.pattern, q.file, q.where) : ~LineAt(r).comment
    BY <1>3, <2>2 DEF Plain
  <2>4. /\ IsJson(q.file) => Filtered(q) = Matching(q.pattern, q.file, q.where)
        /\ ~IsJson(q.file) =>
             Filtered(q) = {r \in Matching(q.pattern, q.file, q.where) : ~LineAt(r).comment}
    BY <1>1, <1>5, <2>2, FilteredIs
  <2>5. QED
    BY <2>1, <2>3, <2>4
<1>6. QED
  BY <1>4, <1>5

\* Two functions that take each value equally often have the same ascending series.
LEMMA SameSeries ==
  ASSUME NEW f, NEW g, IsFiniteSet(DOMAIN f), NEW h \in [DOMAIN f -> DOMAIN g],
         \A x, y \in DOMAIN f : h[x] = h[y] => x = y,
         \A y \in DOMAIN g : \E x \in DOMAIN f : h[x] = y,
         \A x \in DOMAIN f : f[x] = g[h[x]]
  PROVE  Ascending(f) = Ascending(g)
<1> DEFINE S == DOMAIN f
           T == DOMAIN g
           atMostF(v) == {x \in S : f[x] <= v}
           atMostG(v) == {y \in T : g[y] <= v}
<1>1. {f[x] : x \in S} = {g[y] : y \in T}
  OBVIOUS
<1>2. Cardinality(S) = Cardinality(T)
  <2>1. h \in Bijection(S, T)
    BY Fun_IsBij
  <2>2. QED
    BY <2>1, FS_Bijection DEF ExistsBijection
<1>3. ASSUME NEW v PROVE Cardinality(atMostF(v)) = Cardinality(atMostG(v))
  <2> DEFINE A == atMostF(v)
             B == atMostG(v)
             k == [x \in A |-> h[x]]
  <2>1. IsFiniteSet(A)
    BY FS_Subset
  <2>2. k \in [A -> B] /\ \A x, y \in A : k[x] = k[y] => x = y
    OBVIOUS
  <2>3. \A y \in B : \E x \in A : k[x] = y
    OBVIOUS
  <2> HIDE DEF A, B, k
  <2>4. k \in Bijection(A, B)
    BY <2>2, <2>3, Fun_IsBij
  <2>5. Cardinality(A) = Cardinality(B)
    BY <2>1, <2>4, FS_Bijection DEF ExistsBijection
  <2>6. QED
    BY <2>5 DEF A, B
<1>4. Ascending(f) = [n \in 1 .. Cardinality(S) |->
                        Min({v \in {f[x] : x \in S} : n <= Cardinality(atMostF(v))})]
  BY DEF Ascending
<1>5. Ascending(g) = [n \in 1 .. Cardinality(T) |->
                        Min({v \in {g[y] : y \in T} : n <= Cardinality(atMostG(v))})]
  BY DEF Ascending
<1> HIDE DEF S, T, atMostF, atMostG
<1>6. QED
  BY <1>1, <1>2, <1>3, <1>4, <1>5

\* With one timestamp a line at most, the printed moments are those of the answer.
LEMMA StampsArePrinted ==
  ASSUME FilesOk, NEW lines, lines \subseteq Refs, \A r \in lines : OneStamp(LineAt(r))
  PROVE  PrintedTimes(lines) = Times(Dated(lines))
<1> DEFINE S == Dated(lines)
           T == {s \in StampRows(lines) : s.value # OddStamp}
           f == [r \in S |-> LineAt(r).stamp]
           g == [row \in T |-> row.value]
           h == [r \in S |-> Row(r, 1, LineAt(r).stamp)]
<1>1. IsFiniteSet(S)
  <2>1. S \subseteq Refs
    BY DEF Dated
  <2> HIDE DEF S
  <2>2. QED
    BY <2>1, LinesAreFinite
<1>2. ASSUME NEW r \in lines, NEW i \in DOMAIN LineAt(r).stamps
      PROVE  LineAt(r).stamp # NoStamp /\ i = 1 /\ LineAt(r).stamps[i] = LineAt(r).stamp
  <2>1. LineAt(r).stamps = IF LineAt(r).stamp = NoStamp THEN <<>> ELSE <<LineAt(r).stamp>>
    BY DEF OneStamp
  <2>2. QED
    BY <1>2, <2>1
<1>3. ASSUME NEW r \in S
      PROVE  r \in lines /\ Row(r, 1, LineAt(r).stamp) \in T
  <2>1. r \in lines /\ LineAt(r).stamp # NoStamp /\ LineAt(r).stamp # OddStamp
    BY DEF Dated
  <2>2. LineAt(r).stamps = <<LineAt(r).stamp>>
    BY <2>1 DEF OneStamp
  <2>3. 1 \in DOMAIN LineAt(r).stamps /\ LineAt(r).stamps[1] = LineAt(r).stamp
    BY <2>2
  <2>4. Row(r, 1, LineAt(r).stamp) \in StampRows(lines)
    BY <2>1, <2>3 DEF StampRows
  <2>5. Row(r, 1, LineAt(r).stamp).value = LineAt(r).stamp
    BY DEF Row
  <2>6. QED
    BY <2>1, <2>4, <2>5
<1>4. ASSUME NEW row \in T PROVE \E r \in S : row = Row(r, 1, LineAt(r).stamp)
  <2>1. PICK r \in lines : \E i \in DOMAIN LineAt(r).stamps :
                             row = Row(r, i, LineAt(r).stamps[i])
    BY DEF StampRows
  <2>2. LineAt(r).stamp # NoStamp /\ row = Row(r, 1, LineAt(r).stamp)
    BY <1>2, <2>1
  <2>3. LineAt(r).stamp # OddStamp
    BY <2>2 DEF Row
  <2>4. r \in S
    BY <2>2, <2>3 DEF Dated
  <2>5. QED
    BY <2>2, <2>4
<1>5. Times(S) = Ascending(f) /\ PrintedTimes(lines) = Ascending(g)
  BY DEF Times, PrintedTimes
<1> HIDE DEF S, T
<1>6. h \in [S -> T] /\ \A x \in S : f[x] = g[h[x]]
  BY <1>3 DEF Row
<1>7. \A x, y \in S : h[x] = h[y] => x = y
  BY DEF Row
<1>8. \A y \in T : \E x \in S : h[x] = y
  BY <1>4
<1>9. DOMAIN f = S /\ DOMAIN g = T
  OBVIOUS
<1> HIDE DEF f, g, h
<1>10. Ascending(f) = Ascending(g)
  BY <1>1, <1>6, <1>7, <1>8, <1>9, SameSeries
<1>11. QED
  BY <1>5, <1>10 DEF S

\* sed prints the context that is shown, and the range that is read.
LEMMA SpansArePrinted ==
  ASSUME FilesOk, NEW q, WellFormed(q), ~Executed(q).error
  PROVE  /\ q.verb = "context" /\ ReproducibleContext(q) =>
              ToSet(Executed(q).lines) = PrintedLines(q)
         /\ q.verb = "read_lines" => ToSet(Executed(q).lines) = PrintedLines(q)
<1>1. ASSUME q.verb = "context", ReproducibleContext(q)
      PROVE  ToSet(Executed(q).lines) = PrintedLines(q)
  <2> DEFINE name == q.ref[1]
             start == Max({1, q.ref[2] - Around})
             span == Min({2 * Around + 1, MaxSpan})
             end == Min({Len(files[name]), start + span - 1})
             window == {<<name, n>> : n \in start .. end}
  <2>1. Fetch(q) = Context(q) /\ ~Fetch(q).error
    BY <1>1, FetchedLines DEF Fetch
  <2>2. q.ref \in Refs
    BY <2>1 DEF Context, Failed
  <2>3. Context(q).lines = window
    BY <1>1, <2>2 DEF Context, Fetched, ReproducibleContext
  <2>4. /\ name \in FileNames /\ DOMAIN files[name] = 1 .. Len(files[name])
        /\ Len(files[name]) \in Nat /\ q.ref[2] \in Nat
        /\ Around \in Nat /\ MaxSpan \in Nat /\ 2 * Around + 1 <= MaxSpan /\ Around < q.ref[2]
    <3>1. /\ name \in FileNames /\ DOMAIN files[name] = 1 .. Len(files[name])
          /\ Len(files[name]) \in Nat /\ q.ref[2] \in DOMAIN files[name]
      BY <2>2, RefIs
    <3>2. Around \in Nat /\ MaxSpan \in Nat /\ 2 * Around + 1 <= MaxSpan
      BY CorpusAssumption
    <3> HIDE DEF name
    <3>3. QED
      BY <1>1, <3>1, <3>2 DEF ReproducibleContext
  <2> HIDE DEF name
  <2>5. start = q.ref[2] - Around /\ span = 2 * Around + 1
    <3> DEFINE a == q.ref[2] - Around
               b == 2 * Around + 1
    <3>1. a \in Int /\ 1 <= a /\ b \in Int /\ b <= MaxSpan /\ MaxSpan \in Int
      BY <2>4
    <3> HIDE DEF a, b
    <3>2. /\ Max({1, a}) = IF 1 < a THEN a ELSE 1
          /\ Min({b, MaxSpan}) = IF b < MaxSpan THEN b ELSE MaxSpan
      BY <3>1, OfTwo
    <3>3. Max({1, a}) = a /\ Min({b, MaxSpan}) = b
      BY <3>1, <3>2
    <3>4. QED
      BY <3>3 DEF a, b
  <2>6. start + span - 1 = q.ref[2] + Around
    BY <2>4, <2>5
  <2>7. end = IF Len(files[name]) < q.ref[2] + Around
              THEN Len(files[name]) ELSE q.ref[2] + Around
    <3> HIDE DEF start, span
    <3>1. Len(files[name]) \in Int /\ start + span - 1 \in Int
      BY <2>4, <2>6
    <3>2. end = IF Len(files[name]) < start + span - 1
                THEN Len(files[name]) ELSE start + span - 1
      BY <3>1, OfTwo
    <3>3. QED
      BY <2>6, <3>2
  <2> HIDE DEF end, start, span
  <2>8. /\ start \in Int /\ end \in Int
        /\ \A n \in Int : n \in start .. end <=>
             /\ n \in 1 .. Len(files[name])
             /\ q.ref[2] - Around <= n /\ n <= q.ref[2] + Around
    BY <2>4, <2>5, <2>7
  <2>9. window \subseteq SedAround(q)
    <3> SUFFICES ASSUME NEW n \in start .. end PROVE <<name, n>> \in SedAround(q)
      OBVIOUS
    <3>1. /\ n \in 1 .. Len(files[name])
          /\ q.ref[2] - Around <= n /\ n <= q.ref[2] + Around
      BY <2>8
    <3>2. <<name, n>> \in Refs
      BY <2>4, <3>1 DEF Refs
    <3>3. QED
      BY <3>1, <3>2 DEF SedAround, name
  <2>10. SedAround(q) \subseteq window
    <3> SUFFICES ASSUME NEW r \in SedAround(q) PROVE r \in window
      OBVIOUS
    <3>1. r \in Refs /\ r[1] = name /\ q.ref[2] - Around <= r[2] /\ r[2] <= q.ref[2] + Around
      BY DEF SedAround, name
    <3>2. r = <<name, r[2]>> /\ r[2] \in 1 .. Len(files[name])
      BY <2>4, <3>1, RefIs
    <3>3. QED
      BY <2>4, <2>8, <3>1, <3>2
  <2> HIDE DEF window
  <2>11. PrintedLines(q) = window /\ window \subseteq Refs
    BY <1>1, <2>9, <2>10 DEF PrintedLines, SedAround
  <2>12. QED
    BY <1>1, <2>1, <2>3, <2>11, FetchedLines
<1>2. ASSUME q.verb = "read_lines"
      PROVE  ToSet(Executed(q).lines) = PrintedLines(q)
  <2>1. Fetch(q) = ReadLines(q) /\ ~Fetch(q).error
    BY <1>2, FetchedLines DEF Fetch
  <2>2. Fetch(q).lines = SedRange(q)
    BY <2>1 DEF ReadLines, Failed, Fetched, SedRange
  <2>3. SedRange(q) \subseteq Refs /\ PrintedLines(q) = SedRange(q)
    BY <1>2 DEF SedRange, PrintedLines
  <2>4. QED
    BY <1>2, <2>2, <2>3, FetchedLines
<1>3. QED
  BY <1>1, <1>2

\* What a value measures among others that are all alike is what it measures by itself.
LEMMA AlikeMeasure ==
  ASSUME NEW rows, Selects(rows), rows # {},
         AllNumeric(rows) \/ \A row \in rows : row.value \notin DOMAIN Number
  PROVE  [row \in rows |-> OwnMeasure(row)] = [row \in rows |-> Measure(rows, row.value)]
<1>1. \A row \in rows : row.value # NoWord
  BY CorpusAssumption DEF Selects
<1>2. ASSUME NEW row \in rows PROVE OwnMeasure(row) = Measure(rows, row.value)
  <2>1. CASE AllNumeric(rows)
    BY <1>1, <2>1 DEF OwnMeasure, Measure, AllNumeric
  <2>2. CASE \A w \in rows : w.value \notin DOMAIN Number
    <3>1. ~AllNumeric(rows)
      BY <2>2 DEF AllNumeric
    <3>2. QED
      BY <1>1, <2>2, <3>1 DEF OwnMeasure, Measure
  <2>3. QED
    BY <2>1, <2>2
<1>3. QED
  BY <1>2

\* sort prints the sizes that extremes gives, when no line holds two of the values.
LEMMA SizesArePrinted ==
  ASSUME FilesOk, NEW q, WellFormed(q), q.verb = "extremes", Plain(q), q.field # NoSelector,
         Selected(q).rows = Rows(q), Selects(Rows(q)), Rows(q) # {},
         AllNumeric(Rows(q)) \/ \A row \in Rows(q) : row.value \notin DOMAIN Number
  PROVE  Answer(q).table.keys = PrintedSizes(q)
<1> DEFINE sizes == Series(Rows(q))
<1>1. q.verb \in SelectorVerbs
  BY DEF SelectorVerbs, AggregateVerbs
<1>2. ExtremesRows(q) = Rows(q)
  BY <1>1, ExtremesRowsAre
<1>3. Ascending([row \in ExtremesRows(q) |-> OwnMeasure(row)]) = sizes
  BY <1>2, AlikeMeasure DEF Series
<1>4. \A a, b \in Rows(q) : a.ref = b.ref => a = b
  <2> DEFINE value(r) == FieldValue(q.file, LineAt(r), q.field)
  <2>1. Rows(q) = {Row(r, 0, value(r)) : r \in Read(q)}
    BY <1>1, FieldRowsAre
  <2> HIDE DEF value
  <2>2. QED
    BY <2>1 DEF Row
<1>5. Answer(q) = Listed(Selected(q), LargestFirst(Rows(q)))
  BY DEF Answer
<1>6. Listed(Selected(q), LargestFirst(Rows(q))).table.keys =
        [i \in 1 .. Min({ExtremesShown, Len(sizes)}) |-> sizes[Len(sizes) + 1 - i]]
  <2> DEFINE s == Selected(q)
  <2>1. s.rows = Rows(q)
    OBVIOUS
  <2> HIDE DEF s
  <2>2. /\ Selects(s.rows) /\ s.rows # {}
        /\ \A a, b \in s.rows : a.ref = b.ref => a = b
    BY <1>4, <2>1
  <2>3. Listed(s, LargestFirst(s.rows)).table.keys =
          [i \in 1 .. Min({ExtremesShown, Len(Series(s.rows))}) |->
             Series(s.rows)[Len(Series(s.rows)) + 1 - i]]
    BY <2>2, SizesAre
  <2>4. QED
    BY <2>1, <2>3 DEF s
<1>7. QED
  BY <1>3, <1>5, <1>6 DEF PrintedSizes

\* A verb that selects values and finds some is printed with a command that finds the same.
LEMMA ValuesArePrinted ==
  ASSUME FilesOk, NEW q, WellFormed(q), Reproducible(q), q.verb \in {"tally", "stats", "extremes"},
         ~Executed(q).error, Executed(q).table # NoTable
  PROVE  LET t == Executed(q).table
             stream == ValueStream(q)
         IN /\ q.verb = "tally" => t.counts = CountsOf(stream)
            /\ q.verb = "stats" => /\ t.count = Cardinality(stream)
                                   /\ t.largest = Last(Series(stream))
            /\ /\ q.verb = "extremes" /\ q.field # NoSelector
               /\ AllNumeric(stream) \/ \A row \in stream : row.value \notin DOMAIN Number
               => t.keys = PrintedSizes(q)
<1> DEFINE t == Executed(q).table
           rows == Rows(q)
<1>1. q.verb \in SelectorVerbs
  BY DEF SelectorVerbs, AggregateVerbs
<1>2. /\ Selected(q).rows = rows /\ rows # {} /\ t = Answer(q).table
  BY <1>1, SelectedTold DEF Rows
<1>3. Selects(rows)
  <2>1. q.pattern.anchors \in Seq(Words)
    BY DEF WellFormed
  <2>2. QED
    BY <2>1, SelectionIsWords DEF Selects, Rows
<1>4. ValueStream(q) = rows
  BY <1>1, StreamIs
<1> HIDE DEF rows, t
<1>5. ASSUME q.verb = "tally" PROVE t.counts = CountsOf(rows)
  <2>1. t = Distribution(CountsOf(rows))
    BY <1>2, <1>5 DEF Answer, Aggregate
  <2>2. QED
    BY <1>3, <2>1, DistributionIs
<1>6. ASSUME q.verb = "stats"
      PROVE  t.count = Cardinality(rows) /\ t.largest = Last(Series(rows))
  <2>1. t = Summary(rows)
    BY <1>2, <1>6 DEF Answer, Aggregate
  <2>2. t.count = Cardinality(rows)
    BY <1>2, <1>3, <2>1, SummaryIs
  <2>3. t.largest = Last(Series(rows))
    BY <2>1 DEF Summary, Last
  <2>4. QED
    BY <2>2, <2>3
<1>7. ASSUME q.verb = "extremes", q.field # NoSelector,
             AllNumeric(rows) \/ \A row \in rows : row.value \notin DOMAIN Number
      PROVE  t.keys = PrintedSizes(q)
  <2>1. Plain(q)
    BY <1>7 DEF Reproducible, Plain, Selecting
  <2>2. QED
    BY <1>2, <1>3, <1>7, <2>1, SizesArePrinted DEF rows
<1>8. QED
  BY <1>4, <1>5, <1>6, <1>7 DEF t

\* What a step reports is what its command yields.
LEMMA CommandsDoReproduce == QueriesInv => CommandsReproduce
<1> SUFFICES ASSUME QueriesInv, NEW i \in Settled, Reproducible(steps[i].question)
             PROVE  LET q == steps[i].question
                    IN CommandAgrees(steps[i], PrintedLines(q), ValueStream(q))
  BY DEF CommandsReproduce
<1> DEFINE q == steps[i].question
           e == Executed(q)
           found == Matching(q.pattern, q.file, q.where)
           goal == CommandAgrees(steps[i], PrintedLines(q), ValueStream(q))
<1>1. /\ WellFormed(q) /\ FilesOk /\ ~e.error /\ Reproducible(q)
      /\ steps[i].total = e.total /\ steps[i].lines = e.lines /\ steps[i].table = e.table
  BY Settles
<1>2. q.verb \in {"search", "count", "context", "read_lines", "tally", "timeline", "stats",
                  "extremes", "decode"}
  BY <1>1 DEF WellFormed, FetchVerbs, AggregateVerbs
<1> HIDE DEF e, q
<1>3. found \subseteq Refs
  BY DEF Matching
<1> HIDE DEF found
<1>4. CASE q.verb = "search"
  <2>1. e.total = Cardinality(found) /\ PrintedLines(q) = found
    BY <1>1, <1>4, FetchedTotal, MatchesArePrinted DEF e, found
  <2>2. Fetch(q) = Search(q, MaxResults) /\ ~Fetch(q).error
    BY <1>1, <1>4, FetchedLines DEF Fetch, e
  <2>3. Fetch(q).lines \subseteq found
    BY <2>2 DEF Search, Failed, Fetched, FirstRefs, found
  <2>4. ToSet(e.lines) = Fetch(q).lines
    BY <1>1, <1>3, <1>4, <2>3, FetchedLines DEF e
  <2>5. QED
    BY <1>1, <1>4, <2>1, <2>3, <2>4 DEF CommandAgrees, q
<1>5. CASE q.verb = "count"
  <2>1. e.total = Cardinality(found) /\ PrintedLines(q) = found
    BY <1>1, <1>5, FetchedTotal, MatchesArePrinted DEF e, found
  <2>2. e.lines = <<>>
    BY <1>5 DEF e, Executed, FetchVerbs, FetchStep, Answered
  <2>3. ToSet(e.lines) = {}
    BY <2>2 DEF ToSet
  <2>4. QED
    BY <1>1, <1>5, <2>1, <2>3 DEF CommandAgrees, q
<1>6. CASE q.verb = "context"
  <2>1. ReproducibleContext(q) => ToSet(e.lines) = PrintedLines(q)
    BY <1>1, <1>6, SpansArePrinted DEF e
  <2>2. QED
    BY <1>1, <1>6, <2>1 DEF CommandAgrees, q
<1>7. CASE q.verb = "read_lines"
  <2>1. ToSet(e.lines) = PrintedLines(q)
    BY <1>1, <1>7, SpansArePrinted DEF e
  <2>2. QED
    BY <1>1, <1>7, <2>1 DEF CommandAgrees, q
<1>8. CASE q.verb = "timeline"
  <2>1. PrintedLines(q) = found
    BY <1>1, <1>8, MatchesArePrinted DEF found
  <2>2. e.table = Timeline(q).table
    BY <1>8 DEF e, Executed, FetchVerbs, AggregateStep, Answered
  <2>3. ASSUME e.table # NoTable PROVE e.table.times = PrintedTimes(found)
    <3>1. e.table = Timing(Times(Dated(found)))
      BY <2>2, <2>3 DEF Timeline, Refused, NothingSelected, Aggregate, found
    <3>2. \A r \in found : OneStamp(LineAt(r))
      BY <1>1, <1>8 DEF Reproducible, found
    <3>3. PrintedTimes(found) = Times(Dated(found))
      BY <1>1, <1>3, <3>2, StampsArePrinted
    <3>4. QED
      BY <3>1, <3>3 DEF Timing
  <2>4. QED
    BY <1>1, <1>8, <2>1, <2>3 DEF CommandAgrees, q
<1>9. CASE q.verb \in {"tally", "stats", "extremes"}
  <2>1. e.table # NoTable =>
          /\ q.verb = "tally" => e.table.counts = CountsOf(ValueStream(q))
          /\ q.verb = "stats" => /\ e.table.count = Cardinality(ValueStream(q))
                                 /\ e.table.largest = Last(Series(ValueStream(q)))
          /\ /\ q.verb = "extremes" /\ q.field # NoSelector
             /\ \/ AllNumeric(ValueStream(q))
                \/ \A row \in ValueStream(q) : row.value \notin DOMAIN Number
             => e.table.keys = PrintedSizes(q)
    BY <1>1, <1>9, ValuesArePrinted DEF e
  <2>2. CASE q.verb = "tally"
    BY <1>1, <2>1, <2>2 DEF CommandAgrees, q
  <2>3. CASE q.verb = "stats"
    BY <1>1, <2>1, <2>3 DEF CommandAgrees, q
  <2>4. CASE q.verb = "extremes"
    BY <1>1, <2>1, <2>4 DEF CommandAgrees, q
  <2>5. QED
    BY <1>9, <2>2, <2>3, <2>4
<1>10. CASE q.verb = "decode"
  BY <1>10 DEF CommandAgrees, q
<1>11. QED
  BY <1>2, <1>4, <1>5, <1>6, <1>7, <1>8, <1>9, <1>10 DEF q

(***************************************************************************)
(* The results.                                                            *)
(***************************************************************************)

\* Every step in the ledger is the answer that its question has of the files as they are,
\* whenever it was given; so is the page the profile made.
THEOREM AnswersArePure == Spec => []QueriesInv
<1>1. Init => QueriesInv
  BY QueriesInit
<1>2. QueriesInv /\ [Next]_vars => QueriesInv'
  BY QueriesNext
<1>3. QED
  BY <1>1, <1>2, PTL DEF Spec

\* search, count and timeline never give two numbers for the same lines, nor does a verb
\* that selects values give one that differs by more than the comments it leaves out.
THEOREM NumbersAgree == Spec => []CountsAgree
BY AnswersArePure, CountsDoAgree, PTL

\* The counts of a predicate and of its negation add up to the lines that carry the field.
THEOREM NegationSplits == Spec => []WherePartitions
BY AnswersArePure, WhereDoesPartition, PTL

\* A tally loses no value and shows none twice, and its counts add up to those of stats.
THEOREM NothingFallsBetween == Spec => []TallyAddsUp
BY AnswersArePure, TallyIs, PTL

\* No line that extremes withholds holds more than a line it lists, and the first of them
\* is the one stats calls largest.
THEOREM NothingLargerIsHidden == Spec => []ExtremesAreTheTail
BY AnswersArePure, ExtremesAre, PTL

\* The distribution on the commander's page is the tally it gets when it asks for one.
THEOREM PageHolds == Spec => []ScopeIsATally
BY AnswersArePure, ScopeIs, PTL

\* Sessions leave out no moment, do not meet, and are told apart by larger gaps than any
\* they hold; profile and timeline make out the same ones.
THEOREM SessionsHold == Spec => []SessionsAgree
BY AnswersArePure, SessionsDoAgree, PTL

\* The command printed beside an answer yields what the answer says: the lines of a search
\* or a context, the moments of a timeline, the values that are counted, and the sizes of
\* extremes, for every question that holds nothing its command treats differently.
THEOREM CommandsHold == Spec => []CommandsReproduce
BY AnswersArePure, CommandsDoReproduce, PTL

=============================================================================
