------------------------- MODULE EvidenceLedgerProofs -------------------------
(***************************************************************************)
(* The ledger and its renderings, for any file, patterns, caps and budgets *)
(* that satisfy LedgerAssumption.                                          *)
(*                                                                         *)
(* Every result in the ledger is sound (SoundResult): what it lists and    *)
(* what it says it withholds are everything that matched, or what a decode *)
(* or a close_read makes of that. A question that was asked before gets an *)
(* earlier result, so this is an invariant of the ledger (LedgerInv) and   *)
(* not a fact about the verbs alone. The views cut the list further; how   *)
(* much of it fits a budget is a sum, and the two facts needed of it are   *)
(* that nothing fits any budget (ViewsAdd), and that the first lines of a  *)
(* step always do (SampleFits).                                            *)
(***************************************************************************)
EXTENDS EvidenceLedger, Integers, FiniteSetTheorems, FunctionTheorems, WellFoundedInduction, TLAPS

(***************************************************************************)
(* Least and largest members, and induction, as facts about sets.          *)
(***************************************************************************)

LEMMA LeastNat ==
  ASSUME NEW T, T \subseteq Nat, T # {}
  PROVE  \E n \in T : \A m \in T : n <= m
<1> DEFINE R == OpToRel(<, Nat)
<1>1. IsWellFoundedOn(R, Nat)
  BY NatLessThanWellFounded
<1>2. \A a, b \in Nat : a < b => <<a, b>> \in R
  BY DEF OpToRel
<1> HIDE DEF R
<1>3. PICK x \in T : \A y \in T : ~(<<y, x>> \in R)
  BY <1>1, WFMin
<1>4. ASSUME NEW y \in T PROVE x <= y
  <2>1. x \in Nat /\ y \in Nat
    OBVIOUS
  <2>2. ~(y < x)
    BY <1>2, <1>3, <2>1
  <2>3. QED
    BY <2>1, <2>2
<1>5. QED
  BY <1>4

LEMMA SetInduction ==
  ASSUME NEW T, 0 \in T, \A n \in Nat : n \in T => n + 1 \in T
  PROVE  Nat \subseteq T
<1> SUFFICES ASSUME Nat \ T # {} PROVE FALSE
  OBVIOUS
<1>1. PICK n \in Nat \ T : \A m \in Nat \ T : n <= m
  BY LeastNat
<1>2. n # 0 /\ n - 1 \in Nat
  BY <1>1
<1>3. n - 1 \in T
  BY <1>1, <1>2
<1>4. QED
  BY <1>1, <1>2, <1>3

\* A set of numbers up to N, with something in it, has a largest member.
LEMMA LargestUpto ==
  ASSUME NEW N \in Nat, NEW T \in SUBSET (0 .. N), T # {}
  PROVE  Max(T) \in T /\ \A n \in T : n <= Max(T)
<1> DEFINE below == {m \in Nat : N - m \in T}
<1>1. below # {}
  <2>1. PICK n \in T : TRUE
    OBVIOUS
  <2>2. N - n \in Nat /\ N - (N - n) = n
    BY <2>1
  <2>3. QED
    BY <2>1, <2>2
<1>2. PICK m \in below : \A k \in below : m <= k
  BY <1>1, LeastNat
<1>3. N - m \in T /\ \A n \in T : n <= N - m
  <2>1. ASSUME NEW n \in T PROVE n <= N - m
    <3>1. N - n \in Nat /\ N - (N - n) = n /\ n \in Nat
      OBVIOUS
    <3>2. m <= N - n
      BY <1>2, <3>1
    <3>3. QED
      BY <1>2, <3>1, <3>2
  <2>2. QED
    BY <1>2, <2>1
<1>4. \E x \in T : \A y \in T : x >= y
  <2>1. \A n \in T : N - m >= n
    BY <1>3, <1>2
  <2>2. QED
    BY <1>3, <2>1
<1>5. Max(T) \in T /\ \A y \in T : Max(T) >= y
  BY <1>4 DEF Max
<1>6. QED
  BY <1>5

LEMMA Smallest ==
  ASSUME NEW T \in SUBSET Nat, T # {}
  PROVE  Min(T) \in T
BY LeastNat DEF Min

(***************************************************************************)
(* Listings.                                                               *)
(***************************************************************************)

\* Members that are told apart by what is up to them are listed in full, each once.
LEMMA Listing ==
  ASSUME NEW S, IsFiniteSet(S), NEW upto \in [S -> SUBSET S],
         \A l \in S : l \in upto[l],
         \A l, m \in S : l # m =>
           \/ upto[l] \subseteq upto[m] /\ m \notin upto[l]
           \/ upto[m] \subseteq upto[l] /\ l \notin upto[m]
  PROVE  /\ InOrder(S, upto) \in Seq(S) /\ Len(InOrder(S, upto)) = Cardinality(S)
         /\ \A l \in S : \E n \in 1 .. Cardinality(S) : InOrder(S, upto)[n] = l
         /\ IsInjective(InOrder(S, upto))
<1> DEFINE N == Cardinality(S)
           T == 1 .. N
           place == [l \in S |-> Cardinality(upto[l])]
           chosen(n) == CHOOSE l \in S : Cardinality(upto[l]) = n
<1>0. N \in Nat /\ IsFiniteSet(T) /\ Cardinality(T) = N
  BY FS_CardinalityType, FS_Interval
<1>1. \A l \in S : /\ IsFiniteSet(upto[l]) /\ Cardinality(upto[l]) \in Nat
                   /\ Cardinality(upto[l]) <= N /\ Cardinality(upto[l]) # 0
  <2> TAKE l \in S
  <2>1. upto[l] \in SUBSET S
    OBVIOUS
  <2>2. IsFiniteSet(upto[l]) /\ Cardinality(upto[l]) <= N
    BY <2>1, FS_Subset
  <2>3. QED
    BY <2>2, FS_CardinalityType, FS_EmptySet
<1>2. place \in [S -> T]
  BY <1>0, <1>1
<1>3. \A l, m \in S : place[l] = place[m] => l = m
  <2> SUFFICES ASSUME NEW l \in S, NEW m \in S, place[l] = place[m], l # m PROVE FALSE
    OBVIOUS
  <2>1. \A x, y \in S : upto[x] \subseteq upto[y] /\ Cardinality(upto[x]) = Cardinality(upto[y])
                          => upto[x] = upto[y]
    BY <1>1, FS_Subset
  <2>2. upto[l] = upto[m]
    BY <2>1
  <2>3. QED
    BY <2>2
<1> HIDE DEF N, T
<1>4. place \in Surjection(S, T)
  <2>1. place \in Injection(S, T)
    BY <1>2, <1>3, Fun_IsInj
  <2> HIDE DEF place
  <2>2. Cardinality(S) = Cardinality(T)
    BY <1>0 DEF N
  <2>3. QED
    BY <1>0, <2>1, <2>2, FS_Injection
<1>5. \A n \in T : \E l \in S : place[l] = n
  <2> HIDE DEF place
  <2>1. QED
    BY <1>4, Fun_SurjectionProperties
<1>6. \A n \in T : chosen(n) \in S /\ place[chosen(n)] = n
  BY <1>5
<1>7. InOrder(S, upto) = [n \in T |-> chosen(n)]
  BY DEF InOrder, T, N
<1> HIDE DEF chosen
<1>8. InOrder(S, upto) \in Seq(S) /\ Len(InOrder(S, upto)) = N
  <2> DEFINE F == [n \in T |-> chosen(n)]
  <2>1. F \in [1 .. N -> S]
    BY <1>6 DEF T
  <2> HIDE DEF F
  <2>2. F \in Seq(S) /\ Len(F) = N
    BY <1>0, <2>1
  <2>3. QED
    BY <1>7, <2>2 DEF F
<1>9. \A l \in S : place[l] \in T /\ InOrder(S, upto)[place[l]] = l
  <2> TAKE l \in S
  <2> HIDE DEF place
  <2>1. place[l] \in T
    BY <1>2
  <2>2. chosen(place[l]) \in S /\ place[chosen(place[l])] = place[l]
    BY <1>6, <2>1
  <2>3. chosen(place[l]) = l
    BY <1>3, <2>2
  <2>4. QED
    BY <1>7, <2>1, <2>3
<1>10. IsInjective(InOrder(S, upto))
  <2> HIDE DEF place
  <2>1. \A m, n \in T : chosen(m) = chosen(n) => m = n
    BY <1>6
  <2>2. DOMAIN InOrder(S, upto) = T /\ \A n \in T : InOrder(S, upto)[n] = chosen(n)
    BY <1>7
  <2>3. QED
    BY <2>1, <2>2 DEF IsInjective
<1>11. QED
  BY <1>8, <1>9, <1>10 DEF N, T

\* The first entries of a listing.
LEMMA First ==
  ASSUME NEW X, NEW s \in Seq(X), NEW n \in Nat
  PROVE  /\ FirstOf(n, s) \in Seq(X)
         /\ Len(FirstOf(n, s)) = IF n < Len(s) THEN n ELSE Len(s)
         /\ \A i \in 1 .. Len(FirstOf(n, s)) : FirstOf(n, s)[i] = s[i]
         /\ ToSet(FirstOf(n, s)) \subseteq ToSet(s)
         /\ IsInjective(s) => IsInjective(FirstOf(n, s))
<1> DEFINE N == Len(s)
           k == IF n < N THEN n ELSE N
<1>1. N \in Nat /\ k \in Nat /\ k <= N /\ DOMAIN s = 1 .. N
  OBVIOUS
<1>2. FirstOf(n, s) = SubSeq(s, 1, k)
  BY DEF FirstOf
<1> HIDE DEF k
<1>3. /\ SubSeq(s, 1, k) \in Seq(X) /\ Len(SubSeq(s, 1, k)) = k
      /\ \A i \in 1 .. k : SubSeq(s, 1, k)[i] = s[i]
  BY <1>1
<1>4. ToSet(SubSeq(s, 1, k)) \subseteq ToSet(s)
  BY <1>1, <1>3 DEF ToSet
<1>5. IsInjective(s) => IsInjective(SubSeq(s, 1, k))
  <2>1. DOMAIN SubSeq(s, 1, k) = 1 .. k /\ \A i \in 1 .. k : i \in DOMAIN s
    BY <1>1, <1>3
  <2>2. QED
    BY <1>3, <2>1 DEF IsInjective
<1>6. QED
  BY <1>1, <1>2, <1>3, <1>4, <1>5 DEF k

\* Numbers that LedgerAssumption says are positive.
LEMMA Limits ==
  /\ NumLines \in Nat \ {0} /\ MaxResults \in Nat \ {0} /\ ExtremesShown \in Nat \ {0}
  /\ DecodeShown \in Nat \ {0} /\ MaxCloseRead \in Nat \ {0} /\ CloseReadShown \in Nat \ {0}
  /\ Around \in Nat \ {0} /\ RenderedInFull \in Nat \ {0} /\ Sample \in Nat \ {0}
  /\ LineMax \in Nat \ {0} /\ LineBudget \in Nat \ {0}
BY LedgerAssumption

LEMMA LinesAreFinite ==
  ASSUME NEW S \in SUBSET Lines
  PROVE  IsFiniteSet(S) /\ Cardinality(S) \in Nat
<1>1. IsFiniteSet(Lines)
  BY Limits, FS_Interval DEF Lines
<1>2. QED
  BY <1>1, FS_Subset, FS_CardinalityType

\* Both orders list a set of lines in full.
LEMMA InFileOrderLists ==
  ASSUME NEW S \in SUBSET Lines
  PROVE  /\ InFileOrder(S) \in Seq(Lines) /\ Len(InFileOrder(S)) = Cardinality(S)
         /\ IsInjective(InFileOrder(S))
<1> DEFINE upto == [l \in S |-> {m \in S : m <= l}]
<1>1. \A l \in S : l \in Int
  BY DEF Lines
<1>2. upto \in [S -> SUBSET S] /\ \A l \in S : l \in upto[l]
  BY <1>1
<1>3. ASSUME NEW l \in S, NEW m \in S, l # m
      PROVE  \/ upto[l] \subseteq upto[m] /\ m \notin upto[l]
             \/ upto[m] \subseteq upto[l] /\ l \notin upto[m]
  <2>1. l \in Int /\ m \in Int
    BY <1>1
  <2>2. CASE l < m
    <3>1. \A k \in S : k <= l => k <= m
      BY <1>1, <2>1, <2>2
    <3>2. ~(m <= l)
      BY <2>1, <2>2
    <3>3. QED
      BY <3>1, <3>2
  <2>3. CASE m < l
    <3>1. \A k \in S : k <= m => k <= l
      BY <1>1, <2>1, <2>3
    <3>2. ~(l <= m)
      BY <2>1, <2>3
    <3>3. QED
      BY <3>1, <3>2
  <2>4. QED
    BY <1>3, <2>1, <2>2, <2>3
<1>4. IsFiniteSet(S)
  BY LinesAreFinite
<1> HIDE DEF upto
<1>5. /\ InOrder(S, upto) \in Seq(S) /\ Len(InOrder(S, upto)) = Cardinality(S)
      /\ IsInjective(InOrder(S, upto))
  BY <1>2, <1>3, <1>4, Listing
<1>6. Seq(S) \subseteq Seq(Lines)
  OBVIOUS
<1>7. QED
  BY <1>5, <1>6 DEF InFileOrder, upto

LEMMA LargestFirstLists ==
  ASSUME NEW S \in SUBSET Lines
  PROVE  /\ LargestFirst(S) \in Seq(Lines) /\ Len(LargestFirst(S)) = Cardinality(S)
         /\ IsInjective(LargestFirst(S))
<1> DEFINE before(m, l) == Width[m] > Width[l] \/ (Width[m] = Width[l] /\ m <= l)
           upto == [l \in S |-> {m \in S : before(m, l)}]
<1>1. \A l \in S : l \in Int /\ Width[l] \in Int
  BY LedgerAssumption DEF Lines
<1>2. /\ \A l \in S : before(l, l)
      /\ \A l, m \in S : before(l, m) \/ before(m, l)
      /\ \A l, m \in S : before(l, m) /\ before(m, l) => l = m
      /\ \A k, l, m \in S : before(k, l) /\ before(l, m) => before(k, m)
  BY <1>1
<1> HIDE DEF before
<1>3. upto \in [S -> SUBSET S] /\ \A l \in S : l \in upto[l]
  BY <1>2
<1>4. ASSUME NEW l \in S, NEW m \in S, l # m
      PROVE  \/ upto[l] \subseteq upto[m] /\ m \notin upto[l]
             \/ upto[m] \subseteq upto[l] /\ l \notin upto[m]
  <2>1. \A x, y \in S : before(x, y) => upto[x] \subseteq upto[y]
    BY <1>2
  <2>2. \A x, y \in S : x \in upto[y] <=> before(x, y)
    OBVIOUS
  <2>3. QED
    BY <1>2, <1>4, <2>1, <2>2
<1>5. IsFiniteSet(S)
  BY LinesAreFinite
<1> HIDE DEF upto
<1>6. /\ InOrder(S, upto) \in Seq(S) /\ Len(InOrder(S, upto)) = Cardinality(S)
      /\ IsInjective(InOrder(S, upto))
  BY <1>3, <1>4, <1>5, Listing
<1>7. Seq(S) \subseteq Seq(Lines)
  OBVIOUS
<1>8. LargestFirst(S) = InOrder(S, upto)
  BY DEF LargestFirst, upto, before
<1>9. QED
  BY <1>6, <1>7, <1>8

(***************************************************************************)
(* Results.                                                                *)
(***************************************************************************)

\* A result, and what it says of the lines it does not list. Search, extremes, context and
\* read_lines list no line twice and count all that matched.
ResultType ==
  [error : BOOLEAN, lines : Seq(Lines), total_matches : Nat, truncated : Nat]

Plainly(r) ==
  /\ IsInjective(r.lines)
  /\ r.lines # <<>> => Len(r.lines) + r.truncated = r.total_matches

\* A decode counts the larger of its texts and the lines.
Decodedly(r) ==
  r.lines # <<>> =>
    LET told == Len(r.lines) + r.truncated
    IN /\ told \in {r.total_matches, Len(r.lines)}
       /\ told >= r.total_matches /\ told >= Len(r.lines)

\* A close_read counts what its worker cites.
Readingly(r) ==
  /\ IsInjective(r.lines) /\ r.truncated = 0
  /\ r.lines # <<>> => Len(r.lines) <= r.total_matches

SoundResult(kind, r) ==
  /\ r \in ResultType
  /\ kind = "decode" => Decodedly(r)
  /\ kind = "close_read" => Readingly(r)
  /\ kind \notin {"decode", "close_read"} => Plainly(r)

LEMMA EmptyIsSound ==
  \A kind : SoundResult(kind, Failed) /\ \A n \in Nat : SoundResult(kind, Result(<<>>, n, 0))
<1>1. IsInjective(<<>>)
  BY DEF IsInjective
<1>2. QED
  BY <1>1 DEF SoundResult, Plainly, Decodedly, Readingly, ResultType, Result, Failed

\* The head of a full listing of some of the lines that matched.
LEMMA HeadIsSound ==
  ASSUME NEW listing \in Seq(Lines), IsInjective(listing), NEW n \in Nat,
         NEW total \in Nat, Len(listing) <= total,
         NEW kind, kind \notin {"decode", "close_read"}
  PROVE  SoundResult(kind,
           Result(FirstOf(n, listing), total, total - Len(FirstOf(n, listing))))
<1> DEFINE hits == FirstOf(n, listing)
<1>1. /\ hits \in Seq(Lines) /\ Len(hits) \in Nat /\ Len(hits) <= Len(listing)
      /\ IsInjective(hits)
  BY First
<1> HIDE DEF hits
<1>2. total - Len(hits) \in Nat /\ Len(hits) + (total - Len(hits)) = total
  BY <1>1
<1>3. SoundResult(kind, Result(hits, total, total - Len(hits)))
  BY <1>1, <1>2 DEF SoundResult, Plainly, ResultType, Result
<1>4. QED
  BY <1>3 DEF hits

\* All the lines of a set.
LEMMA WholeIsSound ==
  ASSUME NEW listing \in Seq(Lines), IsInjective(listing),
         NEW kind, kind \notin {"decode", "close_read"}
  PROVE  SoundResult(kind, Result(listing, Len(listing), 0))
<1>1. Len(listing) \in Nat
  OBVIOUS
<1>2. QED
  BY <1>1 DEF SoundResult, Plainly, ResultType, Result

\* The texts of a decode are listed as lines of the file.
LEMMA DecodeIsSound ==
  ASSUME NEW p \in Patterns
  PROVE  SoundResult("decode", Decode(p))
<1> DEFINE texts == UNION {{<<l, k>> : k \in 1 .. Decoded[l]} : l \in Matches[p] \cap Valued}
           upto == [t \in texts |->
                      {u \in texts : u[1] < t[1] \/ (u[1] = t[1] /\ u[2] <= t[2])}]
           inOrder == InOrder(texts, upto)
           listing == [i \in DOMAIN inOrder |-> inOrder[i][1]]
           hits == FirstOf(DecodeShown, listing)
           matched == Cardinality(Matches[p])
           rest == IF matched > Len(hits) THEN matched - Len(hits) ELSE 0
<1>1. Matches[p] \in SUBSET Lines /\ Valued \in SUBSET Lines /\ matched \in Nat
  BY LedgerAssumption, LinesAreFinite
<1>2. texts \subseteq Lines \X Nat /\ IsFiniteSet(texts)
  <2>1. \A l \in Lines : Decoded[l] \in Nat
    BY LedgerAssumption
  <2>2. texts \subseteq Lines \X Nat
    BY <1>1, <2>1
  <2>3. \A l \in Lines : IsFiniteSet({<<l, k>> : k \in 1 .. Decoded[l]})
    <3> TAKE l \in Lines
    <3>1. IsFiniteSet(1 .. Decoded[l])
      BY <2>1, FS_Interval
    <3> DEFINE f == [k \in 1 .. Decoded[l] |-> <<l, k>>]
    <3>2. f \in Surjection(1 .. Decoded[l], {<<l, k>> : k \in 1 .. Decoded[l]})
      BY DEF Surjection
    <3> HIDE DEF f
    <3>3. QED
      BY <3>1, <3>2, FS_Surjection
  <2> DEFINE ofLine == {{<<l, k>> : k \in 1 .. Decoded[l]} : l \in Matches[p] \cap Valued}
             g == [l \in Matches[p] \cap Valued |-> {<<l, k>> : k \in 1 .. Decoded[l]}]
  <2>4. IsFiniteSet(Matches[p] \cap Valued)
    BY <1>1, LinesAreFinite
  <2>5. g \in Surjection(Matches[p] \cap Valued, ofLine)
    BY DEF Surjection
  <2> HIDE DEF g
  <2>6. IsFiniteSet(ofLine)
    <3> HIDE DEF ofLine
    <3>1. QED
      BY <2>4, <2>5, FS_Surjection
  <2>7. \A T \in ofLine : IsFiniteSet(T)
    BY <1>1, <2>3
  <2> HIDE DEF ofLine
  <2>8. IsFiniteSet(UNION ofLine)
    BY <2>6, <2>7, FS_UNION
  <2>9. QED
    BY <2>2, <2>8 DEF ofLine
<1>3. inOrder \in Seq(texts)
  <2> DEFINE before(u, t) == u[1] < t[1] \/ (u[1] = t[1] /\ u[2] <= t[2])
  <2> HIDE DEF texts
  <2>1. \A t \in texts : t[1] \in Int /\ t[2] \in Int /\ t = <<t[1], t[2]>>
    BY <1>2 DEF Lines
  <2>2. /\ \A t \in texts : before(t, t)
        /\ \A t, u \in texts : before(t, u) \/ before(u, t)
        /\ \A s, t, u \in texts : before(s, t) /\ before(t, u) => before(s, u)
    BY <2>1
  <2>3. \A t, u \in texts : before(t, u) /\ before(u, t) => t = u
    <3> TAKE t \in texts, u \in texts
    <3> HAVE before(t, u) /\ before(u, t)
    <3>1. t[1] = u[1] /\ t[2] = u[2]
      BY <2>1
    <3>2. QED
      BY <2>1, <3>1
  <2>4. upto = [t \in texts |-> {u \in texts : before(u, t)}]
    OBVIOUS
  <2> HIDE DEF before, upto
  <2>5. upto \in [texts -> SUBSET texts] /\ \A t \in texts : t \in upto[t]
    BY <2>2, <2>4
  <2>6. ASSUME NEW t \in texts, NEW u \in texts, t # u
        PROVE  \/ upto[t] \subseteq upto[u] /\ u \notin upto[t]
               \/ upto[u] \subseteq upto[t] /\ t \notin upto[u]
    <3>1. \A x, y \in texts : before(x, y) => upto[x] \subseteq upto[y]
      BY <2>2, <2>4
    <3>2. \A x, y \in texts : x \in upto[y] <=> before(x, y)
      BY <2>4
    <3>3. QED
      BY <2>2, <2>3, <2>6, <3>1, <3>2
  <2>7. QED
    BY <1>2, <2>5, <2>6, Listing
<1>4. listing \in Seq(Lines)
  <2>1. \A t \in texts : t[1] \in Lines
    BY <1>2
  <2> HIDE DEF texts, inOrder
  <2>2. Len(inOrder) \in Nat /\ DOMAIN inOrder = 1 .. Len(inOrder)
        /\ \A i \in DOMAIN inOrder : inOrder[i] \in texts
    BY <1>3
  <2>3. listing \in [1 .. Len(inOrder) -> Lines]
    BY <2>1, <2>2
  <2>4. QED
    BY <2>2, <2>3
<1>5. hits \in Seq(Lines) /\ Len(hits) \in Nat
  <2> HIDE DEF listing
  <2>1. QED
    BY <1>4, First, Limits
<1>6. Decode(p) = CASE Matches[p] \cap Valued = {} -> Result(<<>>, 0, 0)
                    [] Matches[p] \cap Valued # {} /\ hits = <<>> -> Result(<<>>, matched, 0)
                    [] OTHER -> Result(hits, matched, rest)
  BY Zenon DEF Decode
<1> HIDE DEF hits, matched
<1>7. rest \in Nat /\ Len(hits) + rest \in {matched, Len(hits)}
      /\ Len(hits) + rest >= matched /\ Len(hits) + rest >= Len(hits)
  BY <1>1, <1>5
<1> HIDE DEF rest
<1>8. SoundResult("decode", Result(hits, matched, rest))
  BY <1>1, <1>5, <1>7 DEF SoundResult, Decodedly, ResultType, Result
<1>9. QED
  BY <1>1, <1>6, <1>8, EmptyIsSound

\* A worker cites lines of what it read.
LEMMA ReadingIsSound ==
  ASSUME NEW range \in Ranges, NEW r \in CloseReads(range)
  PROVE  SoundResult("close_read", r)
<1> DEFINE most == FirstOf(MaxCloseRead, InRange(range))
           read(n) == FirstOf(n, most)
<1>1. most \in Seq(Lines) /\ IsInjective(most)
  <2>1. InRange(range) \in Seq(Lines) /\ IsInjective(InRange(range))
    BY InFileOrderLists DEF InRange
  <2>2. QED
    BY <2>1, First, Limits
<1>2. CASE r = Failed
  BY <1>2, EmptyIsSound
<1>3. ASSUME NEW n \in 1 .. Len(most), NEW cited \in SUBSET ToSet(read(n)),
             r = Reading(read(n), cited)
      PROVE  SoundResult("close_read", r)
  <2> DEFINE text == read(n)
  <2>1. text \in Seq(Lines) /\ IsInjective(text) /\ Len(text) \in Nat
    <3> HIDE DEF most
    <3>1. n \in Nat
      OBVIOUS
    <3>2. QED
      BY <1>1, <3>1, First
  <2>2. cited \in SUBSET ToSet(text) /\ r = Reading(text, cited)
    BY <1>3
  <2> HIDE DEF text
  <2>3. ToSet(text) \in SUBSET Lines /\ Cardinality(ToSet(text)) <= Len(text)
    <3>1. ToSet(text) \in SUBSET Lines
      BY <2>1 DEF ToSet
    <3>2. text \in Surjection(1 .. Len(text), ToSet(text))
      <4>1. text \in [1 .. Len(text) -> Lines] /\ DOMAIN text = 1 .. Len(text)
        BY <2>1
      <4>2. ToSet(text) = {text[i] : i \in 1 .. Len(text)}
        BY <4>1 DEF ToSet
      <4>3. text \in [1 .. Len(text) -> ToSet(text)]
        BY <4>1, <4>2
      <4>4. \A l \in ToSet(text) : \E i \in 1 .. Len(text) : text[i] = l
        BY <4>2
      <4>5. QED
        BY <4>3, <4>4, Fun_IsSurj
    <3>3. IsFiniteSet(1 .. Len(text)) /\ Cardinality(1 .. Len(text)) = Len(text)
      <4>1. \A N \in Nat : IsFiniteSet(1 .. N) /\ Cardinality(1 .. N) = N
        BY FS_Interval
      <4>2. QED
        BY <2>1, <4>1
    <3>4. Cardinality(ToSet(text)) <= Cardinality(1 .. Len(text))
      BY <3>2, <3>3, FS_Surjection
    <3>5. QED
      BY <3>1, <3>3, <3>4
  <2> DEFINE shown == IF cited = {} THEN FirstOf(CloseReadShown, text) ELSE InFileOrder(cited)
  <2>4. shown \in Seq(Lines) /\ IsInjective(shown) /\ Len(shown) <= Len(text)
    <3>1. CASE cited = {}
      BY <2>1, <3>1, First, Limits
    <3>2. CASE cited # {}
      <4>1. cited \in SUBSET Lines /\ IsFiniteSet(ToSet(text))
        BY <2>2, <2>3, LinesAreFinite
      <4>2. Cardinality(cited) <= Cardinality(ToSet(text)) /\ Cardinality(cited) \in Nat
            /\ Cardinality(ToSet(text)) \in Nat
        BY <2>2, <2>3, <4>1, FS_Subset, LinesAreFinite
      <4>3. QED
        BY <2>1, <2>3, <3>2, <4>1, <4>2, InFileOrderLists
    <3>3. QED
      BY <3>1, <3>2
  <2>5. r = Result(shown, Len(text), 0)
    BY <2>2, Zenon DEF Reading
  <2> HIDE DEF shown
  <2>6. QED
    BY <2>1, <2>4, <2>5 DEF SoundResult, Readingly, ResultType, Result
<1>4. r = Failed \/ \E n \in 1 .. Len(most) :
                      \E cited \in SUBSET ToSet(read(n)) : r = Reading(read(n), cited)
  <2>1. CloseReads(range) =
          {Failed} \cup
          UNION {{Reading(read(n), cited) : cited \in SUBSET ToSet(read(n))} : n \in 1 .. Len(most)}
    BY Zenon DEF CloseReads
  <2> HIDE DEF most, read
  <2>2. QED
    BY <2>1
<1>5. QED
  BY <1>2, <1>3, <1>4

LEMMA FoundIsSound ==
  ASSUME NEW q \in Questions, q.kind # "close_read"
  PROVE  SoundResult(q.kind, Found(q))
<1>1. CASE q.kind \in {"search", "count", "extremes"} /\ q.about \in Patterns
  <2> DEFINE S == Matches[q.about]
  <2>1. S \in SUBSET Lines /\ S \cap Valued \in SUBSET Lines /\ S \cap Valued \in SUBSET S
    BY <1>1, LedgerAssumption
  <2>2. Cardinality(S) \in Nat /\ Cardinality(S \cap Valued) <= Cardinality(S)
    <3> HIDE DEF S
    <3>1. IsFiniteSet(S)
      BY <2>1, LinesAreFinite
    <3>2. QED
      BY <2>1, <3>1, LinesAreFinite, FS_Subset
  <2>3. CASE q.kind = "search"
    <3>1. Found(q) = Search(q.about)
      BY <2>3 DEF Found
    <3>2. InFileOrder(S) \in Seq(Lines) /\ Len(InFileOrder(S)) <= Cardinality(S)
          /\ IsInjective(InFileOrder(S))
      BY <2>1, <2>2, InFileOrderLists
    <3>3. SoundResult("search", Search(q.about))
      BY <2>2, <3>2, HeadIsSound, Limits DEF Search
    <3>4. QED
      BY <2>3, <3>1, <3>3
  <2>4. CASE q.kind = "count"
    <3>1. Found(q) = Result(<<>>, Cardinality(S), 0)
      BY <2>4 DEF Found, Count
    <3>2. QED
      BY <2>2, <2>4, <3>1, EmptyIsSound
  <2>5. CASE q.kind = "extremes"
    <3>1. Found(q) = Extremes(q.about)
      BY <2>5 DEF Found
    <3>2. LargestFirst(S \cap Valued) \in Seq(Lines)
          /\ Len(LargestFirst(S \cap Valued)) <= Cardinality(S)
          /\ IsInjective(LargestFirst(S \cap Valued))
      BY <2>1, <2>2, LargestFirstLists
    <3>3. SoundResult("extremes", Extremes(q.about))
      BY <2>2, <3>2, HeadIsSound, EmptyIsSound, Limits DEF Extremes
    <3>4. QED
      BY <2>5, <3>1, <3>3
  <2>6. QED
    BY <1>1, <2>3, <2>4, <2>5
<1>2. CASE q.kind = "context" /\ q.about \in Lines
  <2> DEFINE W == Window(q.about)
  <2>1. W \in SUBSET Lines
    BY <1>2, Limits DEF Window, Lines
  <2> HIDE DEF W
  <2>2. /\ InFileOrder(W) \in Seq(Lines) /\ Len(InFileOrder(W)) = Cardinality(W)
        /\ IsInjective(InFileOrder(W))
    BY <2>1, InFileOrderLists
  <2>3. SoundResult("context", Result(InFileOrder(W), Cardinality(W), 0))
    BY <2>2, WholeIsSound
  <2>4. Found(q) = Result(InFileOrder(W), Cardinality(W), 0)
    BY <1>2 DEF Found, Context, W
  <2>5. QED
    BY <1>2, <2>3, <2>4
<1>3. CASE q.kind = "bad_request"
  BY <1>3, EmptyIsSound DEF Found
<1>4. CASE q.kind = "read_lines" /\ q.about \in Ranges
  <2>1. InRange(q.about) \in Seq(Lines) /\ IsInjective(InRange(q.about))
    BY InFileOrderLists DEF InRange
  <2>2. SoundResult("read_lines", ReadLines(q.about))
    BY <2>1, WholeIsSound, EmptyIsSound DEF ReadLines
  <2>3. Found(q) = ReadLines(q.about)
    BY <1>4 DEF Found
  <2>4. QED
    BY <1>4, <2>2, <2>3
<1>5. CASE q.kind = "decode" /\ q.about \in Patterns
  <2>1. Found(q) = Decode(q.about)
    BY <1>5 DEF Found
  <2>2. QED
    BY <1>5, <2>1, DecodeIsSound
<1>6. QED
  BY <1>1, <1>2, <1>3, <1>4, <1>5 DEF Questions

(***************************************************************************)
(* Views.                                                                  *)
(***************************************************************************)

\* The sum that Spent takes exists: it is defined by recursion.
LEMMA SumExists ==
  ASSUME NEW size, NEW n \in Nat
  PROVE  \E c : c = [i \in 0 .. n |-> IF i = 0 THEN 0 ELSE c[i - 1] + size[i]]
<1> DEFINE sum(c, m) == c = [i \in 0 .. m |-> IF i = 0 THEN 0 ELSE c[i - 1] + size[i]]
           T == {m \in Nat : \E c : sum(c, m)}
<1>1. 0 \in T
  <2>1. sum([i \in 0 .. 0 |-> 0], 0)
    OBVIOUS
  <2>2. QED
    BY <2>1
<1>2. ASSUME NEW m \in Nat, m \in T PROVE m + 1 \in T
  <2>1. PICK c : sum(c, m)
    BY <1>2
  <2> DEFINE d == [i \in 0 .. m + 1 |-> IF i = m + 1 THEN c[m] + size[m + 1] ELSE c[i]]
  <2>2. \A i \in 0 .. m + 1 : i = m + 1 \/ i \in 0 .. m
    OBVIOUS
  <2>3. \A i \in 0 .. m + 1 : d[i] = IF i = 0 THEN 0 ELSE d[i - 1] + size[i]
    <3> TAKE i \in 0 .. m + 1
    <3>1. CASE i = m + 1
      <4>1. d[i] = c[m] + size[i] /\ i # 0 /\ i - 1 = m /\ m \in 0 .. m + 1 /\ m # m + 1
        BY <3>1
      <4>2. d[m] = c[m]
        BY <4>1
      <4>3. QED
        BY <4>1, <4>2
    <3>2. CASE i \in 0 .. m
      <4>1. i # m + 1 /\ d[i] = c[i]
        BY <3>2
      <4>2. c[i] = IF i = 0 THEN 0 ELSE c[i - 1] + size[i]
        BY <2>1, <3>2
      <4>3. i # 0 => i - 1 \in 0 .. m + 1 /\ i - 1 # m + 1
        BY <3>2
      <4>4. i # 0 => d[i - 1] = c[i - 1]
        BY <4>3
      <4>5. QED
        BY <4>1, <4>2, <4>4
    <3>3. QED
      BY <2>2, <3>1, <3>2
  <2>4. d = [i \in 0 .. m + 1 |-> IF i = 0 THEN 0 ELSE d[i - 1] + size[i]]
    <3>1. d = [i \in 0 .. m + 1 |-> d[i]]
      OBVIOUS
    <3> HIDE DEF d
    <3>2. QED
      BY <2>3, <3>1
  <2>5. sum(d, m + 1)
    BY <2>4
  <2> HIDE DEF d, sum
  <2>6. QED
    BY <2>5
<1> HIDE DEF sum
<1>3. Nat \subseteq T
  <2> HIDE DEF T
  <2>1. QED
    BY <1>1, <1>2, SetInduction
<1>4. \E c : sum(c, n)
  BY <1>3
<1>5. QED
  BY <1>4 DEF sum

\* Nothing spends nothing, and n entries cut to max spend at most n times as much.
LEMMA SpentIsBounded ==
  ASSUME NEW lines \in Seq(Lines), NEW max \in Nat, NEW n \in 0 .. Len(lines)
  PROVE  /\ Spent(lines, n, max) \in Nat /\ Spent(lines, n, max) <= n * max
         /\ Spent(lines, 0, max) = 0
<1> DEFINE size(i) == IF Width[lines[i]] < max THEN Width[lines[i]] ELSE max
           body(c, m) == [i \in 0 .. m |-> IF i = 0 THEN 0 ELSE c[i - 1] + size(i)]
           chars(m) == CHOOSE c : c = body(c, m)
<1>1. \A m : Spent(lines, m, max) = chars(m)[m]
  BY Zenon DEF Spent
<1>2. Len(lines) \in Nat /\ n \in Nat /\ n <= Len(lines) /\ \A i \in 1 .. n : lines[i] \in Lines
  OBVIOUS
<1>3. \A i \in 1 .. n : size(i) \in Nat /\ size(i) <= max
  <2>1. \A i \in 1 .. n : Width[lines[i]] \in Nat
    BY <1>2, LedgerAssumption
  <2>2. QED
    BY <2>1
<1>4. \A m \in Nat : chars(m) = body(chars(m), m)
  <2> TAKE m \in Nat
  <2> DEFINE sizes == [i \in 1 .. m |-> size(i)]
  <2>1. PICK c : c = [i \in 0 .. m |-> IF i = 0 THEN 0 ELSE c[i - 1] + sizes[i]]
    BY SumExists
  <2>2. \A i \in 0 .. m : i # 0 => sizes[i] = size(i)
    OBVIOUS
  <2> HIDE DEF sizes, size
  <2>3. c = body(c, m)
    BY <2>1, <2>2
  <2>4. QED
    BY <2>3
<1> HIDE DEF size, chars
<1>5. Spent(lines, 0, max) = 0
  <2>1. chars(0) = body(chars(0), 0)
    BY <1>4
  <2>2. 0 \in 0 .. 0
    OBVIOUS
  <2>3. chars(0)[0] = 0
    BY <2>1, <2>2
  <2>4. QED
    BY <1>1, <2>3
<1> DEFINE T == {i \in Nat : i <= n => chars(n)[i] \in Nat /\ chars(n)[i] <= i * max}
<1>6. \A i \in 0 .. n : chars(n)[i] = IF i = 0 THEN 0 ELSE chars(n)[i - 1] + size(i)
  <2>1. chars(n) = body(chars(n), n)
    BY <1>2, <1>4
  <2> DEFINE f == chars(n)
  <2>2. f = [i \in 0 .. n |-> IF i = 0 THEN 0 ELSE f[i - 1] + size(i)]
    BY <2>1
  <2> HIDE DEF f
  <2>3. \A i \in 0 .. n : f[i] = IF i = 0 THEN 0 ELSE f[i - 1] + size(i)
    BY <2>2
  <2>4. QED
    BY <2>3 DEF f
<1>7. 0 \in T
  <2>1. chars(n)[0] = 0
    BY <1>2, <1>6
  <2>2. QED
    BY <2>1
<1>8. ASSUME NEW i \in Nat, i \in T PROVE i + 1 \in T
  <2> SUFFICES ASSUME i + 1 <= n
               PROVE  chars(n)[i + 1] \in Nat /\ chars(n)[i + 1] <= (i + 1) * max
    OBVIOUS
  <2>1. i + 1 \in 0 .. n /\ i + 1 \in 1 .. n /\ i + 1 # 0 /\ i <= n /\ (i + 1) - 1 = i
    BY <1>2
  <2>2. chars(n)[i + 1] = chars(n)[i] + size(i + 1)
    BY <1>6, <2>1
  <2>3. chars(n)[i] \in Nat /\ chars(n)[i] <= i * max
    BY <1>8, <2>1
  <2>4. size(i + 1) \in Nat /\ size(i + 1) <= max
    BY <1>3, <2>1
  <2>5. (i + 1) * max = i * max + max /\ i * max \in Nat
    OBVIOUS
  <2>6. QED
    BY <2>2, <2>3, <2>4, <2>5
<1>9. n \in T
  <2>1. Nat \subseteq T
    <3> HIDE DEF T
    <3>1. QED
      BY <1>7, <1>8, SetInduction
  <2>2. QED
    BY <1>2, <2>1
<1>10. QED
  BY <1>1, <1>2, <1>5, <1>9

\* The entries that fit the budget of a step: a number of them, and no fewer than the
\* sample of a step that has collapsed.
LEMMA SampleFits ==
  ASSUME NEW lines \in Seq(Lines)
  PROVE  LET fit == Max({n \in 0 .. Len(lines) : Spent(lines, n, LineMax) <= LineBudget})
         IN fit \in 0 .. Len(lines) /\ (fit >= Sample \/ fit = Len(lines))
<1> DEFINE N == Len(lines)
           fits == {n \in 0 .. N : Spent(lines, n, LineMax) <= LineBudget}
           least == IF N < Sample THEN N ELSE Sample
<1>1. N \in Nat /\ least \in 0 .. N /\ least <= Sample
  BY Limits
<1>2. least \in fits
  <2>1. Spent(lines, least, LineMax) \in Nat /\ Spent(lines, least, LineMax) <= least * LineMax
    BY <1>1, SpentIsBounded, Limits
  <2>2. least * LineMax <= Sample * LineMax
    BY <1>1, Limits
  <2>3. Sample * LineMax <= LineBudget
    BY LedgerAssumption
  <2>4. least * LineMax \in Nat /\ Sample * LineMax \in Nat
    BY <1>1, Limits
  <2> HIDE DEF least
  <2>5. Spent(lines, least, LineMax) <= LineBudget
    BY <2>1, <2>2, <2>3, <2>4, Limits
  <2>6. QED
    BY <1>1, <2>5
<1>3. Max(fits) \in fits /\ \A n \in fits : n <= Max(fits)
  <2>1. fits \in SUBSET (0 .. N) /\ fits # {}
    BY <1>2
  <2> HIDE DEF fits, N
  <2>2. QED
    BY <1>1, <2>1, LargestUpto
<1>4. Max(fits) \in 0 .. N /\ least <= Max(fits)
  BY <1>2, <1>3
<1>5. Max(fits) >= Sample \/ Max(fits) = N
  <2> DEFINE fit == Max(fits)
  <2>1. fit \in 0 .. N /\ least <= fit
    BY <1>4
  <2> HIDE DEF fit
  <2>2. fit >= Sample \/ fit = N
    BY <1>1, <2>1, Limits
  <2>3. QED
    BY <2>2 DEF fit
<1>6. QED
  BY <1>4, <1>5

\* A longer head has the shorter one in it.
LEMMA Heads ==
  ASSUME NEW s \in Seq(Lines), NEW n \in Nat, NEW m \in Nat, m >= n \/ m = Len(s)
  PROVE  ToSet(FirstOf(n, s)) \subseteq ToSet(FirstOf(m, s))
<1> DEFINE a == FirstOf(n, s)
           b == FirstOf(m, s)
<1>1. /\ a \in Seq(Lines) /\ Len(a) = IF n < Len(s) THEN n ELSE Len(s)
      /\ \A i \in 1 .. Len(a) : a[i] = s[i]
  BY First
<1>2. /\ b \in Seq(Lines) /\ Len(b) = IF m < Len(s) THEN m ELSE Len(s)
      /\ \A i \in 1 .. Len(b) : b[i] = s[i]
  BY First
<1> HIDE DEF a, b
<1>3. Len(s) \in Nat /\ Len(a) \in Nat /\ Len(b) \in Nat
  BY <1>1, <1>2
<1>4. Len(a) <= Len(b)
  BY <1>1, <1>2, <1>3
<1>5. \A i \in 1 .. Len(a) : i \in 1 .. Len(b) /\ a[i] = b[i]
  BY <1>1, <1>2, <1>3, <1>4
<1>6. DOMAIN a = 1 .. Len(a) /\ DOMAIN b = 1 .. Len(b)
  BY <1>1, <1>2
<1>7. QED
  BY <1>5, <1>6 DEF ToSet, a, b

\* Either view of a result shows some of its lines, the first ones among them, and says
\* how many it does not show, those the result withholds included.
LEMMA ViewsAdd ==
  ASSUME NEW r \in ResultType, NEW view, view \in {FullView(r), CollapsedView(r)}
  PROVE  /\ Len(view.lines) + view.withheld = Len(r.lines) + r.truncated
         /\ ToSet(FirstOf(Sample, r.lines)) \subseteq ToSet(view.lines)
         /\ ToSet(view.lines) \subseteq ToSet(r.lines)
         /\ IsInjective(r.lines) => IsInjective(view.lines)
<1>1. r.lines \in Seq(Lines) /\ Len(r.lines) \in Nat /\ r.truncated \in Nat /\ Sample \in Nat
  BY Limits DEF ResultType
<1>2. PICK n \in Nat : /\ view = View(FirstOf(n, r.lines),
                                      Len(r.lines) - Len(FirstOf(n, r.lines)) + r.truncated)
                       /\ n >= Sample \/ n = Len(r.lines)
  <2>1. CASE view = CollapsedView(r)
    <3>1. view = View(FirstOf(Sample, r.lines),
                      Len(r.lines) - Len(FirstOf(Sample, r.lines)) + r.truncated)
      BY <2>1, Zenon DEF CollapsedView
    <3>2. Sample >= Sample
      BY <1>1
    <3>3. QED
      BY <1>1, <3>1, <3>2
  <2>2. CASE view = FullView(r)
    <3> DEFINE fit == Max({n \in 0 .. Len(r.lines) :
                             Spent(r.lines, n, LineMax) <= LineBudget})
    <3>1. view = View(FirstOf(fit, r.lines), Len(r.lines) - fit + r.truncated)
      BY <2>2, Zenon DEF FullView
    <3>2. fit \in 0 .. Len(r.lines) /\ (fit >= Sample \/ fit = Len(r.lines))
      BY <1>1, SampleFits
    <3> HIDE DEF fit
    <3>3. fit \in Nat /\ fit <= Len(r.lines)
      BY <1>1, <3>2
    <3>4. Len(FirstOf(fit, r.lines)) = fit
      BY <1>1, <3>3, First
    <3>5. QED
      BY <3>1, <3>2, <3>3, <3>4
  <2>3. QED
    BY <2>1, <2>2
<1> DEFINE out == FirstOf(n, r.lines)
<1>3. /\ out \in Seq(Lines) /\ Len(out) \in Nat /\ ToSet(out) \subseteq ToSet(r.lines)
      /\ IsInjective(r.lines) => IsInjective(out)
  BY <1>1, First
<1>4. ToSet(FirstOf(Sample, r.lines)) \subseteq ToSet(out)
  BY <1>1, <1>2, Heads
<1>5. view.lines = out /\ view.withheld = Len(r.lines) - Len(out) + r.truncated
  BY <1>2 DEF View
<1> HIDE DEF out
<1>6. QED
  BY <1>1, <1>3, <1>4, <1>5

LEMMA Rendered ==
  ASSUME NEW i \in DOMAIN steps, steps[i].result \in ResultType
  PROVE  LET view == Render(steps)[i]
             r == steps[i].result
         IN /\ Len(view.lines) + view.withheld = Len(r.lines) + r.truncated
            /\ ToSet(FirstOf(Sample, r.lines)) \subseteq ToSet(view.lines)
            /\ ToSet(view.lines) \subseteq ToSet(r.lines)
            /\ IsInjective(r.lines) => IsInjective(view.lines)
<1>1. Render(steps)[i] \in {FullView(steps[i].result), CollapsedView(steps[i].result)}
  BY Zenon DEF Render
<1>2. QED
  BY <1>1, ViewsAdd

(***************************************************************************)
(* The ledger.                                                             *)
(***************************************************************************)

Steps ==
  {s \in [question : Questions, result : ResultType] : SoundResult(s.question.kind, s.result)}

\* Every result is sound, whichever step it was found for first. What was ever shown was
\* fetched by a step that is still in the ledger. The brief is the audit of its claims
\* against the ledger as it is: there is no step after it.
LedgerInv ==
  /\ steps \in Seq(Steps)
  /\ displayed \subseteq ShownRefs
  /\ brief.written => \E body \in Bodies : brief = Audit(body)

LEMMA LedgerInit == Init => LedgerInv
BY DEF Init, LedgerInv, NoBrief

LEMMA StepsAreSound ==
  ASSUME LedgerInv, NEW i \in DOMAIN steps
  PROVE  /\ steps[i].question \in Questions /\ steps[i].result \in ResultType
         /\ SoundResult(steps[i].question.kind, steps[i].result)
         /\ steps[i].result.lines \in Seq(Lines)
<1>1. steps[i] \in Steps
  BY DEF LedgerInv
<1>2. QED
  BY <1>1 DEF Steps, ResultType

\* The lines a brief may cite are lines of the file.
LEMMA ShownAreLines ==
  ASSUME LedgerInv
  PROVE  ShownRefs \subseteq Lines
<1>1. \A i \in DOMAIN steps : steps[i].result.lines \in Seq(Lines)
  BY StepsAreSound
<1>2. QED
  BY <1>1 DEF ShownRefs, ToSet

\* What is asked is answered soundly, also when it was asked before.
LEMMA AnswerIsSound ==
  ASSUME LedgerInv, NEW q \in Questions, NEW answer \in Answers(q)
  PROVE  answer \in ResultType /\ SoundResult(q.kind, answer)
<1>1. CASE Earlier(q) = {} /\ q.kind # "close_read"
  <2>1. SoundResult(q.kind, Found(q))
    BY <1>1, FoundIsSound
  <2>2. QED
    BY <1>1, <2>1 DEF Answers, SoundResult
<1>2. CASE Earlier(q) = {} /\ q.kind = "close_read"
  <2>1. q.about \in Ranges
    BY <1>2 DEF Questions
  <2>2. SoundResult("close_read", answer)
    BY <1>2, <2>1, ReadingIsSound DEF Answers
  <2>3. QED
    BY <1>2, <2>2 DEF SoundResult
<1>3. CASE Earlier(q) # {}
  <2>1. Earlier(q) \subseteq DOMAIN steps /\ DOMAIN steps \subseteq Nat
    BY DEF Earlier, LedgerInv
  <2>2. Min(Earlier(q)) \in Earlier(q)
    BY <1>3, <2>1, Smallest
  <2>3. steps[Min(Earlier(q))].question = q /\ Min(Earlier(q)) \in DOMAIN steps
    BY <2>2 DEF Earlier
  <2>4. answer = steps[Min(Earlier(q))].result
    BY <1>3 DEF Answers
  <2>5. QED
    BY <2>3, <2>4, StepsAreSound
<1>4. QED
  BY <1>1, <1>2, <1>3

\* A prompt shows lines that some step fetched, the first of each step among them.
LEMMA PromptShows ==
  ASSUME LedgerInv
  PROVE  /\ SeenIn(Render(steps)) \subseteq ShownRefs
         /\ OnRecord(steps) \subseteq ShownRefs
         /\ \A i \in DOMAIN steps :
              ToSet(FirstOf(Sample, steps[i].result.lines)) \subseteq SeenIn(Render(steps))
<1>1. \A i \in DOMAIN steps :
        /\ ToSet(Render(steps)[i].lines) \subseteq ToSet(steps[i].result.lines)
        /\ ToSet(FirstOf(Sample, steps[i].result.lines)) \subseteq ToSet(Render(steps)[i].lines)
  <2>1. \A i \in DOMAIN steps : steps[i].result \in ResultType
    BY StepsAreSound
  <2>2. QED
    BY <2>1, Rendered
<1>2. DOMAIN Render(steps) = DOMAIN steps
  BY DEF Render
<1>3. OnRecord(steps) \subseteq ShownRefs
  BY DEF OnRecord, ShownRefs, ToSet
<1>4. QED
  BY <1>1, <1>2, <1>3 DEF SeenIn, ShownRefs

LEMMA LedgerNext == LedgerInv /\ [Next]_vars => LedgerInv'
<1> SUFFICES ASSUME LedgerInv, [Next]_vars PROVE LedgerInv'
  OBVIOUS
<1>1. ASSUME NEW q \in Questions, Turn(q) PROVE LedgerInv'
  <2>1. /\ ~brief.written /\ brief' = brief
        /\ displayed' = displayed \cup SeenIn(Render(steps))
    BY <1>1 DEF Turn, Show
  <2>2. PICK answer \in Answers(q) : steps' = Append(steps, [question |-> q, result |-> answer])
    BY <1>1 DEF Turn
  <2> DEFINE new == [question |-> q, result |-> answer]
  <2>3. new \in Steps /\ steps \in Seq(Steps) /\ steps' = Append(steps, new)
    BY <2>2, AnswerIsSound DEF Steps, LedgerInv
  <2> HIDE DEF new
  <2>4. /\ steps' \in Seq(Steps)
        /\ \A i \in DOMAIN steps : i \in DOMAIN steps' /\ steps'[i] = steps[i]
    BY <2>3
  <2>5. ShownRefs \subseteq ShownRefs'
    BY <2>4 DEF ShownRefs
  <2>6. displayed' \subseteq ShownRefs'
    BY <2>1, <2>5, PromptShows DEF LedgerInv
  <2>7. QED
    BY <2>1, <2>4, <2>6 DEF LedgerInv
<1>2. ASSUME NEW body \in Bodies, Synthesize(body) PROVE LedgerInv'
  <2>1. /\ steps' = steps /\ plain' = plain /\ brief' = Audit(body)
        /\ displayed' = displayed \cup SeenIn(Render(steps)) \cup OnRecord(steps)
    BY <1>2 DEF Synthesize, Show
  <2>2. ShownRefs' = ShownRefs
    BY <2>1 DEF ShownRefs
  <2>3. Audit(body)' = Audit(body)
    BY <2>1, <2>2 DEF Audit, NormaliseRef
  <2>4. displayed' \subseteq ShownRefs'
    BY <2>1, <2>2, PromptShows DEF LedgerInv
  <2>5. QED
    BY <2>1, <2>3, <2>4 DEF LedgerInv
<1>3. CASE UNCHANGED vars
  BY <1>3 DEF vars, LedgerInv, ShownRefs, Audit, NormaliseRef
<1>4. QED
  BY <1>1, <1>2, <1>3 DEF Next

\* What a rendering of a step shows and what it says it withholds are all that matched, no
\* line of it twice; of a decode the larger of texts and lines, of a close_read what its
\* worker cites.
THEOREM NothingIsWithheldInSilence == Spec => []EveryMatchIsAccountedFor
<1>1. LedgerInv => EveryMatchIsAccountedFor
  <2> SUFFICES ASSUME LedgerInv, NEW i \in DOMAIN steps, steps[i].result.lines # <<>>
               PROVE  LET r == steps[i].result
                          view == Render(steps)[i]
                          told == Len(view.lines) + view.withheld
                          kind == steps[i].question.kind
                      IN /\ kind = "decode" => /\ told \in {r.total_matches, Len(r.lines)}
                                               /\ told >= r.total_matches /\ told >= Len(r.lines)
                         /\ kind = "close_read" =>
                              told = Len(r.lines) /\ told <= r.total_matches
                         /\ kind \notin {"decode", "close_read"} => told = r.total_matches
                         /\ kind # "decode" => IsInjective(view.lines)
    BY DEF EveryMatchIsAccountedFor
  <2> DEFINE r == steps[i].result
             view == Render(steps)[i]
             told == Len(view.lines) + view.withheld
             kind == steps[i].question.kind
  <2>1. SoundResult(kind, r) /\ r \in ResultType
    BY StepsAreSound
  <2>2. told = Len(r.lines) + r.truncated /\ (IsInjective(r.lines) => IsInjective(view.lines))
    BY <2>1, Rendered
  <2>3. Len(r.lines) \in Nat
    BY <2>1 DEF ResultType
  <2> HIDE DEF r, view, told, kind
  <2>4. r.lines # <<>>
    BY DEF r
  <2>5. kind = "decode" => /\ told \in {r.total_matches, Len(r.lines)}
                           /\ told >= r.total_matches /\ told >= Len(r.lines)
    BY <2>1, <2>2, <2>4 DEF SoundResult, Decodedly
  <2>6. kind = "close_read" =>
          told = Len(r.lines) /\ told <= r.total_matches /\ IsInjective(view.lines)
    BY <2>1, <2>2, <2>3, <2>4 DEF SoundResult, Readingly
  <2>7. kind \notin {"decode", "close_read"} =>
          told = r.total_matches /\ IsInjective(view.lines)
    BY <2>1, <2>2, <2>4 DEF SoundResult, Plainly
  <2>8. QED
    BY <2>5, <2>6, <2>7 DEF r, view, told, kind
<1>2. QED
  BY <1>1, LedgerInit, LedgerNext, PTL DEF Spec

\* From a step on, every prompt shows the first lines of its answer, however old the step.
THEOREM AnswersAreRepeated == Spec => AnswersStayInSight
<1> DEFINE InSight == \A i \in DOMAIN steps :
                        ToSet(FirstOf(Sample, steps[i].result.lines)) \subseteq prompt'
<1>1. LedgerInv /\ [Next]_vars => [InSight]_vars
  <2> SUFFICES ASSUME LedgerInv, Next PROVE InSight
    OBVIOUS
  <2>1. SeenIn(Render(steps)) \subseteq prompt'
    BY DEF Next, Turn, Synthesize, Show
  <2>2. QED
    BY <2>1, PromptShows
<1>2. QED
  BY <1>1, LedgerInit, LedgerNext, PTL DEF Spec, AnswersStayInSight

\* A line that any prompt has shown is never flagged, in whatever dress it is cited, when the
\* name of its file fits a citation; and, whatever the name, a claim that nothing is said
\* against cites lines that some step fetched, and at least one.
THEOREM AuditIsFair == Spec => []HonestCitationsResolve
<1>1. LedgerInv => HonestCitationsResolve
  <2> SUFFICES ASSUME LedgerInv, brief.written PROVE HonestCitationsResolve
    BY DEF HonestCitationsResolve
  <2> PICK body \in Bodies : brief = Audit(body)
    BY DEF LedgerInv
  <2> DEFINE refs == {NormaliseRef(e) : e \in Cited(body)}
             flagged == brief.malformed \cup brief.unresolved
  <2>1. /\ brief.body = body
        /\ brief.malformed = {r \in refs : r.form # "ref"}
        /\ brief.unresolved = {r \in refs : r.form = "ref" /\ r.line \notin ShownRefs}
        /\ brief.uncited = {i \in DOMAIN body : body[i] = <<>>}
    BY DEF Audit
  <2>2. body \in Seq(Seq(Entries)) /\ NoRef \notin Lines
    BY LedgerAssumption
  <2>3. Cited(body) \subseteq Entries
    BY <2>2 DEF Cited, ToSet
  <2>4. \A e \in Entries : /\ NormaliseRef(e).line = e.line
                           /\ plain /\ NormaliseRef(e).form # "ref" => e.line = NoRef
    BY <2>2 DEF Entries, NormaliseRef
  <2>5. displayed \subseteq Lines /\ displayed \subseteq ShownRefs
    BY ShownAreLines DEF LedgerInv
  <2>6. ASSUME NEW e \in Cited(body), plain, e.line \in displayed, NEW f \in flagged
        PROVE  f.line # e.line
    BY <2>1, <2>2, <2>3, <2>4, <2>5, <2>6
  <2>7. ASSUME NEW i \in DOMAIN body \ brief.uncited
        PROVE  \/ Chaseable(body[i]) = ToSet(body[i]) /\ body[i] # <<>>
               \/ \E e \in ToSet(body[i]), f \in flagged : f.line = e.line
    <3>1. body[i] # <<>> /\ ToSet(body[i]) \subseteq Cited(body)
      BY <2>1 DEF Cited
    <3>2. Chaseable(body[i]) = {e \in ToSet(body[i]) : e.line \in ShownRefs}
      BY DEF Chaseable, ShownRefs
    <3>3. ASSUME NEW e \in ToSet(body[i]), e.line \notin ShownRefs
          PROVE  NormaliseRef(e) \in flagged /\ NormaliseRef(e).line = e.line
      BY <2>1, <2>3, <2>4, <3>1, <3>3
    <3>4. QED
      BY <3>1, <3>2, <3>3
  <2>8. QED
    BY <2>1, <2>6, <2>7 DEF HonestCitationsResolve
<1>2. QED
  BY <1>1, LedgerInit, LedgerNext, PTL DEF Spec

===============================================================================
