--------------------------- MODULE CloseReadProofs ---------------------------
(***************************************************************************)
(* A close_read, for any reports, number of attempts and backstop.         *)
(*                                                                         *)
(* A hit a worker reports reaches the commander (HitsInv): between the     *)
(* report that was parsed last and the step there is only the salvage,     *)
(* which keeps the hits filed under checked_for whatever findings it       *)
(* drops, and the retry, which replaces the report.                        *)
(*                                                                         *)
(* What is accepted is vouched for, and salvage drops nothing else         *)
(* (VouchInv). Salvage picks findings by the places that the problems are  *)
(* about, the properties are about findings and their checks; between them *)
(* is the fact that a check complains of the place it was run on, and that *)
(* a finding moved up to another place still passes.                       *)
(***************************************************************************)
EXTENDS CloseRead, FiniteSetTheorems, FunctionTheorems, TLAPS

\* Dropping findings keeps the rest of a report.
LEMMA DroppingKeepsHits ==
  ASSUME NEW rep \in Report, NEW kept
  PROVE  [rep EXCEPT !.findings = kept, !.relevant = kept # <<>>].found = rep.found
BY DEF Report

LEMMA SalvageKeepsHits ==
  ASSUME NEW rep \in Report, NEW found
  PROVE  Salvage(rep, found).found = rep.found
<1> DEFINE blameless == {i \in DOMAIN rep.findings : \A p \in found : p.about # i}
           kept == FindingsAt(rep.findings, blameless)
<1>1. Salvage(rep, found) = [rep EXCEPT !.findings = kept, !.relevant = kept # <<>>]
  BY Zenon DEF Salvage
<1> HIDE DEF kept
<1>2. QED
  BY <1>1, DroppingKeepsHits

\* What was accepted has the hits of the last report, and what is recorded is what was
\* accepted.
HitsInv ==
  /\ report \in Report \cup {Unparsed}
  /\ outcome.kind = "report" => report \in Report /\ outcome.report.found = report.found
  /\ pc = "settled" =>
       \/ outcome.kind = "report"
       \/ outcome.kind = "failure" /\ outcome.reason \in Failures
  /\ pc # "settled" /\ pc # "recorded" => outcome = NoOutcome
  /\ pc # "recorded" => step = NoStep
  /\ (step.written /\ step.error = "") =>
       outcome.kind = "report" /\ step.tells = Tells(outcome.report)

LEMMA Outcomes ==
  /\ NoOutcome.kind = "none" /\ ~NoStep.written
  /\ \A reason, n : Failure(reason, n).kind = "failure" /\ Failure(reason, n).reason = reason
  /\ \A rep, n : Success(rep, n).kind = "report" /\ Success(rep, n).report = rep
BY DEF NoOutcome, NoStep, Failure, Success

LEMMA ReasonIsFailure == \A found : Reason(found) \in Failures
BY DEF Reason, Failures

LEMMA HitsInit == Init => HitsInv
BY Outcomes DEF Init, HitsInv

\* Steps that settle nothing and keep the report, or replace it by another.
LEMMA Unsettled ==
  ASSUME HitsInv, pc # "settled", pc # "recorded", pc' # "settled", pc' # "recorded",
         UNCHANGED <<outcome, step>>, report' \in Report \cup {Unparsed}
  PROVE  HitsInv'
BY Outcomes DEF HitsInv

\* The worker comes to a failure, or to a report with the hits of the last one.
LEMMA Settled ==
  ASSUME HitsInv, pc # "settled", pc # "recorded", NEW result, Settle(result),
         UNCHANGED <<report, step>>,
         \/ result.kind = "failure" /\ result.reason \in Failures
         \/ result.kind = "report" /\ report \in Report /\ result.report.found = report.found
  PROVE  HitsInv'
<1>1. pc' = "settled" /\ outcome' = result /\ step' = NoStep /\ report' = report
  BY DEF HitsInv, Settle
<1>2. QED
  BY <1>1, Outcomes DEF HitsInv

LEMMA HitsNext == HitsInv /\ [Next]_vars => HitsInv'
<1> SUFFICES ASSUME HitsInv, [Next]_vars PROVE HitsInv'
  OBVIOUS
<1>0. report \in Report \cup {Unparsed} /\ Reports \subseteq Report
  BY CloseReadAssumption DEF HitsInv
<1>1. CASE Call \/ Tick \/ AskAgain \/ GiveUp
  <2>1. /\ pc \in {"asking", "calling", "checking"}
        /\ pc' \in {"asking", "calling", "rejected"}
        /\ UNCHANGED <<report, outcome, step>>
    BY <1>1 DEF Call, Tick, AskAgain, GiveUp
  <2>2. QED
    BY <2>1, <1>0, Unsettled
<1>2. CASE \/ \E rep \in Reports : ReplyParses(rep)
           \/ \E check \in UnparsedChecks, cut_off \in BOOLEAN : ReplyUnparsed(check, cut_off)
  <2>1. /\ pc = "calling" /\ pc' = "checking" /\ UNCHANGED <<outcome, step>>
        /\ report' \in Reports \cup {Unparsed}
    BY <1>2 DEF ReplyParses, ReplyUnparsed
  <2>2. QED
    BY <2>1, <1>0, Unsettled
<1>3. CASE CallFails \/ WorkerRaises \/ BackstopFires
  <2>1. /\ pc \in {"asking", "calling", "checking", "rejected"} /\ UNCHANGED <<report, step>>
        /\ \E reason \in {"transport", "internal", "timeout"} : \E n : Settle(Failure(reason, n))
    BY <1>3 DEF CallFails, WorkerRaises, BackstopFires
  <2>2. PICK reason \in {"transport", "internal", "timeout"} : \E n : Settle(Failure(reason, n))
    BY <2>1
  <2>3. \A n : Failure(reason, n).kind = "failure" /\ Failure(reason, n).reason \in Failures
    BY Outcomes DEF Failures
  <2>4. QED
    BY <2>1, <2>2, <2>3, Settled
<1>4. CASE Accept
  <2>1. /\ pc = "checking" /\ report \in Report /\ Settle(Success(report, attempt))
        /\ UNCHANGED <<report, step>>
    BY <1>0, <1>4 DEF Accept
  <2>2. QED
    BY <2>1, Outcomes, Settled
<1>5. CASE SalvageOrReject
  <2> DEFINE salvaged == Success(Salvage(report, problems), MaxAttempts)
             rejected == Failure(Reason(problems), MaxAttempts)
  <2>1. /\ pc = "rejected" /\ UNCHANGED <<report, step>>
        /\ \/ report \in Report /\ Settle(salvaged)
           \/ Settle(rejected)
    BY <1>0, <1>5, Zenon DEF SalvageOrReject
  <2>2. report \in Report => salvaged.kind = "report" /\ salvaged.report.found = report.found
    BY Outcomes, SalvageKeepsHits
  <2>3. rejected.kind = "failure" /\ rejected.reason \in Failures
    BY Outcomes, ReasonIsFailure
  <2> HIDE DEF salvaged, rejected
  <2>4. QED
    BY <2>1, <2>2, <2>3, Settled
<1>6. CASE Record
  <2>1. /\ pc = "settled" /\ pc' = "recorded" /\ UNCHANGED <<report, outcome>>
        /\ outcome.kind = "failure" => step'.error = outcome.reason
        /\ outcome.kind # "failure" => step'.tells = Tells(outcome.report)
    BY <1>6 DEF Record
  <2>2. "" \notin Failures
    BY DEF Failures
  <2>3. outcome.kind = "report" \/ (outcome.kind = "failure" /\ step'.error # "")
    BY <2>1, <2>2 DEF HitsInv
  <2>4. QED
    BY <2>1, <2>3 DEF HitsInv
<1>7. CASE UNCHANGED vars
  BY <1>7 DEF vars, HitsInv
<1>8. QED
  BY <1>1, <1>2, <1>3, <1>4, <1>5, <1>6, <1>7 DEF Next

\* A hit in the report that was accepted is told to the commander, also when salvage
\* dropped every finding and declared the slice irrelevant.
THEOREM HitsAreTold == Spec => []PositivesAreTold
<1>1. HitsInv => PositivesAreTold
  BY DEF HitsInv, PositivesAreTold, Tells
<1>2. QED
  BY <1>1, HitsInit, HitsNext, PTL DEF Spec

-----------------------------------------------------------------------------
(***************************************************************************)
(* What is accepted, and what salvage keeps.                               *)
(***************************************************************************)

\* The place of a number in a set of numbers, in order.
Rank(S, i) == Cardinality({j \in S : j <= i})

\* The places of the members of a finite set are the numbers up to its size, each once.
LEMMA Ranks ==
  ASSUME NEW S \in SUBSET Nat, IsFiniteSet(S)
  PROVE  /\ \A i \in S : Rank(S, i) \in 1 .. Cardinality(S)
         /\ \A i, k \in S : i < k => Rank(S, i) < Rank(S, k)
         /\ \A n \in 1 .. Cardinality(S) : \E i \in S : Rank(S, i) = n
<1> DEFINE Upto(i) == {j \in S : j <= i}
           rank == [i \in S |-> Cardinality(Upto(i))]
<1>0. Cardinality(S) \in Nat
  BY FS_CardinalityType
<1>1. \A i \in S : /\ IsFiniteSet(Upto(i)) /\ Cardinality(Upto(i)) \in Nat
                   /\ Cardinality(Upto(i)) <= Cardinality(S) /\ Cardinality(Upto(i)) # 0
  <2> TAKE i \in S
  <2>1. Upto(i) \in SUBSET S /\ i \in Upto(i)
    OBVIOUS
  <2> HIDE DEF Upto
  <2>2. IsFiniteSet(Upto(i)) /\ Cardinality(Upto(i)) <= Cardinality(S)
    BY <2>1, FS_Subset
  <2>3. QED
    BY <2>1, <2>2, FS_CardinalityType, FS_EmptySet
<1>2. \A i, k \in S : i < k => Cardinality(Upto(i)) < Cardinality(Upto(k))
  <2> SUFFICES ASSUME NEW i \in S, NEW k \in S, i < k
               PROVE  Cardinality(Upto(i)) < Cardinality(Upto(k))
    OBVIOUS
  <2>0. i \in Nat /\ k \in Nat /\ \A j \in S : j \in Nat
    OBVIOUS
  <2>1. Upto(i) \in SUBSET Upto(k) /\ k \in Upto(k) /\ k \notin Upto(i)
    <3>1. \A j \in Nat : j <= i => j <= k
      BY <2>0
    <3>2. ~(k <= i) /\ k <= k
      BY <2>0
    <3>3. QED
      BY <2>0, <3>1, <3>2
  <2>2. /\ IsFiniteSet(Upto(k)) /\ Cardinality(Upto(i)) \in Nat /\ Cardinality(Upto(k)) \in Nat
    BY <1>1
  <2> HIDE DEF Upto
  <2>3. /\ Cardinality(Upto(i)) <= Cardinality(Upto(k))
        /\ Cardinality(Upto(k)) # Cardinality(Upto(i))
    BY <2>1, <2>2, FS_Subset
  <2>4. QED
    BY <2>2, <2>3
<1>3. \A i \in S : Cardinality(Upto(i)) \in 1 .. Cardinality(S)
  BY <1>0, <1>1
<1> HIDE DEF Upto
<1>4. rank \in Injection(S, 1 .. Cardinality(S))
  <2>1. rank \in [S -> 1 .. Cardinality(S)]
    BY <1>3
  <2>2. \A i, k \in S : rank[i] = rank[k] => i = k
    <3> SUFFICES ASSUME NEW i \in S, NEW k \in S, rank[i] = rank[k], i # k PROVE FALSE
      OBVIOUS
    <3>1. i < k \/ k < i
      OBVIOUS
    <3>2. rank[i] < rank[k] \/ rank[k] < rank[i]
      BY <3>1, <1>2
    <3>3. QED
      BY <3>2, <1>3
  <2>3. QED
    BY <2>1, <2>2, Fun_IsInj
<1>5. IsFiniteSet(1 .. Cardinality(S)) /\ Cardinality(1 .. Cardinality(S)) = Cardinality(S)
  BY <1>0, FS_Interval
<1>6. rank \in Surjection(S, 1 .. Cardinality(S))
  <2> DEFINE T == 1 .. Cardinality(S)
  <2>1. rank \in Injection(S, T) /\ IsFiniteSet(T) /\ Cardinality(S) = Cardinality(T)
    BY <1>4, <1>5
  <2> HIDE DEF rank, T
  <2>2. rank \in Surjection(S, T)
    BY <2>1, FS_Injection
  <2> USE DEF T
  <2>3. QED
    BY <2>2
<1>7. \A n \in 1 .. Cardinality(S) : \E i \in S : rank[i] = n
  <2> HIDE DEF rank
  <2>1. QED
    BY <1>6, Fun_SurjectionProperties
<1>8. \A i \in S : rank[i] = Rank(S, i) /\ Cardinality(Upto(i)) = Rank(S, i)
  BY DEF Rank, Upto
<1>9. QED
  BY <1>2, <1>3, <1>7, <1>8

\* The list that is kept of some findings: it is as long as there are places to keep, the
\* finding at such a place is in it at the rank of the place, and nothing else is.
LEMMA Kept ==
  ASSUME NEW findings \in Seq(Finding), NEW places \in SUBSET (DOMAIN findings)
  PROVE  LET kept == FindingsAt(findings, places)
         IN /\ kept \in Seq(Finding) /\ Len(kept) = Cardinality(places)
            /\ \A i \in places : kept[Rank(places, i)] = findings[i]
            /\ \A n \in DOMAIN kept : \E i \in places : kept[n] = findings[i]
<1> DEFINE N == Cardinality(places)
           chosen(n) == CHOOSE i \in places : Rank(places, i) = n
           kept == [n \in 1 .. N |-> findings[chosen(n)]]
<1>1. places \in SUBSET Nat /\ IsFiniteSet(places) /\ N \in Nat
  <2> DEFINE M == Len(findings)
  <2>1. M \in Nat /\ DOMAIN findings = 1 .. M
    OBVIOUS
  <2>2. IsFiniteSet(1 .. M)
    BY <2>1, FS_Interval
  <2>3. QED
    BY <2>1, <2>2, FS_Subset, FS_CardinalityType
<1>2. \A i \in places : Rank(places, i) \in 1 .. N
  BY <1>1, Ranks
<1>3. \A i, k \in places : i < k => Rank(places, i) < Rank(places, k)
  BY <1>1, Ranks
<1>4. \A n \in 1 .. N : \E i \in places : Rank(places, i) = n
  BY <1>1, Ranks
<1>5. \A n \in 1 .. N : chosen(n) \in places /\ Rank(places, chosen(n)) = n
  BY <1>4
<1>6. FindingsAt(findings, places) = kept
  BY DEF FindingsAt, Rank
<1> HIDE DEF chosen, N
<1>7. \A i \in places : chosen(Rank(places, i)) = i
  <2> SUFFICES ASSUME NEW i \in places PROVE chosen(Rank(places, i)) = i
    OBVIOUS
  <2> DEFINE k == chosen(Rank(places, i))
  <2>1. k \in places /\ Rank(places, k) = Rank(places, i)
    BY <1>2, <1>5
  <2>2. i \in Nat /\ k \in Nat /\ Rank(places, i) \in Nat
    BY <1>1, <1>2, <2>1
  <2> HIDE DEF k
  <2>3. ~(i < k) /\ ~(k < i)
    BY <1>3, <2>1, <2>2
  <2>4. k = i
    BY <2>2, <2>3
  <2>5. QED
    BY <2>4 DEF k
<1>8. kept \in Seq(Finding) /\ Len(kept) = N /\ DOMAIN kept = 1 .. N
  <2>1. \A n \in 1 .. N : findings[chosen(n)] \in Finding
    BY <1>5
  <2>2. QED
    BY <1>1, <2>1
<1>9. \A i \in places : kept[Rank(places, i)] = findings[i]
  BY <1>2, <1>7
<1>10. \A n \in DOMAIN kept : \E i \in places : kept[n] = findings[i]
  BY <1>5, <1>8
<1>11. QED
  BY <1>6, <1>8, <1>9, <1>10 DEF N

\* A check's complaint is about the finding it was run on, and whether there is one does
\* not depend on where the finding stands.
LEMMA OwnProblems ==
  \A f, i : \A p \in FindingProblems(f, i) : p.about = i
BY DEF FindingProblems, RefProblems, Problem

LEMMA PlaceDoesNotMatter ==
  ASSUME NEW f, NEW i, NEW j, FindingProblems(f, i) = {}
  PROVE  FindingProblems(f, j) = {}
<1> DEFINE refs == ToSet(f.refs) \cup ({f.first, f.last} \ {NoRef})
           noRefs == f.refs = <<>>
           tooMany == Len(f.refs) > MaxRefs
           count == f.match_count < Len(f.refs)
           unsupported == Unsupported(f)
           own(k) == {p \in {Problem(k, "no_refs"), Problem(k, "too_many"),
                             Problem(k, "count"), Problem(k, "unsupported")} :
                        \/ p.check = "no_refs" /\ noRefs
                        \/ p.check = "too_many" /\ tooMany
                        \/ p.check = "count" /\ count
                        \/ p.check = "unsupported" /\ unsupported}
<1>1. \A k : FindingProblems(f, k) = own(k) \cup RefProblems(refs, k)
  BY Zenon DEF FindingProblems
<1>2. own(j) = {}
  <2>1. own(i) = {}
    BY <1>1
  <2>2. \A k : own(k) = {} <=> ~noRefs /\ ~tooMany /\ ~count /\ ~unsupported
    <3> HIDE DEF noRefs, tooMany, count, unsupported
    <3>1. \A k, c : Problem(k, c).check = c
      BY DEF Problem
    <3>2. \A k : /\ noRefs => Problem(k, "no_refs") \in own(k)
                 /\ tooMany => Problem(k, "too_many") \in own(k)
                 /\ count => Problem(k, "count") \in own(k)
                 /\ unsupported => Problem(k, "unsupported") \in own(k)
      BY <3>1
    <3>3. \A k : \A p \in own(k) : noRefs \/ tooMany \/ count \/ unsupported
      BY <3>1
    <3> HIDE DEF own
    <3>4. QED
      BY <3>2, <3>3
  <2>3. QED
    BY <2>1, <2>2
<1>3. RefProblems(refs, j) = {}
  <2> HIDE DEF refs
  <2>1. \A k : RefProblems(refs, k) = {} <=>
                 refs \cap {Malformed, NoRef} = {} /\ refs \cap {Elsewhere} = {}
    BY DEF RefProblems
  <2>2. QED
    BY <1>1, <2>1
<1>4. QED
  BY <1>1, <1>2, <1>3

\* The findings of a report that nothing is said against.
Good(rep) == {i \in DOMAIN rep.findings : FindingProblems(rep.findings[i], i) = {}}

\* Salvage spares exactly those.
LEMMA BlamelessAreGood ==
  ASSUME NEW rep \in Report
  PROVE  {i \in DOMAIN rep.findings : \A p \in Problems(rep) : p.about # i} = Good(rep)
<1>1. \A i \in DOMAIN rep.findings : i # 0
  BY DEF Report
<1>2. SUFFICES ASSUME NEW i \in DOMAIN rep.findings
               PROVE  (\A p \in Problems(rep) : p.about # i)
                        <=> FindingProblems(rep.findings[i], i) = {}
  BY DEF Good
<1>3. ASSUME \A p \in Problems(rep) : p.about # i PROVE FindingProblems(rep.findings[i], i) = {}
  <2>1. FindingProblems(rep.findings[i], i) \subseteq Problems(rep)
    BY DEF Problems
  <2>2. QED
    BY <1>3, <2>1, OwnProblems
<1>4. ASSUME FindingProblems(rep.findings[i], i) = {}, NEW p \in Problems(rep), p.about = i
      PROVE  FALSE
  <2>1. CASE \E k \in DOMAIN rep.findings : p \in FindingProblems(rep.findings[k], k)
    BY <1>4, <2>1, OwnProblems
  <2>2. CASE p \in {Problem(0, "relevance"), Problem(0, "found"), Problem(0, "slice_id")}
    BY <1>1, <1>4, <2>2 DEF Problem
  <2>3. QED
    BY <2>1, <2>2 DEF Problems
<1>5. QED
  BY <1>3, <1>4

\* What salvage makes of a report: the good findings at their ranks, relevant if there are
\* any, and a report with nothing against it but a hit in a slice declared irrelevant.
LEMMA Salvaged ==
  ASSUME NEW rep \in Report, Salvageable(Problems(rep))
  PROVE  LET new == Salvage(rep, Problems(rep))
         IN /\ Len(new.findings) = Cardinality(Good(rep))
            /\ \A i \in Good(rep) : new.findings[Rank(Good(rep), i)] = rep.findings[i]
            /\ \A p \in Problems(new) : p.check = "found"
<1> DEFINE kept == FindingsAt(rep.findings, Good(rep))
           new == [rep EXCEPT !.findings = kept, !.relevant = kept # <<>>]
<1>1. Salvage(rep, Problems(rep)) = new
  BY BlamelessAreGood, Zenon DEF Salvage
<1>2. rep.findings \in Seq(Finding) /\ Good(rep) \in SUBSET (DOMAIN rep.findings)
  BY DEF Report, Good
<1>3. /\ kept \in Seq(Finding) /\ Len(kept) = Cardinality(Good(rep))
      /\ \A i \in Good(rep) : kept[Rank(Good(rep), i)] = rep.findings[i]
      /\ \A n \in DOMAIN kept : \E i \in Good(rep) : kept[n] = rep.findings[i]
  BY <1>2, Kept
<1>4. \A n \in DOMAIN kept : FindingProblems(kept[n], n) = {}
  BY <1>3, PlaceDoesNotMatter DEF Good
<1> HIDE DEF kept
<1>5. /\ new.findings = kept /\ new.relevant = (kept # <<>>)
      /\ new.slice_id_ok = rep.slice_id_ok /\ new.found = rep.found
  BY Zenon DEF Report
<1>6. rep.slice_id_ok
  <2>1. Problem(0, "slice_id") \notin Problems(rep)
    BY DEF Salvageable, Problem
  <2>2. QED
    BY <2>1 DEF Problems, Problem
<1>7. \A p \in Problems(new) : p.check = "found"
  <2> HIDE DEF new
  <2>1. TAKE p \in Problems(new)
  <2>2. p \notin UNION {FindingProblems(new.findings[i], i) : i \in DOMAIN new.findings}
    BY <1>4, <1>5
  <2>3. \/ p.check = "relevance" /\ ~new.relevant /\ new.findings # <<>>
        \/ p.check = "found"
        \/ p.check = "slice_id" /\ ~new.slice_id_ok
    BY <2>2 DEF Problems
  <2>4. QED
    BY <1>5, <1>6, <2>3
<1>8. QED
  BY <1>1, <1>3, <1>5, <1>7

\* A report that is accepted as it is has only good findings.
LEMMA AcceptedWhole ==
  ASSUME NEW rep \in Report, Problems(rep) = {}
  PROVE  /\ Len(rep.findings) = Cardinality(Good(rep))
         /\ \A i \in Good(rep) : rep.findings[Rank(Good(rep), i)] = rep.findings[i]
<1> DEFINE N == Len(rep.findings)
<1>1. N \in Nat /\ DOMAIN rep.findings = 1 .. N
  BY DEF Report
<1>2. Good(rep) = 1 .. N
  BY <1>1 DEF Good, Problems
<1> HIDE DEF N
<1>3. Cardinality(1 .. N) = N
  BY <1>1, FS_Interval
<1>4. \A i \in 1 .. N : Rank(1 .. N, i) = i
  <2> TAKE i \in 1 .. N
  <2>1. {j \in 1 .. N : j <= i} = 1 .. i
    BY <1>1
  <2>2. Cardinality(1 .. i) = i
    BY <1>1, FS_Interval
  <2>3. QED
    BY <2>1, <2>2 DEF Rank
<1>5. QED
  BY <1>2, <1>3, <1>4 DEF N

\* Until the worker settles there is no outcome; what it checks is the report it has; and
\* what it accepts is the report, or what salvage makes of it.
VouchInv ==
  /\ report \in Report \cup {Unparsed}
  /\ pc \in {"checking", "rejected"} /\ report # Unparsed => problems = Problems(report)
  /\ pc \in {"asking", "calling", "checking", "rejected"} => outcome = NoOutcome
  /\ outcome.kind = "report" => report \in Report
  /\ AcceptedIsVouchedFor
  /\ SalvageKeepsTheRest

LEMMA VouchInit == Init => VouchInv
BY Outcomes DEF Init, VouchInv, AcceptedIsVouchedFor, SalvageKeepsTheRest

LEMMA VouchNext == VouchInv /\ [Next]_vars => VouchInv'
<1> SUFFICES ASSUME VouchInv, [Next]_vars PROVE VouchInv'
  OBVIOUS
<1>0. report \in Report \cup {Unparsed} /\ Reports \subseteq Report /\ Unparsed \notin Report
  BY CloseReadAssumption DEF VouchInv
<1>a. NoOutcome.kind # "report"
  BY Outcomes
\* Nothing is settled by a step that leaves the outcome alone before there is one.
<1>b. ASSUME pc \in {"asking", "calling", "checking", "rejected"}, UNCHANGED outcome,
             pc' \in {"asking", "calling", "checking", "rejected"},
             report' \in Report \cup {Unparsed},
             pc' \in {"checking", "rejected"} /\ report' # Unparsed =>
               problems' = Problems(report')
      PROVE  VouchInv'
  <2>1. outcome' = NoOutcome
    BY <1>b DEF VouchInv
  <2>2. AcceptedIsVouchedFor' /\ SalvageKeepsTheRest'
    BY <2>1, <1>a DEF AcceptedIsVouchedFor, SalvageKeepsTheRest
  <2>3. QED
    BY <1>a, <1>b, <2>1, <2>2 DEF VouchInv
<1>1. CASE Call \/ Tick \/ AskAgain
  <2>1. /\ pc \in {"asking", "calling", "checking"} /\ pc' \in {"calling", "asking"}
        /\ UNCHANGED <<report, outcome>>
    BY <1>1 DEF Call, Tick, AskAgain
  <2>2. QED
    BY <1>0, <1>b, <2>1
<1>2. CASE GiveUp
  <2>1. pc = "checking" /\ pc' = "rejected" /\ UNCHANGED <<report, problems, outcome>>
    BY <1>2 DEF GiveUp
  <2>2. report # Unparsed => problems = Problems(report)
    BY <2>1 DEF VouchInv
  <2>3. QED
    BY <1>0, <1>b, <2>1, <2>2
<1>3. CASE \E rep \in Reports : ReplyParses(rep)
  <2>1. PICK rep \in Reports : ReplyParses(rep)
    BY <1>3
  <2>2. /\ pc = "calling" /\ pc' = "checking" /\ report' = rep /\ problems' = Problems(rep)
        /\ UNCHANGED outcome
    BY <2>1 DEF ReplyParses
  <2>3. QED
    BY <1>0, <1>b, <2>2
<1>4. CASE \E check \in UnparsedChecks, cut_off \in BOOLEAN : ReplyUnparsed(check, cut_off)
  <2>1. /\ pc = "calling" /\ pc' = "checking" /\ report' = Unparsed /\ UNCHANGED outcome
    BY <1>4 DEF ReplyUnparsed
  <2>2. QED
    BY <1>b, <2>1
<1>5. CASE CallFails \/ WorkerRaises \/ BackstopFires
  <2>1. pc' = "settled" /\ report' = report /\ \E reason, n : outcome' = Failure(reason, n)
    BY <1>5 DEF CallFails, WorkerRaises, BackstopFires, Settle
  <2>2. outcome'.kind # "report"
    BY <2>1, Outcomes
  <2>3. AcceptedIsVouchedFor' /\ SalvageKeepsTheRest'
    BY <2>2 DEF AcceptedIsVouchedFor, SalvageKeepsTheRest
  <2>4. QED
    BY <1>0, <2>1, <2>2, <2>3 DEF VouchInv
<1>6. CASE Accept
  <2>1. /\ pc = "checking" /\ problems = {} /\ report # Unparsed /\ UNCHANGED report
        /\ pc' = "settled" /\ outcome' = Success(report, attempt)
    BY <1>6 DEF Accept, Settle
  <2>2. report \in Report /\ Problems(report) = {}
    BY <1>0, <2>1 DEF VouchInv
  <2>3. outcome'.kind = "report" /\ outcome'.report = report
    BY <2>1, Outcomes
  <2>4. /\ Len(report.findings) = Cardinality(Good(report))
        /\ \A i \in Good(report) : report.findings[Rank(Good(report), i)] = report.findings[i]
    BY <2>2, AcceptedWhole
  <2>5. AcceptedIsVouchedFor'
    BY <2>2, <2>3 DEF AcceptedIsVouchedFor
  <2>6. SalvageKeepsTheRest'
    BY <2>1, <2>3, <2>4 DEF SalvageKeepsTheRest, Good, Rank
  <2>7. QED
    BY <2>1, <2>2, <2>5, <2>6 DEF VouchInv
<1>7. CASE SalvageOrReject
  <2>1. pc = "rejected" /\ pc' = "settled" /\ UNCHANGED report
    BY <1>7 DEF SalvageOrReject, Settle
  <2>2. CASE report # Unparsed /\ Salvageable(problems)
    <3> DEFINE new == Salvage(report, Problems(report))
    <3>1. report \in Report /\ problems = Problems(report)
      BY <1>0, <2>1, <2>2 DEF VouchInv
    <3>2. outcome' = Success(new, MaxAttempts)
      BY <1>7, <2>2, <3>1, Zenon DEF SalvageOrReject, Settle
    <3>3. /\ Len(new.findings) = Cardinality(Good(report))
          /\ \A i \in Good(report) : new.findings[Rank(Good(report), i)] = report.findings[i]
          /\ \A p \in Problems(new) : p.check = "found"
      BY <2>2, <3>1, Salvaged
    <3> HIDE DEF new
    <3>4. outcome'.kind = "report" /\ outcome'.report = new /\ outcome'.attempts = MaxAttempts
      BY <3>2 DEF Success
    <3>5. AcceptedIsVouchedFor'
      BY <3>3, <3>4 DEF AcceptedIsVouchedFor
    <3>6. SalvageKeepsTheRest'
      BY <2>1, <3>3, <3>4 DEF SalvageKeepsTheRest, Good, Rank
    <3>7. QED
      BY <2>1, <3>1, <3>5, <3>6 DEF VouchInv
  <2>3. CASE ~(report # Unparsed /\ Salvageable(problems))
    <3>1. outcome' = Failure(Reason(problems), MaxAttempts)
      BY <1>7, <2>3, Zenon DEF SalvageOrReject, Settle
    <3>2. outcome'.kind # "report"
      BY <3>1, Outcomes
    <3>3. AcceptedIsVouchedFor' /\ SalvageKeepsTheRest'
      BY <3>2 DEF AcceptedIsVouchedFor, SalvageKeepsTheRest
    <3>4. QED
      BY <1>0, <2>1, <3>2, <3>3 DEF VouchInv
  <2>4. QED
    BY <2>2, <2>3
<1>8. CASE Record
  <2>1. pc' = "recorded" /\ UNCHANGED <<report, outcome>>
    BY <1>8 DEF Record
  <2>2. QED
    BY <2>1 DEF VouchInv, AcceptedIsVouchedFor, SalvageKeepsTheRest
<1>9. CASE UNCHANGED vars
  BY <1>9 DEF vars, VouchInv, AcceptedIsVouchedFor, SalvageKeepsTheRest
<1>10. QED
  BY <1>1, <1>2, <1>3, <1>4, <1>5, <1>6, <1>7, <1>8, <1>9 DEF Next

\* Whatever path a report took to be accepted, no finding in it fails a check, it is about
\* this slice, and it has findings only if it says it is relevant.
THEOREM AcceptedIsSound == Spec => []AcceptedIsVouchedFor
<1>1. VouchInv => AcceptedIsVouchedFor
  BY DEF VouchInv
<1>2. QED
  BY <1>1, VouchInit, VouchNext, PTL DEF Spec

\* What is accepted has every finding of the last reply that passes its checks, in order,
\* and no other.
THEOREM NothingGoodIsDropped == Spec => []SalvageKeepsTheRest
<1>1. VouchInv => SalvageKeepsTheRest
  BY DEF VouchInv
<1>2. QED
  BY <1>1, VouchInit, VouchNext, PTL DEF Spec

=============================================================================
