----------------------------- MODULE GruntReports -----------------------------
(***************************************************************************)
(* What a worker's report must be to be believed, and what is kept of one  *)
(* that is not: the citation checks of validation/citations.py and the     *)
(* salvage of grunt.py, as operators.                                      *)
(*                                                                         *)
(* A reference is a line of the slice, a well-formed reference to some     *)
(* other line (Elsewhere), prose in a reference field (Malformed) or the   *)
(* empty string (NoRef). What a description says is the set of indicators  *)
(* it names. A problem is what it is about (0: the report as a whole) and  *)
(* the check that found it.                                                *)
(*                                                                         *)
(* A definition D_Bug is a plausible mistake in D, used by nothing here.   *)
(***************************************************************************)
EXTENDS Naturals, Sequences, FiniteSets, SequencesExt

CONSTANTS
  Slice,       \* the lines the worker was shown, in order
  Indicators,  \* the alert's entity values, exact strings
  Shows,       \* Shows[l]: the indicators that occur in line l
  Elsewhere, Malformed, NoRef,
  MaxRefs,     \* MAX_REPRESENTATIVE_REFS
  DefaultShown \* how many lines stand in for a report that cites none

Lines == ToSet(Slice)
Refs == Lines \cup {Elsewhere, Malformed}

ASSUME SliceAssumption ==
  /\ Shows \in [Lines -> SUBSET Indicators]
  /\ {Elsewhere, Malformed, NoRef} \cap Lines = {}
  /\ Cardinality({Elsewhere, Malformed, NoRef}) = 3
  /\ MaxRefs \in Nat /\ DefaultShown \in Nat

Finding == [refs : Seq(Refs \cup {NoRef}), first : Refs \cup {NoRef},
            last : Refs \cup {NoRef}, match_count : Int, names : SUBSET Indicators]

Report == [relevant : BOOLEAN, findings : Seq(Finding), found : BOOLEAN, slice_id_ok : BOOLEAN]

Problem(about, check) == [about |-> about, check |-> check]

(***************************************************************************)
(* The checks.                                                             *)
(***************************************************************************)

\* _check_refs, for the references in a set.
RefProblems(refs, i) ==
  {Problem(i, "malformed") : r \in refs \cap {Malformed, NoRef}}
    \cup {Problem(i, "unseen") : r \in refs \cap {Elsewhere}}

\* The indicators that occur in the lines a finding cites.
CitedText(finding) ==
  UNION {Shows[l] : l \in ToSet(finding.refs) \cap Lines}

\* _check_description_matches_lines: every indicator a description names occurs in one
\* of the lines it cites, provided it cites any.
Unsupported(finding) ==
  /\ ToSet(finding.refs) \cap Lines # {}
  /\ ~(finding.names \subseteq CitedText(finding))

FindingProblems(finding, i) ==
  {p \in {Problem(i, "no_refs"), Problem(i, "too_many"), Problem(i, "count"),
          Problem(i, "unsupported")} :
     \/ p.check = "no_refs" /\ finding.refs = <<>>
     \/ p.check = "too_many" /\ Len(finding.refs) > MaxRefs
     \/ p.check = "count" /\ finding.match_count < Len(finding.refs)
     \/ p.check = "unsupported" /\ Unsupported(finding)}
  \cup RefProblems(ToSet(finding.refs) \cup ({finding.first, finding.last} \ {NoRef}), i)

\* validate_report_citations; a report is accepted when there are none.
Problems(report) ==
  {p \in {Problem(0, "relevance"), Problem(0, "found"), Problem(0, "slice_id")} :
     \/ p.check = "relevance" /\ ~report.relevant /\ report.findings # <<>>
     \/ p.check = "found" /\ ~report.relevant /\ report.found
     \/ p.check = "slice_id" /\ ~report.slice_id_ok}
  \cup UNION {FindingProblems(report.findings[i], i) : i \in DOMAIN report.findings}

(***************************************************************************)
(* Salvage.                                                                *)
(***************************************************************************)

\* Keeping what nothing was said against, whatever else was.
Salvageable_AnyReport(problems) == \E p \in problems : p.about # 0

\* Every problem is some finding's own: only then is the rest of the report trusted.
Salvageable(problems) == problems # {} /\ \A p \in problems : p.about # 0

\* The findings at some places of a list, in the order they were in.
FindingsAt(findings, places) ==
  [n \in 1 .. Cardinality(places) |->
     findings[CHOOSE i \in places : Cardinality({j \in places : j <= i}) = n]]

\* Taking the numbers in the messages to count from one.
Salvage_Shifted(report, problems) ==
  LET blameless == {i \in DOMAIN report.findings : \A p \in problems : p.about + 1 # i}
      kept == FindingsAt(report.findings, blameless)
  IN [report EXCEPT !.findings = kept, !.relevant = kept # <<>>]

\* _drop_failed_findings, for a report that is salvageable.
Salvage(report, problems) ==
  LET blameless == {i \in DOMAIN report.findings : \A p \in problems : p.about # i}
      kept == FindingsAt(report.findings, blameless)
  IN [report EXCEPT !.findings = kept, !.relevant = kept # <<>>]

\* A reply that is no report: the complaint is about its syntax or some field of it, or it
\* names the field representative_refs.
UnparsedChecks == {"parse", "parse_refs"}

\* The reason a rejected report is filed under: a substring of the messages decides. The
\* text about a malformed reference says "citation", and the hint about a reply that was
\* cut off talks of representative_refs, as may what the schema says of a reply.
Reason(problems) ==
  IF \E p \in problems :
       p.check \in {"no_refs", "too_many", "count", "unseen", "unsupported", "truncated",
                   "parse_refs"}
  THEN "citations" ELSE "schema"

(***************************************************************************)
(* What a close_read makes of an accepted report.                          *)
(***************************************************************************)

CitedRefs(report) ==
  UNION {ToSet(report.findings[i].refs) \cup ({report.findings[i].first} \ {NoRef}) :
           i \in DOMAIN report.findings}

\* The lines that go into the ledger: those cited, in order, or the first few.
ShownLines(report) ==
  LET cited == SelectSeq(Slice, LAMBDA l : l \in CitedRefs(report))
  IN IF cited # <<>> THEN cited
     ELSE SubSeq(Slice, 1, IF Len(Slice) < DefaultShown THEN Len(Slice) ELSE DefaultShown)

\* Reading a report by the flag it carries.
Tells_TrustsRelevant(report) == report.relevant

\* The step's summary reports something: a finding, or a hit filed under checked_for.
Tells(report) == report.findings # <<>> \/ report.found

=============================================================================
