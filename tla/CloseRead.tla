------------------------------ MODULE CloseRead ------------------------------
(***************************************************************************)
(* One close_read that has lines to read: the worker (run_grunt_task), the *)
(* model calls it makes, and the orchestrator that waits for it with a     *)
(* backstop (_close_read).                                                 *)
(*                                                                         *)
(* The worker asks, checks the report and asks again with the problems, a  *)
(* bounded number of times, then salvages what it can. Time passes while a *)
(* call is out; the backstop counts all of it, whichever call it is spent  *)
(* on. A call may fail, raise something nobody expects, or never return.   *)
(***************************************************************************)
EXTENDS GruntReports

CONSTANTS
  Reports,      \* the reports the model may answer with
  MaxAttempts,  \* max_validation_retries + 1
  Backstop,     \* request_timeout_s + TASK_TIMEOUT_MARGIN_S, in ticks
  Unparsed      \* report = None

ASSUME CloseReadAssumption ==
  /\ Reports \subseteq Report
  /\ Unparsed \notin Report
  /\ MaxAttempts \in Nat \ {0}
  /\ Backstop \in Nat \ {0}

VARIABLES
  pc,        \* "asking", "calling", "checking", "rejected", "settled", "recorded"
  attempt,   \* the attempt that is being made
  elapsed,   \* time since the task was created
  report,    \* the last reply, if it parsed
  problems,  \* what is wrong with it
  made,      \* calls made
  logged,    \* llm_call records in the transcript
  outcome,   \* what the worker came to, as _close_read sees it
  step       \* the step in the ledger

vars == <<pc, attempt, elapsed, report, problems, made, logged, outcome, step>>

Failures == {"timeout", "transport", "schema", "citations", "internal"}

NoOutcome == [kind |-> "none", reason |-> "", report |-> Unparsed, attempts |-> 0]
Failure(reason, n) == [kind |-> "failure", reason |-> reason, report |-> Unparsed, attempts |-> n]
Success(rep, n) == [kind |-> "report", reason |-> "", report |-> rep, attempts |-> n]

NoStep == [written |-> FALSE, error |-> "", tells |-> FALSE, lines |-> <<>>]

Init ==
  /\ pc = "asking" /\ attempt = 1 /\ elapsed = 0
  /\ report = Unparsed /\ problems = {}
  /\ made = 0 /\ logged = 0
  /\ outcome = NoOutcome /\ step = NoStep

Settle(result) == pc' = "settled" /\ outcome' = result

(***************************************************************************)
(* The model call.                                                         *)
(***************************************************************************)

Call ==
  /\ pc = "asking"
  /\ pc' = "calling"
  /\ made' = made + 1
  /\ UNCHANGED <<attempt, elapsed, report, problems, logged, outcome, step>>

Tick ==
  /\ pc = "calling"
  /\ elapsed < Backstop
  /\ elapsed' = elapsed + 1
  /\ UNCHANGED <<pc, attempt, report, problems, made, logged, outcome, step>>

\* The reply parses to a report, and the checks are run on it.
ReplyParses(rep) ==
  /\ pc = "calling"
  /\ pc' = "checking"
  /\ report' = rep
  /\ problems' = Problems(rep)
  /\ logged' = logged + 1
  /\ UNCHANGED <<attempt, elapsed, made, outcome, step>>

\* It does not: not JSON, not the schema, or cut off at the token limit.
ReplyUnparsed(check, cut_off) ==
  /\ pc = "calling"
  /\ pc' = "checking"
  /\ report' = Unparsed
  /\ problems' = {Problem(0, check)} \cup (IF cut_off THEN {Problem(0, "truncated")} ELSE {})
  /\ logged' = logged + 1
  /\ UNCHANGED <<attempt, elapsed, made, outcome, step>>

\* The endpoint fails, times out or returns nothing. That is not asked again.
CallFails ==
  /\ pc = "calling"
  /\ Settle(Failure("transport", attempt))
  /\ logged' = logged + 1
  /\ UNCHANGED <<attempt, elapsed, report, problems, made, step>>

\* Anything else is raised through the worker and caught where it is awaited: an error
\* in the client, in the prompt, or in the transcript.
WorkerRaises ==
  /\ pc \in {"asking", "calling", "checking", "rejected"}
  /\ Settle(Failure("internal", 0))
  /\ UNCHANGED <<attempt, elapsed, report, problems, made, logged, step>>

\* Looking at the time between attempts only.
BackstopFires_BetweenAttempts ==
  /\ pc = "checking"
  /\ elapsed = Backstop
  /\ Settle(Failure("timeout", 0))
  /\ UNCHANGED <<attempt, elapsed, report, problems, made, logged, step>>

\* The backstop cancels the call that is out, with everything the attempts had come to.
BackstopFires ==
  /\ pc = "calling"
  /\ elapsed = Backstop
  /\ Settle(Failure("timeout", 0))
  /\ UNCHANGED <<attempt, elapsed, report, problems, made, logged, step>>

(***************************************************************************)
(* The worker's verdict on a reply.                                        *)
(***************************************************************************)

Accept ==
  /\ pc = "checking"
  /\ problems = {} /\ report # Unparsed
  /\ Settle(Success(report, attempt))
  /\ UNCHANGED <<attempt, elapsed, report, problems, made, logged, step>>

MayAskAgain == attempt < MaxAttempts

\* The next request carries the reply and what was wrong with it.
AskAgain ==
  /\ pc = "checking"
  /\ problems # {}
  /\ MayAskAgain
  /\ pc' = "asking"
  /\ attempt' = attempt + 1
  /\ UNCHANGED <<elapsed, report, problems, made, logged, outcome, step>>

GiveUp ==
  /\ pc = "checking"
  /\ problems # {}
  /\ ~MayAskAgain
  /\ pc' = "rejected"
  /\ UNCHANGED <<attempt, elapsed, report, problems, made, logged, outcome, step>>

SalvageOrReject ==
  /\ pc = "rejected"
  /\ Settle(IF report # Unparsed /\ Salvageable(problems)
            THEN Success(Salvage(report, problems), MaxAttempts)
            ELSE Failure(Reason(problems), MaxAttempts))
  /\ UNCHANGED <<attempt, elapsed, report, problems, made, logged, step>>

\* _close_read turns the outcome into the step.
Record ==
  /\ pc = "settled"
  /\ pc' = "recorded"
  /\ step' = IF outcome.kind = "failure"
             THEN [written |-> TRUE, error |-> outcome.reason, tells |-> FALSE, lines |-> <<>>]
             ELSE [written |-> TRUE, error |-> "", tells |-> Tells(outcome.report),
                   lines |-> ShownLines(outcome.report)]
  /\ UNCHANGED <<attempt, elapsed, report, problems, made, logged, outcome>>

Next ==
  \/ Call \/ Tick
  \/ \E rep \in Reports : ReplyParses(rep)
  \/ \E check \in UnparsedChecks, cut_off \in BOOLEAN : ReplyUnparsed(check, cut_off)
  \/ CallFails \/ WorkerRaises \/ BackstopFires
  \/ Accept \/ AskAgain \/ GiveUp \/ SalvageOrReject \/ Record

Spec == Init /\ [][Next]_vars

\* The event loop runs whoever is ready, and time passes. Nothing obliges the endpoint to
\* answer: a call may hang for ever.
Fairness ==
  /\ WF_vars(Call) /\ WF_vars(Tick) /\ WF_vars(BackstopFires)
  /\ WF_vars(Accept) /\ WF_vars(AskAgain) /\ WF_vars(GiveUp)
  /\ WF_vars(SalvageOrReject) /\ WF_vars(Record)

FairSpec == Spec /\ Fairness

-----------------------------------------------------------------------------
(***************************************************************************)
(* Properties.                                                             *)
(***************************************************************************)

\* Whatever path a report took to be accepted, at once, at the retry, or salvaged when the
\* last attempt failed: no finding in it fails a check, it is about this slice, and it
\* carries findings only if it says it is relevant.
AcceptedIsVouchedFor ==
  outcome.kind = "report" =>
    /\ \A p \in Problems(outcome.report) : p.check = "found"
    /\ \A p \in Problems(outcome.report) : outcome.attempts = MaxAttempts

\* Dropping the bad findings drops nothing else: every finding the last report made that
\* passes its checks is in what was accepted, and nothing else is, in the same order.
SalvageKeepsTheRest ==
  outcome.kind = "report" =>
    LET good == {i \in DOMAIN report.findings : FindingProblems(report.findings[i], i) = {}}
        place(i) == Cardinality({j \in good : j <= i})
    IN /\ Len(outcome.report.findings) = Cardinality(good)
       /\ \A i \in good : outcome.report.findings[place(i)] = report.findings[i]

\* A positive is a positive wherever the worker filed it: a hit in a report that was
\* accepted is told to the commander, also when salvage declared the slice irrelevant.
PositivesAreTold ==
  (step.written /\ step.error = "" /\ report # Unparsed /\ report.found) => step.tells

\* A close_read always comes to a step, even if the endpoint never answers.
AlwaysRecorded == <>(pc = "recorded")

=============================================================================
