---------------------------- MODULE Investigation ----------------------------
(***************************************************************************)
(* The orchestrator's state machine: one investigation, from RECEIVED to a *)
(* terminal state, and the evidence ledger it grows.                       *)
(*                                                                         *)
(* One turn of the loop in Orchestrator.run has two instants that other    *)
(* processes can fall between, and  phase  says which one the loop is at:  *)
(*   "boundary"  about to poll the ABORT sentinel for the state it is in;  *)
(*   "handler"   past the poll, inside the handler of that state, which    *)
(*               may be awaiting a model for minutes.                      *)
(* abort.py is another process: it may write the sentinel at any moment.   *)
(* A handler may raise, before or after it has recorded its step.          *)
(*                                                                         *)
(* What an action returned is abstracted to whether it was an error and    *)
(* whether it was served from an earlier step. What the commander asks is  *)
(* a member of Actions, up to the identity the orchestrator compares.      *)
(*                                                                         *)
(* A definition whose name has the form D_Bug is a plausible mistake in D. *)
(* Nothing uses it here: putting it in the place of D breaks the property  *)
(* that PROJECT.json pairs it with.                                        *)
(***************************************************************************)
EXTENDS Naturals, Sequences, FiniteSets

CONSTANTS
  Actions,        \* the questions the commander can ask, other than conclude
  CloseReads,     \* those of them that are handed to a worker model
  NoAction,       \* pending_action is None
  MaxIterations,  \* run.max_iterations
  MinSteps,       \* run.min_steps_before_conclude
  MaxCrashes      \* bound: exceptions the environment provokes in one run

ASSUME ConstantsAssumption ==
  /\ CloseReads \subseteq Actions
  /\ NoAction \notin Actions
  /\ MaxIterations \in Nat \ {0}
  /\ MinSteps \in Nat
  /\ MaxCrashes \in Nat

VARIABLES
  state,           \* context.state
  phase,           \* where in its turn the loop is
  iteration,       \* context.iteration
  profile,         \* context.profile is not None
  pending_action,  \* context.pending_action
  concluded,
  iteration_cap_hit,
  aborted_by_operator,
  failure_reason,
  body,            \* context.body is not None
  ledger,          \* self._evidence.steps
  registry,        \* self._registry: ledger indices of the workers in flight
  sentinel,        \* the ABORT file, as read_abort returns it
  outcome,         \* whether Orchestrator.run is running, returned or raised
  brief,           \* RunResult.brief
  crashes,         \* exceptions so far
  doubled          \* crashes that came after the step had been recorded

context == <<state, phase, iteration, profile, pending_action, concluded,
             iteration_cap_hit, aborted_by_operator, failure_reason, body>>

vars == <<context, ledger, registry, sentinel, outcome, brief, crashes, doubled>>

(***************************************************************************)
(* States and the legal-transition table.                                  *)
(***************************************************************************)

TerminalStates ==
  {"DONE", "FAILED_PREFLIGHT", "FAILED_INVESTIGATION", "FAILED_SYNTHESIS",
   "ABORTED_BY_OPERATOR"}

States ==
  TerminalStates \cup
  {"RECEIVED", "PROFILING", "INVESTIGATING", "EXECUTING",
   "ABORTED_ITERATION_CAP", "ABORTING", "SYNTHESIZING"}

LegalTransitions ==
  [s \in States |->
     CASE s = "RECEIVED" ->
            {"PROFILING", "FAILED_PREFLIGHT", "ABORTED_BY_OPERATOR"}
       [] s = "PROFILING" ->
            {"INVESTIGATING", "FAILED_INVESTIGATION", "ABORTED_BY_OPERATOR"}
       [] s = "INVESTIGATING" ->
            {"EXECUTING", "SYNTHESIZING", "FAILED_INVESTIGATION", "ABORTING",
             "ABORTED_BY_OPERATOR"}
       [] s = "EXECUTING" ->
            {"INVESTIGATING", "ABORTED_ITERATION_CAP", "ABORTING",
             "ABORTED_BY_OPERATOR"}
       [] s \in {"ABORTED_ITERATION_CAP", "ABORTING"} -> {"SYNTHESIZING"}
       [] s = "SYNTHESIZING" -> {"DONE", "FAILED_SYNTHESIS"}
       [] OTHER -> {}]

\* Forgetting that the commander's turn can be interrupted.
AbortableAtBoundary_SkipsInvestigating == {"RECEIVED", "PROFILING"}

\* The states whose poll can honour an abort; EXECUTING polls for itself.
AbortableAtBoundary == {"RECEIVED", "PROFILING", "INVESTIGATING"}

(***************************************************************************)
(* The ledger.                                                             *)
(***************************************************************************)

\* "failed" is an error the action itself reports, "crashed" the entry that
\* _crash_context writes; repeat_of is 0 or the step whose answer was reused.
Step == [action : Actions, error : {"none", "failed", "crashed"}, repeat_of : Nat]

\* Building the step once the context's pending action has been cleared.
StepOf_AfterClearing(a, err, rep) == [action |-> NoAction, error |-> err, repeat_of |-> rep]

StepOf(a, err, rep) == [action |-> a, error |-> err, repeat_of |-> rep]

\* Taking a failed step for an answer.
Identical_CountsErrors(a) == {i \in DOMAIN ledger : ledger[i].action = a}

\* Earlier steps that asked exactly this and got an answer.
Identical(a) == {i \in DOMAIN ledger : /\ ledger[i].action = a
                                       /\ ledger[i].error = "none"}

\* The one _previous_identical picks: the earliest.
PreviousIdentical(a) == {i \in Identical(a) : \A j \in Identical(a) : i <= j}

\* A worker is needed: a close_read nobody has answered yet.
NeedsWorker(a) == a \in CloseReads /\ Identical(a) = {}

\* Every step the pending action can be recorded as at this point. A close_read
\* whose worker has not been dispatched can only have had no lines in its range.
RecordableSteps ==
  IF Identical(pending_action) # {}
  THEN {StepOf(pending_action, "none", i) : i \in PreviousIdentical(pending_action)}
  ELSE {StepOf(pending_action, err, 0) :
          err \in IF NeedsWorker(pending_action) /\ registry = {}
                  THEN {"failed"} ELSE {"none", "failed"}}

(***************************************************************************)
(* The abort sentinel.                                                     *)
(***************************************************************************)

Modes == {"graceful", "hard"}

\* requested_at is logical time: how many steps the ledger held at the first request.
NoSentinel == [mode |-> "none", requested_at |-> 0]

AbortReason(mode) == IF mode = "hard" THEN "aborted (hard)" ELSE "aborted (graceful)"

Reasons == {"", "aborted (hard)", "aborted (graceful)", "undecided",
            "internal error", "synthesis"}

\* Graceful owes a brief, even about nothing.
AbortTarget_IgnoresLedger(mode, steps) ==
  IF mode = "hard" THEN "ABORTED_BY_OPERATOR" ELSE "ABORTING"

\* The state an abort routes to: a hard one, or one with nothing to write up, stops.
AbortTarget(mode, steps) ==
  IF mode = "hard" \/ steps = <<>> THEN "ABORTED_BY_OPERATOR" ELSE "ABORTING"

(***************************************************************************)
(* The brief: the fields code stamps on it, which no model can forget.     *)
(***************************************************************************)

NoBrief == [written |-> FALSE, terminal_state |-> "", aborted_by_operator |-> FALSE,
            iterations_used |-> 0, steps_taken |-> 0]

\* Counting the turns for the steps.
AssembledBrief_CountsTurns ==
  [written |-> TRUE, terminal_state |-> state,
   aborted_by_operator |-> aborted_by_operator,
   iterations_used |-> iteration, steps_taken |-> iteration]

AssembledBrief ==
  [written |-> TRUE, terminal_state |-> state,
   aborted_by_operator |-> aborted_by_operator,
   iterations_used |-> iteration, steps_taken |-> Len(ledger)]

Briefs == [written : BOOLEAN, terminal_state : States \cup {""},
           aborted_by_operator : BOOLEAN, iterations_used : Nat, steps_taken : Nat]

(***************************************************************************)
(* Init and the helpers of the actions.                                    *)
(***************************************************************************)

Init ==
  /\ state = "RECEIVED" /\ phase = "boundary" /\ iteration = 0
  /\ profile = FALSE /\ pending_action = NoAction
  /\ concluded = FALSE /\ iteration_cap_hit = FALSE
  /\ aborted_by_operator = FALSE /\ failure_reason = "" /\ body = FALSE
  /\ ledger = <<>> /\ registry = {}
  /\ sentinel = NoSentinel
  /\ outcome = "running" /\ brief = NoBrief
  /\ crashes = 0 /\ doubled = 0

Handling(s) == outcome = "running" /\ phase = "handler" /\ state = s

\* The handler returns a context in state s, and the loop comes round.
Enter(s) == state' = s /\ phase' = "boundary"

\* A handler that touches neither the ledger nor the world outside the context.
ContextOnly == UNCHANGED <<ledger, registry, sentinel, outcome, brief, crashes, doubled>>

\* _abort_context: where the abort goes and what it stamps on the context.
AbortContext(mode, steps) ==
  /\ Enter(AbortTarget(mode, steps))
  /\ aborted_by_operator' = TRUE
  /\ failure_reason' = AbortReason(mode)

(***************************************************************************)
(* The loop: the poll at the state boundary.                               *)
(***************************************************************************)

PollAborts ==
  /\ outcome = "running" /\ phase = "boundary"
  /\ state \in AbortableAtBoundary
  /\ sentinel.mode \in Modes
  /\ AbortContext(sentinel.mode, ledger)
  /\ UNCHANGED <<iteration, profile, pending_action, concluded, iteration_cap_hit, body>>
  /\ ContextOnly

PollPasses ==
  /\ outcome = "running" /\ phase = "boundary"
  /\ state \notin TerminalStates
  /\ state \in AbortableAtBoundary => sentinel.mode \notin Modes
  /\ phase' = "handler"
  /\ UNCHANGED <<state, iteration, profile, pending_action, concluded,
                 iteration_cap_hit, aborted_by_operator, failure_reason, body>>
  /\ ContextOnly

(***************************************************************************)
(* The handlers.                                                           *)
(***************************************************************************)

OnReceived ==
  /\ Handling("RECEIVED")
  /\ Enter("PROFILING")
  /\ UNCHANGED <<iteration, profile, pending_action, concluded, iteration_cap_hit,
                 aborted_by_operator, failure_reason, body>>
  /\ ContextOnly

OnProfiling ==
  /\ Handling("PROFILING")
  /\ Enter("INVESTIGATING")
  /\ profile' = TRUE
  /\ UNCHANGED <<iteration, pending_action, concluded, iteration_cap_hit,
                 aborted_by_operator, failure_reason, body>>
  /\ ContextOnly

\* decide_action returned a question.
DecideAction(a) ==
  /\ Handling("INVESTIGATING")
  /\ Enter("EXECUTING")
  /\ pending_action' = a
  /\ UNCHANGED <<iteration, profile, concluded, iteration_cap_hit,
                 aborted_by_operator, failure_reason, body>>
  /\ ContextOnly

\* decide_action returned a conclusion; the validator refuses one that is early.
DecideConclude ==
  /\ Handling("INVESTIGATING")
  /\ Len(ledger) >= MinSteps
  /\ Enter("SYNTHESIZING")
  /\ concluded' = TRUE
  /\ UNCHANGED <<iteration, profile, pending_action, iteration_cap_hit,
                 aborted_by_operator, failure_reason, body>>
  /\ ContextOnly

\* Asking again for free when the commander could not decide.
DecideFails_RetriesForFree ==
  /\ Handling("INVESTIGATING")
  /\ Enter(IF ledger # <<>> THEN "INVESTIGATING" ELSE "FAILED_INVESTIGATION")
  /\ failure_reason' = "undecided"
  /\ UNCHANGED <<iteration, profile, pending_action, concluded, iteration_cap_hit,
                 aborted_by_operator, body>>
  /\ ContextOnly

\* decide_action gave up: rejected on every attempt, or the endpoint is gone.
DecideFails ==
  /\ Handling("INVESTIGATING")
  /\ Enter(IF ledger # <<>> THEN "SYNTHESIZING" ELSE "FAILED_INVESTIGATION")
  /\ failure_reason' = "undecided"
  /\ UNCHANGED <<iteration, profile, pending_action, concluded, iteration_cap_hit,
                 aborted_by_operator, body>>
  /\ ContextOnly

\* A close_read registers its worker and awaits it.
DispatchCloseRead ==
  /\ Handling("EXECUTING")
  /\ NeedsWorker(pending_action)
  /\ registry = {}
  /\ registry' = {Len(ledger) + 1}
  /\ UNCHANGED <<context, ledger, sentinel, outcome, brief, crashes, doubled>>

\* Dropping the step in hand when the operator wants out at once.
RecordStep_AbortDiscards(step) ==
  ledger' = IF sentinel.mode = "hard" THEN ledger ELSE Append(ledger, step)

RecordStep(step) == ledger' = Append(ledger, step)

\* Off by one at the cap.
CapReached_OffByOne(n) == n > MaxIterations

CapReached(n) == n >= MaxIterations

\* Looking at the cap before looking for an abort.
AbortBeatsCap_Swapped(n) == sentinel.mode \in Modes /\ ~CapReached(n)

\* The abort seen during execution decides the run's fate, cap or no cap.
AbortBeatsCap(n) == sentinel.mode \in Modes

\* The step is recorded; then the abort, the cap and the next turn, in that order.
OnExecuting ==
  /\ Handling("EXECUTING")
  /\ \E step \in RecordableSteps : RecordStep(step)
  /\ registry' = {}
  /\ iteration' = iteration + 1
  /\ pending_action' = NoAction
  /\ \/ /\ AbortBeatsCap(iteration + 1)
        /\ AbortContext(sentinel.mode, ledger')
        /\ UNCHANGED iteration_cap_hit
     \/ /\ ~AbortBeatsCap(iteration + 1)
        /\ CapReached(iteration + 1)
        /\ Enter("ABORTED_ITERATION_CAP")
        /\ iteration_cap_hit' = TRUE
        /\ UNCHANGED <<aborted_by_operator, failure_reason>>
     \/ /\ ~AbortBeatsCap(iteration + 1)
        /\ ~CapReached(iteration + 1)
        /\ Enter("INVESTIGATING")
        /\ UNCHANGED <<iteration_cap_hit, aborted_by_operator, failure_reason>>
  /\ UNCHANGED <<profile, concluded, body, sentinel, outcome, brief, crashes, doubled>>

OnAborting ==
  /\ Handling("ABORTING")
  /\ Enter("SYNTHESIZING")
  /\ UNCHANGED <<iteration, profile, pending_action, concluded, iteration_cap_hit,
                 aborted_by_operator, failure_reason, body>>
  /\ ContextOnly

OnCapReached ==
  /\ Handling("ABORTED_ITERATION_CAP")
  /\ Enter("SYNTHESIZING")
  /\ UNCHANGED <<iteration, profile, pending_action, concluded, iteration_cap_hit,
                 aborted_by_operator, failure_reason, body>>
  /\ ContextOnly

\* synthesize_brief returned a body, or an error.
OnSynthesizing ==
  /\ Handling("SYNTHESIZING")
  /\ \/ Enter("DONE") /\ body' = TRUE /\ UNCHANGED failure_reason
     \/ Enter("FAILED_SYNTHESIS") /\ failure_reason' = "synthesis" /\ UNCHANGED body
  /\ UNCHANGED <<iteration, profile, pending_action, concluded, iteration_cap_hit,
                 aborted_by_operator>>
  /\ ContextOnly

(***************************************************************************)
(* Exceptions.                                                             *)
(***************************************************************************)

Crash == crashes < MaxCrashes /\ crashes' = crashes + 1

\* A profile is only a page of counts: carry on without it.
CrashRoute_ProfileOptional(s) ==
  CASE s = "PROFILING" -> "INVESTIGATING"
    [] s = "INVESTIGATING" -> IF ledger # <<>> THEN "SYNTHESIZING" ELSE "FAILED_INVESTIGATION"
    [] s = "SYNTHESIZING" -> "FAILED_SYNTHESIS"

\* A brief is owed whatever happened.
CrashRoute_AlwaysSynthesizes(s) ==
  CASE s = "PROFILING" -> "FAILED_INVESTIGATION"
    [] s = "INVESTIGATING" -> "SYNTHESIZING"
    [] s = "SYNTHESIZING" -> "FAILED_SYNTHESIS"

\* Where an exception leaves a state that has no step to record.
CrashRoute(s) ==
  CASE s = "PROFILING" -> "FAILED_INVESTIGATION"
    [] s = "INVESTIGATING" -> IF ledger # <<>> THEN "SYNTHESIZING" ELSE "FAILED_INVESTIGATION"
    [] s = "SYNTHESIZING" -> "FAILED_SYNTHESIS"

CrashReason_Missing == failure_reason

CrashReason == "internal error"

\* An exception in a handler that has no step to record: _crash_context routes it.
HandlerCrash ==
  /\ \E s \in {"PROFILING", "INVESTIGATING", "SYNTHESIZING"} :
       Handling(s) /\ Enter(CrashRoute(s))
  /\ failure_reason' = CrashReason
  /\ Crash
  /\ UNCHANGED <<iteration, profile, pending_action, concluded, iteration_cap_hit,
                 aborted_by_operator, body, ledger, registry, sentinel, outcome,
                 brief, doubled>>

\* What _crash_context does for EXECUTING: the crash becomes a step, the turn goes
\* back to the commander. recorded is the ledger the handler had reached.
RecordCrash(recorded) ==
  /\ ledger' = Append(recorded, StepOf(pending_action, "crashed", 0))
  /\ Enter("INVESTIGATING")
  /\ iteration' = iteration + 1
  /\ pending_action' = NoAction
  /\ registry' = {}
  /\ Crash
  /\ UNCHANGED <<profile, concluded, iteration_cap_hit, aborted_by_operator,
                 failure_reason, body, sentinel, outcome, brief>>

\* The action itself raised.
ExecutionCrash ==
  /\ Handling("EXECUTING")
  /\ RecordCrash(ledger)
  /\ UNCHANGED doubled

\* The step was added, then logging or displaying it raised.
CrashAfterRecording ==
  /\ Handling("EXECUTING")
  /\ \E step \in RecordableSteps : RecordCrash(Append(ledger, step))
  /\ doubled' = doubled + 1

\* An exception outside every handler, one _crash_context re-raises, or Ctrl-C:
\* Orchestrator.run raises and nobody assembles anything.
LoopRaises ==
  /\ outcome = "running"
  /\ outcome' = "raised"
  /\ registry' = {}
  /\ Crash
  /\ UNCHANGED <<context, ledger, sentinel, brief, doubled>>

(***************************************************************************)
(* The end of the run, and the operator.                                   *)
(***************************************************************************)

\* The loop is over: the brief is assembled iff there is a body.
Finish ==
  /\ outcome = "running" /\ phase = "boundary"
  /\ state \in TerminalStates
  /\ outcome' = "returned"
  /\ brief' = IF body THEN AssembledBrief ELSE NoBrief
  /\ UNCHANGED <<context, ledger, registry, sentinel, crashes, doubled>>

\* abort.py, in either mode. A client replaces none or, if hard, a graceful one; but it
\* may have looked before another wrote, so that any request can replace any other. The
\* moment of the first one stays.
RequestAbort(mode) ==
  /\ outcome = "running"
  /\ sentinel' = [mode |-> mode,
                  requested_at |-> IF sentinel.mode = "none" THEN Len(ledger)
                                   ELSE sentinel.requested_at]
  /\ UNCHANGED <<context, ledger, registry, outcome, brief, crashes, doubled>>

Loop ==
  \/ PollAborts \/ PollPasses
  \/ OnReceived \/ OnProfiling
  \/ \E a \in Actions : DecideAction(a)
  \/ DecideConclude \/ DecideFails
  \/ DispatchCloseRead \/ OnExecuting
  \/ OnAborting \/ OnCapReached \/ OnSynthesizing
  \/ Finish

Environment ==
  \/ HandlerCrash \/ ExecutionCrash \/ CrashAfterRecording \/ LoopRaises
  \/ \E mode \in Modes : RequestAbort(mode)

Next == Loop \/ Environment

Spec == Init /\ [][Next]_vars

\* One asyncio task runs the loop and every await in it is bounded by an HTTP
\* timeout, so the loop never rests while it has a step to take. Nothing obliges
\* the operator to abort or a handler to raise.
FairSpec == Spec /\ WF_vars(Loop)

-----------------------------------------------------------------------------
(***************************************************************************)
(* Properties.                                                             *)
(***************************************************************************)

\* Types of the variables: the fields of InvestigationContext, the ledger and the
\* two files' worth of world the orchestrator sees.
TypeOK ==
  /\ state \in States /\ phase \in {"boundary", "handler"}
  /\ iteration \in Nat
  /\ pending_action \in Actions \cup {NoAction}
  /\ profile \in BOOLEAN /\ concluded \in BOOLEAN /\ iteration_cap_hit \in BOOLEAN
  /\ aborted_by_operator \in BOOLEAN /\ body \in BOOLEAN
  /\ failure_reason \in Reasons
  /\ ledger \in Seq(Step)
  /\ registry \in SUBSET Nat
  /\ sentinel \in [mode : Modes \cup {"none"}, requested_at : Nat]
  /\ outcome \in {"running", "returned", "raised"}
  /\ brief \in Briefs
  /\ crashes \in 0 .. MaxCrashes /\ doubled \in Nat

\* The assertions in the handlers never fire: no handler that reads the profile runs
\* without one and EXECUTING always has the action to execute, whatever crashed before.
AssertsHold ==
  /\ state \in {"INVESTIGATING", "SYNTHESIZING"} => profile
  /\ (state = "EXECUTING") <=> (pending_action # NoAction)

\* Nothing is ever synthesized over an empty ledger unless the commander itself
\* concluded there and was allowed to: not after an abort, not after a crash, not
\* after a decision that failed.
SynthesisRestsOnEvidence ==
  /\ state \in {"ABORTED_ITERATION_CAP", "ABORTING", "SYNTHESIZING", "DONE",
                "FAILED_SYNTHESIS"}
       => ledger # <<>> \/ (concluded /\ MinSteps = 0)
  /\ concluded => Len(ledger) >= MinSteps

\* The action budget, crash by crash: a run without an exception never spends more
\* than max_iterations turns, each exception buys at most one more, and the ledger
\* holds one step per turn spent but for the steps a late exception doubled.
BudgetAccounting ==
  /\ iteration <= MaxIterations + crashes
  /\ state \in {"RECEIVED", "PROFILING", "INVESTIGATING", "EXECUTING"}
       => iteration < MaxIterations + crashes
  /\ Len(ledger) = iteration + doubled
  /\ doubled <= crashes

\* A step served from an earlier one names an earlier answer to the same question,
\* never a failure and never another repeat; and no question is answered by work twice.
RepeatsAnswer ==
  \A i \in DOMAIN ledger :
    LET r == ledger[i].repeat_of IN
    /\ r # 0 => /\ r < i
                /\ ledger[i].error = "none"
                /\ ledger[r].action = ledger[i].action
                /\ ledger[r].error = "none"
                /\ ledger[r].repeat_of = 0
    /\ \A j \in DOMAIN ledger :
         /\ i # j /\ ledger[i].action = ledger[j].action
         /\ ledger[i].error = "none" /\ ledger[j].error = "none"
         => ledger[i].repeat_of # 0 \/ ledger[j].repeat_of # 0

\* However the run ends, the result says why: it ended by the commander's conclusion,
\* by the cap or by the operator, at most one of them, or it carries a failure reason;
\* and a brief comes with DONE and with nothing else.
StopIsExplained ==
  /\ state \in TerminalStates => concluded \/ iteration_cap_hit \/ failure_reason # ""
  /\ ~(concluded /\ iteration_cap_hit)
  /\ ~(concluded /\ aborted_by_operator)
  /\ ~(iteration_cap_hit /\ aborted_by_operator)
  /\ outcome = "returned" => (brief.written <=> state = "DONE")

\* An abort requested while a step was still to be recorded marks the brief as that of
\* an interrupted run, also when that step was the last one the cap allowed.
InterruptedBriefSaysSo ==
  (brief.written /\ sentinel.mode # "none" /\ sentinel.requested_at < Len(ledger))
    => brief.aborted_by_operator

\* After a request at most the action in hand is still recorded (and once more if it
\* crashes late): no further question is asked of the commander and executed.
AbortIsPrompt ==
  sentinel.mode # "none" => Len(ledger) <= sentinel.requested_at + 1 + doubled

\* assert_legal_transition never raises: every change of state is in the table.
OnlyLegalTransitions == [][state' \in LegalTransitions[state]]_state

\* The ledger is append-only, and a worker that was dispatched always leaves a step
\* behind: an answer already paid for is recorded before an abort or a crash decides.
EvidenceKept ==
  [][/\ SubSeq(ledger', 1, Len(ledger)) = ledger
     /\ (registry # {} /\ registry' = {} /\ outcome' = "running")
          => Len(ledger') > Len(ledger)]_<<ledger, registry>>

\* Every run ends, aborted or not, as long as exceptions do not recur for ever.
RunEnds == <>(outcome # "running")

=============================================================================
