------------------------- MODULE InvestigationProofs -------------------------
(***************************************************************************)
(* Theorems about the orchestrator's state machine, for every set of       *)
(* actions, every budget and every number of exceptions.                   *)
(*                                                                         *)
(* First its types and its control. On that ground, what a run leaves      *)
(* behind: that its ledger keeps every step, that no work in it was done   *)
(* twice, that its end is explained, that an abort is prompt and told.     *)
(* Last, that every step of Investigation is a step of RunContract or      *)
(* leaves what the contract speaks of as it was.                           *)
(***************************************************************************)
EXTENDS InvestigationImplements, SequenceTheorems, TLAPS

\* What a budget allowed, a larger one allows.
LEMMA LargerBudget ==
  ASSUME NEW i \in Nat, NEW m \in Nat, NEW c \in Nat, NEW d \in Nat, c <= d
  PROVE  (i <= m + c => i <= m + d) /\ (i < m + c => i < m + d)
OBVIOUS

USE ConstantsAssumption

-----------------------------------------------------------------------------
(***************************************************************************)
(* Types.                                                                  *)
(***************************************************************************)

\* A step that can be recorded is a step of the ledger's type.
LEMMA RecordableIsStep ==
  ASSUME TypeOK, pending_action \in Actions
  PROVE  RecordableSteps \subseteq Step
<1>1. ASSUME NEW i \in PreviousIdentical(pending_action)
      PROVE  StepOf(pending_action, "none", i) \in Step
  <2>1. i \in Nat
    BY DEF PreviousIdentical, Identical, TypeOK
  <2>2. QED
    BY <2>1 DEF StepOf, Step
<1>2. \A err \in {"none", "failed"} : StepOf(pending_action, err, 0) \in Step
  BY DEF StepOf, Step
<1>3. QED
  BY <1>1, <1>2 DEF RecordableSteps

\* EXECUTING, and no other state, has an action in hand.
ActionInHand == (state = "EXECUTING") <=> (pending_action # NoAction)

\* The type invariant is inductive together with ActionInHand: the step recorded is a
\* step because there is an action to record.
Typed == TypeOK /\ ActionInHand

LEMMA TypedInit == Init => Typed
<1> SUFFICES ASSUME Init PROVE Typed
  OBVIOUS
<1>1. brief \in Briefs
  BY DEF Init, NoBrief, Briefs
<1>2. sentinel \in [mode : Modes \cup {"none"}, requested_at : Nat]
  BY DEF Init, NoSentinel
<1>3. ledger \in Seq(Step)
  BY EmptySeq DEF Init
<1>4. /\ profile \in BOOLEAN /\ concluded \in BOOLEAN /\ iteration_cap_hit \in BOOLEAN
      /\ aborted_by_operator \in BOOLEAN /\ body \in BOOLEAN
  BY DEF Init
<1>5. state \in States /\ failure_reason \in Reasons /\ ActionInHand
  BY DEF Init, States, TerminalStates, Reasons, ActionInHand
<1>6. /\ iteration \in Nat /\ registry \in SUBSET Nat /\ doubled \in Nat
      /\ crashes \in 0 .. MaxCrashes
  <2>1. iteration = 0 /\ registry = {} /\ doubled = 0 /\ crashes = 0
    BY DEF Init
  <2>2. MaxCrashes \in Nat
    BY ConstantsAssumption
  <2>3. QED
    BY <2>1, <2>2
<1>7. QED
  BY <1>1, <1>2, <1>3, <1>4, <1>5, <1>6 DEF Init, Typed, TypeOK

LEMMA TypedNext == Typed /\ [Next]_vars => Typed'
<1> SUFFICES ASSUME Typed, [Next]_vars PROVE Typed'
  OBVIOUS
<1> USE DEF Typed, TypeOK, ActionInHand
<1>1. CASE PollAborts
  BY <1>1 DEF PollAborts, AbortContext, AbortTarget, AbortReason, Enter, ContextOnly,
     States, TerminalStates, Reasons, Modes, AbortableAtBoundary
<1>2. CASE PollPasses
  BY <1>2 DEF PollPasses, ContextOnly
<1>3. CASE OnReceived
  BY <1>3 DEF OnReceived, Handling, Enter, ContextOnly, States
<1>4. CASE OnProfiling
  BY <1>4 DEF OnProfiling, Handling, Enter, ContextOnly, States
<1>5. ASSUME NEW a \in Actions, DecideAction(a) PROVE Typed'
  BY <1>5 DEF DecideAction, Handling, Enter, ContextOnly, States
<1>6. CASE DecideConclude
  BY <1>6 DEF DecideConclude, Handling, Enter, ContextOnly, States
<1>7. CASE DecideFails
  BY <1>7 DEF DecideFails, Handling, Enter, ContextOnly, States, TerminalStates, Reasons
<1>8. CASE DispatchCloseRead
  BY <1>8 DEF DispatchCloseRead, context
<1>9. CASE OnExecuting
  <2>1. pending_action \in Actions
    BY <1>9 DEF OnExecuting, Handling
  <2>2. PICK step \in RecordableSteps : RecordStep(step)
    BY <1>9 DEF OnExecuting
  <2>3. ledger' \in Seq(Step)
    BY <2>1, <2>2, RecordableIsStep DEF RecordStep
  <2>4. state' \in States \ {"EXECUTING"} /\ phase' = "boundary"
    BY <1>9 DEF OnExecuting, Enter, AbortContext, AbortTarget, States, TerminalStates
  <2>5. failure_reason' \in Reasons /\ aborted_by_operator' \in BOOLEAN
        /\ iteration_cap_hit' \in BOOLEAN
    BY <1>9 DEF OnExecuting, AbortContext, AbortReason, Reasons
  <2>6. QED
    BY <1>9, <2>3, <2>4, <2>5 DEF OnExecuting
<1>10. CASE OnAborting
  BY <1>10 DEF OnAborting, Handling, Enter, ContextOnly, States
<1>11. CASE OnCapReached
  BY <1>11 DEF OnCapReached, Handling, Enter, ContextOnly, States
<1>12. CASE OnSynthesizing
  BY <1>12 DEF OnSynthesizing, Handling, Enter, ContextOnly, States, TerminalStates, Reasons
<1>13. CASE Finish
  <2>1. AssembledBrief \in Briefs
    <3>1. Len(ledger) \in Nat
      BY LenProperties
    <3>2. QED
      BY <3>1 DEF AssembledBrief, Briefs
  <2>2. brief' \in Briefs
    BY <1>13, <2>1 DEF Finish, NoBrief, Briefs
  <2>3. QED
    BY <1>13, <2>2 DEF Finish, context
<1>14. CASE HandlerCrash
  <2>1. PICK s \in {"PROFILING", "INVESTIGATING", "SYNTHESIZING"} :
          Handling(s) /\ Enter(CrashRoute(s))
    BY <1>14 DEF HandlerCrash
  <2>2. CrashRoute(s) \in States \ {"EXECUTING"}
    BY DEF CrashRoute, States, TerminalStates
  <2>3. crashes' \in 0 .. MaxCrashes
    BY <1>14 DEF HandlerCrash, Crash
  <2>4. QED
    BY <1>14, <2>1, <2>2, <2>3 DEF HandlerCrash, Handling, Enter, CrashReason, Reasons
<1>15. CASE ExecutionCrash
  <2>1. StepOf(pending_action, "crashed", 0) \in Step
    BY <1>15 DEF ExecutionCrash, Handling, StepOf, Step
  <2>2. QED
    BY <1>15, <2>1 DEF ExecutionCrash, RecordCrash, Handling, Enter, Crash, States
<1>16. CASE CrashAfterRecording
  <2>1. pending_action \in Actions /\ StepOf(pending_action, "crashed", 0) \in Step
    BY <1>16 DEF CrashAfterRecording, Handling, StepOf, Step
  <2>2. PICK step \in RecordableSteps : RecordCrash(Append(ledger, step))
    BY <1>16 DEF CrashAfterRecording
  <2>3. Append(ledger, step) \in Seq(Step)
    BY <2>1, RecordableIsStep
  <2>4. ledger' \in Seq(Step)
    BY <2>1, <2>2, <2>3 DEF RecordCrash
  <2>5. QED
    BY <1>16, <2>2, <2>4 DEF CrashAfterRecording, RecordCrash, Enter, Crash, States
<1>17. CASE LoopRaises
  BY <1>17 DEF LoopRaises, Crash, context
<1>18. ASSUME NEW mode \in Modes, RequestAbort(mode) PROVE Typed'
  BY <1>18 DEF RequestAbort, context, Modes
<1>19. CASE UNCHANGED vars
  BY <1>19 DEF vars, context
<1>20. QED
  BY <1>1, <1>2, <1>3, <1>4, <1>5, <1>6, <1>7, <1>8, <1>9, <1>10, <1>11, <1>12, <1>13,
     <1>14, <1>15, <1>16, <1>17, <1>18, <1>19 DEF Next, Loop, Environment

LEMMA TypedAlways == Spec => []Typed
BY TypedInit, TypedNext, PTL DEF Spec

\* The variables keep their types.
THEOREM TypeCorrect == Spec => []TypeOK
<1>1. Typed => TypeOK
  BY DEF Typed
<1>2. QED
  BY <1>1, TypedAlways, PTL


-----------------------------------------------------------------------------
(***************************************************************************)
(* The control invariant: what the loop has done by the time it is in a    *)
(* state. AssertsHold, SynthesisRestsOnEvidence and the legality of every  *)
(* transition follow from it, and are not inductive without it: that an    *)
(* abort in PROFILING cannot route to ABORTING rests on the ledger being   *)
(* empty there, and that SYNTHESIZING has a profile on every state it can  *)
(* be entered from having one.                                             *)
(***************************************************************************)

NothingRecordedYet == state \in {"RECEIVED", "PROFILING"} => ledger = <<>>

ProfileBuilt ==
  state \in {"INVESTIGATING", "EXECUTING", "ABORTED_ITERATION_CAP", "ABORTING",
            "SYNTHESIZING"} => profile

ControlInv ==
  Typed /\ NothingRecordedYet /\ ProfileBuilt /\ SynthesisRestsOnEvidence

LEMMA ControlInit == Init => ControlInv
BY TypedInit DEF Init, ControlInv, NothingRecordedYet, ProfileBuilt,
   SynthesisRestsOnEvidence

\* Appending a step to a ledger lengthens it by one and leaves it non-empty.
LEMMA AppendLengthens ==
  ASSUME NEW s \in Seq(Step), NEW step \in Step
  PROVE  Append(s, step) # <<>> /\ Len(Append(s, step)) = Len(s) + 1
OBVIOUS

\* What executing an action leaves in the ledger, whether or not it crashed.
LEMMA ExecutingRecords ==
  ASSUME Typed
  PROVE  /\ OnExecuting => ledger' # <<>> /\ Len(ledger') = Len(ledger) + 1
         /\ ExecutionCrash => ledger' # <<>> /\ Len(ledger') = Len(ledger) + 1
         /\ CrashAfterRecording => ledger' # <<>> /\ Len(ledger') = Len(ledger) + 2
<1>1. ASSUME Handling("EXECUTING")
      PROVE  /\ StepOf(pending_action, "crashed", 0) \in Step
             /\ RecordableSteps \subseteq Step
  BY <1>1, RecordableIsStep DEF Typed, TypeOK, ActionInHand, Handling, StepOf, Step
<1>2. ledger \in Seq(Step)
  BY DEF Typed, TypeOK
<1>3. ASSUME OnExecuting PROVE ledger' # <<>> /\ Len(ledger') = Len(ledger) + 1
  <2>1. PICK step \in RecordableSteps : ledger' = Append(ledger, step)
    BY <1>3 DEF OnExecuting, RecordStep
  <2>2. QED
    BY <1>1, <1>2, <1>3, <2>1, AppendLengthens DEF OnExecuting
<1>4. ASSUME ExecutionCrash PROVE ledger' # <<>> /\ Len(ledger') = Len(ledger) + 1
  BY <1>1, <1>2, <1>4, AppendLengthens DEF ExecutionCrash, RecordCrash
<1>5. ASSUME CrashAfterRecording PROVE ledger' # <<>> /\ Len(ledger') = Len(ledger) + 2
  <2>1. PICK step \in RecordableSteps : RecordCrash(Append(ledger, step))
    BY <1>5 DEF CrashAfterRecording
  <2>2. step \in Step /\ StepOf(pending_action, "crashed", 0) \in Step
    BY <1>1, <1>5 DEF CrashAfterRecording
  <2>3. Append(ledger, step) \in Seq(Step) /\ Len(Append(ledger, step)) = Len(ledger) + 1
    BY <1>2, <2>2, AppendLengthens
  <2>4. ledger' = Append(Append(ledger, step), StepOf(pending_action, "crashed", 0))
    BY <2>1 DEF RecordCrash
  <2>5. Len(ledger) \in Nat
    BY <1>2, LenProperties
  <2>6. QED
    BY <2>2, <2>3, <2>4, <2>5, AppendLengthens
<1>6. QED
  BY <1>3, <1>4, <1>5

LEMMA ControlNext == ControlInv /\ [Next]_vars => ControlInv'
<1> SUFFICES ASSUME ControlInv, [Next]_vars PROVE ControlInv'
  OBVIOUS
<1>1. Typed /\ Typed'
  BY TypedNext DEF ControlInv
<1>2. /\ Len(ledger) \in Nat /\ Len(ledger') \in Nat /\ MinSteps \in Nat
      /\ iteration \in Nat
  BY <1>1, LenProperties DEF Typed, TypeOK
<1> USE DEF ControlInv, NothingRecordedYet, ProfileBuilt, SynthesisRestsOnEvidence
<1>3. CASE PollAborts
  BY <1>1, <1>3 DEF PollAborts, AbortContext, AbortTarget, Enter, ContextOnly,
     AbortableAtBoundary
<1>4. CASE PollPasses
  BY <1>1, <1>4 DEF PollPasses, ContextOnly
<1>5. CASE OnReceived
  BY <1>1, <1>5 DEF OnReceived, Handling, Enter, ContextOnly
<1>6. CASE OnProfiling
  BY <1>1, <1>6 DEF OnProfiling, Handling, Enter, ContextOnly
<1>7. ASSUME NEW a \in Actions, DecideAction(a) PROVE ControlInv'
  BY <1>1, <1>7 DEF DecideAction, Handling, Enter, ContextOnly
<1>8. CASE DecideConclude
  <2>1. ledger = <<>> => MinSteps = 0
    BY <1>2, <1>8 DEF DecideConclude
  <2>2. QED
    BY <1>1, <1>8, <2>1 DEF DecideConclude, Handling, Enter, ContextOnly
<1>9. CASE DecideFails
  BY <1>1, <1>9 DEF DecideFails, Handling, Enter, ContextOnly
<1>10. CASE DispatchCloseRead
  BY <1>1, <1>10 DEF DispatchCloseRead, context
<1>11. CASE OnExecuting
  <2>1. ledger' # <<>> /\ Len(ledger') = Len(ledger) + 1
    BY <1>1, <1>11, ExecutingRecords
  <2>2. concluded' => Len(ledger') >= MinSteps
    BY <1>2, <1>11, <2>1 DEF OnExecuting
  <2>3. state' \in {"ABORTED_BY_OPERATOR", "ABORTING", "ABORTED_ITERATION_CAP",
                   "INVESTIGATING"}
    BY <1>11 DEF OnExecuting, AbortContext, AbortTarget, Enter
  <2>4. profile'
    BY <1>11 DEF OnExecuting, Handling
  <2>5. QED
    BY <1>1, <2>1, <2>2, <2>3, <2>4
<1>12. CASE OnAborting
  BY <1>1, <1>12 DEF OnAborting, Handling, Enter, ContextOnly
<1>13. CASE OnCapReached
  BY <1>1, <1>13 DEF OnCapReached, Handling, Enter, ContextOnly
<1>14. CASE OnSynthesizing
  BY <1>1, <1>14 DEF OnSynthesizing, Handling, Enter, ContextOnly
<1>15. CASE Finish
  BY <1>1, <1>15 DEF Finish, context
<1>16. CASE HandlerCrash
  <2>1. PICK s \in {"PROFILING", "INVESTIGATING", "SYNTHESIZING"} :
          Handling(s) /\ Enter(CrashRoute(s))
    BY <1>16 DEF HandlerCrash
  <2>2. UNCHANGED <<ledger, profile, concluded>>
    BY <1>16 DEF HandlerCrash
  <2>3. QED
    BY <1>1, <2>1, <2>2 DEF Handling, Enter, CrashRoute
<1>17. CASE ExecutionCrash \/ CrashAfterRecording
  <2>1. ledger' # <<>> /\ Len(ledger') >= Len(ledger)
    BY <1>1, <1>2, <1>17, ExecutingRecords
  <2>2. /\ state = "EXECUTING" /\ state' = "INVESTIGATING"
        /\ profile' = profile /\ concluded' = concluded
    BY <1>17 DEF ExecutionCrash, CrashAfterRecording, RecordCrash, Handling, Enter
  <2>3. QED
    BY <1>1, <1>2, <2>1, <2>2
<1>18. CASE LoopRaises
  BY <1>1, <1>18 DEF LoopRaises, context
<1>19. ASSUME NEW mode \in Modes, RequestAbort(mode) PROVE ControlInv'
  BY <1>1, <1>19 DEF RequestAbort, context
<1>20. CASE UNCHANGED vars
  BY <1>1, <1>20 DEF vars, context
<1>21. QED
  BY <1>3, <1>4, <1>5, <1>6, <1>7, <1>8, <1>9, <1>10, <1>11, <1>12, <1>13, <1>14, <1>15,
     <1>16, <1>17, <1>18, <1>19, <1>20 DEF Next, Loop, Environment

LEMMA ControlAlways == Spec => []ControlInv
BY ControlInit, ControlNext, PTL DEF Spec

\* No assertion in a handler ever fires.
THEOREM AssertionsHold == Spec => []AssertsHold
<1>1. ControlInv => AssertsHold
  BY DEF ControlInv, Typed, ActionInHand, ProfileBuilt, AssertsHold
<1>2. QED
  BY <1>1, ControlAlways, PTL

\* Nothing is synthesized over an empty ledger, whatever was aborted or crashed.
THEOREM SynthesisGrounded == Spec => []SynthesisRestsOnEvidence
<1>1. ControlInv => SynthesisRestsOnEvidence
  BY DEF ControlInv
<1>2. QED
  BY <1>1, ControlAlways, PTL

-----------------------------------------------------------------------------
(***************************************************************************)
(* Every change of state is in the table.                                  *)
(***************************************************************************)

\* The rows of the table that the handlers use.
LEMMA TableRows ==
  /\ {"PROFILING", "ABORTED_BY_OPERATOR"} \subseteq LegalTransitions["RECEIVED"]
  /\ {"INVESTIGATING", "FAILED_INVESTIGATION", "ABORTED_BY_OPERATOR"}
       \subseteq LegalTransitions["PROFILING"]
  /\ {"EXECUTING", "SYNTHESIZING", "FAILED_INVESTIGATION", "ABORTING",
      "ABORTED_BY_OPERATOR"} \subseteq LegalTransitions["INVESTIGATING"]
  /\ {"INVESTIGATING", "ABORTED_ITERATION_CAP", "ABORTING", "ABORTED_BY_OPERATOR"}
       \subseteq LegalTransitions["EXECUTING"]
  /\ "SYNTHESIZING" \in LegalTransitions["ABORTED_ITERATION_CAP"]
  /\ "SYNTHESIZING" \in LegalTransitions["ABORTING"]
  /\ {"DONE", "FAILED_SYNTHESIS"} \subseteq LegalTransitions["SYNTHESIZING"]
BY DEF LegalTransitions, States, TerminalStates

\* The transition of one turn is legal: this is where the empty ledger of the first
\* two states matters, since ABORTING is no successor of theirs.
LEMMA LegalStep == ControlInv /\ [Next]_vars => [state' \in LegalTransitions[state]]_state
<1> SUFFICES ASSUME ControlInv, Next, state' # state
             PROVE  state' \in LegalTransitions[state]
  BY DEF vars, context
<1> USE TableRows
<1>1. CASE PollAborts
  <2>1. state' = AbortTarget(sentinel.mode, ledger) /\ state \in AbortableAtBoundary
    BY <1>1 DEF PollAborts, AbortContext, Enter
  <2>2. QED
    BY <2>1 DEF AbortTarget, AbortableAtBoundary, ControlInv, NothingRecordedYet
<1>2. CASE OnReceived
  BY <1>2 DEF OnReceived, Handling, Enter
<1>3. CASE OnProfiling
  BY <1>3 DEF OnProfiling, Handling, Enter
<1>4. CASE (\E a \in Actions : DecideAction(a)) \/ DecideConclude \/ DecideFails
  BY <1>4 DEF DecideAction, DecideConclude, DecideFails, Handling, Enter
<1>5. CASE OnExecuting
  BY <1>5 DEF OnExecuting, AbortContext, AbortTarget, Handling, Enter
<1>6. CASE OnAborting
  BY <1>6 DEF OnAborting, Handling, Enter
<1>7. CASE OnCapReached
  BY <1>7 DEF OnCapReached, Handling, Enter
<1>8. CASE OnSynthesizing
  BY <1>8 DEF OnSynthesizing, Handling, Enter
<1>9. CASE HandlerCrash
  <2>1. PICK s \in {"PROFILING", "INVESTIGATING", "SYNTHESIZING"} :
          Handling(s) /\ Enter(CrashRoute(s))
    BY <1>9 DEF HandlerCrash
  <2>2. QED
    BY <2>1 DEF Handling, Enter, CrashRoute
<1>10. CASE ExecutionCrash \/ CrashAfterRecording
  <2>1. state = "EXECUTING" /\ state' = "INVESTIGATING"
    BY <1>10 DEF ExecutionCrash, CrashAfterRecording, RecordCrash, Handling, Enter
  <2>2. QED
    BY <2>1
<1>11. UNCHANGED state \/ ~(\/ PollPasses \/ DispatchCloseRead \/ Finish \/ LoopRaises
                            \/ \E mode \in Modes : RequestAbort(mode))
  BY DEF PollPasses, DispatchCloseRead, Finish, LoopRaises, RequestAbort, context
<1>12. QED
  BY <1>1, <1>2, <1>3, <1>4, <1>5, <1>6, <1>7, <1>8, <1>9, <1>10, <1>11
     DEF Next, Loop, Environment

\* assert_legal_transition never raises.
THEOREM TransitionsLegal == Spec => OnlyLegalTransitions
<1>1. Spec => [][state' \in LegalTransitions[state]]_state
  BY LegalStep, ControlAlways, PTL DEF Spec
<1>2. QED
  BY <1>1 DEF OnlyLegalTransitions

-----------------------------------------------------------------------------
(***************************************************************************)
(* The action budget, exception by exception.                              *)
(***************************************************************************)

BudgetInv == Typed /\ BudgetAccounting

LEMMA BudgetInit == Init => BudgetInv
<1> SUFFICES ASSUME Init PROVE BudgetAccounting
  BY TypedInit DEF BudgetInv
<1>1. iteration = 0 /\ crashes = 0 /\ doubled = 0
  BY DEF Init
<1>2. Len(ledger) = 0
  <2>1. ledger = <<>>
    BY DEF Init
  <2>2. QED
    BY <2>1
<1>3. MaxIterations \in Nat \ {0}
  BY ConstantsAssumption
<1>4. 0 < MaxIterations + 0 /\ 0 <= MaxIterations + 0 /\ 0 = 0 + 0 /\ 0 <= 0
  BY <1>3
<1>5. QED
  BY <1>1, <1>2, <1>4 DEF BudgetAccounting

LEMMA BudgetNext == BudgetInv /\ [Next]_vars => BudgetInv'
<1> SUFFICES ASSUME BudgetInv, [Next]_vars PROVE BudgetAccounting'
  BY TypedNext DEF BudgetInv
<1> DEFINE Asking(s) == s \in {"RECEIVED", "PROFILING", "INVESTIGATING", "EXECUTING"}
<1>1. /\ Typed
      /\ iteration \in Nat /\ crashes \in Nat /\ doubled \in Nat /\ MaxIterations \in Nat
      /\ Len(ledger) \in Nat
  BY LenProperties DEF BudgetInv, Typed, TypeOK
<1>2. /\ iteration <= MaxIterations + crashes
      /\ Asking(state) => iteration < MaxIterations + crashes
      /\ Len(ledger) = iteration + doubled
      /\ doubled <= crashes
  BY DEF BudgetInv, BudgetAccounting
\* A step that spends nothing, and asks on only if it was asking.
<1>3. ASSUME UNCHANGED <<iteration, ledger, doubled>>,
             crashes' \in {crashes, crashes + 1},
             Asking(state') => Asking(state)
      PROVE  BudgetAccounting'
  <2>1. /\ iteration' = iteration /\ doubled' = doubled /\ Len(ledger') = Len(ledger)
        /\ crashes' \in Nat /\ crashes <= crashes'
    BY <1>1, <1>3
  <2>2. iteration' <= MaxIterations + crashes'
    BY <1>1, <1>2, <2>1, LargerBudget
  <2>3. Asking(state') => iteration' < MaxIterations + crashes'
    <3>1. iteration < MaxIterations + crashes => iteration' < MaxIterations + crashes'
      BY <1>1, <2>1, LargerBudget
    <3>2. QED
      BY <1>2, <1>3, <3>1
  <2>4. Len(ledger') = iteration' + doubled' /\ doubled' <= crashes'
    BY <1>1, <1>2, <2>1
  <2>5. QED
    BY <2>2, <2>3, <2>4 DEF BudgetAccounting
<1>4. CASE PollAborts
  BY <1>3, <1>4 DEF PollAborts, AbortContext, AbortTarget, Enter, ContextOnly
<1>5. CASE PollPasses
  BY <1>3, <1>5 DEF PollPasses, ContextOnly
<1>6. CASE OnReceived \/ OnProfiling \/ (\E a \in Actions : DecideAction(a))
  BY <1>3, <1>6 DEF OnReceived, OnProfiling, DecideAction, Handling, Enter, ContextOnly
<1>7. CASE DecideConclude \/ DecideFails
  BY <1>3, <1>7 DEF DecideConclude, DecideFails, Handling, Enter, ContextOnly
<1>8. CASE DispatchCloseRead \/ Finish \/ (\E mode \in Modes : RequestAbort(mode))
  BY <1>3, <1>8 DEF DispatchCloseRead, Finish, RequestAbort, context
<1>9. CASE OnExecuting
  <2>1. Len(ledger') = Len(ledger) + 1
    BY <1>1, <1>9, ExecutingRecords
  <2>2. Asking(state)
    BY <1>9 DEF OnExecuting, Handling
  <2>3. /\ iteration' = iteration + 1 /\ UNCHANGED <<doubled, crashes>>
    BY <1>9 DEF OnExecuting
  <2>4. Asking(state') => iteration' < MaxIterations
    BY <1>1, <1>9 DEF OnExecuting, AbortContext, AbortTarget, Enter, CapReached
  <2>5. QED
    BY <1>1, <1>2, <2>1, <2>2, <2>3, <2>4 DEF BudgetAccounting
<1>10. CASE OnAborting \/ OnCapReached \/ OnSynthesizing
  BY <1>3, <1>10 DEF OnAborting, OnCapReached, OnSynthesizing, Handling, Enter, ContextOnly
<1>11. CASE HandlerCrash
  <2>1. PICK s \in {"PROFILING", "INVESTIGATING", "SYNTHESIZING"} :
          Handling(s) /\ Enter(CrashRoute(s))
    BY <1>11 DEF HandlerCrash
  <2>2. ~Asking(state')
    BY <2>1 DEF Enter, CrashRoute
  <2>3. QED
    BY <1>3, <1>11, <2>2 DEF HandlerCrash, Crash
<1>12. CASE ExecutionCrash
  <2>1. Len(ledger') = Len(ledger) + 1
    BY <1>1, <1>12, ExecutingRecords
  <2>2. Asking(state) /\ iteration' = iteration + 1 /\ crashes' = crashes + 1
        /\ UNCHANGED doubled
    BY <1>12 DEF ExecutionCrash, RecordCrash, Handling, Crash
  <2>3. QED
    BY <1>1, <1>2, <2>1, <2>2 DEF BudgetAccounting
<1>13. CASE CrashAfterRecording
  <2>1. Len(ledger') = Len(ledger) + 2
    BY <1>1, <1>13, ExecutingRecords
  <2>2. Asking(state) /\ iteration' = iteration + 1 /\ crashes' = crashes + 1
        /\ doubled' = doubled + 1
    BY <1>13 DEF CrashAfterRecording, RecordCrash, Handling, Crash
  <2>3. QED
    BY <1>1, <1>2, <2>1, <2>2 DEF BudgetAccounting
<1>14. CASE LoopRaises
  BY <1>3, <1>14 DEF LoopRaises, Crash, context
<1>15. CASE UNCHANGED vars
  BY <1>3, <1>15 DEF vars, context
<1>16. QED
  BY <1>4, <1>5, <1>6, <1>7, <1>8, <1>9, <1>10, <1>11, <1>12, <1>13, <1>14, <1>15
     DEF Next, Loop, Environment

LEMMA BudgetAlways == Spec => []BudgetInv
BY BudgetInit, BudgetNext, PTL DEF Spec

\* Every turn beyond max_iterations is paid for by an exception, and every step beyond
\* the turns by a late one.
THEOREM BudgetBounded == Spec => []BudgetAccounting
<1>1. BudgetInv => BudgetAccounting
  BY DEF BudgetInv
<1>2. QED
  BY <1>1, BudgetAlways, PTL

\* Without exceptions the cap is a cap, and the ledger holds one step per turn.
THEOREM CapHoldsWithoutExceptions ==
  Spec => [](crashes = 0 => iteration <= MaxIterations /\ Len(ledger) = iteration)
<1>1. BudgetInv => (crashes = 0 => iteration <= MaxIterations /\ Len(ledger) = iteration)
  <2> SUFFICES ASSUME BudgetInv, crashes = 0
               PROVE  iteration <= MaxIterations /\ Len(ledger) = iteration
    OBVIOUS
  <2>1. iteration \in Nat /\ doubled \in Nat /\ MaxIterations \in Nat
    BY DEF BudgetInv, Typed, TypeOK
  <2>2. QED
    BY <2>1 DEF BudgetInv, BudgetAccounting
<1>2. QED
  BY <1>1, BudgetAlways, PTL

-----------------------------------------------------------------------------
(***************************************************************************)
(* The ledger from one step to the next.                                   *)
(***************************************************************************)

\* Appending leaves what is there as it was, and so does appending twice.
LEMMA AppendKeepsPrefix ==
  ASSUME NEW s \in Seq(Step), NEW a \in Step, NEW b \in Step
  PROVE  /\ SubSeq(s, 1, Len(s)) = s
         /\ SubSeq(Append(s, a), 1, Len(s)) = s
         /\ SubSeq(Append(Append(s, a), b), 1, Len(s)) = s
OBVIOUS

\* What any step does to the ledger: nothing, or in EXECUTING it adds one step, or two
\* when an exception comes late, and the worker is then no longer registered.
Recorded(n) ==
  /\ ledger' \in Seq(Step) /\ Len(ledger') = Len(ledger) + n
  /\ SubSeq(ledger', 1, Len(ledger)) = ledger

LEMMA LedgerStep ==
  ASSUME Typed, [Next]_vars
  PROVE  \/ UNCHANGED ledger /\ (registry' = {} => registry = {} \/ outcome' # "running")
         \/ OnExecuting /\ Recorded(1)
         \/ ExecutionCrash /\ Recorded(1)
         \/ CrashAfterRecording /\ Recorded(2)
<1>1. ledger \in Seq(Step) /\ Len(ledger) \in Nat
  BY LenProperties DEF Typed, TypeOK
<1>2. ASSUME Handling("EXECUTING")
      PROVE  /\ StepOf(pending_action, "crashed", 0) \in Step
             /\ RecordableSteps \subseteq Step
  BY <1>2, RecordableIsStep DEF Typed, TypeOK, ActionInHand, Handling, StepOf, Step
<1>3. CASE OnExecuting
  <2>1. PICK step \in RecordableSteps : ledger' = Append(ledger, step)
    BY <1>3 DEF OnExecuting, RecordStep
  <2>2. step \in Step
    BY <1>2, <1>3, <2>1 DEF OnExecuting
  <2>3. QED
    BY <1>1, <1>3, <2>1, <2>2, AppendKeepsPrefix, AppendLengthens DEF Recorded
<1>4. CASE ExecutionCrash
  BY <1>1, <1>2, <1>4, AppendKeepsPrefix, AppendLengthens
     DEF ExecutionCrash, RecordCrash, Recorded
<1>5. CASE CrashAfterRecording
  <2>1. PICK step \in RecordableSteps : RecordCrash(Append(ledger, step))
    BY <1>5 DEF CrashAfterRecording
  <2>2. step \in Step /\ StepOf(pending_action, "crashed", 0) \in Step
    BY <1>2, <1>5 DEF CrashAfterRecording
  <2>3. Append(ledger, step) \in Seq(Step) /\ Len(Append(ledger, step)) = Len(ledger) + 1
    BY <1>1, <2>2, AppendLengthens
  <2>4. ledger' = Append(Append(ledger, step), StepOf(pending_action, "crashed", 0))
    BY <2>1 DEF RecordCrash
  <2>5. QED
    BY <1>1, <1>5, <2>2, <2>3, <2>4, AppendKeepsPrefix, AppendLengthens DEF Recorded
<1>6. CASE DispatchCloseRead
  BY <1>6 DEF DispatchCloseRead
<1>7. CASE LoopRaises
  BY <1>7 DEF LoopRaises
<1>8. CASE UNCHANGED vars
  BY <1>8 DEF vars
<1>9. CASE PollAborts \/ PollPasses \/ OnReceived \/ OnProfiling \/ DecideConclude
           \/ DecideFails \/ OnAborting \/ OnCapReached \/ OnSynthesizing
           \/ (\E a \in Actions : DecideAction(a))
  BY <1>9 DEF PollAborts, PollPasses, OnReceived, OnProfiling, DecideConclude, DecideFails,
     OnAborting, OnCapReached, OnSynthesizing, DecideAction, ContextOnly
<1>10. CASE Finish \/ HandlerCrash \/ (\E mode \in Modes : RequestAbort(mode))
  BY <1>10 DEF Finish, HandlerCrash, RequestAbort
<1>11. QED
  BY <1>3, <1>4, <1>5, <1>6, <1>7, <1>8, <1>9, <1>10 DEF Next, Loop, Environment

\* The ledger only grows at its end, and no worker leaves the registry of a run that goes
\* on without a step being recorded.
THEOREM NothingIsLost == Spec => EvidenceKept
<1>1. ASSUME Typed, [Next]_vars
      PROVE  [/\ SubSeq(ledger', 1, Len(ledger)) = ledger
              /\ (registry # {} /\ registry' = {} /\ outcome' = "running")
                   => Len(ledger') > Len(ledger)]_<<ledger, registry>>
  <2>1. ledger \in Seq(Step) /\ Len(ledger) \in Nat
    BY <1>1, LenProperties DEF Typed, TypeOK
  <2>2. SubSeq(ledger, 1, Len(ledger)) = ledger
    BY <2>1, AppendKeepsPrefix
  <2>3. QED
    BY <1>1, <2>1, <2>2, LedgerStep DEF Recorded
<1>2. QED
  BY <1>1, TypedAlways, PTL DEF Spec, EvidenceKept

-----------------------------------------------------------------------------
(***************************************************************************)
(* Work that is not done twice. The earliest answer to a question cannot   *)
(* itself be a repeat, for what it repeated would be an earlier one.       *)
(***************************************************************************)

\* RepeatsAnswer, of any ledger.
RepeatsHold(s) ==
  \A i \in DOMAIN s :
    LET r == s[i].repeat_of IN
    /\ r # 0 => /\ r < i
                /\ s[i].error = "none"
                /\ s[r].action = s[i].action
                /\ s[r].error = "none"
                /\ s[r].repeat_of = 0
    /\ \A j \in DOMAIN s :
         /\ i # j /\ s[i].action = s[j].action
         /\ s[i].error = "none" /\ s[j].error = "none"
         => s[i].repeat_of # 0 \/ s[j].repeat_of # 0

\* The steps that answer the question as action: Identical, in any ledger.
AnswersIn(s, action) == {i \in DOMAIN s : s[i].action = action /\ s[i].error = "none"}

\* A step that may follow a ledger: it repeats an answer, or is the first, or is none.
MayFollow(s, step) ==
  IF step.repeat_of # 0
  THEN /\ step.error = "none" /\ step.repeat_of \in AnswersIn(s, step.action)
       /\ s[step.repeat_of].repeat_of = 0
  ELSE step.error = "none" => AnswersIn(s, step.action) = {}

LEMMA FollowingKeepsRepeats ==
  ASSUME NEW s \in Seq(Step), RepeatsHold(s), NEW step \in Step, MayFollow(s, step)
  PROVE  RepeatsHold(Append(s, step))
<1> DEFINE t == Append(s, step)
           n == Len(s) + 1
<1>1. /\ Len(s) \in Nat /\ DOMAIN s = 1 .. Len(s) /\ DOMAIN t = DOMAIN s \cup {n}
      /\ n \notin DOMAIN s /\ t[n] = step /\ \A i \in DOMAIN s : t[i] = s[i]
  BY LenProperties
<1>2. ASSUME NEW i \in DOMAIN t, t[i].repeat_of # 0
      PROVE  LET r == t[i].repeat_of
             IN /\ r < i /\ t[i].error = "none" /\ t[r].action = t[i].action
                /\ t[r].error = "none" /\ t[r].repeat_of = 0
  <2>1. CASE i = n
    <3>1. step.repeat_of \in DOMAIN s /\ step.repeat_of < n
      BY <1>1, <1>2, <2>1 DEF MayFollow, AnswersIn
    <3>2. QED
      BY <1>1, <1>2, <2>1, <3>1 DEF MayFollow, AnswersIn
  <2>2. CASE i # n
    <3>1. i \in DOMAIN s /\ s[i].repeat_of < i /\ s[i] \in Step
      BY <1>1, <1>2, <2>2, ElementOfSeq DEF RepeatsHold
    <3>2. s[i].repeat_of \in DOMAIN s
      BY <1>1, <1>2, <2>2, <3>1 DEF Step
    <3>3. QED
      BY <1>1, <1>2, <3>1, <3>2 DEF RepeatsHold
  <2>3. QED
    BY <2>1, <2>2
<1>3. ASSUME NEW i \in DOMAIN t, NEW j \in DOMAIN t, i # j, t[i].action = t[j].action,
             t[i].error = "none", t[j].error = "none"
      PROVE  t[i].repeat_of # 0 \/ t[j].repeat_of # 0
  <2>1. CASE i = n \/ j = n
    BY <1>1, <1>3, <2>1 DEF MayFollow, AnswersIn
  <2>2. CASE i # n /\ j # n
    BY <1>1, <1>3, <2>2 DEF RepeatsHold
  <2>3. QED
    BY <2>1, <2>2
<1> HIDE DEF t
<1>4. RepeatsHold(t)
  BY <1>2, <1>3 DEF RepeatsHold
<1>5. QED
  BY <1>4 DEF t

\* What the handler records may follow the ledger; so may a crash, whatever it follows.
LEMMA RecordedMayFollow ==
  ASSUME Typed, RepeatsHold(ledger), NEW step \in RecordableSteps
  PROVE  MayFollow(ledger, step)
<1>1. ledger \in Seq(Step) /\ DOMAIN ledger \subseteq Nat \ {0}
  BY LenProperties DEF Typed, TypeOK
<1>2. AnswersIn(ledger, pending_action) = Identical(pending_action)
  BY DEF AnswersIn, Identical
<1>3. CASE Identical(pending_action) # {}
  <2>1. PICK i \in PreviousIdentical(pending_action) : step = StepOf(pending_action, "none", i)
    BY <1>3 DEF RecordableSteps
  <2>2. i \in Identical(pending_action) /\ i # 0
    BY <1>1, <2>1 DEF PreviousIdentical, Identical
  <2>3. ledger[i].repeat_of = 0
    <3>1. SUFFICES ASSUME ledger[i].repeat_of # 0 PROVE FALSE
      OBVIOUS
    <3>2. /\ i \in DOMAIN ledger /\ i \in Nat
          /\ ledger[i].repeat_of \in Nat
      <4>1. i \in DOMAIN ledger /\ i \in 1 .. Len(ledger)
        BY <1>1, <2>2, LenProperties DEF Identical
      <4>2. ledger[i] \in Step
        BY <1>1, <4>1, ElementOfSeq
      <4>3. QED
        BY <1>1, <4>1, <4>2 DEF Step
    <3>3. /\ ledger[i].repeat_of < i
          /\ ledger[ledger[i].repeat_of].action = ledger[i].action
          /\ ledger[ledger[i].repeat_of].error = "none"
      BY <3>1, <3>2 DEF RepeatsHold
    <3>4. ledger[i].repeat_of \in DOMAIN ledger
      BY <1>1, <3>1, <3>2, <3>3, LenProperties
    <3>5. ledger[i].repeat_of \in Identical(pending_action)
      BY <2>2, <3>3, <3>4 DEF Identical
    <3>6. QED
      BY <1>1, <2>1, <3>2, <3>3, <3>5 DEF PreviousIdentical
  <2>4. /\ step.action = pending_action /\ step.error = "none" /\ step.repeat_of = i
    BY <2>1 DEF StepOf
  <2>5. QED
    BY <1>2, <2>2, <2>3, <2>4 DEF MayFollow
<1>4. CASE Identical(pending_action) = {}
  <2>1. step.action = pending_action /\ step.repeat_of = 0
    BY <1>4 DEF RecordableSteps, StepOf
  <2>2. QED
    BY <1>2, <1>4, <2>1 DEF MayFollow
<1>5. QED
  BY <1>3, <1>4

LEMMA RepeatsNext ==
  ASSUME Typed, RepeatsHold(ledger), [Next]_vars
  PROVE  RepeatsHold(ledger')
<1>1. ledger \in Seq(Step)
  BY DEF Typed, TypeOK
<1>2. ASSUME Handling("EXECUTING"), NEW s \in Seq(Step)
      PROVE  /\ StepOf(pending_action, "crashed", 0) \in Step
             /\ RecordableSteps \subseteq Step
             /\ MayFollow(s, StepOf(pending_action, "crashed", 0))
  BY <1>2, RecordableIsStep DEF Typed, TypeOK, ActionInHand, Handling, StepOf, Step, MayFollow
<1>3. CASE UNCHANGED ledger
  BY <1>3
<1>4. CASE OnExecuting
  <2>1. PICK step \in RecordableSteps : ledger' = Append(ledger, step)
    BY <1>4 DEF OnExecuting, RecordStep
  <2>2. step \in Step /\ MayFollow(ledger, step)
    BY <1>1, <1>2, <1>4, <2>1, RecordedMayFollow DEF OnExecuting
  <2>3. QED
    BY <1>1, <2>1, <2>2, FollowingKeepsRepeats
<1>5. CASE ExecutionCrash
  BY <1>1, <1>2, <1>5, FollowingKeepsRepeats DEF ExecutionCrash, RecordCrash
<1>6. CASE CrashAfterRecording
  <2>1. PICK step \in RecordableSteps : RecordCrash(Append(ledger, step))
    BY <1>6 DEF CrashAfterRecording
  <2>2. step \in Step /\ MayFollow(ledger, step)
    BY <1>1, <1>2, <1>6, <2>1, RecordedMayFollow DEF CrashAfterRecording
  <2>3. Append(ledger, step) \in Seq(Step) /\ RepeatsHold(Append(ledger, step))
    BY <1>1, <2>2, FollowingKeepsRepeats, AppendLengthens
  <2>4. QED
    BY <1>2, <1>6, <2>1, <2>3, FollowingKeepsRepeats DEF RecordCrash, CrashAfterRecording
<1>7. QED
  BY <1>3, <1>4, <1>5, <1>6, LedgerStep

\* A repeat names an earlier answer to its own question, and no question is answered by
\* work twice.
THEOREM NoWorkTwice == Spec => []RepeatsAnswer
<1>1. RepeatsHold(ledger) <=> RepeatsAnswer
  BY DEF RepeatsHold, RepeatsAnswer
<1>2. Init => RepeatsHold(ledger)
  <2>1. DOMAIN <<>> = {}
    OBVIOUS
  <2>2. QED
    BY <2>1 DEF Init, RepeatsHold
<1>3. Typed /\ RepeatsHold(ledger) /\ [Next]_vars => RepeatsHold(ledger)'
  BY RepeatsNext DEF RepeatsHold
<1>4. QED
  BY <1>1, <1>2, <1>3, TypedAlways, PTL DEF Spec

-----------------------------------------------------------------------------
(***************************************************************************)
(* Why a run stopped. StopInv says what has stamped the context by the     *)
(* time the loop is in a state; StopIsExplained follows from it, and is    *)
(* not inductive without it: that only one reason is given rests on none   *)
(* having been given while the commander still has its turn.               *)
(***************************************************************************)

\* While questions are asked, nothing has been stamped on the context.
NothingStamped ==
  state \in {"RECEIVED", "PROFILING", "INVESTIGATING", "EXECUTING"}
    => ~concluded /\ ~iteration_cap_hit /\ ~aborted_by_operator

\* After that, what was stamped says how the run got there.
StampedOnce ==
  /\ ~(concluded /\ iteration_cap_hit)
  /\ ~(concluded /\ aborted_by_operator)
  /\ ~(iteration_cap_hit /\ aborted_by_operator)
  /\ state = "ABORTED_ITERATION_CAP" => iteration_cap_hit
  /\ state = "ABORTING" => aborted_by_operator /\ failure_reason # ""
  /\ state \in {"SYNTHESIZING", "DONE"}
       => concluded \/ iteration_cap_hit \/ failure_reason # ""
  /\ state \in TerminalStates \ {"DONE"} => failure_reason # ""

\* A body comes with DONE, and a brief when that run has returned.
BriefComesWithDone ==
  /\ body <=> state = "DONE"
  /\ outcome = "returned" => state \in TerminalStates /\ brief.written = body
  /\ outcome # "returned" => brief = NoBrief

StopInv == ControlInv /\ NothingStamped /\ StampedOnce /\ BriefComesWithDone

LEMMA NoBriefIsUnwritten == NoBrief.written = FALSE
BY DEF NoBrief

LEMMA StopInit == Init => StopInv
BY ControlInit DEF Init, StopInv, NothingStamped, StampedOnce, BriefComesWithDone,
   TerminalStates

LEMMA StopNext == StopInv /\ [Next]_vars => StopInv'
<1> SUFFICES ASSUME StopInv, [Next]_vars PROVE StopInv'
  OBVIOUS
<1>1. ControlInv /\ ControlInv'
  BY ControlNext DEF StopInv
<1> USE DEF StopInv, NothingStamped, StampedOnce, BriefComesWithDone, TerminalStates
<1>3. CASE PollAborts
  BY <1>1, <1>3 DEF PollAborts, AbortContext, AbortTarget, AbortReason, Enter, ContextOnly,
     AbortableAtBoundary
<1>4. CASE PollPasses
  BY <1>1, <1>4 DEF PollPasses, ContextOnly
<1>5. CASE OnReceived
  BY <1>1, <1>5 DEF OnReceived, Handling, Enter, ContextOnly
<1>6. CASE OnProfiling
  BY <1>1, <1>6 DEF OnProfiling, Handling, Enter, ContextOnly
<1>7. CASE OnAborting
  BY <1>1, <1>7 DEF OnAborting, Handling, Enter, ContextOnly
<1>8. CASE OnCapReached
  BY <1>1, <1>8 DEF OnCapReached, Handling, Enter, ContextOnly
<1>9. CASE \E a \in Actions : DecideAction(a)
  BY <1>1, <1>9 DEF DecideAction, Handling, Enter, ContextOnly
<1>10. CASE DecideConclude
  BY <1>1, <1>10 DEF DecideConclude, Handling, Enter, ContextOnly
<1>11. CASE DecideFails
  BY <1>1, <1>11 DEF DecideFails, Handling, Enter, ContextOnly
<1>12. CASE DispatchCloseRead
  BY <1>1, <1>12 DEF DispatchCloseRead, context
<1>13. CASE OnExecuting
  <2>1. /\ state = "EXECUTING" /\ ~concluded /\ ~iteration_cap_hit /\ ~aborted_by_operator
        /\ concluded' = concluded /\ body' = body /\ outcome' = outcome /\ brief' = brief
        /\ outcome = "running"
    BY <1>13 DEF OnExecuting, Handling
  <2>2. CASE AbortContext(sentinel.mode, ledger') /\ UNCHANGED iteration_cap_hit
    BY <1>1, <2>1, <2>2 DEF AbortContext, AbortTarget, AbortReason, Enter
  <2>3. CASE /\ Enter("ABORTED_ITERATION_CAP") /\ iteration_cap_hit' = TRUE
             /\ UNCHANGED <<aborted_by_operator, failure_reason>>
    BY <1>1, <2>1, <2>3 DEF Enter
  <2>4. CASE /\ Enter("INVESTIGATING")
             /\ UNCHANGED <<iteration_cap_hit, aborted_by_operator, failure_reason>>
    BY <1>1, <2>1, <2>4 DEF Enter
  <2>5. QED
    BY <1>13, <2>2, <2>3, <2>4 DEF OnExecuting
<1>14. CASE OnSynthesizing
  <2>1. /\ state = "SYNTHESIZING" /\ ~body
        /\ UNCHANGED <<concluded, iteration_cap_hit, aborted_by_operator, outcome, brief>>
        /\ outcome = "running"
    BY <1>14 DEF OnSynthesizing, Handling, ContextOnly
  <2>2. CASE Enter("DONE") /\ body' = TRUE /\ UNCHANGED failure_reason
    BY <1>1, <2>1, <2>2 DEF Enter
  <2>3. CASE Enter("FAILED_SYNTHESIS") /\ failure_reason' = "synthesis" /\ UNCHANGED body
    BY <1>1, <2>1, <2>3 DEF Enter
  <2>4. QED
    BY <1>14, <2>2, <2>3 DEF OnSynthesizing
<1>15. CASE HandlerCrash
  BY <1>1, <1>15 DEF HandlerCrash, Handling, Enter, CrashRoute, CrashReason
<1>16. CASE ExecutionCrash
  BY <1>1, <1>16 DEF ExecutionCrash, RecordCrash, Handling, Enter
<1>17. CASE CrashAfterRecording
  BY <1>1, <1>17 DEF CrashAfterRecording, RecordCrash, Handling, Enter
<1>18. CASE LoopRaises
  BY <1>1, <1>18 DEF LoopRaises, context
<1>19. CASE Finish
  <2>1. /\ outcome = "running" /\ outcome' = "returned" /\ state \in TerminalStates
        /\ UNCHANGED <<state, concluded, iteration_cap_hit, aborted_by_operator,
                       failure_reason, body>>
    BY <1>19 DEF Finish, context
  <2>2. brief'.written = body
    <3>1. CASE body
      <4>1. AssembledBrief.written = TRUE
        BY DEF AssembledBrief
      <4>2. body = TRUE
        BY <3>1, <1>1 DEF ControlInv, Typed, TypeOK
      <4>3. QED
        BY <1>19, <3>1, <4>1, <4>2 DEF Finish
    <3>2. CASE ~body
      <4>1. body = FALSE
        BY <3>2, <1>1 DEF ControlInv, Typed, TypeOK
      <4>2. QED
        BY <1>19, <3>2, <4>1, NoBriefIsUnwritten DEF Finish
    <3>3. QED
      BY <3>1, <3>2
  <2>3. QED
    BY <1>1, <2>1, <2>2
<1>20. CASE \E mode \in Modes : RequestAbort(mode)
  <2>1. UNCHANGED <<context, outcome, brief>>
    BY <1>20 DEF RequestAbort
  <2>2. QED
    BY <1>1, <2>1 DEF context
<1>21. CASE UNCHANGED vars
  BY <1>1, <1>21 DEF vars, context
<1>22. QED
  BY <1>3, <1>4, <1>5, <1>6, <1>7, <1>8, <1>9, <1>10, <1>11, <1>12, <1>13, <1>14, <1>15,
     <1>16, <1>17, <1>18, <1>19, <1>20, <1>21
     DEF Next, Loop, Environment

LEMMA StopAlways == Spec => []StopInv
BY StopInit, StopNext, PTL DEF Spec

\* A run that has ended says why, gives one reason, and hands over a brief exactly when
\* it is DONE.
THEOREM EveryStopIsExplained == Spec => []StopIsExplained
<1>1. StopInv => StopIsExplained
  BY NoBriefIsUnwritten DEF StopInv, StampedOnce, BriefComesWithDone, StopIsExplained,
     TerminalStates
<1>2. QED
  BY <1>1, StopAlways, PTL

-----------------------------------------------------------------------------
(***************************************************************************)
(* After a request to abort. What makes the promptness inductive is that a *)
(* request is met by the next poll: EXECUTING is the only state in which   *)
(* the ledger grows, and it is entered again only past a poll that saw no  *)
(* request.                                                                *)
(***************************************************************************)

\* Steps recorded before the request, and one for the action in hand.
RecordedSince ==
  sentinel.mode # "none" =>
    /\ sentinel.requested_at <= Len(ledger)
    /\ Len(ledger) <= sentinel.requested_at + 1 + doubled
    /\ (state = "EXECUTING" \/ (state = "INVESTIGATING" /\ phase = "handler"))
         => Len(ledger) <= sentinel.requested_at + doubled

\* A step recorded after the request has made the loop honour it, or will at this poll.
AbortIsSeen ==
  (sentinel.mode # "none" /\ sentinel.requested_at < Len(ledger))
    => aborted_by_operator \/ (state = "INVESTIGATING" /\ phase = "boundary")

BriefIsStamped ==
  \/ brief = NoBrief
  \/ state \in TerminalStates /\ brief.aborted_by_operator = aborted_by_operator

PromptInv == StopInv /\ RecordedSince /\ AbortIsSeen /\ BriefIsStamped

LEMMA PromptInit == Init => PromptInv
<1> SUFFICES ASSUME Init PROVE PromptInv
  OBVIOUS
<1>1. sentinel.mode = "none" /\ brief = NoBrief
  BY DEF Init, NoSentinel
<1>2. QED
  BY <1>1, StopInit DEF PromptInv, RecordedSince, AbortIsSeen, BriefIsStamped

LEMMA PromptNext == PromptInv /\ [Next]_vars => PromptInv'
<1> SUFFICES ASSUME PromptInv, [Next]_vars PROVE PromptInv'
  OBVIOUS
<1>1. StopInv /\ StopInv'
  BY StopNext DEF PromptInv
<1>2. Typed /\ Typed' /\ NothingRecordedYet
  BY <1>1 DEF StopInv, ControlInv
<1>3. /\ Len(ledger) \in Nat /\ doubled \in Nat
      /\ sentinel.requested_at \in Nat /\ sentinel.mode \in Modes \cup {"none"}
      /\ state = "PROFILING" => Len(ledger) = 0
  BY <1>2, LenProperties DEF Typed, TypeOK, NothingRecordedYet
<1> USE DEF PromptInv, RecordedSince, AbortIsSeen, BriefIsStamped
<1>4. CASE PollAborts
  <2>1. /\ UNCHANGED <<ledger, sentinel, doubled, brief, outcome>>
        /\ aborted_by_operator' = TRUE /\ state \in AbortableAtBoundary
        /\ state' \notin {"EXECUTING", "INVESTIGATING"} /\ outcome = "running"
    BY <1>4 DEF PollAborts, AbortContext, AbortTarget, Enter, ContextOnly
  <2>2. brief = NoBrief
    BY <1>1, <2>1 DEF StopInv, BriefComesWithDone
  <2>3. QED
    BY <1>1, <1>3, <2>1, <2>2
<1>5. CASE PollPasses
  <2>1. /\ UNCHANGED <<ledger, sentinel, doubled, brief, outcome, state, aborted_by_operator>>
        /\ phase = "boundary" /\ phase' = "handler"
        /\ state \in AbortableAtBoundary => sentinel.mode \notin Modes
    BY <1>5 DEF PollPasses, ContextOnly
  <2>2. state = "INVESTIGATING" => sentinel.mode = "none"
    BY <1>3, <2>1 DEF AbortableAtBoundary
  <2>3. QED
    BY <1>1, <1>3, <2>1, <2>2
<1>6. CASE OnReceived \/ OnProfiling \/ OnAborting \/ OnCapReached
  <2>1. /\ UNCHANGED <<ledger, sentinel, doubled, brief, outcome, aborted_by_operator>>
        /\ outcome = "running" /\ phase' = "boundary" /\ phase = "handler"
        /\ state \in {"RECEIVED", "PROFILING", "ABORTING", "ABORTED_ITERATION_CAP"}
        /\ state' \in {"PROFILING", "INVESTIGATING", "SYNTHESIZING"}
    BY <1>6 DEF OnReceived, OnProfiling, OnAborting, OnCapReached, Handling, Enter, ContextOnly
  <2>2. brief = NoBrief
    BY <1>1, <2>1 DEF StopInv, BriefComesWithDone
  <2>3. QED
    BY <1>1, <1>3, <2>1, <2>2
<1>7. CASE (\E a \in Actions : DecideAction(a)) \/ DecideConclude \/ DecideFails
  <2>1. /\ UNCHANGED <<ledger, sentinel, doubled, brief, outcome, aborted_by_operator>>
        /\ outcome = "running" /\ phase = "handler" /\ phase' = "boundary"
        /\ state = "INVESTIGATING"
        /\ state' \in {"EXECUTING", "SYNTHESIZING", "FAILED_INVESTIGATION"}
    BY <1>7 DEF DecideAction, DecideConclude, DecideFails, Handling, Enter, ContextOnly
  <2>2. brief = NoBrief
    BY <1>1, <2>1 DEF StopInv, BriefComesWithDone
  <2>3. QED
    BY <1>1, <1>3, <2>1, <2>2
<1>8. CASE DispatchCloseRead
  <2>1. UNCHANGED <<context, ledger, sentinel, outcome, brief, doubled>>
    BY <1>8 DEF DispatchCloseRead
  <2>2. QED
    BY <1>1, <1>3, <2>1 DEF context
<1>9. CASE OnExecuting
  <2>1. Len(ledger') = Len(ledger) + 1
    BY <1>2, <1>9, ExecutingRecords
  <2>2. /\ state = "EXECUTING" /\ outcome = "running"
        /\ UNCHANGED <<outcome, sentinel, doubled, brief>>
    BY <1>9 DEF OnExecuting, Handling
  <2>3. brief = NoBrief
    BY <1>1, <2>2 DEF StopInv, BriefComesWithDone
  <2>4. /\ phase' = "boundary" /\ state' # "EXECUTING"
        /\ sentinel.mode # "none" => aborted_by_operator' = TRUE
    BY <1>3, <1>9 DEF OnExecuting, AbortBeatsCap, AbortContext, AbortTarget, Enter
  <2>5. QED
    BY <1>1, <1>3, <2>1, <2>2, <2>3, <2>4
<1>10. CASE ExecutionCrash
  <2>1. Len(ledger') = Len(ledger) + 1
    BY <1>2, <1>10, ExecutingRecords
  <2>2. /\ state = "EXECUTING" /\ outcome = "running"
        /\ UNCHANGED <<outcome, sentinel, doubled, brief, aborted_by_operator>>
        /\ phase' = "boundary" /\ state' = "INVESTIGATING"
    BY <1>10 DEF ExecutionCrash, RecordCrash, Handling, Enter
  <2>3. brief = NoBrief
    BY <1>1, <2>2 DEF StopInv, BriefComesWithDone
  <2>4. QED
    BY <1>1, <1>3, <2>1, <2>2, <2>3
<1>11. CASE CrashAfterRecording
  <2>1. Len(ledger') = Len(ledger) + 2
    BY <1>2, <1>11, ExecutingRecords
  <2>2. /\ state = "EXECUTING" /\ outcome = "running" /\ doubled' = doubled + 1
        /\ UNCHANGED <<outcome, sentinel, brief, aborted_by_operator>>
        /\ phase' = "boundary" /\ state' = "INVESTIGATING"
    BY <1>11 DEF CrashAfterRecording, RecordCrash, Handling, Enter
  <2>3. brief = NoBrief
    BY <1>1, <2>2 DEF StopInv, BriefComesWithDone
  <2>4. QED
    BY <1>1, <1>3, <2>1, <2>2, <2>3
<1>12. CASE OnSynthesizing \/ HandlerCrash
  <2>1. /\ UNCHANGED <<ledger, sentinel, doubled, brief, outcome, aborted_by_operator>>
        /\ outcome = "running" /\ phase = "handler" /\ phase' = "boundary"
        /\ state' \in {"DONE", "FAILED_SYNTHESIS", "SYNTHESIZING", "FAILED_INVESTIGATION"}
    BY <1>12 DEF OnSynthesizing, HandlerCrash, Handling, Enter, CrashRoute, ContextOnly
  <2>2. brief = NoBrief
    BY <1>1, <2>1 DEF StopInv, BriefComesWithDone
  <2>3. QED
    BY <1>1, <1>3, <2>1, <2>2
<1>13. CASE LoopRaises
  <2>1. UNCHANGED <<context, ledger, sentinel, brief, doubled>>
    BY <1>13 DEF LoopRaises
  <2>2. QED
    BY <1>1, <1>3, <2>1 DEF context
<1>14. CASE Finish
  <2>1. UNCHANGED <<context, ledger, sentinel, doubled>> /\ state \in TerminalStates
    BY <1>14 DEF Finish
  <2>2. brief' = NoBrief \/ brief'.aborted_by_operator = aborted_by_operator
    BY <1>14 DEF Finish, AssembledBrief
  <2>3. QED
    BY <1>1, <1>3, <2>1, <2>2 DEF context
<1>15. CASE \E mode \in Modes : RequestAbort(mode)
  <2>1. /\ UNCHANGED <<context, ledger, brief, doubled>>
        /\ sentinel'.requested_at = IF sentinel.mode = "none" THEN Len(ledger)
                                     ELSE sentinel.requested_at
    BY <1>15 DEF RequestAbort
  <2>2. QED
    BY <1>1, <1>3, <2>1 DEF context
<1>16. CASE UNCHANGED vars
  <2>1. UNCHANGED <<context, ledger, sentinel, brief, doubled>>
    BY <1>16 DEF vars
  <2>2. QED
    BY <1>1, <1>3, <2>1 DEF context
<1>17. QED
  BY <1>4, <1>5, <1>6, <1>7, <1>8, <1>9, <1>10, <1>11, <1>12, <1>13, <1>14, <1>15, <1>16
     DEF Next, Loop, Environment

LEMMA PromptAlways == Spec => []PromptInv
BY PromptInit, PromptNext, PTL DEF Spec

\* After a request only the action in hand is still recorded.
THEOREM AbortsArePrompt == Spec => []AbortIsPrompt
<1>1. PromptInv => AbortIsPrompt
  BY DEF PromptInv, RecordedSince, AbortIsPrompt
<1>2. QED
  BY <1>1, PromptAlways, PTL

\* A brief that was written after a request, with a step recorded since, is marked.
THEOREM InterruptionsAreTold == Spec => []InterruptedBriefSaysSo
<1>1. PromptInv => InterruptedBriefSaysSo
  BY NoBriefIsUnwritten DEF PromptInv, AbortIsSeen, BriefIsStamped, InterruptedBriefSaysSo,
     TerminalStates
<1>2. QED
  BY <1>1, PromptAlways, PTL

-----------------------------------------------------------------------------
(***************************************************************************)
(* The contract of a run.                                                  *)
(***************************************************************************)

\* What the mapping rests on: StopInv, that a brief is DONE's, and that what is written
\* up is evidence, or a conclusion that was allowed without any.
RefineInv == StopInv /\ SynthesisRestsOnEvidence

LEMMA RefineAlways == Spec => []RefineInv
BY StopAlways, SynthesisGrounded, PTL DEF RefineInv

LEMMA RefineInit == Init => Contract!ContractInit
<1> SUFFICES ASSUME Init PROVE Contract!ContractInit
  OBVIOUS
<1>1. StageOf = "gathering"
  BY DEF Init, StageOf, TerminalStates
<1>2. brief.written = FALSE /\ brief.steps_taken = 0
  BY DEF Init, NoBrief
<1>3. QED
  BY <1>1, <1>2 DEF Init, Contract!ContractInit

\* A step that changes neither the stage nor the ledger nor the brief.
LEMMA Stutters ==
  ASSUME StageOf' = StageOf, UNCHANGED <<ledger, brief>>
  PROVE  UNCHANGED Contract!contractVars
BY DEF Contract!contractVars

\* The stage by the state, while the run is on and after.
StageTable ==
  /\ outcome # "running" => StageOf = "over"
  /\ (outcome = "running" /\ state \in {"SYNTHESIZING", "DONE", "FAILED_SYNTHESIS"})
       => StageOf = "writing"
  /\ (outcome = "running"
      /\ state \in {"FAILED_PREFLIGHT", "FAILED_INVESTIGATION", "ABORTED_BY_OPERATOR"})
       => StageOf = "stopped"
  /\ (outcome = "running"
      /\ state \in {"RECEIVED", "PROFILING", "INVESTIGATING", "EXECUTING",
                    "ABORTED_ITERATION_CAP", "ABORTING"})
       => StageOf = "gathering"

LEMMA Stages == StageTable /\ StageTable'
BY DEF StageTable, StageOf, TerminalStates

\* How the ledger grows while an action is executed.
LEMMA ExecutingExtends ==
  ASSUME Typed, [Next]_vars, OnExecuting \/ ExecutionCrash \/ CrashAfterRecording
  PROVE  Contract!Extended
<1>1. Len(ledger) \in Nat /\ registry' = {} /\ ~UNCHANGED ledger
  <2>1. Len(ledger) \in Nat
    BY LenProperties DEF Typed, TypeOK
  <2>2. Len(ledger') = Len(ledger) + 1 \/ Len(ledger') = Len(ledger) + 2
    BY ExecutingRecords
  <2>3. QED
    BY <2>1, <2>2 DEF OnExecuting, ExecutionCrash, CrashAfterRecording, RecordCrash
<1>2. \E n \in {1, 2} : Recorded(n)
  BY <1>1, LedgerStep
<1>3. QED
  BY <1>1, <1>2 DEF Recorded, Contract!Extended

LEMMA RefineNext == RefineInv /\ [Next]_vars => [Contract!ContractNext]_(Contract!contractVars)
<1> SUFFICES ASSUME RefineInv, [Next]_vars
             PROVE  Contract!ContractNext \/ UNCHANGED Contract!contractVars
  OBVIOUS
<1>1. Typed /\ StageTable /\ StageTable'
  BY Stages DEF RefineInv, StopInv, ControlInv
<1>2. CASE PollAborts
  <2>1. /\ outcome = "running" /\ outcome' = "running" /\ UNCHANGED <<ledger, brief>>
        /\ state \in {"RECEIVED", "PROFILING", "INVESTIGATING"}
        /\ state' \in {"ABORTED_BY_OPERATOR", "ABORTING"}
    BY <1>2 DEF PollAborts, AbortContext, AbortTarget, Enter, ContextOnly, AbortableAtBoundary
  <2>2. QED
    BY <1>1, <2>1, Stutters DEF StageTable, Contract!ContractNext, Contract!Stop
<1>3. CASE PollPasses \/ DispatchCloseRead \/ (\E mode \in Modes : RequestAbort(mode))
  <2>1. UNCHANGED <<state, outcome, ledger, brief>>
    BY <1>3 DEF PollPasses, DispatchCloseRead, RequestAbort, ContextOnly, context
  <2>2. QED
    BY <2>1, Stutters DEF StageOf
<1>4. CASE OnReceived \/ OnProfiling \/ (\E a \in Actions : DecideAction(a))
  <2>1. /\ UNCHANGED <<outcome, ledger, brief>> /\ outcome = "running"
        /\ state \in {"RECEIVED", "PROFILING", "INVESTIGATING"}
        /\ state' \in {"PROFILING", "INVESTIGATING", "EXECUTING"}
    BY <1>4 DEF OnReceived, OnProfiling, DecideAction, Handling, Enter, ContextOnly
  <2>2. QED
    BY <1>1, <2>1, Stutters DEF StageTable
<1>5. CASE OnSynthesizing
  <2>1. /\ UNCHANGED <<outcome, ledger, brief>> /\ outcome = "running"
        /\ state = "SYNTHESIZING" /\ state' \in {"DONE", "FAILED_SYNTHESIS"}
    BY <1>5 DEF OnSynthesizing, Handling, Enter, ContextOnly
  <2>2. QED
    BY <1>1, <2>1, Stutters DEF StageTable
<1>6. CASE UNCHANGED vars
  <2>1. UNCHANGED <<state, outcome, ledger, brief>>
    BY <1>6 DEF vars, context
  <2>2. QED
    BY <2>1, Stutters DEF StageOf
<1>7. CASE DecideConclude
  <2>1. /\ UNCHANGED <<outcome, ledger, brief>> /\ outcome = "running"
        /\ state = "INVESTIGATING" /\ state' = "SYNTHESIZING" /\ Len(ledger) >= MinSteps
    BY <1>7 DEF DecideConclude, Handling, Enter, ContextOnly
  <2>2. ledger # <<>> \/ MinSteps = 0
    <3>1. Len(<<>>) = 0
      OBVIOUS
    <3>2. QED
      BY <2>1, <3>1, ConstantsAssumption
  <2>3. QED
    BY <1>1, <2>1, <2>2 DEF StageTable, Contract!ContractNext, Contract!BeginWriting
<1>8. CASE DecideFails
  <2>1. /\ UNCHANGED <<outcome, ledger, brief>> /\ outcome = "running"
        /\ state = "INVESTIGATING"
        /\ state' = IF ledger # <<>> THEN "SYNTHESIZING" ELSE "FAILED_INVESTIGATION"
    BY <1>8 DEF DecideFails, Handling, Enter, ContextOnly
  <2>2. QED
    BY <1>1, <2>1
       DEF StageTable, Contract!ContractNext, Contract!BeginWriting, Contract!Stop
<1>9. CASE OnAborting \/ OnCapReached
  <2>1. /\ UNCHANGED <<outcome, ledger, brief>> /\ outcome = "running"
        /\ state \in {"ABORTING", "ABORTED_ITERATION_CAP"} /\ state' = "SYNTHESIZING"
    BY <1>9 DEF OnAborting, OnCapReached, Handling, Enter, ContextOnly
  <2>2. ledger # <<>> \/ MinSteps = 0
    BY <2>1 DEF RefineInv, SynthesisRestsOnEvidence
  <2>3. QED
    BY <1>1, <2>1, <2>2 DEF StageTable, Contract!ContractNext, Contract!BeginWriting
<1>10. CASE OnExecuting
  <2>1. /\ UNCHANGED <<outcome, brief>> /\ outcome = "running" /\ state = "EXECUTING"
        /\ state' \in {"INVESTIGATING", "ABORTED_ITERATION_CAP", "ABORTING",
                       "ABORTED_BY_OPERATOR"}
    BY <1>10 DEF OnExecuting, Handling, Enter, AbortContext, AbortTarget
  <2>2. Contract!Extended
    BY <1>1, <1>10, ExecutingExtends
  <2>3. QED
    BY <1>1, <2>1, <2>2
       DEF StageTable, Contract!ContractNext, Contract!Gather, Contract!Stop
<1>11. CASE ExecutionCrash \/ CrashAfterRecording
  <2>1. /\ UNCHANGED <<outcome, brief>> /\ outcome = "running" /\ state = "EXECUTING"
        /\ state' = "INVESTIGATING"
    BY <1>11 DEF ExecutionCrash, CrashAfterRecording, RecordCrash, Handling, Enter
  <2>2. Contract!Extended
    BY <1>1, <1>11, ExecutingExtends
  <2>3. QED
    BY <1>1, <2>1, <2>2 DEF StageTable, Contract!ContractNext, Contract!Gather
<1>12. CASE HandlerCrash
  <2>1. UNCHANGED <<outcome, ledger, brief>> /\ outcome = "running"
    BY <1>12 DEF HandlerCrash, Handling
  <2>2. \/ state = "PROFILING" /\ state' = "FAILED_INVESTIGATION"
        \/ state = "INVESTIGATING" /\ state' = "FAILED_INVESTIGATION"
        \/ state = "INVESTIGATING" /\ state' = "SYNTHESIZING" /\ ledger # <<>>
        \/ state = "SYNTHESIZING" /\ state' = "FAILED_SYNTHESIS"
    BY <1>12 DEF HandlerCrash, Handling, Enter, CrashRoute
  <2>3. QED
    BY <1>1, <2>1, <2>2, Stutters
       DEF StageTable, Contract!ContractNext, Contract!BeginWriting, Contract!Stop
<1>13. CASE LoopRaises
  <2>1. /\ outcome = "running" /\ outcome' = "raised" /\ UNCHANGED <<state, ledger, brief>>
    BY <1>13 DEF LoopRaises, context
  <2>2. StageOf # "over" /\ StageOf' = "over"
    BY <2>1 DEF StageOf
  <2>3. QED
    BY <2>1, <2>2 DEF Contract!ContractNext, Contract!EndWithoutBrief
<1>14. CASE Finish
  <2>1. /\ outcome = "running" /\ outcome' = "returned" /\ UNCHANGED ledger
        /\ brief' = IF body THEN AssembledBrief ELSE NoBrief
    BY <1>14 DEF Finish
  <2>2. StageOf # "over" /\ StageOf' = "over" /\ brief = NoBrief
    BY <2>1 DEF StageOf, RefineInv, StopInv, BriefComesWithDone
  <2>3. CASE body
    <3>1. StageOf = "writing"
      BY <1>1, <2>1, <2>3 DEF RefineInv, StopInv, BriefComesWithDone, StageTable
    <3>2. brief'.written = TRUE /\ brief'.steps_taken = Len(ledger)
      BY <2>1, <2>3 DEF AssembledBrief
    <3>3. QED
      BY <2>1, <2>2, <3>1, <3>2 DEF Contract!ContractNext, Contract!Publish
  <2>4. CASE ~body
    BY <2>1, <2>2, <2>4 DEF Contract!ContractNext, Contract!EndWithoutBrief
  <2>5. QED
    BY <2>3, <2>4
<1>15. QED
  BY <1>2, <1>3, <1>7, <1>8, <1>9, <1>10, <1>11, <1>12, <1>13, <1>14, <1>4, <1>5, <1>6
     DEF Next, Loop, Environment

\* Investigation implements RunContract: the commander, the operator and the exceptions
\* can do nothing to a run that would make it break its promise.
THEOREM ContractKept == Spec => ImplementsContract
BY RefineInit, RefineNext, RefineAlways, PTL DEF Spec, ImplementsContract, Contract!ContractSpec

=============================================================================
