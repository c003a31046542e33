----------------------- MODULE InvestigationImplements -----------------------
(***************************************************************************)
(* The orchestrator's state machine implements the contract of a run.      *)
(***************************************************************************)
EXTENDS Investigation

\* SYNTHESIZING and what follows it is writing; the other terminal states stop.
StageOf ==
  IF outcome # "running" THEN "over"
  ELSE IF state \in {"SYNTHESIZING", "DONE", "FAILED_SYNTHESIS"} THEN "writing"
  ELSE IF state \in TerminalStates THEN "stopped"
  ELSE "gathering"

Contract ==
  INSTANCE RunContract WITH
    MayConcludeAtOnce <- (MinSteps = 0),
    stage <- StageOf,
    evidence <- ledger,
    briefed <- brief.written,
    claimed <- brief.steps_taken

\* The run keeps its contract: evidence only grows, only while gathering, and the one
\* brief comes out of synthesis over that evidence and counts all of it.
ImplementsContract == Contract!ContractSpec

=============================================================================
