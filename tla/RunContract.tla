----------------------------- MODULE RunContract -----------------------------
(***************************************************************************)
(* What a run promises the operator, with nothing said of states, aborts,  *)
(* crashes or models: evidence only accumulates, and only while the run is *)
(* gathering; writing starts once, over evidence (unless the commander may *)
(* conclude without any); a brief comes out of writing alone, at most one, *)
(* and accounts for exactly the evidence that had been gathered.           *)
(***************************************************************************)
EXTENDS Naturals, Sequences

CONSTANT MayConcludeAtOnce  \* a Boolean: no minimum number of steps to conclude

VARIABLES
  stage,     \* "gathering", "writing", "stopped" or "over"
  evidence,  \* the steps recorded so far
  briefed,   \* a brief was handed over
  claimed    \* the number of steps the brief says it rests on

contractVars == <<stage, evidence, briefed, claimed>>

ContractInit ==
  stage = "gathering" /\ evidence = <<>> /\ briefed = FALSE /\ claimed = 0

Extended ==
  /\ Len(evidence') > Len(evidence)
  /\ SubSeq(evidence', 1, Len(evidence)) = evidence

Gather ==
  /\ stage = "gathering"
  /\ Extended
  /\ UNCHANGED <<stage, briefed, claimed>>

BeginWriting ==
  /\ stage = "gathering"
  /\ evidence # <<>> \/ MayConcludeAtOnce
  /\ stage' = "writing"
  /\ UNCHANGED <<evidence, briefed, claimed>>

\* The run stops without a brief; the step in hand is still recorded.
Stop ==
  /\ stage = "gathering"
  /\ Extended \/ UNCHANGED evidence
  /\ stage' = "stopped"
  /\ UNCHANGED <<briefed, claimed>>

Publish ==
  /\ stage = "writing"
  /\ stage' = "over"
  /\ briefed' = TRUE
  /\ claimed' = Len(evidence)
  /\ UNCHANGED evidence

EndWithoutBrief ==
  /\ stage # "over"
  /\ stage' = "over"
  /\ UNCHANGED <<evidence, briefed, claimed>>

ContractNext == Gather \/ BeginWriting \/ Stop \/ Publish \/ EndWithoutBrief

ContractSpec == ContractInit /\ [][ContractNext]_contractVars

=============================================================================
