---------------------------- MODULE RunLifecycle ----------------------------
(***************************************************************************)
(* run_investigation around the state machine: the transcript is opened,   *)
(* the endpoints must prove themselves, the investigation runs, clients    *)
(* and transcript are closed, and the artifacts are written one after the  *)
(* other. The process may be killed anywhere, in the middle of a line or   *)
(* of a file too, and --id may give the same directory to another process  *)
(* afterwards.                                                             *)
(*                                                                         *)
(* A record of the transcript is the life of the run that wrote it and its *)
(* event_id there; a line is whole, torn (cut off, no newline) or garbled  *)
(* (a torn line that something was appended to). The marker and the abort  *)
(* sentinel are AbortControl's, the investigation itself Investigation's.  *)
(*                                                                         *)
(* A definition D_Bug is a plausible mistake in D, used by nothing here.   *)
(***************************************************************************)
EXTENDS Naturals, Sequences, SequencesExt

CONSTANTS
  Endpoints,  \* how many models a run needs; they are checked in order, from 1
  MaxCalls,   \* bound: model calls in one investigation
  MaxLives    \* bound: how many processes use the directory

ASSUME LifecycleAssumption == Endpoints \in Nat /\ MaxCalls \in Nat /\ MaxLives \in Nat \ {0}

VARIABLES
  pc,          \* where the process is
  lives,       \* processes so far, this one included
  backend,     \* "vllm" or "stub"
  transcript,  \* the lines of transcript.jsonl
  written,     \* records each life has written completely
  calls,       \* model calls of the investigation
  checks,      \* what preflight has found
  result,      \* what the investigation returned
  disk,        \* the artifacts
  half         \* the artifact in hand is truncated and not filled yet

log == <<transcript, written>>
vars == <<pc, lives, backend, log, calls, checks, result, disk, half>>

Artifacts == {"brief", "meta", "pretty", "stats"}
Terminals == {"DONE", "FAILED", "ABORTED_BY_OPERATOR", "FAILED_PREFLIGHT"}
NoFile == [content |-> "absent", life |-> 0, says |-> ""]

Alive == pc \notin {"idle", "returned", "raised", "died"}

\* The transcript is open from the first record to the finally clause.
Open == pc \in {"loading", "probing", "guiding", "investigating", "refusing", "closing",
                "unwinding"}

(***************************************************************************)
(* The transcript.                                                         *)
(***************************************************************************)

Line(life, id, text) == [life |-> life, id |-> id, text |-> text]

EndsTorn(lines) == lines # <<>> /\ Last(lines).text = "torn"

\* What a file that is opened for appending holds after one more record. Behind a torn
\* line the record is on that line.
Appended(lines, life, id) ==
  IF EndsTorn(lines)
  THEN Append(Front(lines), [Last(lines) EXCEPT !.text = "garbled"])
  ELSE Append(lines, Line(life, id, "whole"))

Log == /\ transcript' = Appended(transcript, lives, written[lives] + 1)
       /\ written' = [written EXCEPT ![lives] = @ + 1]

\* Opening the transcript afresh.
Reopened_Truncates == <<>>

\* A new logger finds what earlier ones left, and counts from one again.
Reopened == transcript

(***************************************************************************)
(* Start, load and preflight.                                              *)
(***************************************************************************)

Init ==
  /\ pc = "idle" /\ lives = 0 /\ backend = "stub"
  /\ transcript = <<>> /\ written = [l \in 1 .. MaxLives |-> 0]
  /\ calls = 0 /\ checks = {} /\ result = "none"
  /\ disk = [a \in Artifacts |-> NoFile] /\ half = FALSE

Start(kind) ==
  /\ ~Alive /\ lives < MaxLives
  /\ pc' = "loading" /\ backend' = kind
  /\ lives' = lives + 1
  /\ transcript' = Appended(Reopened, lives + 1, 1)
  /\ written' = [written EXCEPT ![lives + 1] = 1]
  /\ calls' = 0 /\ checks' = {} /\ result' = "none"
  /\ UNCHANGED <<disk, half>>

\* Outside the try: the process ends with the transcript open.
LoadRaises ==
  /\ pc = "loading"
  /\ pc' = "raised"
  /\ UNCHANGED <<lives, backend, log, calls, checks, result, disk, half>>

Load ==
  /\ pc = "loading"
  /\ pc' = IF backend = "vllm" THEN "probing" ELSE "investigating"
  /\ Log
  /\ UNCHANGED <<lives, backend, calls, checks, result, disk, half>>

Check(e, name, ok) == [endpoint |-> e, name |-> name, ok |-> ok]

Checked == {c.endpoint : c \in checks}

\* The endpoints are taken in order: the one whose turn has come, and the one that has
\* just been asked.
Due(e) == Checked = 1 .. e - 1

JustAsked(e) == Checked = 1 .. e

\* One server down is no reason to stop, as long as something answered.
Passes_Any(found) == \E c \in found : c.ok

Passes(found) == \A c \in found : c.ok

\* _http_checks: a server that cannot be reached is not asked what it serves. Only one
\* that passes is asked for a guided round trip.
ProbeHttp(e, reachable, healthy, serves) ==
  LET found == IF reachable
               THEN {Check(e, "server_health", healthy), Check(e, "served_model_name", serves)}
               ELSE {Check(e, "server_health", FALSE)}
  IN /\ pc = "probing" /\ Due(e)
     /\ checks' = checks \cup found
     /\ pc' = IF Passes(found) THEN "guiding" ELSE "probing"
     /\ UNCHANGED <<lives, backend, log, calls, result, disk, half>>

\* _guided_json_check, of the endpoint that has just been asked.
ProbeGuided(e, conforms) ==
  /\ pc = "guiding" /\ JustAsked(e)
  /\ pc' = "probing"
  /\ checks' = checks \cup {Check(e, "guided_json_roundtrip", conforms)}
  /\ Log
  /\ UNCHANGED <<lives, backend, calls, result, disk, half>>

\* The gate. A run that fails it writes its meta inside the try.
PreflightEnds ==
  /\ pc = "probing" /\ JustAsked(Endpoints)
  /\ Log
  /\ IF Passes(checks)
     THEN pc' = "investigating" /\ UNCHANGED result
     ELSE pc' = "refusing" /\ result' = "FAILED_PREFLIGHT"
  /\ UNCHANGED <<lives, backend, calls, checks, disk, half>>

(***************************************************************************)
(* The investigation and the finally clause.                               *)
(***************************************************************************)

ModelCall ==
  /\ pc = "investigating" /\ calls < MaxCalls
  /\ calls' = calls + 1
  /\ Log
  /\ UNCHANGED <<pc, lives, backend, checks, result, disk, half>>

\* Orchestrator.run returns, a brief with DONE and with nothing else.
InvestigationEnds(terminal) ==
  /\ pc = "investigating"
  /\ pc' = "closing" /\ result' = terminal
  /\ Log
  /\ UNCHANGED <<lives, backend, calls, checks, disk, half>>

\* Anything that raises inside the try goes through the finally clause.
RaisesInTry ==
  /\ pc \in {"probing", "guiding", "investigating", "refusing"}
  /\ pc' = "unwinding" /\ half' = FALSE
  /\ UNCHANGED <<lives, backend, log, calls, checks, result, disk>>

\* The clients and the transcript are closed. After a failed preflight that is all; what
\* was raised is raised on.
CleanUp ==
  /\ \/ pc = "unwinding" /\ pc' = "raised"
     \/ pc = "closing" /\ result = "FAILED_PREFLIGHT" /\ pc' = "returned"
     \/ pc = "closing" /\ result = "DONE" /\ pc' = "brief"
     \/ pc = "closing" /\ result \notin {"DONE", "FAILED_PREFLIGHT"} /\ pc' = "meta"
  /\ UNCHANGED <<lives, backend, log, calls, checks, result, disk, half>>

\* Closing a client raises: what the investigation returned is lost.
CleanUpRaises ==
  /\ pc \in {"closing", "unwinding"}
  /\ pc' = "raised"
  /\ UNCHANGED <<lives, backend, log, calls, checks, result, disk, half>>

(***************************************************************************)
(* The artifacts.                                                          *)
(***************************************************************************)

\* The record of the run before what the run is for.
ArtifactAt_MetaFirst(where) ==
  CASE where \in {"refusing", "brief"} -> "meta" [] where = "meta" -> "brief"
    [] OTHER -> where

\* The file that is written at each point, and where that leads.
ArtifactAt(where) == IF where = "refusing" THEN "meta" ELSE where

After(where) ==
  CASE where = "refusing" -> "closing" [] where = "brief" -> "meta"
    [] where = "meta" -> "pretty" [] where = "pretty" -> "stats"
    [] where = "stats" -> "returned"

Writing == {"refusing", "brief", "meta", "pretty", "stats"}

\* The terminal state, which the meta has; the rest of the contents is left out.
Says(artifact) == IF artifact = "meta" THEN result ELSE ""

Truncate ==
  /\ pc \in Writing /\ ~half
  /\ half' = TRUE
  /\ disk' = [disk EXCEPT ![ArtifactAt(pc)] = [content |-> "torn", life |-> lives, says |-> ""]]
  /\ UNCHANGED <<pc, lives, backend, log, calls, checks, result>>

Fill ==
  /\ pc \in Writing /\ half
  /\ half' = FALSE
  /\ disk' = [disk EXCEPT ![ArtifactAt(pc)] =
                [content |-> "whole", life |-> lives, says |-> Says(ArtifactAt(pc))]]
  /\ pc' = After(pc)
  /\ UNCHANGED <<lives, backend, log, calls, checks, result>>

\* The brief and the meta are not guarded. The readable view forgives itself, but for a
\* line that was cut in the middle of a character; and a note takes the place of what
\* failed.
WriteRaises ==
  /\ \/ pc \in {"brief", "meta"} /\ pc' = "raised"
     \/ pc = "pretty" /\ pc' = "stats"
     \/ pc = "pretty" /\ (\E n \in DOMAIN transcript : transcript[n].text # "whole") /\ pc' = "note"
     \/ pc = "stats" /\ pc' = "note"
  /\ half' = FALSE
  /\ UNCHANGED <<lives, backend, log, calls, checks, result, disk>>

WriteNote ==
  /\ pc = "note"
  /\ pc' \in {"returned", "raised"}
  /\ UNCHANGED <<lives, backend, log, calls, checks, result, disk, half>>

\* SIGKILL, in the middle of a line or not.
Die(tears) ==
  /\ Alive
  /\ pc' = "died" /\ half' = FALSE
  /\ IF tears
     THEN /\ Open
          /\ transcript' = Append(transcript, Line(lives, written[lives] + 1, "torn"))
     ELSE UNCHANGED transcript
  /\ UNCHANGED <<lives, backend, written, calls, checks, result, disk>>

Next ==
  \/ \E kind \in {"vllm", "stub"} : Start(kind)
  \/ LoadRaises \/ Load
  \/ \E e \in 1 .. Endpoints, reachable, healthy, serves \in BOOLEAN :
       ProbeHttp(e, reachable, healthy, serves)
  \/ \E e \in 1 .. Endpoints, conforms \in BOOLEAN : ProbeGuided(e, conforms)
  \/ PreflightEnds \/ ModelCall
  \/ \E terminal \in Terminals \ {"FAILED_PREFLIGHT"} : InvestigationEnds(terminal)
  \/ RaisesInTry \/ CleanUp \/ CleanUpRaises
  \/ Truncate \/ Fill \/ WriteRaises \/ WriteNote
  \/ \E tears \in BOOLEAN : Die(tears)

Spec == Init /\ [][Next]_vars

-----------------------------------------------------------------------------
(***************************************************************************)
(* Properties.                                                             *)
(***************************************************************************)

\* The record a run leaves is true at every instant, whatever write the process is killed
\* or fails in: run_meta.json of this run says DONE exactly when a complete brief of this
\* run is beside it, and a run that returned has left one that says how it ended.
MetaTellsTheTruth ==
  LET meta == disk["meta"]
      brief == disk["brief"] IN
  /\ (meta.content = "whole" /\ meta.life = lives)
       => ((meta.says = "DONE") <=> (brief.content = "whole" /\ brief.life = lives))
  /\ pc = "returned" => meta.content = "whole" /\ meta.life = lives /\ meta.says = result

\* "Hard gate: no investigation starts against endpoints that have not proved they can
\* round-trip guided JSON": each of them, in this run, after its other checks.
OnlyProvenEndpoints ==
  (pc = "investigating" /\ backend = "vllm") =>
    \A e \in 1 .. Endpoints :
      \A name \in {"server_health", "served_model_name", "guided_json_roundtrip"} :
        Check(e, name, TRUE) \in checks /\ Check(e, name, FALSE) \notin checks

\* "A crashed run still leaves a readable partial transcript", for every run that ever
\* used the file: each record it wrote is a readable line, once, in the order it was
\* written; all that can be lost is a run's first record, to a line an earlier one left
\* torn.
TranscriptSurvives ==
  /\ \A l \in 1 .. lives : \A i \in 1 .. written[l] :
       \/ \E n \in DOMAIN transcript : transcript[n] = Line(l, i, "whole")
       \/ i = 1 /\ \E n \in DOMAIN transcript :
                    transcript[n].text = "garbled" /\ transcript[n].life < l
  /\ \A m, n \in DOMAIN transcript :
       (m < n /\ transcript[m].text = "whole" /\ transcript[n].text = "whole")
         => \/ transcript[m].life < transcript[n].life
            \/ transcript[m].life = transcript[n].life /\ transcript[m].id < transcript[n].id

=============================================================================
